SPECIFICATION FairSpec
CONSTANTS
  Texts = {"a", "b"}
  Unstorable = {"b"}
  Hurried = FALSE
  MaxStarts = 2
INVARIANTS TypeOK OneRequest NickIsAuthenticated
PROPERTY FormComesBack
CHECK_DEADLOCK FALSE
