---------------------------- MODULE LoginProofs -----------------------------
(***************************************************************************)
(* What holds of Login for any texts and any number of starts.             *)
(***************************************************************************)
EXTENDS Login, FiniteSetTheorems, TLAPS

Request == [user : Text, pwd : Text]

\* No request, or one.
AtMostOne == requests = <<>> \/ \E r \in Request : requests = <<r>>

\* Why there is never a second one: the countdown runs only while nothing is
\* asked and the button means "cancel", and a request disables the form.
Exclusive == /\ auto_login => logoButton = "cancel" /\ requests = <<>>
             /\ requests # <<>> => ~ enabled

\* The file holds one configuration, or none while it is being rewritten.
OneRecord == /\ disk = {} \/ \E c \in Config : disk = {c}
             /\ saving => disk = {}

Types == /\ run \in {"off", "login", "player", "quitting"}
         /\ saving \in BOOLEAN
         /\ config \in Config /\ ui \in Config
         /\ logoButton \in {"login", "cancel"}
         /\ auto_login \in BOOLEAN /\ enabled \in BOOLEAN
         /\ LOGIN_STATUS \in BOOLEAN
         /\ nick \in Text /\ authenticated \in Text

Bounded == starts \in 0..MaxStarts

Inv == Types /\ Bounded /\ OneRecord /\ AtMostOne /\ Exclusive

\* A request names the user of the record, and so does the form during the
\* countdown.
NameInv == /\ auto_login => ui.user = config.user
           /\ requests # <<>> => Head(requests).user = config.user
           /\ NickIsAuthenticated

-----------------------------------------------------------------------------
\* The invariant gives the types, and at most one request.
LEMMA InvGives == Inv => TypeOK /\ OneRequest
<1> SUFFICES ASSUME Inv
             PROVE  TypeOK /\ OneRequest
  OBVIOUS
<1>1. disk \subseteq Config
  BY DEF Inv, OneRecord
<1>2. Cardinality(disk) <= 1
  <2>1. CASE disk = {}
    BY <2>1, FS_EmptySet
  <2>2. CASE \E c \in Config : disk = {c}
    <3>1. Cardinality(disk) = 1
      BY <2>2, FS_Singleton
    <3>2. QED
      BY <3>1
  <2>3. QED
    BY <2>1, <2>2 DEF Inv, OneRecord
<1>3. requests \in Seq(Request) /\ Len(requests) <= 1
  <2>1. CASE requests = <<>>
    BY <2>1
  <2>2. CASE \E r \in Request : requests = <<r>>
    BY <2>2
  <2>3. QED
    BY <2>1, <2>2 DEF Inv, AtMostOne
<1>4. QED
  BY <1>1, <1>2, <1>3 DEF Inv, Types, Bounded, TypeOK, OneRequest, Request

\* The bound on starts is a number.
LEMMA MaxStartsNat == MaxStarts \in Nat
BY LoginAssumption

\* The first start finds no file and nothing asked.
LEMMA InvInit == Init => Inv
<1> SUFFICES ASSUME Init
             PROVE  Inv
  OBVIOUS
<1>1. Default \in Config /\ "" \in Text
  BY DEF Default, Config, Text
<1>2. Types
  BY <1>1 DEF Init, Types
<1>3. Bounded
  <2>1. starts = 0
    BY DEF Init
  <2>2. QED
    BY <2>1, MaxStartsNat DEF Bounded
<1>4. OneRecord /\ AtMostOne /\ Exclusive
  BY DEF Init, OneRecord, AtMostOne, Exclusive
<1>5. QED
  BY <1>2, <1>3, <1>4 DEF Inv

\* Asking the server, by the button or by the countdown.
LEMMA AskStep ==
  ASSUME Inv, NEW u \in Text, NEW p \in Text, CheckLogin(u, p),
         requests = <<>>
  PROVE  /\ requests' = <<[user |-> u, pwd |-> p]>>
         /\ AtMostOne' /\ ~ enabled' /\ enabled' \in BOOLEAN
         /\ config' \in Config /\ config'.user = ui.user
<1>1. requests' = <<[user |-> u, pwd |-> p]>>
  BY DEF CheckLogin
<1>2. [user |-> u, pwd |-> p] \in Request
  BY DEF Request
<1>3. config' \in Config /\ config'.user = ui.user
  BY DEF CheckLogin, Inv, Types, Config
<1>4. QED
  BY <1>1, <1>2, <1>3 DEF CheckLogin, AtMostOne

\* Only one of the button and the countdown can ask, and only if nothing is
\* asked already.
LEMMA AskGuard ==
  ASSUME Inv, AutoLogin \/ LogIn
  PROVE  /\ requests = <<>> /\ ~ auto_login'
         /\ \E u, p \in Text : CheckLogin(u, p)
<1>1. CASE AutoLogin
  BY <1>1 DEF AutoLogin, Inv, Types, Exclusive, Config
<1>2. CASE LogIn
  BY <1>2 DEF LogIn, Inv, Types, Exclusive, Config
<1>3. QED
  BY <1>1, <1>2

\* Beginning to save, whether the file can be opened or not.
LEMMA RecordKept ==
  ASSUME OneRecord, saving \in BOOLEAN, Up, SaveTruncates \/ SaveFails
  PROVE  OneRecord' /\ saving' \in BOOLEAN
<1>1. CASE SaveTruncates
  BY <1>1 DEF SaveTruncates, OneRecord
<1>2. CASE SaveFails
  BY <1>2 DEF SaveFails, OneRecord
<1>3. QED
  BY <1>1, <1>2

\* Every step leaves at most one request, one record, and the types.
LEMMA InvStep == Inv /\ [Next]_vars => Inv'
<1> SUFFICES ASSUME Inv, [Next]_vars
             PROVE  Inv'
  OBVIOUS
<1> USE DEF Inv
<1>0. Bounded'
  <2>1. starts' = starts \/ (starts < MaxStarts /\ starts' = starts + 1)
    BY DEF Next, Start, Type, RememberBox, AutoLoginBox, AutoLogin,
           CancelAutoLogin, LogIn, Reply, ReplyAccepts, ReplyRefuses,
           SaveWrites, KeepActivity, Quit, Killed, vars
  <2>2. starts \in 0..MaxStarts
    BY DEF Bounded
  <2>3. QED
    BY <2>1, <2>2, MaxStartsNat DEF Bounded
<1>1. CASE Start
  <2>1. PICK c \in Loadable :
          LET loaded == [c EXCEPT !.remember = @ \/ c.auto]
              counts == c.auto /\ c.user # "" /\ c.password # ""
          IN  /\ config' = loaded /\ ui' = loaded
              /\ auto_login' = counts
              /\ logoButton' = IF counts THEN "cancel" ELSE "login"
    BY <1>1 DEF Start
  <2>2. c \in Config
    <3>1. Default \in Config
      BY DEF Default, Config, Text
    <3>2. QED
      BY <3>1 DEF Loadable, OneRecord
  <2>3. config' \in Config /\ ui' \in Config /\ auto_login' \in BOOLEAN
    BY <2>1, <2>2 DEF Config
  <2>4. auto_login' => logoButton' = "cancel"
    BY <2>1
  <2>5. logoButton' \in {"login", "cancel"}
    BY <2>1
  <2>6. "" \in Text
    BY DEF Text
  <2>7. Types'
    BY <1>1, <2>3, <2>5, <2>6 DEF Start, Types
  <2>8. OneRecord' /\ AtMostOne' /\ Exclusive'
    BY <1>1, <2>4 DEF Start, OneRecord, AtMostOne, Exclusive
  <2>9. QED
    BY <1>0, <2>7, <2>8
<1>2. CASE Type \/ RememberBox \/ AutoLoginBox
  <2>1. config' \in Config /\ ui' \in Config
    BY <1>2 DEF Type, RememberBox, AutoLoginBox, Types, Config
  <2>2. UNCHANGED <<run, disk, saving, logoButton, auto_login, enabled,
                    requests, userVars, starts>>
    BY <1>2 DEF Type, RememberBox, AutoLoginBox
  <2>3. Types'
    BY <2>1, <2>2 DEF userVars, Types
  <2>4. OneRecord' /\ AtMostOne' /\ Exclusive'
    BY <2>2 DEF OneRecord, AtMostOne, Exclusive
  <2>5. QED
    BY <1>0, <2>3, <2>4
<1>3. CASE AutoLogin \/ LogIn
  <2>1. requests = <<>> /\ ~ auto_login'
    BY <1>3, AskGuard
  <2>2. /\ AtMostOne' /\ enabled' = FALSE /\ config' \in Config
    BY <1>3, AskGuard, AskStep
  <2>3. /\ UNCHANGED <<run, disk, saving, ui, logoButton, userVars, starts>>
        /\ auto_login' \in BOOLEAN
    BY <1>3 DEF AutoLogin, LogIn, Types
  <2>4. Types'
    BY <2>2, <2>3 DEF userVars, Types
  <2>5. OneRecord' /\ Exclusive'
    BY <2>1, <2>2, <2>3 DEF OneRecord, Exclusive
  <2>6. QED
    BY <1>0, <2>2, <2>4, <2>5
<1>4. CASE CancelAutoLogin
  <2>1. Types'
    BY <1>4 DEF CancelAutoLogin, userVars, Types
  <2>2. OneRecord' /\ AtMostOne' /\ Exclusive'
    BY <1>4 DEF CancelAutoLogin, OneRecord, AtMostOne, Exclusive
  <2>3. QED
    BY <1>0, <2>1, <2>2
<1>5. CASE ReplyAccepts
  <2>1. PICK r \in Request : requests = <<r>>
    BY <1>5 DEF ReplyAccepts, AtMostOne
  <2>2. requests' = <<>> /\ Head(requests).user \in Text
    BY <1>5, <2>1 DEF ReplyAccepts, Request
  <2>3. OneRecord' /\ saving' \in BOOLEAN
    BY <1>5, RecordKept DEF ReplyAccepts, Types
  <2>4. nick' \in Text
    BY <1>5 DEF ReplyAccepts, Types, Config
  <2>5. Types'
    BY <1>5, <2>2, <2>3, <2>4 DEF ReplyAccepts, Types
  <2>6. AtMostOne' /\ Exclusive'
    BY <1>5, <2>2 DEF ReplyAccepts, AtMostOne, Exclusive
  <2>7. QED
    BY <1>0, <2>3, <2>5, <2>6
<1>6. CASE ReplyRefuses
  <2>1. PICK r \in Request : requests = <<r>>
    BY <1>6 DEF ReplyRefuses, AtMostOne
  <2>2. requests' = <<>>
    BY <1>6, <2>1 DEF ReplyRefuses
  <2>3. Types'
    BY <1>6 DEF ReplyRefuses, userVars, Types
  <2>4. OneRecord' /\ AtMostOne' /\ Exclusive'
    BY <1>6, <2>2 DEF ReplyRefuses, OneRecord, AtMostOne, Exclusive
  <2>5. QED
    BY <1>0, <2>3, <2>4
<1>7. CASE SaveWrites
  <2>1. disk' = {} \/ disk' = {config}
    BY <1>7 DEF SaveWrites, OneRecord
  <2>2. Types'
    BY <1>7 DEF SaveWrites, formVars, userVars, Types
  <2>3. OneRecord'
    BY <1>7, <2>1 DEF SaveWrites, OneRecord, Types
  <2>4. AtMostOne' /\ Exclusive'
    BY <1>7 DEF SaveWrites, formVars, AtMostOne, Exclusive
  <2>5. QED
    BY <1>0, <2>2, <2>3, <2>4
<1>8. CASE Quit
  <2>1. OneRecord' /\ saving' \in BOOLEAN
    BY <1>8, RecordKept DEF Quit, Types
  <2>2. Types'
    BY <1>8, <2>1 DEF Quit, formVars, userVars, Types
  <2>3. AtMostOne' /\ Exclusive'
    BY <1>8 DEF Quit, formVars, AtMostOne, Exclusive
  <2>4. QED
    BY <1>0, <2>1, <2>2, <2>3
<1>9. CASE KeepActivity \/ Killed \/ UNCHANGED vars
  <2>1. OneRecord'
    BY <1>9 DEF KeepActivity, Killed, vars, OneRecord
  <2>2. Types'
    BY <1>9 DEF KeepActivity, Killed, vars, formVars, userVars, Types
  <2>3. AtMostOne' /\ Exclusive'
    BY <1>9 DEF KeepActivity, Killed, vars, formVars, AtMostOne, Exclusive
  <2>4. QED
    BY <1>0, <2>1, <2>2, <2>3
<1>10. QED
  BY <1>1, <1>2, <1>3, <1>4, <1>5, <1>6, <1>7, <1>8, <1>9 DEF Next, Reply

\* If the user keeps still during the countdown, every step keeps the names
\* together.
LEMMA NameStep ==
  ASSUME ~ Hurried
  PROVE  Inv /\ NameInv /\ [Next]_vars => NameInv'
<1> SUFFICES ASSUME Inv, NameInv, [Next]_vars
             PROVE  NameInv'
  OBVIOUS
<1> USE DEF NameInv, NickIsAuthenticated
<1>0. /\ config.user \in Text /\ config.password \in Text
      /\ ui.user \in Text /\ ui.password \in Text
  BY DEF Inv, Types, Config
<1>1. CASE Start
  BY <1>1 DEF Start
<1>2. CASE Type
  BY <1>2 DEF Type, userVars
<1>3. CASE RememberBox \/ AutoLoginBox
  <2>1. ui'.user = ui.user /\ config'.user = config.user
    BY <1>3 DEF RememberBox, AutoLoginBox, Inv, Types, Config
  <2>2. QED
    BY <1>3, <2>1 DEF RememberBox, AutoLoginBox, userVars
<1>4. CASE AutoLogin
  <2>1. requests' = <<[user |-> config.user, pwd |-> config.password]>>
    BY <1>4, <1>0, AskGuard, AskStep DEF AutoLogin
  <2>2. config'.user = ui.user /\ ui.user = config.user /\ ~ auto_login'
    BY <1>4, <1>0, AskGuard, AskStep DEF AutoLogin
  <2>3. QED
    BY <1>4, <2>1, <2>2 DEF AutoLogin, userVars
<1>5. CASE LogIn
  <2>1. requests' = <<[user |-> ui.user, pwd |-> ui.password]>>
    BY <1>5, <1>0, AskGuard, AskStep DEF LogIn
  <2>2. config'.user = ui.user /\ ~ auto_login'
    BY <1>5, <1>0, AskGuard, AskStep DEF LogIn
  <2>3. Head(requests').user = config'.user
    BY <2>1, <2>2
  <2>4. NickIsAuthenticated'
    BY <1>5 DEF LogIn, userVars
  <2>5. QED
    BY <2>2, <2>3, <2>4
<1>6. CASE CancelAutoLogin
  BY <1>6 DEF CancelAutoLogin, userVars
<1>7. CASE ReplyAccepts
  <2>1. PICK r \in Request : requests = <<r>>
    BY <1>7 DEF ReplyAccepts, Inv, AtMostOne
  <2>2. QED
    BY <1>7, <2>1 DEF ReplyAccepts
<1>8. CASE ReplyRefuses
  <2>1. PICK r \in Request : requests = <<r>>
    BY <1>8 DEF ReplyRefuses, Inv, AtMostOne
  <2>2. QED
    BY <1>8, <2>1 DEF ReplyRefuses, userVars
<1>9. CASE SaveWrites
  BY <1>9 DEF SaveWrites, formVars, userVars
<1>10. CASE Quit \/ KeepActivity \/ Killed \/ UNCHANGED vars
  BY <1>10 DEF Quit, KeepActivity, Killed, vars, formVars, userVars
<1>11. QED
  BY <1>1, <1>2, <1>3, <1>4, <1>5, <1>6, <1>7, <1>8, <1>9, <1>10
  DEF Next, Reply

-----------------------------------------------------------------------------
\* Every variable of the login keeps its type, and the file never holds more
\* than one configuration.
THEOREM LoginTypes == Spec => []TypeOK
BY InvInit, InvStep, InvGives, PTL DEF Spec

\* Countdown, button and answers, in any order, never let two requests be under
\* way.
THEOREM NeverTwoRequests == Spec => []OneRequest
BY InvInit, InvStep, InvGives, PTL DEF Spec

\* If nobody types during the countdown, the user Widget shows is the one who
\* was authenticated, through crashes and restarts of the client.
THEOREM NickIsRight == ASSUME ~ Hurried
                       PROVE  Spec => []NickIsAuthenticated
<1>1. Init => NameInv
  BY DEF Init, NameInv, NickIsAuthenticated
<1>2. Inv /\ NameInv /\ [Next]_vars => NameInv'
  BY NameStep
<1>3. NameInv => NickIsAuthenticated
  BY DEF NameInv
<1>4. QED
  BY <1>1, <1>2, <1>3, InvInit, InvStep, PTL DEF Spec

-----------------------------------------------------------------------------
\* A form that takes no input waits for an answer, and takes input again when it
\* has come.
FormWaits == enabled <=> requests = <<>>

LEMMA WaitStep == Inv /\ FormWaits /\ [Next]_vars => FormWaits'
<1> SUFFICES ASSUME Inv, FormWaits, [Next]_vars
             PROVE  FormWaits'
  OBVIOUS
<1>1. CASE AutoLogin \/ LogIn
  BY <1>1, AskGuard, AskStep DEF FormWaits
<1>2. CASE Reply
  <2>1. PICK r \in Request : requests = <<r>>
    BY <1>2 DEF Reply, ReplyAccepts, ReplyRefuses, Inv, AtMostOne
  <2>2. requests' = <<>> /\ enabled'
    BY <1>2, <2>1 DEF Reply, ReplyAccepts, ReplyRefuses
  <2> QED
    BY <2>2 DEF FormWaits
<1>3. CASE Start
  BY <1>3 DEF Start, FormWaits
<1>4. CASE Type \/ RememberBox \/ AutoLoginBox \/ CancelAutoLogin
  BY <1>4 DEF Type, RememberBox, AutoLoginBox, CancelAutoLogin, FormWaits
<1>5. CASE SaveWrites \/ KeepActivity \/ Quit \/ Killed \/ UNCHANGED vars
  BY <1>5 DEF SaveWrites, KeepActivity, Quit, Killed, vars, formVars, FormWaits
<1> QED
  BY <1>1, <1>2, <1>3, <1>4, <1>5 DEF Next

\* The form is disabled exactly while a request is unanswered, through crashes and
\* restarts: FormComesBack without the network that answers at last
\* (loginform.cpp:90-130, 171-204, 226-246).
THEOREM DisabledIsWaiting == Spec => []FormWaits
<1>1. Init => FormWaits
  BY DEF Init, FormWaits
<1> QED
  BY <1>1, InvInit, InvStep, WaitStep, PTL DEF Spec
=============================================================================
