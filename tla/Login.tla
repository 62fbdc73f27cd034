------------------------------- MODULE Login -------------------------------
(***************************************************************************)
(* Logging in to the client: LoginForm, the RecordFile edoyun.dat that     *)
(* outlives the program, and the check that ends a program nobody has      *)
(* logged in to (QStatusCheck, started by a timer of the hidden Widget).   *)
(*                                                                         *)
(* LoginForm works on m_config, the copy of the file in memory, and on     *)
(* what its widgets show.  One GUI thread runs all of it; the answers of   *)
(* the server, the timers and the user come in any order.                  *)
(***************************************************************************)
EXTENDS Integers, Sequences, FiniteSets

CONSTANTS
  Texts,      (* what a user may type as a name or a password              *)
  Unstorable, (* those that RSA cannot hold, or that are not plain ASCII   *)
  Hurried,    (* whether the user types during the countdown of auto-login *)
  MaxStarts   (* bound: times the program is started                       *)

ASSUME LoginAssumption == /\ "" \notin Texts
                          /\ Unstorable \subseteq Texts
                          /\ Hurried \in BOOLEAN
                          /\ MaxStarts \in Nat

VARIABLES
  run,          (* "off", "login", "player", "quitting"                    *)
  disk,         (* the configuration in edoyun.dat, as a set of at most one*)
  saving,       (* the file is truncated and not written yet               *)
  config,       (* m_config                                                *)
  ui,           (* the texts and check boxes of LoginForm                  *)
  logoButton,   (* its text: "login", or "cancel" (the auto-login)         *)
  auto_login,   (* whether the timer auto_login_id runs                    *)
  enabled,      (* whether the form takes input                            *)
  requests,     (* requests the server has not answered                    *)
  LOGIN_STATUS,
  nick, authenticated,  (* the user Widget is told of, and the one who     *)
                        (* logged in                                       *)
  starts        (* times the program was started                           *)

formVars == <<config, ui, logoButton, auto_login, enabled>>
userVars == <<LOGIN_STATUS, nick, authenticated>>
vars == <<run, disk, saving, config, ui, logoButton, auto_login, enabled,
          requests, LOGIN_STATUS, nick, authenticated, starts>>

Text == Texts \union {""}

Config == [user : Text, password : Text, auto : BOOLEAN, remember : BOOLEAN]

MaxRequests == 2  (* bound: requests under way, one more than there ever are *)

Default == [user |-> "", password |-> "", auto |-> FALSE, remember |-> FALSE]

Init == /\ run = "off" /\ disk = {} /\ saving = FALSE
        /\ config = Default /\ ui = Default
        /\ logoButton = "login" /\ auto_login = FALSE /\ enabled = TRUE
        /\ requests = <<>>
        /\ LOGIN_STATUS = FALSE /\ nick = "" /\ authenticated = ""
        /\ starts = 0

Up == run \in {"login", "player"} /\ ~ saving

Form == run = "login" /\ ~ saving
-----------------------------------------------------------------------------
(* RecordFile.                                                             *)

\* What the constructor may find.  rsaDecode leaves the bytes behind the text
\* uninitialised: if they look like text the file does not parse.
Loadable == disk \union {Default}

Storable(c) == c.user \notin Unstorable /\ c.password \notin Unstorable

\* Mutant of SaveTruncates: the file is opened to append.
SaveAppends == disk' = disk /\ saving' = TRUE

\* save opens with Truncate ...
SaveTruncates == disk' = {} /\ saving' = TRUE

\* ... or cannot open the file, and returns.
SaveFails == UNCHANGED <<disk, saving>>

\* ... and writes what rsaEncode returns: nothing if that fails, and nothing
\* the constructor can read if the texts are not ASCII.
SaveWrites ==
  /\ saving
  /\ disk' = disk \union {c \in {config} : Storable(c)}
  /\ saving' = FALSE
  /\ run' = IF run = "quitting" THEN "off" ELSE run
  /\ UNCHANGED <<formVars, requests, userVars, starts>>
-----------------------------------------------------------------------------
(* LoginForm.                                                              *)

\* The constructor and load_config.  Checking the auto-login box checks the
\* other one; the fields are filled whether the password is remembered or not.
Start ==
  /\ run = "off" /\ starts < MaxStarts
  /\ \E c \in Loadable :
       LET loaded == [c EXCEPT !.remember = @ \/ c.auto]
           counts == c.auto /\ c.user # "" /\ c.password # ""
       IN  /\ config' = loaded /\ ui' = loaded
           /\ auto_login' = counts
           /\ logoButton' = IF counts THEN "cancel" ELSE "login"
  /\ run' = "login" /\ enabled' = TRUE
  /\ requests' = <<>>
  /\ LOGIN_STATUS' = FALSE /\ nick' = "" /\ authenticated' = ""
  /\ starts' = starts + 1
  /\ UNCHANGED <<disk, saving>>

\* The user edits the name or the password.
Type ==
  /\ Form /\ enabled /\ (auto_login => Hurried)
  /\ \E t \in Text : \/ ui' = [ui EXCEPT !.user = t]
                     \/ ui' = [ui EXCEPT !.password = t]
  /\ UNCHANGED <<run, disk, saving, config, logoButton, auto_login, enabled,
                 requests, userVars, starts>>

\* on_remberPwd_stateChanged
RememberBox ==
  /\ Form /\ enabled
  /\ ui' = [ui EXCEPT !.remember = ~ @]
  /\ config' = [config EXCEPT !.remember = ui'.remember]
  /\ UNCHANGED <<run, disk, saving, logoButton, auto_login, enabled, requests,
                 userVars, starts>>

\* slots_autoLoginCheck_stateChange
AutoLoginBox ==
  /\ Form /\ enabled
  /\ ui' = [ui EXCEPT !.auto = ~ @, !.remember = @ \/ ~ ui.auto]
  /\ config' = [config EXCEPT !.auto = ui'.auto, !.remember = @ \/ ~ ui.auto]
  /\ UNCHANGED <<run, disk, saving, logoButton, auto_login, enabled, requests,
                 userVars, starts>>

\* Mutant of CheckLogin: what the form shows is not recorded.
CheckLoginForgets(user, pwd) ==
  /\ Len(requests) < MaxRequests
  /\ requests' = Append(requests, [user |-> user, pwd |-> pwd])
  /\ enabled' = FALSE
  /\ UNCHANGED config

\* check_login: what is recorded is what the form shows, whoever logs in.
CheckLogin(user, pwd) ==
  /\ Len(requests) < MaxRequests
  /\ requests' = Append(requests, [user |-> user, pwd |-> pwd])
  /\ config' = [config EXCEPT !.user = ui.user, !.password = ui.password]
  /\ enabled' = FALSE

\* timerEvent: the three seconds are over.  The button keeps its text.
AutoLogin ==
  /\ Form /\ auto_login
  /\ auto_login' = FALSE
  /\ CheckLogin(config.user, config.password)
  /\ UNCHANGED <<run, disk, saving, ui, logoButton, userVars, starts>>

\* Mutant of CancelAutoLogin: the timer is not killed.
CancelTextOnly ==
  /\ Form /\ enabled /\ logoButton = "cancel"
  /\ logoButton' = "login"
  /\ UNCHANGED <<run, disk, saving, config, ui, auto_login, enabled, requests,
                 userVars, starts>>

CancelAutoLogin ==
  /\ Form /\ enabled /\ logoButton = "cancel"
  /\ auto_login' = FALSE
  /\ logoButton' = "login"
  /\ UNCHANGED <<run, disk, saving, config, ui, enabled, requests, userVars,
                 starts>>

LogIn ==
  /\ Form /\ enabled /\ logoButton = "login"
  /\ ui.user # "" /\ ui.password # ""
  /\ CheckLogin(ui.user, ui.password)
  /\ UNCHANGED <<run, disk, saving, ui, logoButton, auto_login, userVars, starts>>

\* slots_login_request_finshed with status 0: Widget is shown under the name in
\* the configuration, and the configuration is saved.
ReplyAccepts ==
  /\ Up /\ requests # <<>>
  /\ requests' = Tail(requests)
  /\ enabled' = TRUE
  /\ LOGIN_STATUS' = TRUE
  /\ nick' = config.user
  /\ authenticated' = Head(requests).user
  /\ run' = "player"
  /\ SaveTruncates \/ SaveFails
  /\ UNCHANGED <<config, ui, logoButton, auto_login, starts>>

\* Mutant of ReplyRefuses: the early return comes before setEnabled.
ReplyLeavesDisabled ==
  /\ Up /\ requests # <<>>
  /\ requests' = Tail(requests)
  /\ UNCHANGED <<run, disk, saving, formVars, userVars, starts>>

\* ... with a network error, an answer that does not parse, or another status.
ReplyRefuses ==
  /\ Up /\ requests # <<>>
  /\ requests' = Tail(requests)
  /\ enabled' = TRUE
  /\ UNCHANGED <<run, disk, saving, config, ui, logoButton, auto_login, userVars,
                 starts>>
-----------------------------------------------------------------------------
(* The rest of the program.                                                *)

\* Widget's timer, five minutes after the start and so on, shown or hidden: its
\* QStatusCheck ends the process of a user who has not logged in.
KeepActivity ==
  /\ Up /\ ~ LOGIN_STATUS
  /\ run' = "off"
  /\ UNCHANGED <<disk, saving, formVars, requests, userVars, starts>>

\* The windows are closed: ~RecordFile saves once more.
Quit ==
  /\ Up
  /\ \/ SaveTruncates /\ run' = "quitting"
     \/ SaveFails /\ run' = "off"
  /\ UNCHANGED <<formVars, requests, userVars, starts>>

\* The process is killed, possibly between truncating and writing.
Killed ==
  /\ run # "off"
  /\ run' = "off" /\ saving' = FALSE
  /\ UNCHANGED <<disk, formVars, requests, userVars, starts>>
-----------------------------------------------------------------------------
Reply == ReplyAccepts \/ ReplyRefuses

Next == \/ Start \/ Type \/ RememberBox \/ AutoLoginBox
        \/ AutoLogin \/ CancelAutoLogin \/ LogIn \/ Reply
        \/ SaveWrites \/ KeepActivity \/ Quit \/ Killed

Spec == Init /\ [][Next]_vars

\* The assumption of FormComesBack: the network finishes every request, with an
\* error at worst.  The code does not see to it: it sets no transfer timeout
\* (loginform.cpp:229-245), so that a server that accepts and says nothing leaves
\* the form disabled.  A save that was begun goes on.
FairSpec == Spec /\ WF_vars(Reply) /\ WF_vars(SaveWrites)
-----------------------------------------------------------------------------
(* Properties.                                                             *)

TypeOK ==
  /\ run \in {"off", "login", "player", "quitting"}
  /\ disk \subseteq Config /\ Cardinality(disk) <= 1
  /\ saving \in BOOLEAN
  /\ config \in Config /\ ui \in Config
  /\ logoButton \in {"login", "cancel"}
  /\ auto_login \in BOOLEAN /\ enabled \in BOOLEAN
  /\ requests \in Seq([user : Text, pwd : Text])
  /\ LOGIN_STATUS \in BOOLEAN
  /\ nick \in Text /\ authenticated \in Text
  /\ starts \in 0..MaxStarts

\* Timer, button and answers never let two login requests be under way: while
\* the countdown runs the button only cancels it, and a request disables the
\* form (loginform.cpp:90-130, 226-246).
OneRequest == Len(requests) <= 1

\* Widget shows the user who was authenticated, although it is told the name of
\* the record and the request may come from the countdown (loginform.cpp:95-98,
\* 193-194, 242-243).  It needs a user who does not type during the countdown.
NickIsAuthenticated == run = "player" => nick = authenticated

\* A form that was disabled takes input again, whatever the answer to its request
\* is, if one comes (loginform.cpp:167-217, 244).
FormComesBack ==
  (run = "login" /\ ~ enabled) ~> (enabled \/ run # "login")
=============================================================================
