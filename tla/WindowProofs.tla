---------------------------- MODULE WindowProofs ----------------------------
(* Proofs about the window, for every count of the timers.                 *)
EXTENDS Window, TLAPS

\* Outside full screen the timer of the title runs once, inside twice; the
\* constructor's id is known until the first full screen overwrites it, and in
\* full screen the second one is known.  TimersAreNamed does not say this, and
\* would not survive EnterFull and LeaveFull without it.
TitleTimers ==
  /\ running["screentop"] = (IF mode = "full" THEN 2 ELSE 1)
  /\ mode = "full" => "screentop" \in named

\* The three timers that hide something run exactly while they are named.
HidersAreNamed ==
  \A t \in Timers \ {"screentop"} : running[t] = (IF t \in named THEN 1 ELSE 0)

IInv == /\ TypeOK
        /\ TitleTimers
        /\ HidersAreNamed
        /\ ShownIsTimed
        /\ ControlsFollowMode
        /\ LayoutMatchesList

LEMMA InitIInv == Init => IInv
<1> SUFFICES ASSUME Init PROVE IInv
  OBVIOUS
<1>1. TypeOK
  <2>1. 0 \in (- SpeedTicks)..Patience /\ 0 \in 0..Patience
    BY WindowAssumption
  <2>2. timesCount \in (- SpeedTicks)..Patience /\ volumeCount \in 0..Patience
    BY <2>1 DEF Init
  <2>3. running \in [Timers -> Nat] /\ named \in SUBSET Timers /\ offset \in Int
    BY DEF Init, Timers
  <2> QED
    BY <2>2, <2>3 DEF Init, TypeOK
<1>2. TitleTimers /\ HidersAreNamed
  BY DEF Init, TitleTimers, HidersAreNamed, Timers
<1>3. ShownIsTimed /\ ControlsFollowMode /\ LayoutMatchesList
  BY DEF Init, ShownIsTimed, ControlsFollowMode, LayoutMatchesList
<1> QED
  BY <1>1, <1>2, <1>3 DEF IInv

\* Starting and killing keep the timers that hide something named.
LEMMA StartKeeps ==
  ASSUME TypeOK, HidersAreNamed, NEW t \in Timers \ {"screentop"},
         t \notin named, StartTimer(t)
  PROVE  /\ HidersAreNamed'
         /\ running' \in [Timers -> Nat] /\ named' \in SUBSET Timers
         /\ running'["screentop"] = running["screentop"]
BY DEF TypeOK, HidersAreNamed, StartTimer, Started, Timers

LEMMA KillKeeps ==
  ASSUME TypeOK, HidersAreNamed, NEW T \in SUBSET Timers, KillTimers(T),
         running["screentop"] >= 1
  PROVE  /\ HidersAreNamed'
         /\ running' \in [Timers -> Nat] /\ named' = named \ T
         /\ running'["screentop"] = running["screentop"]
               - (IF "screentop" \in T \intersect named THEN 1 ELSE 0)
<1>1. named' = named \ T
  BY DEF KillTimers
<1>2. ASSUME NEW t \in Timers
      PROVE  running'[t] = IF t \in T \intersect named THEN running[t] - 1
                                                       ELSE running[t]
  BY DEF KillTimers
<1>3. running' \in [Timers -> Nat]
  <2>1. \A t \in Timers : t \in T \intersect named => running[t] >= 1
    BY DEF TypeOK, HidersAreNamed, Timers
  <2> QED
    BY <1>2, <2>1 DEF TypeOK, KillTimers
<1>4. HidersAreNamed'
  BY <1>1, <1>2 DEF HidersAreNamed, TypeOK, Timers
<1>5. "screentop" \in Timers
  BY DEF Timers
<1> QED
  BY <1>1, <1>2, <1>3, <1>4, <1>5 DEF TypeOK

LEMMA NextIInv == IInv /\ [Next]_vars => IInv'
<1> SUFFICES ASSUME IInv, [Next]_vars PROVE IInv'
  OBVIOUS
<1>0. /\ TypeOK /\ TitleTimers /\ HidersAreNamed /\ ShownIsTimed
      /\ ControlsFollowMode /\ LayoutMatchesList
      /\ running["screentop"] >= 1
      /\ SpeedTicks \in Nat /\ Patience \in Nat
  BY WindowAssumption DEF IInv, TitleTimers
<1>1. CASE Fangda
  <2>1. TypeOK'
    <3>1. /\ offset' \in Int /\ timesCount' \in (- SpeedTicks)..Patience
          /\ volumeCount' \in 0..Patience
      BY <1>0, <1>1 DEF TypeOK, Fangda, MaxSize, OrgSize
    <3>2. /\ mode' \in {"normal", "maximized", "full"}
          /\ pointer' \in {"away", "bars"}
          /\ controls' \in BOOLEAN /\ head' \in BOOLEAN /\ list' \in BOOLEAN
          /\ info' \in BOOLEAN /\ speed' \in BOOLEAN /\ volume' \in BOOLEAN
      BY <1>0, <1>1 DEF TypeOK, Fangda, MaxSize, OrgSize
    <3>3. running' \in [Timers -> Nat] /\ named' \in SUBSET Timers
      BY <1>0, <1>1 DEF TypeOK, Fangda, timerVars
    <3> QED
      BY <3>1, <3>2, <3>3 DEF TypeOK
  <2>2. TitleTimers' /\ HidersAreNamed'
    BY <1>0, <1>1 DEF TitleTimers, HidersAreNamed, Fangda, MaxSize, OrgSize,
       timerVars
  <2>3. ShownIsTimed' /\ ControlsFollowMode'
    BY <1>0, <1>1 DEF Fangda, MaxSize, OrgSize, timerVars, ShownIsTimed,
       ControlsFollowMode
  <2>4. LayoutMatchesList'
    BY <1>0, <1>1 DEF Fangda, MaxSize, OrgSize, LayoutMatchesList
  <2> QED
    BY <2>1, <2>2, <2>3, <2>4 DEF IInv
<1>2. CASE EnterFull
  <2>1. /\ named' = named \union {"fullScreen", "screentop"}
        /\ running' = [running EXCEPT !["fullScreen"] = @ + 1,
                                      !["screentop"] = @ + 1]
        /\ mode # "full" /\ "fullScreen" \notin named
    BY <1>0, <1>2 DEF EnterFull, Started, ShownIsTimed, TypeOK, Timers
  <2>2. TypeOK'
    <3>1. /\ offset' \in Int /\ timesCount' \in (- SpeedTicks)..Patience
          /\ volumeCount' \in 0..Patience
      BY <1>0, <1>2 DEF TypeOK, EnterFull, FullSize
    <3>2. /\ mode' \in {"normal", "maximized", "full"}
          /\ pointer' \in {"away", "bars"}
          /\ controls' \in BOOLEAN /\ head' \in BOOLEAN /\ list' \in BOOLEAN
          /\ info' \in BOOLEAN /\ speed' \in BOOLEAN /\ volume' \in BOOLEAN
      BY <1>0, <1>2 DEF TypeOK, EnterFull, FullSize
    <3>3. running' \in [Timers -> Nat] /\ named' \in SUBSET Timers
      BY <1>0, <2>1 DEF TypeOK, Timers
    <3> QED
      BY <3>1, <3>2, <3>3 DEF TypeOK
  <2>3. TitleTimers' /\ HidersAreNamed'
    BY <1>0, <1>2, <2>1 DEF TypeOK, EnterFull, FullSize, TitleTimers,
       HidersAreNamed, Timers
  <2>4. (ShownIsTimed /\ ControlsFollowMode /\ LayoutMatchesList)'
    BY <1>0, <1>2, <2>1 DEF EnterFull, FullSize, ShownIsTimed,
       ControlsFollowMode, LayoutMatchesList
  <2> QED
    BY <2>2, <2>3, <2>4 DEF IInv
<1>3. CASE LeaveFull
  <2>1. /\ HidersAreNamed' /\ running' \in [Timers -> Nat]
        /\ named' = named \ {"fullScreen", "screentop"}
        /\ running'["screentop"] = 1
    <3>1. KillTimers({"fullScreen", "screentop"}) /\ mode = "full"
      BY <1>3 DEF LeaveFull
    <3>2. {"fullScreen", "screentop"} \in SUBSET Timers
      BY DEF Timers
    <3> QED
      BY <1>0, <3>1, <3>2, KillKeeps DEF TitleTimers
  <2>2. TypeOK'
    <3>1. /\ offset' \in Int /\ timesCount' \in (- SpeedTicks)..Patience
          /\ volumeCount' \in 0..Patience
      BY <1>0, <1>3 DEF TypeOK, LeaveFull, MaxSize
    <3>2. /\ mode' \in {"normal", "maximized", "full"}
          /\ pointer' \in {"away", "bars"}
          /\ controls' \in BOOLEAN /\ head' \in BOOLEAN /\ list' \in BOOLEAN
          /\ info' \in BOOLEAN /\ speed' \in BOOLEAN /\ volume' \in BOOLEAN
      BY <1>0, <1>3 DEF TypeOK, LeaveFull, MaxSize
    <3>3. named' \in SUBSET Timers
      BY <1>0, <2>1 DEF TypeOK
    <3> QED
      BY <2>1, <3>1, <3>2, <3>3 DEF TypeOK
  <2>3. TitleTimers'
    BY <1>3, <2>1 DEF LeaveFull, MaxSize, TitleTimers
  <2>4. (ShownIsTimed /\ ControlsFollowMode /\ LayoutMatchesList)'
    BY <1>3, <2>1 DEF LeaveFull, MaxSize, ShownIsTimed, ControlsFollowMode, LayoutMatchesList
  <2> QED
    BY <2>1, <2>2, <2>3, <2>4 DEF IInv
<1>4. CASE MouseRelease
  <2>1. /\ HidersAreNamed' /\ running' \in [Timers -> Nat]
        /\ running'["screentop"] = running["screentop"]
        /\ named' = named \union {"fullScreen"} /\ named' \in SUBSET Timers
    BY <1>0, <1>4, StartKeeps DEF MouseRelease, Timers, StartTimer
  <2>2. TypeOK'
    BY <1>0, <1>4, <2>1 DEF TypeOK, MouseRelease, AutoHide, listVars, speedVars
  <2>3. TitleTimers'
    BY <1>0, <1>4, <2>1 DEF MouseRelease, TitleTimers
  <2>4. (ShownIsTimed /\ ControlsFollowMode /\ LayoutMatchesList)'
    BY <1>0, <1>4, <2>1 DEF MouseRelease, AutoHide, listVars, speedVars,
       ShownIsTimed, ControlsFollowMode, LayoutMatchesList
  <2> QED
    BY <2>1, <2>2, <2>3, <2>4 DEF IInv
<1>5. CASE FullScreenTick
  <2>1. /\ HidersAreNamed' /\ running' \in [Timers -> Nat]
        /\ running'["screentop"] = running["screentop"]
        /\ named' = named \ {"fullScreen"}
    <3>1. KillTimers({"fullScreen"}) /\ {"fullScreen"} \in SUBSET Timers
      BY <1>5 DEF FullScreenTick, Timers
    <3> QED
      BY <1>0, <3>1, KillKeeps DEF TypeOK, Timers
  <2>2. TypeOK'
    BY <1>0, <1>5, <2>1 DEF TypeOK, FullScreenTick, AutoHide, listVars, speedVars
  <2>3. TitleTimers'
    BY <1>0, <1>5, <2>1 DEF FullScreenTick, TitleTimers
  <2>4. (ShownIsTimed /\ ControlsFollowMode /\ LayoutMatchesList)'
    BY <1>0, <1>5, <2>1 DEF FullScreenTick, AutoHide, listVars, speedVars,
       ShownIsTimed, ControlsFollowMode, LayoutMatchesList
  <2> QED
    BY <2>1, <2>2, <2>3, <2>4 DEF IInv
<1>6. CASE MovePointer \/ HoverSlider \/ UNCHANGED vars
  <2>1. /\ UNCHANGED <<mode, controls, head, list, info, offset, speed,
                       timesCount, volume, running, named>>
        /\ volumeCount' \in {volumeCount, 0}
        /\ pointer' \in {pointer, "away", "bars"}
    BY <1>6 DEF MovePointer, HoverSlider, vars, listVars, speedVars,
       volumeVars, timerVars
  <2>2. TypeOK'
    <3>1. volumeCount' \in 0..Patience /\ pointer' \in {"away", "bars"}
      BY <1>0, <2>1 DEF TypeOK
    <3> QED
      BY <1>0, <2>1, <3>1 DEF TypeOK
  <2>3. TitleTimers' /\ HidersAreNamed'
    BY <1>0, <2>1 DEF TitleTimers, HidersAreNamed
  <2>4. (ShownIsTimed /\ ControlsFollowMode /\ LayoutMatchesList)'
    BY <1>0, <2>1 DEF ShownIsTimed, ControlsFollowMode, LayoutMatchesList
  <2> QED
    BY <2>2, <2>3, <2>4 DEF IInv
<1>7. CASE ShowHideList
  <2>1. /\ UNCHANGED <<mode, controls, head, speed, timesCount, volume,
                       volumeCount, running, named, pointer>>
        /\ list' = ~ list /\ info' = ~ list /\ mode # "full"
    BY <1>7 DEF ShowHideList, speedVars, volumeVars, timerVars
  <2>2. offset' = (IF list' THEN 0 ELSE 1)
    <3>1. CASE list
      <4>1. offset = 0
        BY <1>0, <2>1, <3>1 DEF LayoutMatchesList
      <4>2. offset' = 1
        BY <1>7, <3>1, <4>1 DEF ShowHideList
      <4>3. ~ list'
        BY <2>1, <3>1
      <4> QED
        BY <4>2, <4>3
    <3>2. CASE ~ list
      <4>1. offset = 1
        BY <1>0, <2>1, <3>2 DEF LayoutMatchesList
      <4>2. offset' = 0
        BY <1>7, <3>2, <4>1 DEF ShowHideList
      <4>3. list'
        BY <2>1, <3>2
      <4> QED
        BY <4>2, <4>3
    <3> QED
      BY <3>1, <3>2
  <2>3. TypeOK'
    <3>1. list' \in BOOLEAN /\ info' \in BOOLEAN
      BY <2>1
    <3>2. offset' \in Int
      BY <2>2
    <3> QED
      BY <1>0, <2>1, <3>1, <3>2 DEF TypeOK
  <2>4. TitleTimers' /\ HidersAreNamed'
    BY <1>0, <2>1 DEF TitleTimers, HidersAreNamed
  <2>5. (ShownIsTimed /\ ControlsFollowMode)'
    BY <1>0, <2>1 DEF ShownIsTimed, ControlsFollowMode
  <2>6. LayoutMatchesList'
    BY <2>1, <2>2 DEF LayoutMatchesList
  <2> QED
    BY <2>3, <2>4, <2>5, <2>6 DEF IInv
<1>8. ASSUME HideSpeed, timesCount' \in (- SpeedTicks)..Patience,
             UNCHANGED <<mode, controls, head, listVars, volumeVars, pointer>>
      PROVE  IInv'
  <2>1. /\ HidersAreNamed' /\ running' \in [Timers -> Nat]
        /\ running'["screentop"] = running["screentop"]
        /\ named' = named \ {"times"}
    <3>1. KillTimers({"times"}) /\ {"times"} \in SUBSET Timers
      BY <1>8 DEF HideSpeed, Timers
    <3> QED
      BY <1>0, <3>1, KillKeeps DEF TypeOK, Timers
  <2>2. TypeOK'
    BY <1>0, <1>8, <2>1 DEF TypeOK, HideSpeed, listVars, volumeVars
  <2>3. TitleTimers'
    BY <1>0, <1>8, <2>1 DEF TitleTimers
  <2>4. (ShownIsTimed /\ ControlsFollowMode /\ LayoutMatchesList)'
    BY <1>0, <1>8, <2>1 DEF HideSpeed, listVars, volumeVars,
       ShownIsTimed, ControlsFollowMode, LayoutMatchesList
  <2> QED
    BY <2>1, <2>2, <2>3, <2>4 DEF IInv
<1>9. CASE ScaleButton
  <2>1. CASE "times" \in named
    BY <1>0, <1>8, <1>9, <2>1 DEF ScaleButton, TypeOK
  <2>2. CASE "times" \notin named
    <3>1. /\ StartTimer("times") /\ speed' = TRUE /\ timesCount' = - SpeedTicks
          /\ UNCHANGED <<mode, controls, head, listVars, volumeVars, pointer>>
      BY <1>9, <2>2 DEF ScaleButton
    <3>2. /\ HidersAreNamed' /\ running' \in [Timers -> Nat]
          /\ running'["screentop"] = running["screentop"]
          /\ named' = named \union {"times"} /\ named' \in SUBSET Timers
      BY <1>0, <2>2, <3>1, StartKeeps DEF Timers, StartTimer
    <3>3. TypeOK'
      BY <1>0, <3>1, <3>2 DEF TypeOK, listVars, volumeVars
    <3>4. TitleTimers'
      BY <1>0, <3>1, <3>2 DEF TitleTimers
    <3>5. (ShownIsTimed /\ ControlsFollowMode /\ LayoutMatchesList)'
      BY <1>0, <3>1, <3>2 DEF listVars, volumeVars, ShownIsTimed,
         ControlsFollowMode, LayoutMatchesList
    <3> QED
      BY <3>2, <3>3, <3>4, <3>5 DEF IInv
  <2> QED
    BY <2>1, <2>2
<1>10. CASE TimeButton
  BY <1>0, <1>8, <1>10 DEF TimeButton, TypeOK
<1>11. CASE TimesTick
  <2>1. CASE timesCount + 1 > Patience
    <3>1. /\ HideSpeed /\ timesCount' = 0
          /\ UNCHANGED <<mode, controls, head, listVars, volumeVars, pointer>>
      BY <1>0, <1>11, <2>1 DEF TimesTick, TypeOK
    <3>2. timesCount' \in (- SpeedTicks)..Patience
      BY <1>0, <3>1
    <3> QED
      BY <1>8, <3>1, <3>2
  <2>2. CASE timesCount + 1 <= Patience
    <3>1. /\ timesCount' = timesCount + 1 /\ UNCHANGED <<speed, timerVars>>
          /\ UNCHANGED <<mode, controls, head, listVars, volumeVars, pointer>>
      BY <1>0, <1>11, <2>2 DEF TimesTick, TypeOK
    <3> QED
      BY <1>0, <2>2, <3>1 DEF IInv, TypeOK, TitleTimers,
         HidersAreNamed, ShownIsTimed, ControlsFollowMode, LayoutMatchesList, listVars, volumeVars, timerVars
  <2> QED
    BY <1>0, <2>1, <2>2 DEF TypeOK
<1>12. CASE HoverVolume
  <2>1. /\ HidersAreNamed' /\ running' \in [Timers -> Nat]
        /\ running'["screentop"] = running["screentop"]
        /\ named' = named \union {"volumeSlider"} /\ named' \in SUBSET Timers
    <3>1. CASE "volumeSlider" \notin named
      BY <1>0, <1>12, <3>1, StartKeeps DEF HoverVolume, Timers, StartTimer
    <3>2. CASE "volumeSlider" \in named
      <4>1. UNCHANGED <<running, named>>
        BY <1>12, <3>2 DEF HoverVolume, timerVars
      <4> QED
        BY <1>0, <3>2, <4>1 DEF HidersAreNamed, TypeOK
    <3> QED
      BY <3>1, <3>2
  <2>2. TypeOK'
    BY <1>0, <1>12, <2>1 DEF TypeOK, HoverVolume, listVars, speedVars
  <2>3. TitleTimers'
    BY <1>0, <1>12, <2>1 DEF HoverVolume, TitleTimers
  <2>4. (ShownIsTimed /\ ControlsFollowMode /\ LayoutMatchesList)'
    BY <1>0, <1>12, <2>1 DEF HoverVolume, listVars, speedVars, ShownIsTimed,
       ControlsFollowMode, LayoutMatchesList
  <2> QED
    BY <2>1, <2>2, <2>3, <2>4 DEF IInv
<1>13. CASE VolumeTick
  <2>1. CASE volumeCount + 1 > Patience
    <3>1. /\ KillTimers({"volumeSlider"}) /\ {"volumeSlider"} \in SUBSET Timers
          /\ volume' = FALSE /\ volumeCount' = 0
          /\ UNCHANGED <<mode, controls, head, listVars, speedVars, pointer>>
      BY <1>0, <1>13, <2>1 DEF VolumeTick, TypeOK, Timers
    <3>2. /\ HidersAreNamed' /\ running' \in [Timers -> Nat]
          /\ running'["screentop"] = running["screentop"]
          /\ named' = named \ {"volumeSlider"}
      BY <1>0, <3>1, KillKeeps DEF TypeOK, Timers
    <3>3. TypeOK'
      <4>1. volumeCount' \in 0..Patience
        BY <1>0, <3>1
      <4>2. named' \in SUBSET Timers /\ volume' \in BOOLEAN
        BY <1>0, <3>1, <3>2 DEF TypeOK
      <4> QED
        BY <1>0, <3>1, <3>2, <4>1, <4>2 DEF TypeOK, listVars, speedVars
    <3>4. TitleTimers'
      BY <1>0, <3>1, <3>2 DEF TitleTimers
    <3>5. (ShownIsTimed /\ ControlsFollowMode /\ LayoutMatchesList)'
      BY <1>0, <3>1, <3>2 DEF listVars, speedVars, ShownIsTimed,
         ControlsFollowMode, LayoutMatchesList
    <3> QED
      BY <3>2, <3>3, <3>4, <3>5 DEF IInv
  <2>2. CASE volumeCount + 1 <= Patience
    <3>1. /\ volumeCount' = volumeCount + 1 /\ UNCHANGED <<volume, timerVars>>
          /\ UNCHANGED <<mode, controls, head, listVars, speedVars, pointer>>
      BY <1>0, <1>13, <2>2 DEF VolumeTick, TypeOK
    <3> QED
      BY <1>0, <2>2, <3>1 DEF IInv, TypeOK, TitleTimers,
         HidersAreNamed, ShownIsTimed, ControlsFollowMode, LayoutMatchesList, listVars, speedVars, timerVars
  <2> QED
    BY <1>0, <2>1, <2>2 DEF TypeOK
<1> QED
  BY <1>1, <1>2, <1>3, <1>4, <1>5, <1>6, <1>7, <1>9, <1>10, <1>11, <1>12, <1>13
     DEF Next

LEMMA IInvTimers == IInv => TimersAreNamed
<1> SUFFICES ASSUME IInv, NEW t \in Timers
             PROVE  LET known == IF t \in named THEN 1 ELSE 0
                    IN  IF t = "screentop"
                        THEN running[t] \in {known, known + 1}
                        ELSE running[t] = known
  BY DEF TimersAreNamed
<1>1. CASE t = "screentop"
  BY <1>1 DEF IInv, TitleTimers
<1>2. CASE t # "screentop"
  BY <1>2 DEF IInv, HidersAreNamed
<1> QED
  BY <1>1, <1>2

LEMMA Inductive == Spec => []IInv
BY InitIInv, NextIInv, PTL DEF Spec

\* Every variable keeps its type, and no timer is killed more often than it was
\* started: running stays in Nat.
THEOREM WindowTypes == Spec => []TypeOK
<1>1. IInv => TypeOK
  BY DEF IInv
<1> QED
  BY <1>1, Inductive, PTL

\* No timer but one of the title's runs without a name.
THEOREM NoTimerIsForgotten == Spec => []TimersAreNamed
BY IInvTimers, Inductive, PTL

\* What hides by itself has its timer, through all changes of mode.
THEOREM WhatShowsWillHide == Spec => []ShownIsTimed
<1>1. IInv => ShownIsTimed
  BY DEF IInv
<1> QED
  BY <1>1, Inductive, PTL

\* The title of full screen comes and goes with the controls, and outside full
\* screen the controls are there: no sequence of mode changes, clicks and timers
\* leaves the one behind or takes the others away.
THEOREM ControlsComeBack == Spec => []ControlsFollowMode
<1>1. IInv => ControlsFollowMode
  BY DEF IInv
<1> QED
  BY <1>1, Inductive, PTL

\* The picture has the place of the list exactly while the list is hidden.
THEOREM LayoutFollowsList == Spec => []LayoutMatchesList
<1>1. IInv => LayoutMatchesList
  BY DEF IInv
<1> QED
  BY <1>1, Inductive, PTL
-----------------------------------------------------------------------------
(* Why what is shown for a moment goes, up to the fairness of the timers.  *)

\* Its timer is there, with a number of ticks left; the one of full screen waits
\* for nothing but the mouse to leave the bars.
TimersAreWound ==
  /\ speed => "times" \in named /\ Patience - timesCount \in Nat
  /\ volume => "volumeSlider" \in named /\ Patience - volumeCount \in Nat
  /\ mode = "full" /\ controls => "fullScreen" \in named

\* A tick takes one away or hides, and nothing gives any back but the mouse on the
\* volume slider.
TicksRunOut ==
  /\ speed /\ speed' => timesCount' >= timesCount
  /\ speed /\ speed' /\ TimesTick => timesCount' > timesCount
  /\ volume /\ volume' /\ ~ HoverSlider => volumeCount' >= volumeCount
  /\ volume /\ volume' /\ VolumeTick => volumeCount' > volumeCount
  /\ FullScreenTick => ~ controls'

LEMMA TicksStep ==
  ASSUME IInv, [Next]_vars
  PROVE  [TicksRunOut]_vars
<1> SUFFICES ASSUME Next PROVE TicksRunOut
  BY DEF vars
<1>0. /\ timesCount \in Int /\ volumeCount \in Int
      /\ speed => "times" \in named
      /\ volume => "volumeSlider" \in named
  BY WindowAssumption DEF IInv, TypeOK, ShownIsTimed
<1>1. speed /\ speed' => timesCount' >= timesCount
  <2> SUFFICES ASSUME speed, speed' PROVE timesCount' >= timesCount
    OBVIOUS
  <2>1. CASE TimesTick
    BY <1>0, <2>1 DEF TimesTick, HideSpeed
  <2>2. CASE ScaleButton
    BY <1>0, <2>2 DEF ScaleButton, HideSpeed
  <2>3. CASE ~ TimesTick /\ ~ ScaleButton
    <3>1. timesCount' = timesCount
      BY <2>3 DEF Next, Fangda, EnterFull, LeaveFull, MouseRelease, FullScreenTick,
         MovePointer, ShowHideList, TimeButton, HoverVolume, HoverSlider,
         VolumeTick, speedVars
    <3> QED
      BY <1>0, <3>1
  <2> QED
    BY <2>1, <2>2, <2>3
<1>2. speed /\ speed' /\ TimesTick => timesCount' > timesCount
  BY <1>0 DEF TimesTick, HideSpeed
<1>3. volume /\ volume' /\ ~ HoverSlider => volumeCount' >= volumeCount
  <2> SUFFICES ASSUME volume, volume', ~ HoverSlider
               PROVE  volumeCount' >= volumeCount
    OBVIOUS
  <2>1. CASE VolumeTick
    BY <1>0, <2>1 DEF VolumeTick
  <2>2. CASE ~ VolumeTick
    <3>1. volumeCount' = volumeCount
      BY <2>2 DEF Next, Fangda, EnterFull, LeaveFull, MouseRelease, FullScreenTick,
         MovePointer, ShowHideList, ScaleButton, TimeButton, TimesTick,
         HoverVolume, volumeVars
    <3> QED
      BY <1>0, <3>1
  <2> QED
    BY <2>1, <2>2
<1>4. volume /\ volume' /\ VolumeTick => volumeCount' > volumeCount
  BY <1>0 DEF VolumeTick
<1>5. FullScreenTick => ~ controls'
  BY DEF FullScreenTick, AutoHide
<1> QED
  BY <1>1, <1>2, <1>3, <1>4, <1>5 DEF TicksRunOut

\* The speed buttons, the volume slider and the controls of full screen are always
\* a bounded number of ticks from being hidden, and no click or change of mode adds
\* to it; moving the mouse on the slider does, and the one of full screen waits for
\* the mouse (widget.cpp:186-232): ControlsHide, SpeedHides and VolumeHides without
\* the timers' fairness.
THEOREM WhatShowsRunsOut == Spec => []TimersAreWound /\ [][TicksRunOut]_vars
<1>1. IInv => TimersAreWound
  BY WindowAssumption DEF IInv, TypeOK, ShownIsTimed, TimersAreWound
<1>2. IInv /\ [Next]_vars => [TicksRunOut]_vars
  BY TicksStep
<1> QED
  BY <1>1, <1>2, Inductive, PTL DEF Spec
=============================================================================
