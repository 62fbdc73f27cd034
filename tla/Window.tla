------------------------------- MODULE Window -------------------------------
(***************************************************************************)
(* The window of the client: its screen modes (normal, maximized, full     *)
(* screen), the groups of widgets SizeHelper hides and shows with them,    *)
(* and the timers that hide what was shown for a moment: the controls in   *)
(* full screen, the speed buttons and the volume slider.                   *)
(*                                                                         *)
(* Widget keeps one member per timer for its id, -1 for "none", and Qt     *)
(* runs a timer until killTimer gets its id, whatever the member says: the *)
(* model keeps both.  SizeHelper.status always follows the mode.           *)
(***************************************************************************)
EXTENDS Integers, FiniteSets

CONSTANTS SpeedTicks, (* ticks the speed buttons get on top, 20 in the code *)
          Patience    (* the count a timer goes beyond before it hides, 5   *)

ASSUME WindowAssumption == SpeedTicks \in Nat /\ Patience \in Nat

VARIABLES
  mode,        (* what isMaximized() and isFullScreen() tell               *)
  controls,    (* whether the widgets with auto_hide_status 1 are shown    *)
  head,        (* whether full_head, the title of full screen, is shown    *)
  list, info,  (* listWidget; curplay, playInfo and playInfoIco above it   *)
  offset,      (* how often media and slider are widened beyond their rect *)
  speed, timesCount,       (* time0_5 .. time2, and their count            *)
  volume, volumeCount,     (* volumeSlider, and its count                  *)
  running,     (* timers Qt runs, by the member their id was stored in     *)
  named,       (* members that are not -1                                  *)
  pointer      (* the mouse: on the title or the bottom bar, or away       *)

listVars   == <<list, info, offset>>
speedVars  == <<speed, timesCount>>
volumeVars == <<volume, volumeCount>>
timerVars  == <<running, named>>
vars == <<mode, controls, head, list, info, offset, speed, timesCount, volume,
          volumeCount, running, named, pointer>>

Timers == {"times", "volumeSlider", "fullScreen", "screentop"}

\* The constructor.
Init == /\ mode = "normal"
        /\ controls = TRUE /\ head = FALSE
        /\ list = TRUE /\ info = TRUE /\ offset = 0
        /\ speed = FALSE /\ timesCount = 0
        /\ volume = FALSE /\ volumeCount = 0
        /\ running = [t \in Timers |-> IF t = "screentop" THEN 1 ELSE 0]
        /\ named = {"screentop"}
        /\ pointer = "away"

\* startTimer into the member t, which forgets the id that was there; R and N
\* are running and named.
Started(R, t) == [R EXCEPT ![t] = @ + 1]

StartTimer(t) == /\ running' = Started(running, t)
                 /\ named' = named \union {t}

\* killTimer of the members in T, and -1 into them.  Killing -1 does nothing.
KillTimers(T) ==
  /\ running' = [t \in Timers |-> IF t \in T \intersect named
                                  THEN running[t] - 1
                                  ELSE running[t]]
  /\ named' = named \ T
-----------------------------------------------------------------------------
(* SizeHelper.                                                             *)

\* max_size: everything but the sliders and buttons shown on demand.
MaxSize == /\ mode' = "maximized"
           /\ controls' = TRUE
           /\ list' = TRUE /\ info' = TRUE /\ offset' = 0
           /\ speed' = FALSE /\ volume' = FALSE

\* full_size: the list and what belongs to it are hidden.
FullSize == /\ mode' = "full"
            /\ controls' = TRUE
            /\ list' = FALSE /\ info' = FALSE /\ offset' = 0
            /\ speed' = FALSE /\ volume' = FALSE

\* Mutant of OrgSize: the list is left as it was.
OrgSizeOnly == /\ mode' = "normal"
               /\ offset' = 0
               /\ volume' = FALSE
               /\ UNCHANGED <<controls, list, info, speed>>

\* org_size restores places only; on_fangdaButton_clicked shows the list again,
\* and not what is above it.
OrgSize == /\ mode' = "normal"
           /\ list' = TRUE /\ offset' = 0
           /\ volume' = FALSE
           /\ UNCHANGED <<controls, info, speed>>

\* auto_hide; the slider is hidden either way.
AutoHide(hidden) == controls' = ~ hidden /\ volume' = FALSE
-----------------------------------------------------------------------------
(* The modes.                                                              *)

\* on_fangdaButton_clicked, by the button or a double click on the window.
Fangda ==
  /\ \/ mode = "normal" /\ MaxSize
     \/ mode = "maximized" /\ OrgSize
  /\ UNCHANGED <<head, timesCount, volumeCount, timerVars, pointer>>

\* on_fullscreenBtn_clicked.  The timer of the title is started once more.
EnterFull ==
  /\ mode # "full"
  /\ FullSize
  /\ head' = TRUE
  /\ running' = Started(Started(running, "fullScreen"), "screentop")
  /\ named' = named \union {"fullScreen", "screentop"}
  /\ UNCHANGED <<timesCount, volumeCount, pointer>>

\* Mutant of LeaveFull: the timers go on.
LeaveFullKeepsTimers ==
  /\ mode = "full"
  /\ MaxSize
  /\ head' = FALSE
  /\ UNCHANGED <<timerVars, timesCount, volumeCount, pointer>>

\* The same button, or Escape: wherever full screen was entered from, it is left
\* for the maximized window.
LeaveFull ==
  /\ mode = "full"
  /\ MaxSize
  /\ head' = FALSE
  /\ KillTimers({"fullScreen", "screentop"})
  /\ UNCHANGED <<timesCount, volumeCount, pointer>>

\* mouseReleaseEvent: a click on the picture brings the controls back.
MouseRelease ==
  /\ mode = "full" /\ "fullScreen" \notin named
  /\ StartTimer("fullScreen")
  /\ AutoHide(FALSE)
  /\ head' = TRUE
  /\ UNCHANGED <<mode, listVars, speedVars, volumeCount, pointer>>

\* Mutant of FullScreenTick: the title stays.
FullScreenTickKeepsHead ==
  /\ "fullScreen" \in named /\ pointer = "away"
  /\ AutoHide(TRUE)
  /\ KillTimers({"fullScreen"})
  /\ UNCHANGED <<mode, head, listVars, speedVars, volumeCount, pointer>>

\* Mutant of FullScreenTick: the title is hidden and the timer killed, no more.
FullScreenTickHeadOnly ==
  /\ "fullScreen" \in named /\ pointer = "away"
  /\ head' = FALSE
  /\ KillTimers({"fullScreen"})
  /\ UNCHANGED <<mode, controls, listVars, speedVars, volumeVars, pointer>>

\* timerEvent, every 1500 ms: with the mouse on the bars another period.
FullScreenTick ==
  /\ "fullScreen" \in named /\ pointer = "away"
  /\ AutoHide(TRUE)
  /\ head' = FALSE
  /\ KillTimers({"fullScreen"})
  /\ UNCHANGED <<mode, listVars, speedVars, volumeCount, pointer>>

MovePointer ==
  /\ pointer' = IF pointer = "away" THEN "bars" ELSE "away"
  /\ UNCHANGED <<mode, controls, head, listVars, speedVars, volumeVars,
                 timerVars>>

\* on_showhideList_pressed; the button is not there in full screen.  What is
\* hidden is decided by the list, and places are moved, not set.
ShowHideList ==
  /\ mode # "full"
  /\ list' = ~ list /\ info' = ~ list
  /\ offset' = IF list THEN offset + 1 ELSE offset - 1
  /\ UNCHANGED <<mode, controls, head, speedVars, volumeVars, timerVars,
                 pointer>>
-----------------------------------------------------------------------------
(* The speed buttons and the volume slider.                                *)

HideSpeed == speed' = FALSE /\ KillTimers({"times"})

\* on_scaleButton_clicked.
ScaleButton ==
  /\ controls
  /\ \/ /\ "times" \notin named
        /\ StartTimer("times")
        /\ speed' = TRUE /\ timesCount' = - SpeedTicks
     \/ /\ "times" \in named
        /\ HideSpeed
        /\ UNCHANGED timesCount
  /\ UNCHANGED <<mode, controls, head, listVars, volumeVars, pointer>>

\* Mutant of TimeButton: the timer is killed and the buttons are left.
TimeButtonKeepsButtons ==
  /\ speed
  /\ KillTimers({"times"})
  /\ UNCHANGED <<mode, controls, head, listVars, speedVars, volumeVars, pointer>>

\* on_time2_clicked and its like.
TimeButton ==
  /\ speed /\ "times" \in named
  /\ HideSpeed
  /\ UNCHANGED <<mode, controls, head, listVars, timesCount, volumeVars, pointer>>

\* Mutant of TimesTick: the buttons stay when the timer has done its work.
TimesTickKeepsButtons ==
  /\ "times" \in named
  /\ \/ /\ timesCount + 1 <= Patience
        /\ timesCount' = timesCount + 1
        /\ UNCHANGED timerVars
     \/ /\ timesCount + 1 > Patience
        /\ timesCount' = 0
        /\ KillTimers({"times"})
  /\ UNCHANGED <<mode, controls, head, listVars, speed, volumeVars, pointer>>

\* Mutant of TimesTick: one tick too many.
TimesTickLate ==
  /\ "times" \in named
  /\ \/ /\ timesCount <= Patience
        /\ timesCount' = timesCount + 1
        /\ UNCHANGED <<speed, timerVars>>
     \/ /\ timesCount > Patience
        /\ timesCount' = 0
        /\ HideSpeed
  /\ UNCHANGED <<mode, controls, head, listVars, volumeVars, pointer>>

\* timerEvent, every 200 ms.
TimesTick ==
  /\ "times" \in named
  /\ \/ /\ timesCount + 1 <= Patience
        /\ timesCount' = timesCount + 1
        /\ UNCHANGED <<speed, timerVars>>
     \/ /\ timesCount + 1 > Patience
        /\ timesCount' = 0
        /\ HideSpeed
  /\ UNCHANGED <<mode, controls, head, listVars, volumeVars, pointer>>

\* eventFilter: the mouse enters volumeButton.
HoverVolume ==
  /\ controls
  /\ volume' = TRUE
  /\ \/ "volumeSlider" \notin named /\ StartTimer("volumeSlider")
     \/ "volumeSlider" \in named /\ UNCHANGED timerVars
  /\ UNCHANGED <<mode, controls, head, listVars, speedVars, volumeCount,
                 pointer>>

\* eventFilter: the mouse moves or turns its wheel on volumeSlider.
HoverSlider ==
  /\ volume
  /\ volumeCount' = 0
  /\ UNCHANGED <<mode, controls, head, listVars, speedVars, volume, timerVars,
                 pointer>>

\* Mutant of VolumeTick: the timer is killed and the slider left where it is.
VolumeTickKeepsSlider ==
  /\ "volumeSlider" \in named
  /\ \/ /\ volumeCount + 1 <= Patience
        /\ volumeCount' = volumeCount + 1
        /\ UNCHANGED timerVars
     \/ /\ volumeCount + 1 > Patience
        /\ volumeCount' = 0
        /\ KillTimers({"volumeSlider"})
  /\ UNCHANGED <<mode, controls, head, listVars, speedVars, volume, pointer>>

\* timerEvent, every 200 ms; it may find the slider hidden by a change of mode.
VolumeTick ==
  /\ "volumeSlider" \in named
  /\ \/ /\ volumeCount + 1 <= Patience
        /\ volumeCount' = volumeCount + 1
        /\ UNCHANGED <<volume, timerVars>>
     \/ /\ volumeCount + 1 > Patience
        /\ volumeCount' = 0
        /\ volume' = FALSE
        /\ KillTimers({"volumeSlider"})
  /\ UNCHANGED <<mode, controls, head, listVars, speedVars, pointer>>
-----------------------------------------------------------------------------
Next == \/ Fangda \/ EnterFull \/ LeaveFull \/ MouseRelease \/ FullScreenTick
        \/ MovePointer \/ ShowHideList \/ ScaleButton \/ TimeButton \/ TimesTick
        \/ HoverVolume \/ HoverSlider \/ VolumeTick

Spec == Init /\ [][Next]_vars

\* Qt delivers the events of a timer that runs; the user owes nothing.
FairSpec == Spec /\ WF_vars(FullScreenTick) /\ WF_vars(TimesTick)
                 /\ WF_vars(VolumeTick)
-----------------------------------------------------------------------------
(* Properties.                                                             *)

TypeOK ==
  /\ mode \in {"normal", "maximized", "full"}
  /\ controls \in BOOLEAN /\ head \in BOOLEAN
  /\ list \in BOOLEAN /\ info \in BOOLEAN /\ offset \in Int
  /\ speed \in BOOLEAN /\ timesCount \in (- SpeedTicks)..Patience
  /\ volume \in BOOLEAN /\ volumeCount \in 0..Patience
  /\ running \in [Timers -> Nat]
  /\ named \in SUBSET Timers
  /\ pointer \in {"away", "bars"}

\* No timer runs that nobody can kill, however often the window changes its
\* mode, the mouse is clicked and timers fire in between; but for the one of
\* the title: the first full screen loses the id the constructor stored
\* (widget.cpp:163, 1398), and the loss does not grow (widget.cpp:1414-1417).
TimersAreNamed ==
  \A t \in Timers : LET known == IF t \in named THEN 1 ELSE 0
                    IN  IF t = "screentop" THEN running[t] \in {known, known + 1}
                                           ELSE running[t] = known

\* What hides by itself has a timer that will hide it, although the modes hide
\* and show the same widgets without a look at the timers (widget.cpp:186-232,
\* 858-866, 1283-1300), and the timer of full screen does not outlive it.
ShownIsTimed ==
  /\ speed => "times" \in named
  /\ volume => "volumeSlider" \in named
  /\ "fullScreen" \in named <=> mode = "full" /\ controls

\* The picture has the place of the list exactly while the list is hidden, though
\* the button moves widgets and the modes set them (widget.cpp:1027-1062,
\* 1340-1370); and nothing of the list is left without it.
LayoutMatchesList ==
  /\ mode # "full" => offset = (IF list THEN 0 ELSE 1)
  /\ info => list

\* The title floats above all windows: it is shown with the controls of full
\* screen and never without (widget.cpp:230, 864, 1386, 1413).  Outside full
\* screen the controls are there: what auto_hide has hidden comes back, by
\* whichever way full screen is left (widget.cpp:1283-1300, 1306-1330).
ControlsFollowMode ==
  /\ head <=> mode = "full" /\ controls
  /\ mode # "full" => controls

\* In full screen the controls go away unless the mouse is on the bars.
ControlsHide ==
  (mode = "full" /\ controls)
    ~> (~ controls \/ mode # "full" \/ pointer = "bars")

\* The speed buttons go away, whether one is clicked or not.
SpeedHides == speed ~> ~ speed

\* So does the volume slider, unless the mouse keeps moving on it.
VolumeHides == []<> ~ volume \/ []<><<HoverSlider>>_vars
=============================================================================
