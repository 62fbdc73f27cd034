------------------------------- MODULE Player ------------------------------
(***************************************************************************)
(* Playback in the client: the buttons and the list of Widget, the status  *)
(* machine of QMediaPlayer, the flags of vlchelper, and libvlc below them. *)
(* The three layers keep their own idea of what plays; signals and slots   *)
(* are direct calls of the one GUI thread, so a click is one step.  The    *)
(* 500 ms timer of QMediaPlayer reports a status to Widget only when it    *)
(* differs from the last one it saw.                                       *)
(***************************************************************************)
EXTENDS Integers, FiniteSets

CONSTANTS MaxMedia,   (* bound: files dropped on the window                *)
          MaxFaults   (* bound: calls of libvlc that fail                  *)

ASSUME PlayerAssumption == MaxMedia \in Nat /\ MaxFaults \in Nat

VARIABLES
  mediaList,    (* number of entries of mediaList and of listWidget        *)
  row,          (* selected row of listWidget, -1 if none                  *)
  current_play, (* row Widget believes to be playing, -1 at first          *)
  button,       (* what playButton shows: "play" or "pause"                *)
  stat, last,   (* QMediaPlayer's status and the one reported last         *)
  vlc,          (* vlchelper and the media player of libvlc it holds       *)
  faults

vars == <<mediaList, row, current_play, button, stat, last, vlc, faults>>

Media == 0..(MaxMedia - 1)

\* player: m_player is set; media: what it was prepared for; engine: what libvlc
\* does with it: "opening" from play until it sounds, "ended" also after an error.
VlcState == [player : BOOLEAN, isplaying : BOOLEAN, ispause : BOOLEAN,
             media : Media \union {-1},
             engine : {"none", "idle", "opening", "playing", "paused", "ended"}]

Init == /\ mediaList = 0
        /\ row = -1 /\ current_play = -1
        /\ button = "play"
        /\ stat = "NONE" /\ last = "NONE"
        /\ vlc = [player |-> FALSE, isplaying |-> FALSE, ispause |-> FALSE,
                  media |-> -1, engine |-> "none"]
        /\ faults = 0

\* n calls of libvlc fail in this step.
Fails(n) == faults + n <= MaxFaults /\ faults' = faults + n

Failed(ok) == IF ok THEN 0 ELSE 1
-----------------------------------------------------------------------------
(* vlchelper; v is its state, ok whether libvlc obeys.                     *)

Stop(v) == IF v.player
           THEN [v EXCEPT !.isplaying = FALSE, !.engine = "idle"]
           ELSE v

\* A player that cannot be made leaves none, and the flags as they were.
Prepare(v, i, ok) ==
  IF ok
  THEN [player |-> TRUE, isplaying |-> FALSE, ispause |-> FALSE, media |-> i,
        engine |-> "idle"]
  ELSE [v EXCEPT !.player = FALSE, !.media = i, !.engine = "none"]

\* libvlc_media_player_play returns before anything sounds; what is in pause goes
\* on, what has ended stays ended until it is stopped.
EngineStarts(v) == [v EXCEPT !.engine = CASE v.engine = "idle" -> "opening"
                                          [] v.engine = "paused" -> "playing"
                                          [] OTHER -> v.engine]

\* Mutant of PlayFlags: resuming does not clear the paused flag.
PlayFlagsKeepPause(v, ok) ==
  IF ~ v.player \/ (v.ispause /\ ~ ok)
  THEN v
  ELSE [v EXCEPT !.isplaying = TRUE]

\* Resuming changes the flags only if libvlc obeys; a fresh start sets them
\* first.
PlayFlags(v, ok) ==
  IF ~ v.player \/ (v.ispause /\ ~ ok)
  THEN v
  ELSE [v EXCEPT !.isplaying = TRUE, !.ispause = FALSE]

Play(v, ok) == IF v.player /\ ok THEN EngineStarts(PlayFlags(v, ok))
                                 ELSE PlayFlags(v, ok)

\* libvlc_media_player_pause is a toggle, of what plays or is in pause only.
Toggle(v) == [v EXCEPT !.engine = CASE v.engine = "playing" -> "paused"
                                    [] v.engine = "paused" -> "playing"
                                    [] OTHER -> v.engine]

\* Mutant of Pause: the flags are set and libvlc is not told.
PauseFlagsOnly(v) == IF v.player
                     THEN [v EXCEPT !.ispause = TRUE, !.isplaying = FALSE]
                     ELSE v

Pause(v) == IF v.player
            THEN [Toggle(v) EXCEPT !.ispause = TRUE, !.isplaying = FALSE]
            ELSE v
-----------------------------------------------------------------------------
(* QMediaPlayer: what its slots make of stat.                              *)

PlayStat(v, ok) == IF v.player /\ ok THEN "PLAY" ELSE "OPERATOR_FAILED"

PauseStat(v) == IF v.player THEN "PAUSE" ELSE "OPERATOR_FAILED"

\* Slots open and play in a row, for medium i; okO and okP: libvlc obeys.
Opened(i, okO) == Prepare(Stop(vlc), i, okO)

OpenAndPlay(i) ==
  \E okO, okP \in BOOLEAN :
    /\ Fails(Failed(okO) + Failed(okP))
    /\ vlc' = Play(Opened(i, okO), okP)
    /\ stat' = PlayStat(Opened(i, okO), okP)
    /\ current_play' = i
-----------------------------------------------------------------------------
(* Widget.                                                                 *)

\* dropEvent: one more file.
Drop ==
  /\ mediaList < MaxMedia
  /\ mediaList' = mediaList + 1
  /\ UNCHANGED <<row, current_play, button, stat, last, vlc, faults>>

\* The user clicks a row, or clears the selection.
Select ==
  /\ \E r \in -1..(mediaList - 1) : r # row /\ row' = r
  /\ UNCHANGED <<mediaList, current_play, button, stat, last, vlc, faults>>

PreRow == IF current_play - 1 < 0 THEN mediaList - 1 ELSE current_play - 1

\* Mutant of NextRow: the end of the list missed by one.
NextRowTooFar == IF current_play + 1 > mediaList THEN 0 ELSE current_play + 1

NextRow == IF current_play + 1 >= mediaList THEN 0 ELSE current_play + 1

\* on_preButton_clicked opens the medium and does not play it.
PreButton ==
  /\ mediaList > 0
  /\ \E okO \in BOOLEAN :
       /\ Fails(Failed(okO))
       /\ vlc' = Opened(PreRow, okO)
  /\ stat' = "OPEN"
  /\ current_play' = PreRow
  /\ UNCHANGED <<mediaList, row, button, last>>

NextButton ==
  /\ mediaList > 0
  /\ OpenAndPlay(NextRow)
  /\ UNCHANGED <<mediaList, row, button, last>>

\* The row on_playButton_clicked goes by: the first one if none is selected.
Index == IF row >= 0 THEN row ELSE 0

PlayFresh ==
  /\ ~ vlc.isplaying /\ ~ vlc.ispause
  /\ OpenAndPlay(Index)
  /\ button' = "pause"

\* Mutant of PlayResume: "paused" is not looked at, the click pauses again.
PlayPausesAgain ==
  /\ vlc.ispause
  /\ vlc' = Pause(vlc)
  /\ stat' = PauseStat(vlc)
  /\ button' = "play"
  /\ UNCHANGED <<current_play, faults>>

\* A paused player is resumed and the button is left as it is.
PlayResume ==
  /\ vlc.ispause
  /\ \E ok \in BOOLEAN :
       /\ Fails(Failed(ok))
       /\ vlc' = Play(vlc, ok)
       /\ stat' = PlayStat(vlc, ok)
  /\ UNCHANGED <<current_play, button>>

PlayPause ==
  /\ vlc.isplaying /\ ~ vlc.ispause /\ Index = current_play
  /\ vlc' = Pause(vlc)
  /\ stat' = PauseStat(vlc)
  /\ button' = "play"
  /\ UNCHANGED <<current_play, faults>>

PlayOther ==
  /\ vlc.isplaying /\ ~ vlc.ispause /\ Index # current_play
  /\ OpenAndPlay(Index)
  /\ UNCHANGED button

PlayButton ==
  /\ mediaList > 0
  /\ PlayFresh \/ PlayResume \/ PlayPause \/ PlayOther
  /\ UNCHANGED <<mediaList, row, last>>

\* on_listWidget_itemDoubleClicked; the first click has selected the row.
DoubleClick ==
  /\ \E r \in 0..(mediaList - 1) : row' = r /\ OpenAndPlay(r)
  /\ UNCHANGED <<mediaList, button, last>>

\* on_stopButton_clicked: stop leaves the paused flag.
StopButton ==
  /\ vlc' = Stop(vlc)
  /\ stat' = "STOP"
  /\ UNCHANGED <<mediaList, row, current_play, button, last, faults>>

\* on_media_media_status.
Style(s) == IF s = "PLAY" THEN "pause" ELSE "play"

\* handleTimer, every 500 ms.
Tick ==
  /\ last' = stat
  /\ button' = IF last # stat THEN Style(stat) ELSE button
  /\ UNCHANGED <<mediaList, row, current_play, stat, vlc, faults>>

\* libvlc has opened the medium and plays it, whatever was clicked meanwhile.
MediaOpens ==
  /\ vlc.engine = "opening"
  /\ vlc' = [vlc EXCEPT !.engine = "playing"]
  /\ UNCHANGED <<mediaList, row, current_play, button, stat, last, faults>>

\* The medium ends, or cannot be opened.  libvlc tells nobody: vlchelper attaches
\* to no event.
MediaEnds ==
  /\ vlc.engine \in {"opening", "playing"}
  /\ vlc' = [vlc EXCEPT !.engine = "ended"]
  /\ UNCHANGED <<mediaList, row, current_play, button, stat, last, faults>>
-----------------------------------------------------------------------------
Next == \/ Drop \/ Select \/ PreButton \/ NextButton \/ PlayButton
        \/ DoubleClick \/ StopButton \/ Tick \/ MediaOpens \/ MediaEnds

Spec == Init /\ [][Next]_vars
-----------------------------------------------------------------------------
(* Properties.                                                             *)

TypeOK ==
  /\ mediaList \in 0..MaxMedia
  /\ row \in -1..(mediaList - 1)
  /\ current_play \in -1..(mediaList - 1)
  /\ button \in {"play", "pause"}
  /\ stat \in {"NONE", "OPEN", "PLAY", "PAUSE", "STOP", "OPERATOR_FAILED"}
  /\ last \in {"NONE", "OPEN", "PLAY", "PAUSE", "STOP", "OPERATOR_FAILED"}
  /\ vlc \in VlcState
  /\ faults \in 0..MaxFaults

\* The three layers agree on what is on: the medium libvlc was prepared for is
\* the row Widget shows, a status PLAY stands for a playing flag, and the two
\* flags of vlchelper exclude each other, even when libvlc refuses
\* (widget.cpp:520-625, qmediaplayer.cpp:87-150, vlchelper.cpp:71-163).
LayersAgree ==
  /\ current_play = vlc.media
  /\ stat = "PLAY" => vlc.player /\ vlc.isplaying
  /\ ~ (vlc.isplaying /\ vlc.ispause)

\* A click that pauses silences libvlc, although libvlc's pause is a toggle, and
\* nothing but a click on play, which clears the flag, makes it sound again
\* (vlchelper.cpp:120-152, widget.cpp:578-589).  One way around it is left: a pause
\* that comes while libvlc still opens the medium pauses nothing and sets the flag.
PauseSilences ==
  [][vlc'.ispause /\ vlc'.engine = "playing"
       => vlc.ispause /\ vlc.engine \in {"opening", "playing"}]_vars

\* While libvlc obeys, a click on the play button that finds nothing flagged as
\* playing starts libvlc, be it fresh, stopped or in pause; only a medium that
\* ended while the flag said "paused" is resumed in silence, because the button
\* does not stop it first (vlchelper.cpp:114-142, widget.cpp:560-601).
ClickStartsPlaying ==
  [][PlayButton /\ ~ vlc.isplaying /\ faults' = 0
       /\ ~ (vlc.ispause /\ vlc.engine = "ended")
       => vlc'.isplaying /\ vlc'.engine \in {"opening", "playing"}]_vars
=============================================================================
