--------------------------- MODULE PlayerProofs ----------------------------
(***************************************************************************)
(* What holds of Player for lists of every length and any number of       *)
(* refusals of libvlc.                                                     *)
(***************************************************************************)
EXTENDS Player, TLAPS

\* What vlchelper's flags have to do with the player of libvlc: only a player
\* can be flagged as playing, and libvlc is in pause only if the flag says so.
\* Without the last a click that pauses could toggle libvlc back to playing.
Sound(v) == /\ v.isplaying => v.player
            /\ ~ (v.isplaying /\ v.ispause)
            /\ v.player <=> v.engine # "none"
            /\ v.engine = "paused" => v.ispause

Inv == TypeOK /\ Sound(vlc) /\ LayersAgree

\* Stopping keeps the flags sound and leaves nothing that plays.
LEMMA StopSound ==
  ASSUME NEW v \in VlcState, Sound(v)
  PROVE  /\ Stop(v) \in VlcState /\ Sound(Stop(v))
         /\ ~ Stop(v).isplaying
BY DEF Stop, Sound, VlcState

\* Preparing a stopped player for medium i, successfully or not.
LEMMA PrepareSound ==
  ASSUME NEW v \in VlcState, Sound(v), ~ v.isplaying,
         NEW i \in Media, NEW ok \in BOOLEAN
  PROVE  /\ Prepare(v, i, ok) \in VlcState /\ Sound(Prepare(v, i, ok))
         /\ Prepare(v, i, ok).media = i
         /\ ~ Prepare(v, i, ok).isplaying
BY DEF Prepare, Sound, VlcState

\* Playing, whether libvlc obeys or not: the medium stays, and what QMediaPlayer
\* calls PLAY is flagged as playing.
LEMMA PlaySound ==
  ASSUME NEW v \in VlcState, Sound(v), NEW ok \in BOOLEAN
  PROVE  /\ Play(v, ok) \in VlcState /\ Sound(Play(v, ok))
         /\ Play(v, ok).media = v.media
         /\ PlayStat(v, ok) = "PLAY"
              => Play(v, ok).player /\ Play(v, ok).isplaying
BY DEF Play, PlayFlags, EngineStarts, PlayStat, Sound, VlcState

\* Pausing a player that is flagged as playing.
LEMMA PauseSound ==
  ASSUME NEW v \in VlcState, Sound(v), v.isplaying
  PROVE  /\ Pause(v) \in VlcState /\ Sound(Pause(v))
         /\ Pause(v).media = v.media
BY DEF Pause, Toggle, Sound, VlcState

\* Opening and playing a row of the list, as four of the clicks do.
LEMMA OpenAndPlaySound ==
  ASSUME Inv, NEW i \in 0..(mediaList - 1), OpenAndPlay(i),
         mediaList' = mediaList
  PROVE  /\ vlc' \in VlcState /\ Sound(vlc')
         /\ vlc'.media = i /\ current_play' = i
         /\ stat' \in {"PLAY", "OPERATOR_FAILED"}
         /\ stat' = "PLAY" => vlc'.player /\ vlc'.isplaying
         /\ faults' \in 0..MaxFaults
<1>1. PICK okO, okP \in BOOLEAN :
        /\ Fails(Failed(okO) + Failed(okP))
        /\ vlc' = Play(Opened(i, okO), okP)
        /\ stat' = PlayStat(Opened(i, okO), okP)
        /\ current_play' = i
  BY DEF OpenAndPlay
<1>2. i \in Media
  BY PlayerAssumption DEF Inv, TypeOK, Media
<1>3. /\ Opened(i, okO) \in VlcState /\ Sound(Opened(i, okO))
      /\ Opened(i, okO).media = i
  BY <1>2, StopSound, PrepareSound DEF Inv, TypeOK, Opened
<1>4. stat' \in {"PLAY", "OPERATOR_FAILED"}
  BY <1>1 DEF PlayStat
<1>5. faults' \in 0..MaxFaults
  BY <1>1, PlayerAssumption DEF Inv, TypeOK, Fails, Failed
<1>6. QED
  BY <1>1, <1>3, <1>4, <1>5, PlaySound

-----------------------------------------------------------------------------
\* The player begins with nothing to play and nothing flagged.
LEMMA InvInit == Init => Inv
BY PlayerAssumption DEF Init, Inv, TypeOK, Sound, LayersAgree, VlcState, Media

\* A click on the play button keeps the layers together, in each of its cases.
LEMMA PlayButtonStep ==
  ASSUME Inv, PlayButton
  PROVE  Inv'
<1> USE PlayerAssumption DEF Inv
<1>0. /\ mediaList > 0 /\ UNCHANGED <<mediaList, row, last>>
      /\ Index \in 0..(mediaList - 1)
  BY DEF PlayButton, Index, TypeOK
<1>1. CASE PlayFresh \/ PlayOther
  <2>1. OpenAndPlay(Index) /\ button' \in {"play", "pause"}
    BY <1>1 DEF PlayFresh, PlayOther, TypeOK
  <2>2. /\ vlc' \in VlcState /\ Sound(vlc')
        /\ vlc'.media = Index /\ current_play' = Index
        /\ stat' \in {"PLAY", "OPERATOR_FAILED"}
        /\ stat' = "PLAY" => vlc'.player /\ vlc'.isplaying
        /\ faults' \in 0..MaxFaults
    BY <1>0, <2>1, OpenAndPlaySound
  <2>3. QED
    BY <1>0, <2>1, <2>2 DEF TypeOK, LayersAgree, Sound
<1>2. CASE PlayResume
  <2>1. PICK ok \in BOOLEAN : /\ Fails(Failed(ok))
                              /\ vlc' = Play(vlc, ok)
                              /\ stat' = PlayStat(vlc, ok)
    BY <1>2 DEF PlayResume
  <2>2. /\ faults' \in 0..MaxFaults
        /\ stat' \in {"PLAY", "OPERATOR_FAILED"}
    BY <2>1 DEF Fails, Failed, TypeOK, PlayStat
  <2>3. /\ vlc' \in VlcState /\ Sound(vlc') /\ vlc'.media = vlc.media
        /\ stat' = "PLAY" => vlc'.player /\ vlc'.isplaying
    BY <2>1, PlaySound DEF TypeOK
  <2>4. QED
    BY <1>0, <1>2, <2>2, <2>3 DEF PlayResume, TypeOK, LayersAgree, Sound
<1>3. CASE PlayPause
  <2>1. vlc' \in VlcState /\ Sound(vlc') /\ vlc'.media = vlc.media
    BY <1>3, PauseSound DEF PlayPause, TypeOK
  <2>2. stat' \in {"PAUSE", "OPERATOR_FAILED"}
    BY <1>3 DEF PlayPause, PauseStat
  <2>3. QED
    BY <1>0, <1>3, <2>1, <2>2 DEF PlayPause, TypeOK, LayersAgree, Sound
<1>4. QED
  BY <1>1, <1>2, <1>3 DEF PlayButton

\* Every step keeps the three layers together.
LEMMA InvStep == Inv /\ [Next]_vars => Inv'
<1> SUFFICES ASSUME Inv, [Next]_vars
             PROVE  Inv'
  OBVIOUS
<1> USE PlayerAssumption DEF Inv
<1>1. CASE Drop \/ Select \/ UNCHANGED vars
  BY <1>1 DEF Drop, Select, vars, TypeOK, LayersAgree
<1>2. CASE PreButton
  <2>1. PICK okO \in BOOLEAN : Fails(Failed(okO)) /\ vlc' = Opened(PreRow, okO)
    BY <1>2 DEF PreButton
  <2>2. PreRow \in 0..(mediaList - 1) /\ PreRow \in Media
    BY <1>2 DEF PreButton, PreRow, TypeOK, Media
  <2>3. /\ vlc' \in VlcState /\ Sound(vlc') /\ vlc'.media = PreRow
    BY <2>1, <2>2, StopSound, PrepareSound DEF TypeOK, Opened
  <2>4. faults' \in 0..MaxFaults
    BY <2>1 DEF Fails, Failed, TypeOK
  <2>5. QED
    BY <1>2, <2>2, <2>3, <2>4 DEF PreButton, TypeOK, LayersAgree, Sound
<1>3. CASE NextButton
  <2>1. NextRow \in 0..(mediaList - 1) /\ mediaList' = mediaList
    BY <1>3 DEF NextButton, NextRow, TypeOK
  <2>2. OpenAndPlay(NextRow) /\ UNCHANGED <<mediaList, row, button, last>>
    BY <1>3 DEF NextButton
  <2>3. /\ vlc' \in VlcState /\ Sound(vlc')
        /\ vlc'.media = NextRow /\ current_play' = NextRow
        /\ stat' \in {"PLAY", "OPERATOR_FAILED"}
        /\ stat' = "PLAY" => vlc'.player /\ vlc'.isplaying
        /\ faults' \in 0..MaxFaults
    BY <2>1, <2>2, OpenAndPlaySound
  <2>4. QED
    BY <2>1, <2>2, <2>3 DEF TypeOK, LayersAgree, Sound
<1>4. CASE PlayButton
  BY <1>4, PlayButtonStep
<1>5. CASE DoubleClick
  <2>1. PICK r \in 0..(mediaList - 1) : row' = r /\ OpenAndPlay(r)
    BY <1>5 DEF DoubleClick
  <2>2. UNCHANGED <<mediaList, button, last>>
    BY <1>5 DEF DoubleClick
  <2>3. /\ vlc' \in VlcState /\ Sound(vlc')
        /\ vlc'.media = r /\ current_play' = r
        /\ stat' \in {"PLAY", "OPERATOR_FAILED"}
        /\ stat' = "PLAY" => vlc'.player /\ vlc'.isplaying
        /\ faults' \in 0..MaxFaults
    BY <2>1, <2>2, OpenAndPlaySound
  <2>4. QED
    BY <2>1, <2>2, <2>3 DEF TypeOK, LayersAgree, Sound
<1>6. CASE StopButton
  <2>1. vlc' \in VlcState /\ Sound(vlc') /\ vlc'.media = vlc.media
    BY <1>6, StopSound DEF StopButton, TypeOK, Stop, VlcState
  <2>2. QED
    BY <1>6, <2>1 DEF StopButton, TypeOK, LayersAgree, Sound
<1>7. CASE Tick
  BY <1>7 DEF Tick, Style, TypeOK, LayersAgree
<1>8. CASE MediaEnds
  BY <1>8 DEF MediaEnds, TypeOK, LayersAgree, Sound, VlcState
<1>9. CASE MediaOpens
  BY <1>9 DEF MediaOpens, TypeOK, LayersAgree, Sound, VlcState
<1>10. QED
  BY <1>1, <1>2, <1>3, <1>4, <1>5, <1>6, <1>7, <1>8, <1>9 DEF Next

-----------------------------------------------------------------------------
\* Every variable of the player keeps its type, and Widget never points behind
\* the end of its list.
THEOREM PlayerTypes == Spec => []TypeOK
<1>1. Inv => TypeOK
  BY DEF Inv
<1>2. QED
  BY <1>1, InvInit, InvStep, PTL DEF Spec

\* Whatever is clicked in whatever order, and whatever libvlc refuses, Widget,
\* QMediaPlayer and vlchelper agree on what plays.
THEOREM LayersStayTogether == Spec => []LayersAgree
<1>1. Inv => LayersAgree
  BY DEF Inv
<1>2. QED
  BY <1>1, InvInit, InvStep, PTL DEF Spec

\* A medium that is opened anew is not flagged as paused, played or not.
LEMMA FreshNotPaused ==
  ASSUME NEW i \in 0..(mediaList - 1), NEW okO \in BOOLEAN, NEW okP \in BOOLEAN
  PROVE  /\ Opened(i, okO).engine \notin {"playing", "paused"}
         /\ Play(Opened(i, okO), okP).engine # "playing"
BY DEF Opened, Stop, Prepare, Play, PlayFlags, EngineStarts

\* A pause that finds libvlc playing silences it, and what is silent with the flag
\* set stays silent until the flag is cleared, for every list and any number of
\* refusals: the one exception is a pause while libvlc opens the medium
\* (vlchelper.cpp:114-152).
THEOREM PauseIsSilence == Spec => PauseSilences
<1>1. Inv /\ [Next]_vars
        => [vlc'.ispause /\ vlc'.engine = "playing"
              => vlc.ispause /\ vlc.engine \in {"opening", "playing"}]_vars
  <2> SUFFICES ASSUME Inv, Next, vlc'.ispause, vlc'.engine = "playing"
               PROVE  vlc.ispause /\ vlc.engine \in {"opening", "playing"}
    BY DEF vars
  <2> USE DEF Inv, TypeOK
  <2>1. CASE Drop \/ Select \/ Tick
    BY <2>1 DEF Drop, Select, Tick
  <2>2. ASSUME NEW i \in 0..(mediaList - 1), OpenAndPlay(i)
        PROVE  FALSE
    BY <2>2, FreshNotPaused DEF OpenAndPlay
  <2>3. CASE PreButton
    <3>1. PreRow \in 0..(mediaList - 1)
      BY <2>3 DEF PreButton, PreRow
    <3> QED
      BY <2>3, <3>1, FreshNotPaused DEF PreButton
  <2>4. CASE NextButton
    <3>1. NextRow \in 0..(mediaList - 1)
      BY <2>4 DEF NextButton, NextRow
    <3> QED
      BY <2>2, <2>4, <3>1 DEF NextButton
  <2>5. CASE PlayButton
    <3>1. Index \in 0..(mediaList - 1)
      BY <2>5 DEF PlayButton, Index
    <3>2. CASE PlayFresh \/ PlayOther
      BY <2>2, <3>1, <3>2 DEF PlayFresh, PlayOther
    <3>3. CASE PlayResume
      BY <3>3 DEF PlayResume, Play, PlayFlags, EngineStarts, Sound, VlcState
    <3>4. CASE PlayPause
      BY <3>4 DEF PlayPause, Pause, Toggle, Sound, VlcState
    <3> QED
      BY <2>5, <3>2, <3>3, <3>4 DEF PlayButton
  <2>6. CASE DoubleClick
    BY <2>2, <2>6 DEF DoubleClick
  <2>7. CASE StopButton
    BY <2>7 DEF StopButton, Stop, Sound, VlcState
  <2>8. CASE MediaOpens \/ MediaEnds
    BY <2>8 DEF MediaOpens, MediaEnds, VlcState
  <2> QED
    BY <2>1, <2>3, <2>4, <2>5, <2>6, <2>7, <2>8 DEF Next
<1>2. QED
  BY <1>1, InvInit, InvStep, PTL DEF Spec, PauseSilences

\* As long as libvlc has obeyed every call, a paused player is still there to be
\* resumed: only a preparation that fails takes it away and leaves the flag.
Obeyed == faults = 0 => (vlc.ispause => vlc.player)

\* Opening and playing a medium, none of the calls refused.
LEMMA OpenAndPlayObeyed ==
  ASSUME Inv, NEW i \in 0..(mediaList - 1), OpenAndPlay(i), faults' = 0
  PROVE  vlc'.player /\ vlc'.isplaying /\ vlc'.engine = "opening"
<1>1. PICK okO, okP \in BOOLEAN :
        /\ Fails(Failed(okO) + Failed(okP))
        /\ vlc' = Play(Opened(i, okO), okP)
  BY DEF OpenAndPlay
<1>2. okO = TRUE /\ okP = TRUE
  BY <1>1 DEF Fails, Failed, Inv, TypeOK
<1>3. Opened(i, okO) = [player |-> TRUE, isplaying |-> FALSE,
                        ispause |-> FALSE, media |-> i, engine |-> "idle"]
  BY <1>2 DEF Opened, Prepare
<1>4. QED
  BY <1>1, <1>2, <1>3 DEF Play, PlayFlags, EngineStarts

\* No step makes a paused player disappear while libvlc obeys.
LEMMA ObeyedStep == Inv /\ Obeyed /\ [Next]_vars => Obeyed'
<1> SUFFICES ASSUME Inv, Obeyed, [Next]_vars, faults' = 0, vlc'.ispause
             PROVE  vlc'.player
  BY DEF Obeyed
<1> USE DEF Inv, TypeOK
<1>1. CASE Drop \/ Select \/ Tick \/ UNCHANGED vars
  BY <1>1 DEF Drop, Select, Tick, vars, Obeyed
<1>2. CASE PreButton
  <2>1. PICK okO \in BOOLEAN : Fails(Failed(okO)) /\ vlc' = Opened(PreRow, okO)
    BY <1>2 DEF PreButton
  <2>2. okO = TRUE
    BY <2>1 DEF Fails, Failed
  <2>3. QED
    BY <2>1, <2>2 DEF Opened, Prepare
<1>3. CASE NextButton
  <2>1. NextRow \in 0..(mediaList - 1)
    BY <1>3 DEF NextButton, NextRow
  <2>2. QED
    BY <1>3, <2>1, OpenAndPlayObeyed DEF NextButton
<1>4. CASE PlayButton
  <2>1. Index \in 0..(mediaList - 1)
    BY <1>4 DEF PlayButton, Index
  <2>2. CASE PlayFresh \/ PlayOther
    BY <2>1, <2>2, OpenAndPlayObeyed DEF PlayFresh, PlayOther
  <2>3. CASE PlayResume
    <3>1. PICK ok \in BOOLEAN : Fails(Failed(ok)) /\ vlc' = Play(vlc, ok)
      BY <2>3 DEF PlayResume
    <3>2. vlc.ispause /\ faults = 0
      BY <2>3, <3>1 DEF PlayResume, Fails, Failed
    <3>3. QED
      BY <3>1, <3>2 DEF Obeyed, Play, PlayFlags, EngineStarts, VlcState
  <2>4. CASE PlayPause
    BY <2>4 DEF PlayPause, Pause, Toggle, VlcState, Sound
  <2>5. QED
    BY <1>4, <2>2, <2>3, <2>4 DEF PlayButton
<1>5. CASE DoubleClick
  BY <1>5, OpenAndPlayObeyed DEF DoubleClick
<1>6. CASE StopButton
  BY <1>6 DEF StopButton, Stop, VlcState, Obeyed
<1>7. CASE MediaOpens \/ MediaEnds
  BY <1>7 DEF MediaOpens, MediaEnds, VlcState, Obeyed
<1>8. QED
  BY <1>1, <1>2, <1>3, <1>4, <1>5, <1>6, <1>7 DEF Next

\* While libvlc obeys, a click on the play button that finds nothing flagged as
\* playing leaves libvlc opening a medium or playing it, for every list: all but an
\* ended medium that was paused, which a click resumes in silence.
THEOREM ClickPlays == Spec => ClickStartsPlaying
<1>1. Init => Obeyed
  BY DEF Init, Obeyed
<1>2. Inv /\ Obeyed /\ [Next]_vars
        => [PlayButton /\ ~ vlc.isplaying /\ faults' = 0
              /\ ~ (vlc.ispause /\ vlc.engine = "ended")
              => vlc'.isplaying /\ vlc'.engine \in {"opening", "playing"}]_vars
  <2> SUFFICES ASSUME Inv, Obeyed, PlayButton, ~ vlc.isplaying, faults' = 0,
                      ~ (vlc.ispause /\ vlc.engine = "ended")
               PROVE  vlc'.isplaying /\ vlc'.engine \in {"opening", "playing"}
    OBVIOUS
  <2> USE DEF Inv, TypeOK
  <2>1. CASE PlayFresh
    <3>1. Index \in 0..(mediaList - 1)
      BY DEF PlayButton, Index
    <3>2. QED
      BY <2>1, <3>1, OpenAndPlayObeyed DEF PlayFresh
  <2>2. CASE PlayResume
    <3>1. PICK ok \in BOOLEAN : Fails(Failed(ok)) /\ vlc' = Play(vlc, ok)
      BY <2>2 DEF PlayResume
    <3>2. ok = TRUE /\ faults = 0 /\ vlc.player
      BY <2>2, <3>1 DEF PlayResume, Fails, Failed, Obeyed
    <3>3. vlc.engine \in {"idle", "opening", "playing", "paused"}
      BY <2>2, <3>2 DEF PlayResume, Sound, VlcState
    <3>4. QED
      BY <3>1, <3>2, <3>3 DEF Play, PlayFlags, EngineStarts, VlcState
  <2>3. QED
    BY <2>1, <2>2 DEF PlayButton, PlayPause, PlayOther
<1>3. QED
  BY <1>1, <1>2, InvInit, InvStep, ObeyedStep, PTL
  DEF Spec, ClickStartsPlaying
=============================================================================
