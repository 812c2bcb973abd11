---------------------------- MODULE PlayerProofs ----------------------------
(***************************************************************************)
(* The safety properties of Player for any set of tracks, any number of    *)
(* overlapping calls and every failure.  Two inductive invariants: Calm    *)
(* holds whatever happens, Quiet as long as the listener waits for each    *)
(* call and none fails.                                                    *)
(***************************************************************************)
EXTENDS Player, TLAPS

CallsFollowAChoice == \A t \in Tracks : call[t] # "idle" => current # NoTrack

Calm == TypeOK /\ CallsFollowAChoice /\ NoIntervalIsLost /\ PausedIsSilent

OneCall ==
    \A t, u \in Tracks : call[t] # "idle" /\ call[u] # "idle" => t = u

\* Where the page, the pings and the sound stand in each phase of a call.
Phases ==
    /\ NoCall => current = source /\ intervals \subseteq {current}
    /\ ~NoCall => intervals = {}
    /\ \A t \in Tracks : call[t] = "fetching" => current = t

Quiet == mishaps = {} => OneCall /\ Phases /\ LeftTrackIsStopped

-----------------------------------------------------------------------------
\* Types: a call, a handle and a source come after the first choice of a track.
LEMMA TypesKept ==
    ASSUME TypeOK, CallsFollowAChoice, [Next]_vars
    PROVE  TypeOK' /\ CallsFollowAChoice'
<1> USE NoTrackAssumption DEF TypeOK, CallsFollowAChoice, MaybeTrack
<1>1. ASSUME NEW t \in Tracks, Ping(t)
      PROVE  TypeOK' /\ CallsFollowAChoice'
  BY <1>1 DEF Ping, Tell, callVars, audioVars
<1>2. ASSUME NEW t \in Tracks, PlayTrack(t)
      PROVE  TypeOK' /\ CallsFollowAChoice'
  <2>1. CASE handle = NoTrack
    BY <1>2, <2>1 DEF PlayTrack, SetCurrent, Tell, NoteHurry, audioVars
  <2>2. CASE handle # NoTrack
    BY <1>2, <2>2 DEF PlayTrack, ClearInterval, Tell, NoteHurry, audioVars
  <2> QED BY <2>1, <2>2
<1>3. ASSUME NEW t \in Tracks, StopSent(t)
      PROVE  TypeOK' /\ CallsFollowAChoice'
  BY <1>3 DEF StopSent, SetCurrent, Tell, audioVars
<1>4. ASSUME NEW t \in Tracks, PlaySucceeds(t)
      PROVE  TypeOK' /\ CallsFollowAChoice'
  BY <1>4 DEF PlaySucceeds, EnsurePingLoop, Tell, pingVars
<1>5. ASSUME NEW t \in Tracks, PlayFails(t)
      PROVE  TypeOK' /\ CallsFollowAChoice'
  BY <1>5 DEF PlayFails, pingVars, audioVars
<1>6. ASSUME ManifestParsed PROVE TypeOK' /\ CallsFollowAChoice'
  BY <1>6 DEF ManifestParsed, callVars, pingVars
<1>7. ASSUME TogglePlay PROVE TypeOK' /\ CallsFollowAChoice'
  <2>1. CASE PauseEvent
    BY <1>7, <2>1 DEF TogglePlay, PauseEvent, HandlePause, ClearInterval, Tell,
                      NoteHurry, callVars, pingVars
  <2>2. CASE EnsurePingLoop(current) /\ paused' = FALSE /\ isPlaying' = TRUE
    BY <1>7, <2>2 DEF TogglePlay, EnsurePingLoop, Tell, NoteHurry, callVars, pingVars
  <2> QED BY <1>7, <2>1, <2>2 DEF TogglePlay
<1>8. ASSUME Ended PROVE TypeOK' /\ CallsFollowAChoice'
  BY <1>8 DEF Ended, PauseEvent, HandlePause, ClearInterval, Tell, callVars, pingVars
<1>9. CASE UNCHANGED vars
  BY <1>9 DEF vars, callVars, pingVars, audioVars
<1> QED BY <1>1, <1>2, <1>3, <1>4, <1>5, <1>6, <1>7, <1>8, <1>9 DEF Next

\* The handle and the intervals, and their end at a pause.
LEMMA IntervalsKept ==
    ASSUME Calm, [Next]_vars
    PROVE  NoIntervalIsLost' /\ PausedIsSilent'
<1> USE NoTrackAssumption DEF Calm, TypeOK, CallsFollowAChoice, MaybeTrack, NoIntervalIsLost, PausedIsSilent
<1>1. ASSUME NEW t \in Tracks, Ping(t) \/ StopSent(t) \/ PlayFails(t)
      PROVE  NoIntervalIsLost' /\ PausedIsSilent'
  BY <1>1 DEF Ping, StopSent, PlayFails, callVars, pingVars, audioVars
<1>2. ASSUME NEW t \in Tracks, PlayTrack(t)
      PROVE  NoIntervalIsLost' /\ PausedIsSilent'
  BY <1>2 DEF PlayTrack, ClearInterval, NoteHurry, audioVars
<1>3. ASSUME NEW t \in Tracks, PlaySucceeds(t)
      PROVE  NoIntervalIsLost' /\ PausedIsSilent'
  BY <1>3 DEF PlaySucceeds, EnsurePingLoop, pingVars
<1>4. ASSUME ManifestParsed PROVE NoIntervalIsLost' /\ PausedIsSilent'
  BY <1>4 DEF ManifestParsed, pingVars
<1>5. ASSUME TogglePlay PROVE NoIntervalIsLost' /\ PausedIsSilent'
  BY <1>5 DEF TogglePlay, PauseEvent, HandlePause, EnsurePingLoop, ClearInterval, pingVars, callVars
<1>6. ASSUME Ended PROVE NoIntervalIsLost' /\ PausedIsSilent'
  BY <1>6 DEF Ended, PauseEvent, HandlePause, ClearInterval, pingVars
<1>7. CASE UNCHANGED vars
  BY <1>7 DEF vars, pingVars, audioVars
<1> QED BY <1>1, <1>2, <1>3, <1>4, <1>5, <1>6, <1>7 DEF Next

THEOREM PlayerCalm == Spec => []Calm
<1>1. Init => Calm
  BY NoTrackAssumption
     DEF Init, Calm, TypeOK, CallsFollowAChoice, MaybeTrack, NoIntervalIsLost, PausedIsSilent
<1>2. Calm /\ [Next]_vars => Calm'
  BY TypesKept, IntervalsKept DEF Calm
<1> QED BY <1>1, <1>2, PTL DEF Spec

-----------------------------------------------------------------------------
\* Every step of a listener who waits, in a world where no call fails.
LEMMA QuietKept ==
    ASSUME Calm, Quiet, [Next]_vars
    PROVE  Quiet'
<1> SUFFICES ASSUME mishaps' = {}
             PROVE  OneCall' /\ Phases' /\ LeftTrackIsStopped'
  BY DEF Quiet
<1> USE NoTrackAssumption
    DEF Calm, TypeOK, MaybeTrack, NoIntervalIsLost, OneCall, Phases, NoCall, LeftTrackIsStopped
<1>0. CASE UNCHANGED vars
  BY <1>0 DEF Quiet, vars, callVars, pingVars, audioVars
<1>1. ASSUME NEW t \in Tracks, Ping(t)
      PROVE  OneCall' /\ Phases' /\ LeftTrackIsStopped'
  BY <1>1 DEF Quiet, Ping, Tell, callVars, audioVars
<1>2. ASSUME NEW t \in Tracks, PlayTrack(t)
      PROVE  OneCall' /\ Phases' /\ LeftTrackIsStopped'
  <2>1. NoCall /\ mishaps = {}
    BY <1>2 DEF PlayTrack, NoteHurry
  <2>2. intervals \subseteq {current} /\ LeftTrackIsStopped
    BY <2>1 DEF Quiet
  <2>3. CASE handle = NoTrack
    BY <1>2, <2>1, <2>2, <2>3 DEF PlayTrack, SetCurrent, Tell
  <2>4. CASE handle # NoTrack
    BY <1>2, <2>1, <2>2, <2>4 DEF PlayTrack, ClearInterval, Tell
  <2> QED BY <2>3, <2>4
<1>3. ASSUME NEW t \in Tracks, StopSent(t)
      PROVE  OneCall' /\ Phases' /\ LeftTrackIsStopped'
  <2>1. intervals = {} /\ OneCall /\ LeftTrackIsStopped
    BY <1>3 DEF StopSent, Quiet
  <2> QED BY <1>3, <2>1 DEF StopSent, SetCurrent, Tell
<1>4. ASSUME NEW t \in Tracks, PlaySucceeds(t)
      PROVE  OneCall' /\ Phases' /\ LeftTrackIsStopped'
  <2>1. intervals = {} /\ current = t /\ OneCall /\ LeftTrackIsStopped
    BY <1>4 DEF PlaySucceeds, Quiet
  <2> QED BY <1>4, <2>1 DEF PlaySucceeds, EnsurePingLoop, Tell, pingVars
<1>5. ASSUME NEW t \in Tracks, PlayFails(t)
      PROVE  OneCall' /\ Phases' /\ LeftTrackIsStopped'
  BY <1>5 DEF PlayFails
<1>6. ASSUME ManifestParsed
      PROVE  OneCall' /\ Phases' /\ LeftTrackIsStopped'
  BY <1>6 DEF Quiet, ManifestParsed, callVars, pingVars
<1>7. ASSUME TogglePlay
      PROVE  OneCall' /\ Phases' /\ LeftTrackIsStopped'
  <2>1. NoCall /\ mishaps = {}
    BY <1>7 DEF TogglePlay, NoteHurry
  <2>2. current = source /\ intervals \subseteq {current} /\ LeftTrackIsStopped
    BY <2>1 DEF Quiet
  <2>3. CASE PauseEvent
    BY <1>7, <2>1, <2>2, <2>3
       DEF TogglePlay, PauseEvent, HandlePause, ClearInterval, Tell, callVars, pingVars
  <2>4. CASE EnsurePingLoop(current)
    BY <1>7, <2>1, <2>2, <2>4 DEF TogglePlay, EnsurePingLoop, Tell, callVars, pingVars
  <2> QED BY <1>7, <2>3, <2>4 DEF TogglePlay
<1>8. ASSUME Ended
      PROVE  OneCall' /\ Phases' /\ LeftTrackIsStopped'
  <2>1. intervals \subseteq {current} /\ OneCall /\ Phases /\ LeftTrackIsStopped
    BY <1>8 DEF Ended, Quiet
  <2> QED
    BY <1>8, <2>1 DEF Ended, PauseEvent, HandlePause, ClearInterval, Tell, callVars, pingVars
<1> QED
  BY <1>0, <1>1, <1>2, <1>3, <1>4, <1>5, <1>6, <1>7, <1>8 DEF Next

THEOREM PlayerQuiet == Spec => []Quiet
<1>1. Init => Quiet
  BY NoTrackAssumption DEF Init, Quiet, OneCall, Phases, NoCall, LeftTrackIsStopped
<1>2. Calm /\ Quiet /\ [Next]_vars => Quiet'
  BY QuietKept
<1> QED BY <1>1, <1>2, PlayerCalm, PTL DEF Spec

-----------------------------------------------------------------------------
\* Every variable of the page keeps its type; nothing is loaded and no
\* interval has a handle before a track was chosen.
THEOREM PlayerTypeCorrect == Spec => []TypeOK
<1>1. Calm => TypeOK
  BY DEF Calm
<1> QED BY <1>1, PlayerCalm, PTL

\* Whichever calls overlap and fail, at most one interval runs and the handle
\* is its own (Home.jsx:110).
THEOREM NoLostInterval == Spec => []NoIntervalIsLost
<1>1. Calm => NoIntervalIsLost
  BY DEF Calm
<1> QED BY <1>1, PlayerCalm, PTL

\* A paused player pings nobody, unless the browser refused to play
\* (Home.jsx:199).
THEOREM PausedSilent == Spec => []PausedIsSilent
<1>1. Calm => PausedIsSilent
  BY DEF Calm
<1> QED BY <1>1, PlayerCalm, PTL

\* For a listener who waits, the track that is pinged is the one that plays
\* (Home.jsx:130).
THEOREM PingsAreOfTheSound == Spec => []PingsMatchSound
<1>1. Quiet => PingsMatchSound
  BY DEF Quiet, Phases, PingsMatchSound
<1> QED BY <1>1, PlayerQuiet, PTL

\* For such a listener, each track that is pinged no more has been stopped.
THEOREM LeftTracksStopped == Spec => []LeftTrackIsStopped
<1>1. Quiet => LeftTrackIsStopped
  BY DEF Quiet, LeftTrackIsStopped
<1> QED BY <1>1, PlayerQuiet, PTL
=============================================================================
