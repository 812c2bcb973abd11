------------------------------- MODULE Player -------------------------------
(***************************************************************************)
(* The player of frontend/src/pages/Home.jsx: the calls of playTrack, cut  *)
(* at their awaits, the one <audio> element, and the interval that pings   *)
(* playback-api while a track plays.  JavaScript runs one handler at a     *)
(* time; handlers interleave at the awaits and at the events of <audio>.   *)
(***************************************************************************)
EXTENDS FiniteSets

CONSTANTS
    Tracks,   \* the tracks the listener may click
    NoTrack   \* not a track

ASSUME NoTrackAssumption == NoTrack \notin Tracks

VARIABLES
    current,    \* currentTrack
    call,       \* playTrack(t): "idle", or the await it is at
    handle,     \* pingInterval.current: the track of the interval, or NoTrack
    intervals,  \* the tracks of the intervals that run
    source,     \* the track <audio> has loaded
    paused,     \* the attribute of <audio>
    parsing,    \* MANIFEST_PARSED is still to come
    isPlaying,  \* what the page shows
    told,       \* the last request sent to /tracking for a track
    mishaps     \* history: what has happened that playTrack does not expect

callVars == <<current, call>>
pingVars == <<handle, intervals, told>>
audioVars == <<source, paused, parsing, isPlaying>>
vars == <<callVars, pingVars, audioVars, mishaps>>

MaybeTrack == Tracks \cup {NoTrack}

TypeOK ==
    /\ current \in MaybeTrack /\ handle \in MaybeTrack /\ source \in MaybeTrack
    /\ call \in [Tracks -> {"idle", "stopping", "fetching"}]
    /\ intervals \subseteq Tracks
    /\ paused \in BOOLEAN /\ parsing \in BOOLEAN /\ isPlaying \in BOOLEAN
    /\ told \in [Tracks -> {"nothing", "ping", "stop"}]
    /\ mishaps \subseteq {"hurry", "failure", "refusal"}
    /\ current = NoTrack => handle = NoTrack /\ source = NoTrack

Init ==
    /\ current = NoTrack /\ handle = NoTrack /\ source = NoTrack
    /\ call = [t \in Tracks |-> "idle"]
    /\ intervals = {}
    /\ paused = TRUE /\ parsing = FALSE /\ isPlaying = FALSE
    /\ told = [t \in Tracks |-> "nothing"]
    /\ mishaps = {}

-----------------------------------------------------------------------------
(* Requests are not waited for, except the stop in playTrack.              *)

Tell(t, request) ==
    told' = IF t \in Tracks THEN [told EXCEPT ![t] = request] ELSE told

\* Mutant: a new interval, whatever the handle says.
StartPingLoop(t) ==
    /\ Tell(t, "ping")
    /\ handle' = t
    /\ intervals' = intervals \cup {t}

EnsurePingLoop(t) ==
    IF handle # NoTrack THEN UNCHANGED pingVars
    ELSE /\ Tell(t, "ping")
         /\ handle' = t
         /\ intervals' = intervals \cup {t}

ClearInterval == intervals' = intervals \ {handle}

\* The interval fires.
Ping(t) ==
    /\ t \in intervals
    /\ Tell(t, "ping")
    /\ UNCHANGED <<callVars, handle, intervals, audioVars, mishaps>>

\* Mutant: the stop is sent and the interval goes on.
HandlePauseStopsOnly ==
    /\ Tell(current, "stop")
    /\ UNCHANGED <<handle, intervals>>

\* Mutant: the interval ends without a stop.
HandlePauseUntold ==
    /\ ClearInterval
    /\ handle' = NoTrack
    /\ UNCHANGED told

HandlePause ==
    IF current = NoTrack \/ handle = NoTrack THEN UNCHANGED pingVars
    ELSE /\ Tell(current, "stop")
         /\ ClearInterval
         /\ handle' = NoTrack

NoCall == \A t \in Tracks : call[t] = "idle"

\* The listener clicks while a call of playTrack runs.
NoteHurry == mishaps' = IF NoCall THEN mishaps ELSE mishaps \cup {"hurry"}

-----------------------------------------------------------------------------
(* playTrack.  A second call for a track whose call still runs is left     *)
(* out: it would do what the first does.                                   *)

\* Mutant: the new track is not remembered.
ForgetCurrent(t) == UNCHANGED current /\ Tell(current, "stop")

\* setCurrentTrack, and the cleanup of the effect that depends on it.
SetCurrent(t) == current' = t /\ Tell(current, "stop")

\* A click on another track: up to the first await.
PlayTrack(t) ==
    /\ call[t] = "idle" /\ t # current
    /\ IF handle = NoTrack
       THEN /\ SetCurrent(t)
            /\ call' = [call EXCEPT ![t] = "fetching"]
            /\ UNCHANGED intervals
       ELSE /\ ClearInterval
            /\ Tell(current, "stop")
            /\ call' = [call EXCEPT ![t] = "stopping"]
            /\ UNCHANGED current
    /\ NoteHurry
    /\ UNCHANGED <<handle, audioVars>>

\* The stop has been answered, or has failed: sendStop tells nobody.
StopSent(t) ==
    /\ call[t] = "stopping"
    /\ SetCurrent(t)
    /\ call' = [call EXCEPT ![t] = "fetching"]
    /\ UNCHANGED <<handle, intervals, audioVars, mishaps>>

\* Mutant: a stream that is there is not destroyed.
PlayKeepsStream(t) ==
    /\ call[t] = "fetching"
    /\ call' = [call EXCEPT ![t] = "idle"]
    /\ source' = (IF source = NoTrack THEN t ELSE source)
    /\ paused' = TRUE /\ parsing' = TRUE
    /\ EnsurePingLoop(t)
    /\ UNCHANGED <<current, isPlaying, mishaps>>

\* GET /play has answered: the old stream is destroyed and the new one loaded,
\* which pauses <audio> without an event.
PlaySucceeds(t) ==
    /\ call[t] = "fetching"
    /\ call' = [call EXCEPT ![t] = "idle"]
    /\ source' = t /\ paused' = TRUE /\ parsing' = TRUE
    /\ EnsurePingLoop(t)
    /\ UNCHANGED <<current, isPlaying, mishaps>>

\* An error is shown; what played before plays on.
PlayFails(t) ==
    /\ call[t] = "fetching"
    /\ call' = [call EXCEPT ![t] = "idle"]
    /\ mishaps' = mishaps \cup {"failure"}
    /\ UNCHANGED <<current, pingVars, audioVars>>

-----------------------------------------------------------------------------
(* <audio>, the external element, and its button.                          *)

\* MANIFEST_PARSED calls play(); the browser may refuse it.
ManifestParsed ==
    /\ parsing
    /\ parsing' = FALSE
    /\ \/ paused' = FALSE /\ isPlaying' = TRUE /\ UNCHANGED mishaps
       \/ mishaps' = mishaps \cup {"refusal"} /\ UNCHANGED <<paused, isPlaying>>
    /\ UNCHANGED <<callVars, pingVars, source>>

\* The event 'pause': of pause(), or at the end of the track.
PauseEvent ==
    /\ ~paused
    /\ paused' = TRUE /\ isPlaying' = FALSE
    /\ HandlePause

\* With no track yet the button plays an empty <audio>: left out.
TogglePlay ==
    /\ current # NoTrack
    /\ \/ isPlaying /\ PauseEvent
       \/ /\ ~isPlaying
          /\ paused' = FALSE /\ isPlaying' = TRUE
          /\ EnsurePingLoop(current)
    /\ NoteHurry
    /\ UNCHANGED <<callVars, source, parsing>>

Ended ==
    /\ source # NoTrack /\ ~parsing
    /\ PauseEvent
    /\ UNCHANGED <<callVars, source, parsing, mishaps>>

Next ==
    \/ \E t \in Tracks :
         Ping(t) \/ PlayTrack(t) \/ StopSent(t) \/ PlaySucceeds(t) \/ PlayFails(t)
    \/ ManifestParsed \/ TogglePlay \/ Ended

Spec == Init /\ [][Next]_vars

-----------------------------------------------------------------------------
\* No interval is lost: whichever calls overlap and fail, at most one runs and
\* the handle is its own, so that a pause or the next track ends it
\* (Home.jsx:110).
NoIntervalIsLost == intervals \subseteq {handle} \ {NoTrack}

\* Nobody is counted as a listener of a paused player (Home.jsx:199 "Stop
\* tracking when audio is paused"), unless the browser refused to play, and
\* but for the time in which a stream that is to play is still being parsed.
PausedIsSilent ==
    paused /\ ~parsing /\ "refusal" \notin mishaps => intervals = {}

\* For a listener who waits for each call, and as long as none fails, what is
\* pinged between the calls is what plays (Home.jsx:130).
PingsMatchSound ==
    mishaps = {} /\ NoCall /\ ~paused => intervals \subseteq {source}

\* Under the same condition, the last that playback-api hears of a track that
\* is pinged no more is its stop: nobody who changes tracks or pauses waits for
\* the timeout to be discounted.
LeftTrackIsStopped ==
    mishaps = {} => \A t \in Tracks : told[t] = "ping" => t \in intervals

\* Home.jsx:169, "Start sending pings for this track": after GET /play has
\* answered, the pings are of this track.
StartedTrackIsPinged ==
    [][\A t \in Tracks : PlaySucceeds(t) /\ mishaps = {} => intervals' = {t}]_vars
=============================================================================
