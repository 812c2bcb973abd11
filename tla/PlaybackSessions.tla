-------------------------- MODULE PlaybackSessions --------------------------
(***************************************************************************)
(* playback-api/main.py: the heartbeats of the listeners, their explicit   *)
(* stops, and the task that polls the sorted set active_sessions for       *)
(* sessions that have expired.  One process serves all three; they         *)
(* interleave at every await.                                              *)
(***************************************************************************)
EXTENDS Naturals, FiniteSets

CONSTANTS
    Sessions,       \* pairs of a listener's session and a track
    Ttl,            \* seconds for which a ping keeps a session, in ticks
    MaxCrashes,     \* bound on the restarts of playback-api
    NoSession,      \* the poller is at no session
    Faults          \* the kinds of fault that may happen

SessionFaultKinds == {
    "send",     \* send_and_wait raises, whether or not the record arrived
    "write",    \* ZADD or ZREM raises, whether or not it took effect
    "range",    \* ZRANGE raises
    "crash" }   \* playback-api stops

ASSUME SessionConstants ==
    /\ Ttl \in Nat \ {0}
    /\ MaxCrashes \in Nat
    /\ NoSession \notin Sessions
    /\ Faults \subseteq SessionFaultKinds

VARIABLES
    client,     \* the player of a session: "here", or "gone" for ever
    left,       \* active_sessions: seconds until the score of a member
    ping,       \* a POST /ping of the session: "idle", "send" or "add"
    stop,       \* a POST /stop of the session: "idle", "send" or "remove"
    poll,       \* poll_expired_sessions: "range", "each", "remove" or "dead"
    batch,      \* expired_sessions the loop has not come to yet
    current,    \* session_str, the one it is at
    playing,    \* sessions whose last event in playback-events is 'playing'
    crashes     \* restarts so far

vars == <<client, left, ping, stop, poll, batch, current, playing, crashes>>
pollVars == <<poll, batch, current>>
handlerVars == <<ping, stop>>

NoEntry == Ttl + 1

TypeOK ==
    /\ client \in [Sessions -> {"here", "gone"}]
    /\ left \in [Sessions -> 0 .. NoEntry]
    /\ ping \in [Sessions -> {"idle", "send", "add"}]
    /\ stop \in [Sessions -> {"idle", "send", "remove"}]
    /\ poll \in {"range", "each", "remove", "dead"}
    /\ batch \subseteq Sessions
    /\ current \in Sessions \cup {NoSession}
    /\ current # NoSession <=> poll = "remove"
    /\ poll = "each" => batch # {}
    /\ poll \in {"range", "dead"} => batch = {}
    /\ playing \subseteq Sessions
    /\ crashes \in 0 .. MaxCrashes

HasEntry(s) == left[s] # NoEntry
Expired(s) == left[s] = 0

Init ==
    /\ client = [s \in Sessions |-> "here"]
    /\ left = [s \in Sessions |-> NoEntry]
    /\ ping = [s \in Sessions |-> "idle"]
    /\ stop = [s \in Sessions |-> "idle"]
    /\ poll = "range"
    /\ batch = {}
    /\ current = NoSession
    /\ playing = {}
    /\ crashes = 0

-----------------------------------------------------------------------------
(* The listener and the clock.  A listener who is here plays, pauses and   *)
(* plays on at will: pings come and stay away.                             *)

\* The player does not wait for the answer to a ping, so that a stop may
\* overtake it; at most one request of each kind is on its way.
RequestPing(s) ==
    /\ client[s] = "here"
    /\ ping[s] = "idle"
    /\ ping' = [ping EXCEPT ![s] = "send"]
    /\ UNCHANGED <<client, left, stop, pollVars, playing, crashes>>

\* Pause or another track, or the tab closes and beforeunload gets through.
RequestStop(s) ==
    /\ client[s] = "here"
    /\ stop[s] = "idle"
    /\ \E c \in {"here", "gone"} : client' = [client EXCEPT ![s] = c]
    /\ stop' = [stop EXCEPT ![s] = "send"]
    /\ UNCHANGED <<left, ping, pollVars, playing, crashes>>

\* The listener goes away without a word.
Vanish(s) ==
    /\ client[s] = "here"
    /\ client' = [client EXCEPT ![s] = "gone"]
    /\ UNCHANGED <<left, handlerVars, pollVars, playing, crashes>>

Tick ==
    /\ left' = [s \in Sessions |-> IF left[s] \in 1 .. Ttl THEN left[s] - 1 ELSE left[s]]
    /\ UNCHANGED <<client, handlerVars, pollVars, playing, crashes>>

-----------------------------------------------------------------------------
(* Calls to Kafka and Redis.  One that raises may have taken effect.       *)

Publish(s, event) ==
    playing' = IF event = "playing" THEN playing \cup {s} ELSE playing \ {s}
PublishRaises(s, event) ==
    "send" \in Faults /\ (Publish(s, event) \/ UNCHANGED playing)

SetEntry(s, l) == left' = [left EXCEPT ![s] = l]
WriteRaises(s, l) == "write" \in Faults /\ (SetEntry(s, l) \/ UNCHANGED left)

-----------------------------------------------------------------------------
(* POST /ping: publish 'playing', then ZADD the session.                   *)

PingSends(s) ==
    /\ ping[s] = "send"
    /\ \/ /\ Publish(s, "playing")
          /\ ping' = [ping EXCEPT ![s] = "add"]
       \/ /\ PublishRaises(s, "playing")
          /\ ping' = [ping EXCEPT ![s] = "idle"]
    /\ UNCHANGED <<client, left, stop, pollVars, crashes>>

PingAdds(s) ==
    /\ ping[s] = "add"
    /\ SetEntry(s, Ttl) \/ WriteRaises(s, Ttl)
    /\ ping' = [ping EXCEPT ![s] = "idle"]
    /\ UNCHANGED <<client, stop, pollVars, playing, crashes>>

(* POST /stop: publish 'stopped', then ZREM the session.                   *)

\* Mutant: the session is removed although the event was not published.
StopGoesOn(s) ==
    /\ stop[s] = "send"
    /\ Publish(s, "stopped") \/ PublishRaises(s, "stopped")
    /\ stop' = [stop EXCEPT ![s] = "remove"]
    /\ UNCHANGED <<client, left, ping, pollVars, crashes>>

StopSends(s) ==
    /\ stop[s] = "send"
    /\ \/ /\ Publish(s, "stopped")
          /\ stop' = [stop EXCEPT ![s] = "remove"]
       \/ /\ PublishRaises(s, "stopped")
          /\ stop' = [stop EXCEPT ![s] = "idle"]
    /\ UNCHANGED <<client, left, ping, pollVars, crashes>>

StopRemoves(s) ==
    /\ stop[s] = "remove"
    /\ SetEntry(s, NoEntry) \/ WriteRaises(s, NoEntry)
    /\ stop' = [stop EXCEPT ![s] = "idle"]
    /\ UNCHANGED <<client, ping, pollVars, playing, crashes>>

Handler(s) == PingSends(s) \/ PingAdds(s) \/ StopSends(s) \/ StopRemoves(s)

-----------------------------------------------------------------------------
(* poll_expired_sessions                                                   *)

\* Mutant: the loop over an empty list does not come to its sleep.
PollRangeWaits ==
    /\ poll = "range"
    /\ batch' = {s \in Sessions : Expired(s)}
    /\ poll' = "each"
    /\ UNCHANGED <<client, left, handlerVars, current, playing, crashes>>

\* ZRANGE active_sessions 0 now BYSCORE, at the start and after each sleep.
PollRange ==
    /\ poll = "range"
    /\ batch' = {s \in Sessions : Expired(s)}
    /\ poll' = IF batch' = {} THEN "range" ELSE "each"
    /\ UNCHANGED <<client, left, handlerVars, current, playing, crashes>>

\* An error of ZRANGE leaves the loop: the outer handler logs and returns.
PollRangeRaises ==
    /\ poll = "range"
    /\ "range" \in Faults
    /\ poll' = "dead"
    /\ UNCHANGED <<client, left, handlerVars, batch, current, playing, crashes>>

\* The next turn of the loop over expired_sessions, or the sleep after it.
PollNext(s) ==
    /\ batch' = batch \ {s}
    /\ current' = NoSession
    /\ poll' = IF batch' = {} THEN "range" ELSE "each"

PollSends(s) ==
    /\ poll = "each"
    /\ s \in batch
    /\ Publish(s, "stopped_by_timeout")
    /\ poll' = "remove"
    /\ current' = s
    /\ batch' = batch \ {s}
    /\ UNCHANGED <<client, left, handlerVars, crashes>>

\* Mutant: the removal does not depend on the report.
PollSendRaisesAndRemoves(s) ==
    /\ poll = "each"
    /\ s \in batch
    /\ PublishRaises(s, "stopped_by_timeout")
    /\ poll' = "remove"
    /\ current' = s
    /\ batch' = batch \ {s}
    /\ UNCHANGED <<client, left, handlerVars, crashes>>

\* The removal is skipped: the session is in the set for the next poll.
PollSendRaises(s) ==
    /\ poll = "each"
    /\ s \in batch
    /\ PublishRaises(s, "stopped_by_timeout")
    /\ PollNext(s)
    /\ UNCHANGED <<client, left, handlerVars, crashes>>

\* Mutant: the session is reported and kept.
PollReportsOnly(s) ==
    /\ poll = "remove"
    /\ s = current
    /\ PollNext(s)
    /\ UNCHANGED <<client, left, handlerVars, playing, crashes>>

PollRemoves(s) ==
    /\ poll = "remove"
    /\ s = current
    /\ SetEntry(s, NoEntry)
    /\ PollNext(s)
    /\ UNCHANGED <<client, handlerVars, playing, crashes>>

PollRemoveRaises(s) ==
    /\ poll = "remove"
    /\ s = current
    /\ WriteRaises(s, NoEntry)
    /\ PollNext(s)
    /\ UNCHANGED <<client, handlerVars, playing, crashes>>

\* One turn of the loop. Its branch for an entry that is no JSON (main.py:121)
\* is left out: /ping is the only writer and writes json.dumps of a dict.
PollEach ==
    \E s \in Sessions :
        PollSends(s) \/ PollSendRaises(s) \/ PollRemoves(s) \/ PollRemoveRaises(s)

Poller == PollRange \/ PollRangeRaises \/ PollEach

\* The process stops and is started again: requests on their way are lost,
\* the lifespan starts a new task; the sorted set is kept by Redis.
Restart ==
    /\ "crash" \in Faults
    /\ crashes < MaxCrashes
    /\ crashes' = crashes + 1
    /\ ping' = [s \in Sessions |-> "idle"]
    /\ stop' = [s \in Sessions |-> "idle"]
    /\ poll' = "range"
    /\ batch' = {}
    /\ current' = NoSession
    /\ UNCHANGED <<client, left, playing>>

Listener(s) == RequestPing(s) \/ RequestStop(s) \/ Vanish(s)

Next ==
    \/ \E s \in Sessions : Listener(s) \/ Handler(s)
    \/ Poller
    \/ Tick
    \/ Restart

Spec == Init /\ [][Next]_vars

\* Time passes, requests and the task go on, and a call that the task makes
\* again and again succeeds at some time.  Listeners owe nothing.
Fairness ==
    /\ WF_vars(Tick)
    /\ WF_vars(PollRange)
    /\ WF_vars(PollEach)
    /\ \A s \in Sessions :
          /\ WF_vars(Handler(s))
          /\ SF_vars(PollSends(s))
          /\ SF_vars(PollRemoves(s))

FairSpec == Spec /\ Fairness

-----------------------------------------------------------------------------
\* A listener who has gone leaves no session behind, whatever ping, stop,
\* failed call or restart is under way: as long as the task is alive again and
\* again, it finds the session in the sorted set and removes it for good.
LeaverIsForgotten ==
    []<>(poll # "dead") =>
        \A s \in Sessions : client[s] = "gone" ~> [](~HasEntry(s))

\* The session of a listener who has gone, with no ping on its way, is in the
\* sorted set and nobody is about to take it out.
Abandoned(s) ==
    /\ client[s] = "gone" /\ ping[s] = "idle"
    /\ HasEntry(s)
    /\ current # s /\ stop[s] # "remove"

\* An abandoned session is reported as stopped, whichever publish or removal
\* fails and whenever the service stops, as long as the task is alive again
\* and again (main.py:75, 98).
LeaverIsReported ==
    []<>(poll # "dead") =>
        \A s \in Sessions : Abandoned(s) ~> s \notin playing

\* Nobody takes an abandoned session out of the sorted set before the topic
\* has the end of it: a report that fails, in the task or in POST /stop, and a
\* restart leave it there for the next poll.
UnreportedIsKept ==
    [][\A s \in Sessions :
         Abandoned(s) /\ s \in playing => Abandoned(s)' \/ s \notin playing']_vars

\* An expired session does not stay: it is removed, or a ping renews it
\* (main.py:75 "guarantees session expiration processing", main.py:98 "ZSET
\* guarantees that expired sessions are processed even if the Playback API
\* restarts").
ExpiredIsProcessed ==
    \A s \in Sessions : Expired(s) ~> ~Expired(s)
=============================================================================
