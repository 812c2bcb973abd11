----------------------- MODULE PlaybackSessionsProofs -----------------------
(***************************************************************************)
(* Theorems of PlaybackSessions, for any set of sessions, any time to live *)
(* and any set of faults.                                                  *)
(***************************************************************************)
EXTENDS PlaybackSessions, TLAPS

\* TypeOK without the poller's place in its batch.
RecordsOK ==
    /\ client \in [Sessions -> {"here", "gone"}]
    /\ left \in [Sessions -> 0 .. NoEntry]
    /\ ping \in [Sessions -> {"idle", "send", "add"}]
    /\ stop \in [Sessions -> {"idle", "send", "remove"}]
    /\ playing \subseteq Sessions
    /\ crashes \in 0 .. MaxCrashes

\* The batch, the session at hand and the step of the poller go together: it
\* waits with an empty batch, comes to a turn only with a session left, and
\* has one in hand exactly between the publish and the removal.
PollerOK ==
    /\ poll \in {"range", "each", "remove", "dead"}
    /\ batch \subseteq Sessions
    /\ current \in Sessions \cup {NoSession}
    /\ current # NoSession <=> poll = "remove"
    /\ poll = "each" => batch # {}
    /\ poll \in {"range", "dead"} => batch = {}

LEMMA SetEntryType ==
  ASSUME RecordsOK, NEW s \in Sessions, NEW l \in {Ttl, NoEntry},
         SetEntry(s, l) \/ WriteRaises(s, l)
  PROVE  left' \in [Sessions -> 0 .. NoEntry]
BY SessionConstants DEF RecordsOK, SetEntry, WriteRaises, NoEntry

LEMMA PublishType ==
  ASSUME RecordsOK, NEW s \in Sessions, NEW event,
         Publish(s, event) \/ PublishRaises(s, event)
  PROVE  playing' \subseteq Sessions
BY DEF RecordsOK, Publish, PublishRaises

\* The type invariant of the sessions, with the shape of the poller's loop.
THEOREM SessionsTypeCorrect == Spec => []TypeOK
<1>1. TypeOK <=> RecordsOK /\ PollerOK
  BY DEF TypeOK, RecordsOK, PollerOK
<1>2. Init => RecordsOK /\ PollerOK
  BY SessionConstants DEF Init, RecordsOK, PollerOK, NoEntry
<1>3. RecordsOK /\ PollerOK /\ [Next]_vars => RecordsOK' /\ PollerOK'
  <2> SUFFICES ASSUME RecordsOK, PollerOK, [Next]_vars PROVE RecordsOK' /\ PollerOK'
    OBVIOUS
  <2>a. ASSUME UNCHANGED pollVars PROVE PollerOK'
    BY <2>a DEF PollerOK, pollVars
  <2>1. ASSUME NEW s \in Sessions, Listener(s) PROVE RecordsOK' /\ PollerOK'
    <3>1. UNCHANGED <<left, playing, crashes>> /\ UNCHANGED pollVars
      BY <2>1 DEF Listener, RequestPing, RequestStop, Vanish
    <3>2. RecordsOK'
      BY <2>1, <3>1 DEF RecordsOK, Listener, RequestPing, RequestStop, Vanish, handlerVars
    <3> QED BY <2>a, <3>1, <3>2
  <2>2. ASSUME NEW s \in Sessions, Handler(s) PROVE RecordsOK' /\ PollerOK'
    <3>1. UNCHANGED <<client, crashes>> /\ UNCHANGED pollVars
      BY <2>2 DEF Handler, PingSends, PingAdds, StopSends, StopRemoves
    <3>2. left' \in [Sessions -> 0 .. NoEntry]
      BY <2>2, SetEntryType DEF Handler, PingSends, PingAdds, StopSends, StopRemoves, RecordsOK
    <3>3. playing' \subseteq Sessions
      BY <2>2, PublishType DEF Handler, PingSends, PingAdds, StopSends, StopRemoves, RecordsOK
    <3>4. /\ ping' \in [Sessions -> {"idle", "send", "add"}]
          /\ stop' \in [Sessions -> {"idle", "send", "remove"}]
      BY <2>2 DEF Handler, PingSends, PingAdds, StopSends, StopRemoves, RecordsOK
    <3> QED BY <2>a, <3>1, <3>2, <3>3, <3>4 DEF RecordsOK
  <2>3. CASE PollRange
    BY <2>3 DEF PollRange, RecordsOK, PollerOK, handlerVars
  <2>4. CASE PollRangeRaises
    BY <2>4 DEF PollRangeRaises, RecordsOK, PollerOK, handlerVars
  <2>5. ASSUME NEW s \in Sessions, PollSends(s) PROVE RecordsOK' /\ PollerOK'
    <3>1. playing' \subseteq Sessions
      BY <2>5, PublishType DEF PollSends
    <3> QED BY <2>5, <3>1, SessionConstants DEF PollSends, RecordsOK, PollerOK, handlerVars
  <2>6. ASSUME NEW s \in Sessions, PollSendRaises(s) PROVE RecordsOK' /\ PollerOK'
    <3>1. playing' \subseteq Sessions
      BY <2>6, PublishType DEF PollSendRaises
    <3> QED BY <2>6, <3>1 DEF PollSendRaises, PollNext, RecordsOK, PollerOK, handlerVars
  <2>7. ASSUME NEW s \in Sessions, PollRemoves(s) \/ PollRemoveRaises(s)
        PROVE  RecordsOK' /\ PollerOK'
    <3>1. left' \in [Sessions -> 0 .. NoEntry]
      BY <2>7, SetEntryType DEF PollRemoves, PollRemoveRaises
    <3> QED BY <2>7, <3>1 DEF PollRemoves, PollRemoveRaises, PollNext, RecordsOK, PollerOK, handlerVars
  <2>8. CASE Tick
    BY <2>8, SessionConstants DEF Tick, RecordsOK, PollerOK, NoEntry, handlerVars, pollVars
  <2>9. CASE Restart
    BY <2>9, SessionConstants DEF Restart, RecordsOK, PollerOK
  <2>10. CASE UNCHANGED vars
    BY <2>10 DEF vars, RecordsOK, PollerOK
  <2> QED BY <2>1, <2>2, <2>3, <2>4, <2>5, <2>6, <2>7, <2>8, <2>9, <2>10 DEF Next, Poller, PollEach
<1> QED BY <1>1, <1>2, <1>3, PTL DEF Spec

\* No step takes the session of a listener who has gone out of the sorted set
\* while the topic still says that it plays, unless a removal was already under
\* way: whatever fails in the task or in POST /stop, and at any restart.
THEOREM UnreportedStays == Spec => UnreportedIsKept
<1> DEFINE Kept == \A s \in Sessions :
              Abandoned(s) /\ s \in playing => Abandoned(s)' \/ s \notin playing'
<1>1. TypeOK /\ [Next]_vars => Kept
  <2> SUFFICES ASSUME TypeOK, [Next]_vars, NEW s \in Sessions,
                      Abandoned(s), s \in playing, s \in playing'
               PROVE  Abandoned(s)'
    OBVIOUS
  <2>a. /\ client \in [Sessions -> {"here", "gone"}]
        /\ left \in [Sessions -> 0 .. NoEntry]
        /\ ping \in [Sessions -> {"idle", "send", "add"}]
        /\ stop \in [Sessions -> {"idle", "send", "remove"}]
        /\ client[s] = "gone" /\ ping[s] = "idle" /\ left[s] # NoEntry
        /\ current # s /\ stop[s] # "remove"
    BY DEF TypeOK, Abandoned, HasEntry
  <2> DEFINE Stays == /\ client'[s] = "gone" /\ ping'[s] = "idle" /\ left'[s] # NoEntry
                      /\ current' # s /\ stop'[s] # "remove"
  <2> SUFFICES Stays
    BY DEF Abandoned, HasEntry, NoEntry
  <2>1. ASSUME NEW r \in Sessions, Listener(r) PROVE Stays
    BY <2>a, <2>1 DEF Listener, RequestPing, RequestStop, Vanish, handlerVars, pollVars
  <2>2. ASSUME NEW r \in Sessions, PingSends(r) \/ PingAdds(r) PROVE Stays
    <3>1. r # s
      BY <2>a, <2>2 DEF PingSends, PingAdds
    <3> QED BY <2>a, <2>2, <3>1 DEF PingSends, PingAdds, SetEntry, WriteRaises, pollVars
  \* /stop comes to its removal only once it has published the end.
  <2>3. ASSUME NEW r \in Sessions, StopSends(r) PROVE Stays
    <3>1. CASE r = s /\ Publish(r, "stopped")
      BY <3>1 DEF Publish
    <3>2. CASE ~(r = s /\ Publish(r, "stopped"))
      BY <2>a, <2>3, <3>2 DEF StopSends, pollVars
    <3> QED BY <3>1, <3>2
  <2>4. ASSUME NEW r \in Sessions, StopRemoves(r) PROVE Stays
    <3>1. r # s
      BY <2>a, <2>4 DEF StopRemoves
    <3> QED BY <2>a, <2>4, <3>1 DEF StopRemoves, SetEntry, WriteRaises, pollVars
  \* The task has a session in hand only once it has published its end.
  <2>5. ASSUME NEW r \in Sessions, PollSends(r) PROVE Stays
    <3>1. r # s
      BY <2>5 DEF PollSends, Publish
    <3> QED BY <2>a, <2>5, <3>1 DEF PollSends, handlerVars
  <2>6. ASSUME NEW r \in Sessions, PollSendRaises(r) PROVE Stays
    <3>1. s # NoSession
      BY SessionConstants
    <3> QED BY <2>a, <2>6, <3>1 DEF PollSendRaises, PollNext, handlerVars
  <2>7. ASSUME NEW r \in Sessions, PollRemoves(r) \/ PollRemoveRaises(r) PROVE Stays
    <3>1. r # s /\ s # NoSession
      BY <2>a, <2>7, SessionConstants DEF PollRemoves, PollRemoveRaises
    <3> QED BY <2>a, <2>7, <3>1 DEF PollRemoves, PollRemoveRaises, PollNext, SetEntry, WriteRaises, handlerVars
  <2>8. CASE PollRange \/ PollRangeRaises \/ UNCHANGED vars
    BY <2>a, <2>8 DEF PollRange, PollRangeRaises, vars, handlerVars
  <2>9. CASE Restart
    BY <2>a, <2>9, SessionConstants DEF Restart
  <2>10. CASE Tick
    <3>1. Ttl \in Nat /\ NoEntry = Ttl + 1
      BY SessionConstants DEF NoEntry
    <3> QED BY <2>a, <2>10, <3>1 DEF Tick, handlerVars, pollVars
  <2> QED BY <2>1, <2>2, <2>3, <2>4, <2>5, <2>6, <2>7, <2>8, <2>9, <2>10 DEF Next, Handler, Poller, PollEach
<1>2. TypeOK /\ [Next]_vars => [Kept]_vars
  BY <1>1
<1> QED BY <1>2, SessionsTypeCorrect, PTL DEF Spec, UnreportedIsKept
=============================================================================
