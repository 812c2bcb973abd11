-------------------------- MODULE StatisticsProofs --------------------------
(***************************************************************************)
(* Theorems of Statistics, for any tracks, listeners, partitions, events,  *)
(* windows and bounds.                                                     *)
(***************************************************************************)
EXTENDS Statistics, FiniteSetTheorems, TLAPS

-----------------------------------------------------------------------------
(* Type correctness, one lemma for each group of variables.                *)

LEMMA ConsumerType == Init => ConsumerTypeOK
<1> SUFFICES ASSUME Init PROVE ConsumerTypeOK
  OBVIOUS
<1>1. <<>> \in Seq(Event) /\ Len(<<>>) = 0
  OBVIOUS
<1>2. MaxRestarts \in Nat
  BY StatisticsConstants
<1> QED BY <1>1, <1>2 DEF Init, ConsumerTypeOK, NoOffset, Counting, Placing

LEMMA ConsumerTypeStep == ConsumerTypeOK /\ [Next]_vars => ConsumerTypeOK'
<1> SUFFICES ASSUME ConsumerTypeOK, [Next]_vars PROVE ConsumerTypeOK'
  OBVIOUS
<1> USE StatisticsConstants DEF ConsumerTypeOK, Counting, Placing, NoOffset, Restarts, taskVars
<1>0. \A e \in Event : e # NoEvent
  BY DEF Event, NoEvent
<1>1. ASSUME NEW p \in Partitions, NEW e \in Events, Publish(p, e) PROVE ConsumerTypeOK'
  <2>1. e \in Event
    OBVIOUS
  <2>2. topic' \in [Partitions -> Seq(Event)]
    BY <1>1, <2>1 DEF Publish
  <2>3. \A q \in Partitions : Len(topic'[q]) \in Nat /\ Len(topic[q]) <= Len(topic'[q])
    BY <1>1, <2>1 DEF Publish
  <2>4. \A q \in Partitions : /\ Len(topic[q]) \in Nat /\ position[q] \in Int /\ committed[q] \in Int
                              /\ position[q] <= Len(topic[q]) /\ committed[q] <= Len(topic[q])
    OBVIOUS
  <2>5. /\ position' = position /\ committed' = committed /\ consumer' = consumer
        /\ event' = event /\ restarts' = restarts
    BY <1>1 DEF Publish, consumerVars
  <2>6. \A q \in Partitions : position'[q] <= Len(topic'[q]) /\ committed'[q] <= Len(topic'[q])
    <3> HIDE DEF ConsumerTypeOK
    <3> QED BY <2>3, <2>4, <2>5
  <2> QED BY <2>2, <2>5, <2>6
<1>2. CASE ConsumerStarts
  BY <1>2 DEF ConsumerStarts, topicVars
<1>3. CASE AutoCommit
  BY <1>3 DEF AutoCommit, consumerVars
<1>4. CASE ConsumerFails
  BY <1>4 DEF ConsumerFails
<1>5. ASSUME NEW p \in Partitions, TakeEvent(p) PROVE ConsumerTypeOK'
  <2> DEFINE e == topic[p][position[p] + 1]
  <2>1. e \in Event
    BY <1>5 DEF TakeEvent
  <2>2. consumer' = FirstCall(e) /\ event' = IF FirstCall(e) = "poll" THEN NoEvent ELSE e
    BY <1>5 DEF TakeEvent
  <2>3. FirstCall(e) \in {"poll", "count", "online", "offline"}
    BY DEF FirstCall
  <2>4. FirstCall(e) \in {"online", "offline"} => e.listener \in Listeners
    BY <2>1 DEF FirstCall, Event
  <2>5. position' \in [Partitions -> Nat] /\ \A q \in Partitions : position'[q] <= Len(topic[q])
    BY <1>5 DEF TakeEvent
  <2> HIDE DEF e
  <2> QED BY <1>0, <1>5, <2>1, <2>2, <2>3, <2>4, <2>5 DEF TakeEvent, topicVars
<1>6. CASE CountPlay
  BY <1>6 DEF CountPlay, Goes, EventDone, topicVars
<1>7. CASE CountDelta
  BY <1>7 DEF CountDelta, EventDone, topicVars
<1>8. CASE PutOnline \/ TrimOnline \/ PutTop24 \/ TrimTop24 \/ DropOnline
  BY <1>8 DEF PutOnline, TrimOnline, PutTop24, TrimTop24, DropOnline, Call, Goes, EventDone, topicVars
<1>9. CASE Flush
  BY <1>9 DEF Flush, FlushReads, FlushStores, FlushStoreRaises, FlushLists, FlushDeletes,
              FlushClearRaises, FlushFrame, topicVars, consumerVars
<1>10. CASE Stats
  BY <1>10 DEF Stats, StatsReads, StatsTrimsOnline, StatsTrimsTop24, StatsFrame, topicVars, consumerVars
<1>11. CASE Crash
  BY <1>11 DEF Crash, topicVars
<1>12. CASE Tick
  BY <1>12 DEF Tick, topicVars, consumerVars
<1>13. CASE UNCHANGED vars
  BY <1>13 DEF vars, topicVars, consumerVars
<1> QED BY <1>1, <1>2, <1>3, <1>4, <1>5, <1>6, <1>7, <1>8, <1>9, <1>10, <1>11, <1>12, <1>13
        DEF Next, Consumer

LEMMA PlayTypeStep == ConsumerTypeOK /\ PlayTypeOK /\ [Next]_vars => PlayTypeOK'
<1> SUFFICES ASSUME ConsumerTypeOK, PlayTypeOK, [Next]_vars PROVE PlayTypeOK'
  OBVIOUS
<1> USE DEF PlayTypeOK, taskVars
<1>1. consumer \in Counting => event.track \in Tracks
  BY DEF ConsumerTypeOK, Counting, Event
<1>2. CASE CountPlay
  BY <1>1, <1>2 DEF CountPlay, Increment, Counting, flushVars
<1>3. CASE CountDelta
  BY <1>1, <1>3 DEF CountDelta, Increment, Counting, flushVars
<1>4. CASE Flush
  BY <1>4 DEF Flush, FlushReads, FlushStores, FlushStoreRaises, FlushLists, FlushDeletes,
              FlushClearRaises, FlushFrame, FlushEnds, AddData, DeleteFields, Nothing
<1>5. CASE Crash
  BY <1>5 DEF Crash, FlushEnds, Nothing, playVars
<1>6. CASE UNCHANGED <<playVars, flushVars>>
  BY <1>6 DEF playVars, flushVars
<1>7. ASSUME \/ \E p \in Partitions, e \in Events : Publish(p, e)
             \/ \E p \in Partitions : TakeEvent(p)
             \/ ConsumerStarts \/ AutoCommit \/ ConsumerFails
             \/ PutOnline \/ TrimOnline \/ PutTop24 \/ TrimTop24 \/ DropOnline
             \/ Stats \/ Tick \/ UNCHANGED vars
      PROVE  UNCHANGED <<playVars, flushVars>>
  BY <1>7 DEF Publish, ConsumerStarts, AutoCommit, ConsumerFails, TakeEvent, PutOnline, TrimOnline,
         PutTop24, TrimTop24, DropOnline, Call, Stats, StatsReads, StatsTrimsOnline,
         StatsTrimsTop24, StatsFrame, Tick, vars
<1> QED BY <1>2, <1>3, <1>4, <1>5, <1>6, <1>7 DEF Next, Consumer

LEMMA PresenceTypeStep == ConsumerTypeOK /\ PresenceTypeOK /\ [Next]_vars => PresenceTypeOK'
<1> SUFFICES ASSUME ConsumerTypeOK, PresenceTypeOK, [Next]_vars PROVE PresenceTypeOK'
  OBVIOUS
<1> DEFINE Ages == [Tracks -> [Listeners -> 0 .. Absent]]
<1> USE DEF PresenceTypeOK, taskVars
<1>1. consumer \in Placing => event.track \in Tracks /\ event.listener \in Listeners
  BY DEF ConsumerTypeOK, Placing, Event, NoEvent
<1>2. ASSUME NEW z \in Ages, NEW t \in Tracks, NEW s \in Listeners
      PROVE  Put(z, t, s) \in Ages /\ Drop(z, t, s) \in Ages
  BY StatisticsConstants DEF Put, Drop, Absent
<1>3. ASSUME NEW z \in Ages, NEW t \in Tracks, NEW a \in Nat PROVE Trim(z, t, a) \in Ages
  BY StatisticsConstants DEF Trim, Absent
<1>4. ASSUME NEW z \in Ages PROVE Older(z) \in Ages
  BY StatisticsConstants DEF Older, Absent
<1>5. online \in Ages /\ top24 \in Ages /\ Window \in Nat /\ Day \in Nat
  BY StatisticsConstants
<1> HIDE DEF Ages
<1>6. CASE PutOnline \/ TrimOnline \/ PutTop24 \/ TrimTop24 \/ DropOnline
  <2>1. event.track \in Tracks /\ event.listener \in Listeners
    BY <1>1, <1>6 DEF PutOnline, TrimOnline, PutTop24, TrimTop24, DropOnline, Call, Placing
  <2>2. online' \in Ages /\ top24' \in Ages /\ UNCHANGED statsVars
    BY <1>2, <1>3, <1>5, <1>6, <2>1
       DEF PutOnline, TrimOnline, PutTop24, TrimTop24, DropOnline, Call, SetOnline, SetTop24,
           presenceVars
  <2> QED BY <2>2 DEF statsVars, Ages
<1>7. CASE Stats
  <2>1. online' \in Ages /\ top24' \in Ages
    <3>1. ASSUME NEW t \in Tracks, StatsTrimsOnline(t) \/ StatsTrimsTop24(t)
          PROVE  online' \in Ages /\ top24' \in Ages
      BY <1>3, <1>5, <3>1 DEF StatsTrimsOnline, StatsTrimsTop24, SetOnline, SetTop24, presenceVars
    <3> QED BY <1>5, <1>7, <3>1 DEF Stats, StatsReads, presenceVars
  <2>2. asked' \subseteq Tracks /\ trimmed' \in Tracks \cup {NoTrack}
    BY <1>7 DEF Stats, StatsReads, StatsTrimsOnline, StatsTrimsTop24, StatsFails
  <2> QED BY <2>1, <2>2 DEF Ages
<1>8. CASE Tick
  <2>1. online' \in Ages /\ top24' \in Ages
    BY <1>4, <1>5, <1>8 DEF Tick
  <2> QED BY <1>8, <2>1 DEF Tick, statsVars, Ages
<1>9. CASE Crash
  BY <1>9 DEF Crash, presenceVars
<1>10. CASE UNCHANGED <<presenceVars, statsVars>>
  BY <1>10 DEF presenceVars, statsVars
<1>11. ASSUME \/ \E p \in Partitions, e \in Events : Publish(p, e)
              \/ \E p \in Partitions : TakeEvent(p)
              \/ ConsumerStarts \/ AutoCommit \/ ConsumerFails
              \/ CountPlay \/ CountDelta \/ UNCHANGED vars
       PROVE  UNCHANGED <<presenceVars, statsVars>>
  BY <1>11 DEF Publish, ConsumerStarts, AutoCommit, ConsumerFails, TakeEvent, CountPlay,
               CountDelta, vars
<1>12. Flush => UNCHANGED <<presenceVars, statsVars>>
  BY DEF Flush, FlushReads, FlushStores, FlushStoreRaises, FlushLists, FlushDeletes,
         FlushClearRaises, FlushFrame
<1> HIDE DEF PresenceTypeOK
<1> QED BY <1>6, <1>7, <1>8, <1>9, <1>10, <1>11, <1>12 DEF Next, Consumer

\* Every variable keeps its type: the consumer is at an event exactly while
\* it processes one, that event names a listener wherever one is placed, and
\* no offset passes the end of its partition.
THEOREM StatisticsTypeCorrect == Spec => []TypeOK
<1>1. Init => TypeOK
  BY ConsumerType, StatisticsConstants
     DEF TypeOK, PlayTypeOK, PresenceTypeOK, Init, Nothing, NoneOnline, Absent
<1>2. TypeOK /\ [Next]_vars => TypeOK'
  BY ConsumerTypeStep, PlayTypeStep, PresenceTypeStep DEF TypeOK
<1> QED BY <1>1, <1>2, PTL DEF Spec

-----------------------------------------------------------------------------
(* The counts of plays.                                                    *)

\* While a flush is under way Redis holds at least what it read, and the
\* fields it deletes include all those it read.
DataInv ==
    \A t \in Tracks :
        /\ data[t] <= delta[t]
        /\ flush = "delete" /\ data[t] > 0 => t \in hashes

\* The steps that touch the counts, and the others.
LEMMA PlaySteps ==
  ASSUME [Next]_vars
  PROVE  \/ CountPlay \/ CountDelta \/ Flush \/ Crash
         \/ /\ UNCHANGED <<playVars, flushVars>>
            /\ consumer' = "delta" => consumer = "delta" /\ event' = event
<1> USE DEF taskVars
<1>1. ASSUME \/ \E p \in Partitions, e \in Events : Publish(p, e)
             \/ AutoCommit \/ Stats \/ Tick \/ UNCHANGED vars
      PROVE  UNCHANGED <<playVars, flushVars>> /\ consumer' = consumer /\ event' = event
  BY <1>1 DEF Publish, AutoCommit, Stats, StatsReads, StatsTrimsOnline, StatsTrimsTop24,
              StatsFrame, Tick, vars, consumerVars
<1>2. ASSUME NEW p \in Partitions, TakeEvent(p)
      PROVE  UNCHANGED <<playVars, flushVars>> /\ consumer' # "delta"
  <2>1. \A e : FirstCall(e) \in {"poll", "count", "online", "offline"}
    BY DEF FirstCall
  <2> QED BY <1>2, <2>1 DEF TakeEvent
<1>3. ASSUME ConsumerStarts \/ ConsumerFails
      PROVE  UNCHANGED <<playVars, flushVars>> /\ consumer' # "delta"
  BY <1>3 DEF ConsumerStarts, ConsumerFails
<1>4. ASSUME PutOnline \/ TrimOnline \/ PutTop24 \/ TrimTop24 \/ DropOnline
      PROVE  UNCHANGED <<playVars, flushVars>> /\ consumer' # "delta"
  BY <1>4 DEF PutOnline, TrimOnline, PutTop24, TrimTop24, DropOnline, Call, Goes, EventDone
<1> QED BY <1>1, <1>2, <1>3, <1>4 DEF Next, Consumer

LEMMA DataStep == TypeOK /\ DataInv /\ [Next]_vars => DataInv'
<1> SUFFICES ASSUME TypeOK, DataInv, [Next]_vars PROVE DataInv'
  OBVIOUS
<1> USE DEF DataInv, TypeOK, PlayTypeOK, taskVars
<1>1. CASE CountPlay
  BY <1>1 DEF CountPlay, flushVars
<1>2. CASE CountDelta
  BY <1>2 DEF CountDelta, Increment, flushVars
<1>3. CASE Flush
  BY <1>3 DEF Flush, FlushReads, FlushStores, FlushStoreRaises, FlushLists, FlushDeletes,
              FlushClearRaises, FlushEnds, DeleteFields, Nothing
<1>4. CASE Crash
  BY <1>4 DEF Crash, FlushEnds, Nothing, playVars
<1>5. CASE UNCHANGED <<playVars, flushVars>>
  BY <1>5 DEF playVars, flushVars
<1> QED BY <1>1, <1>2, <1>3, <1>4, <1>5, PlaySteps

LEMMA DataCorrect == Spec => []DataInv
<1>1. Init => DataInv
  BY DEF Init, DataInv, Nothing
<1> QED BY <1>1, DataStep, StatisticsTypeCorrect, PTL DEF Spec

\* Whatever fails and whenever the service stops, a play leaves the sum of
\* plays:delta and total_plays only at an HDEL that it ran into, and enters it
\* twice only after a flush cut off behind its COMMIT.
THEOREM Conservation == Spec => PlaysAreConserved
<1> DEFINE Conserved ==
      \A t \in Tracks :
        LET before == total[t] + delta[t] + Stored(t)'
            after  == total'[t] + delta'[t] + Stored(t)
        IN  \/ after = before
            \/ consumer = "delta" /\ event.track = t /\ after = before + 1
            \/ flush = "delete" /\ t \in hashes /\ delta[t] > data[t] /\ after < before
            \/ flush # "sleep" /\ flush' = "sleep" /\ after = before + data[t]
<1>1. TypeOK /\ TypeOK' /\ DataInv /\ [Next]_vars => Conserved
  <2> SUFFICES ASSUME TypeOK, TypeOK', DataInv, [Next]_vars, NEW t \in Tracks
               PROVE  LET before == total[t] + delta[t] + Stored(t)'
                          after  == total'[t] + delta'[t] + Stored(t)
                      IN  \/ after = before
                          \/ consumer = "delta" /\ event.track = t /\ after = before + 1
                          \/ flush = "delete" /\ t \in hashes /\ delta[t] > data[t] /\ after < before
                          \/ flush # "sleep" /\ flush' = "sleep" /\ after = before + data[t]
    OBVIOUS
  <2> USE DEF DataInv, TypeOK, PlayTypeOK, Stored, taskVars
  <2>1. CASE CountPlay
    BY <2>1 DEF CountPlay, flushVars
  <2>2. CASE CountDelta
    BY <2>2 DEF CountDelta, Increment, flushVars
  <2>3. CASE FlushReads
    BY <2>3 DEF FlushReads
  <2>4. CASE FlushStores
    BY <2>4 DEF FlushStores, AddData
  <2>5. CASE FlushStoreRaises
    BY <2>5 DEF FlushStoreRaises, AddData, FlushEnds
  <2>6. CASE FlushLists
    BY <2>6 DEF FlushLists
  <2>7. CASE FlushDeletes
    BY <2>7 DEF FlushDeletes, DeleteFields, FlushEnds
  <2>8. CASE FlushClearRaises
    BY <2>8 DEF FlushClearRaises, DeleteFields, FlushEnds
  <2>9. CASE Crash
    BY <2>9 DEF Crash, FlushEnds, playVars
  <2>10. CASE UNCHANGED <<playVars, flushVars>>
    BY <2>10 DEF playVars, flushVars
  <2> QED BY <2>1, <2>2, <2>3, <2>4, <2>5, <2>6, <2>7, <2>8, <2>9, <2>10, PlaySteps DEF Flush
<1>2. Conserved => [Conserved]_vars
  OBVIOUS
<1> QED BY <1>1, StatisticsTypeCorrect, DataCorrect, PTL DEF Spec, PlaysAreConserved

\* What PlaysNotOvercounted needs to be inductive: the play that ZINCRBY has
\* counted and HINCRBY has not is already owed to plays:delta.
OwedInv ==
    \A t \in Tracks :
        total[t] + delta[t] + (IF consumer = "delta" /\ event.track = t THEN 1 ELSE 0)
            <= counter[t] + Stored(t)

\* PostgreSQL and plays:delta never hold more plays than plays:counter,
\* unless a flush is cut off between its COMMIT and its HDEL.
THEOREM NotOvercounted ==
  ASSUME Faults \cap {"indoubt", "clear", "crash"} = {}
  PROVE  Spec => []PlaysNotOvercounted
<1>1. Init => OwedInv
  BY DEF Init, OwedInv, Stored, Nothing
<1>2. TypeOK /\ TypeOK' /\ DataInv /\ OwedInv /\ [Next]_vars => OwedInv'
  <2> SUFFICES ASSUME TypeOK, TypeOK', DataInv, OwedInv, [Next]_vars, NEW t \in Tracks
               PROVE  total'[t] + delta'[t]
                        + (IF consumer' = "delta" /\ event'.track = t THEN 1 ELSE 0)
                      <= counter'[t] + Stored(t)'
    BY DEF OwedInv
  <2> USE DEF DataInv, OwedInv, TypeOK, PlayTypeOK, Stored, taskVars
  <2>1. CASE CountPlay
    BY <2>1 DEF CountPlay, Increment, Goes, EventDone, flushVars
  <2>2. CASE CountDelta
    BY <2>2 DEF CountDelta, Increment, EventDone, flushVars
  <2>3. CASE Flush
    BY <2>3 DEF Flush, FlushReads, FlushStores, FlushStoreRaises, FlushLists, FlushDeletes,
                FlushClearRaises, FlushEnds, DeleteFields, AddData, FlushFrame, consumerVars
  <2>4. ~Crash
    BY DEF Crash
  <2>5. CASE /\ UNCHANGED <<playVars, flushVars>>
             /\ consumer' = "delta" => consumer = "delta" /\ event' = event
    BY <2>5 DEF playVars, flushVars
  <2> QED BY <2>1, <2>2, <2>3, <2>4, <2>5, PlaySteps
<1>3. TypeOK /\ OwedInv => PlaysNotOvercounted
  BY DEF TypeOK, PlayTypeOK, OwedInv, PlaysNotOvercounted, Stored
<1> QED BY <1>1, <1>2, <1>3, StatisticsTypeCorrect, DataCorrect, PTL DEF Spec

-----------------------------------------------------------------------------
(* The sets of listeners.                                                  *)

Recent(t) == \A s \in Listeners : online[t][s] # Absent => online[t][s] < Window

Between(t, s) == consumer \in {"trim", "top24"} /\ event.track = t /\ event.listener = s

\* A listener has the same age in both sets, unless the consumer has put it
\* into one of them only; and behind a trim of online:track by its window, a
\* trim of top24:track by the longer one takes out nobody who is online.
PresenceInv ==
    /\ \A t \in Tracks, s \in Listeners :
          online[t][s] # Absent => top24[t][s] = online[t][s] \/ Between(t, s)
    /\ \A t \in Tracks, s \in Listeners : Between(t, s) => online[t][s] \in {0, Absent}
    /\ consumer \in {"top24", "trim24"} => Recent(event.track)
    /\ trimmed # NoTrack => Recent(trimmed)

LEMMA PresenceStep ==
  ASSUME Faults \cap {"presence", "crash"} = {},
         TypeOK, TypeOK', PresenceInv, [Next]_vars
  PROVE  PresenceInv'
<1> DEFINE Same == UNCHANGED <<presenceVars, trimmed>>
           Away == consumer \notin Placing /\ consumer' \notin {"trim", "top24", "trim24"}
           Stay == consumer' = consumer /\ event' = event
<1> USE StatisticsConstants DEF taskVars
<1>t. /\ {online, top24} \subseteq [Tracks -> [Listeners -> 0 .. Absent]]
      /\ consumer \in Placing => event.track \in Tracks /\ event.listener \in Listeners
      /\ trimmed \in Tracks \cup {NoTrack}
  BY DEF TypeOK, PresenceTypeOK, ConsumerTypeOK, Placing, Event, NoEvent
<1>a. /\ online \in [Tracks -> [Listeners -> 0 .. Absent]]
      /\ top24 \in [Tracks -> [Listeners -> 0 .. Absent]]
  BY <1>t
<1>b. /\ Window \in Nat /\ Day \in Nat /\ Absent \in Nat
      /\ 0 < Window /\ Window < Day /\ Day < Absent
  BY DEF Absent
<1>1. ASSUME Same, Away \/ Stay PROVE PresenceInv'
  BY <1>1 DEF PresenceInv, Between, Recent, presenceVars, Placing
<1>2. CASE PutOnline
  <2>1. /\ consumer = "online" /\ consumer' = "trim" /\ event' = event
        /\ trimmed' = trimmed /\ top24' = top24
    BY <1>2 DEF PutOnline, Call, SetOnline, Goes, statsVars
  <2>2. \A t \in Tracks, s \in Listeners :
          online'[t][s] = IF t = event.track /\ s = event.listener THEN 0 ELSE online[t][s]
    BY <1>2, <1>a, <1>t, <2>1 DEF PutOnline, Call, SetOnline, Put, Placing
  <2> QED BY <1>a, <1>b, <1>t, <2>1, <2>2 DEF PresenceInv, Between, Recent, Placing
<1>3. CASE TrimOnline
  <2>1. /\ consumer = "trim" /\ consumer' = "top24" /\ event' = event
        /\ trimmed' = trimmed /\ top24' = top24
    BY <1>3 DEF TrimOnline, Call, SetOnline, Goes, statsVars
  <2>2. \A t \in Tracks, s \in Listeners :
          online'[t][s] = IF t = event.track /\ online[t][s] >= Window THEN Absent ELSE online[t][s]
    BY <1>3, <1>a, <1>t, <2>1 DEF TrimOnline, Call, SetOnline, Trim, Placing
  <2> QED BY <1>a, <1>b, <1>t, <2>1, <2>2 DEF PresenceInv, Between, Recent, Placing
<1>4. CASE PutTop24
  <2>1. /\ consumer = "top24" /\ consumer' = "trim24" /\ event' = event
        /\ trimmed' = trimmed /\ online' = online
    BY <1>4 DEF PutTop24, Call, SetTop24, Goes, statsVars
  <2>2. \A t \in Tracks, s \in Listeners :
          top24'[t][s] = IF t = event.track /\ s = event.listener THEN 0 ELSE top24[t][s]
    BY <1>4, <1>a, <1>t, <2>1 DEF PutTop24, Call, SetTop24, Put, Placing
  <2> QED BY <1>a, <1>b, <1>t, <2>1, <2>2 DEF PresenceInv, Between, Recent, Placing
<1>5. CASE TrimTop24
  <2>1. /\ consumer = "trim24" /\ consumer' = "poll"
        /\ trimmed' = trimmed /\ online' = online
    BY <1>5 DEF TrimTop24, Call, SetTop24, EventDone, statsVars
  <2>2. \A t \in Tracks, s \in Listeners :
          top24'[t][s] = IF t = event.track /\ top24[t][s] >= Day THEN Absent ELSE top24[t][s]
    BY <1>5, <1>a, <1>t, <2>1 DEF TrimTop24, Call, SetTop24, Trim, Placing
  <2> QED BY <1>a, <1>b, <1>t, <2>1, <2>2 DEF PresenceInv, Between, Recent, Placing
<1>6. CASE DropOnline
  <2>1. /\ consumer = "offline" /\ consumer' = "poll"
        /\ trimmed' = trimmed /\ top24' = top24
    BY <1>6 DEF DropOnline, Call, SetOnline, EventDone, statsVars
  <2>2. \A t \in Tracks, s \in Listeners :
          online'[t][s] = IF t = event.track /\ s = event.listener THEN Absent ELSE online[t][s]
    BY <1>6, <1>a, <1>t, <2>1 DEF DropOnline, Call, SetOnline, Drop, Placing
  <2> QED BY <1>a, <1>b, <1>t, <2>1, <2>2 DEF PresenceInv, Between, Recent, Placing
<1>7. ASSUME NEW u \in Tracks, StatsTrimsOnline(u) PROVE PresenceInv'
  <2>1. consumer' = consumer /\ event' = event /\ trimmed' = u /\ top24' = top24 /\ trimmed = NoTrack
    BY <1>7 DEF StatsTrimsOnline, StatsFails, StatsFrame, SetOnline, consumerVars
  <2>2. \A t \in Tracks, s \in Listeners :
          online'[t][s] = IF t = u /\ online[t][s] >= Window THEN Absent ELSE online[t][s]
    BY <1>7, <1>a, <1>t DEF StatsTrimsOnline, StatsFails, SetOnline, Trim
  <2> QED BY <1>a, <1>b, <1>t, <2>1, <2>2 DEF PresenceInv, Between, Recent, Placing
<1>8. ASSUME NEW t \in Tracks, StatsTrimsTop24(t) PROVE PresenceInv'
  BY <1>8, <1>t DEF StatsTrimsTop24, StatsFails, StatsFrame, SetTop24, Trim, PresenceInv, Between,
              Recent, consumerVars, Absent
<1>9. CASE Tick
  BY <1>9, <1>t DEF Tick, Older, PresenceInv, Between, Recent, consumerVars, statsVars, Placing, Absent
<1>10. ~Crash
  BY DEF Crash
<1>11. ASSUME \/ \E p \in Partitions, e \in Events : Publish(p, e)
              \/ AutoCommit \/ Flush \/ StatsReads \/ UNCHANGED vars
       PROVE  Same /\ Stay
  BY <1>11 DEF Publish, AutoCommit, Flush, FlushReads, FlushStores, FlushStoreRaises, FlushLists,
               FlushDeletes, FlushClearRaises, FlushFrame, StatsReads, StatsFrame, vars,
               consumerVars, statsVars
<1>12. ASSUME ConsumerStarts \/ ConsumerFails \/ CountPlay \/ CountDelta
       PROVE  Same /\ Away
  BY <1>12 DEF ConsumerStarts, ConsumerFails, CountPlay, CountDelta, Goes, EventDone, Placing, statsVars
<1>13. ASSUME NEW p \in Partitions, TakeEvent(p) PROVE Same /\ Away
  <2>1. \A e : FirstCall(e) \in {"poll", "count", "online", "offline"}
    BY DEF FirstCall
  <2> QED BY <1>13, <2>1 DEF TakeEvent, Placing, statsVars
<1> HIDE DEF Same, Away, Stay
<1> QED BY <1>1, <1>2, <1>3, <1>4, <1>5, <1>6, <1>7, <1>8, <1>9, <1>10, <1>11, <1>12, <1>13
        DEF Next, Consumer, Stats

\* Who is reported as listening now is among the listeners of the last 24
\* hours, whatever /stats and the consumer trim meanwhile, unless a call on
\* the two sets is cut off.
THEOREM OnlineWithinDay ==
  ASSUME Faults \cap {"presence", "crash"} = {}
  PROVE  Spec => []OnlineIsWithinDay
<1>1. Init => PresenceInv
  BY DEF Init, PresenceInv, NoneOnline, Between, Placing
<1>2. TypeOK /\ TypeOK' /\ PresenceInv /\ [Next]_vars => PresenceInv'
  BY PresenceStep
<1>3. PresenceInv => OnlineIsWithinDay
  BY DEF PresenceInv, OnlineIsWithinDay, Between
<1> QED BY <1>1, <1>2, <1>3, StatisticsTypeCorrect, PTL DEF Spec

-----------------------------------------------------------------------------
(***************************************************************************)
(* What the consumer has read.  As long as a consumer that stops can       *)
(* commit and the service goes on, it never reads a record again: it       *)
(* starts over where it was, or at the end of a topic of which it has not  *)
(* read anything.                                                          *)
(***************************************************************************)
StartInv ==
    consumer = "start" =>
        \A p \in Partitions :
            \/ committed[p] = position[p]
            \/ /\ committed[p] = NoOffset
               /\ \A t \in Tracks, s \in Listeners : online[t][s] = Absent

\* The steps that read, publish or start over, and the others.
LEMMA ReadSteps ==
  ASSUME [Next]_vars
  PROVE  \/ \E p \in Partitions, e \in Events : Publish(p, e)
         \/ \E p \in Partitions : TakeEvent(p)
         \/ ConsumerStarts \/ ConsumerFails \/ Crash
         \/ UNCHANGED <<topic, position>>
<1>1. ASSUME \/ AutoCommit \/ CountPlay \/ CountDelta \/ Tick \/ UNCHANGED vars
             \/ PutOnline \/ TrimOnline \/ PutTop24 \/ TrimTop24 \/ DropOnline
      PROVE  UNCHANGED <<topic, position>>
  BY <1>1 DEF AutoCommit, CountPlay, CountDelta, Tick, vars, PutOnline, TrimOnline, PutTop24,
              TrimTop24, DropOnline, Call, topicVars, consumerVars
<1>2. ASSUME Flush \/ Stats PROVE UNCHANGED <<topic, position>>
  BY <1>2 DEF Flush, FlushReads, FlushStores, FlushStoreRaises, FlushLists, FlushDeletes,
              FlushClearRaises, FlushFrame, Stats, StatsReads, StatsTrimsOnline, StatsTrimsTop24,
              StatsFrame, topicVars, consumerVars
<1> QED BY <1>1, <1>2 DEF Next, Consumer

LEMMA StartStep ==
  ASSUME Faults \cap {"commit", "crash"} = {}, TypeOK, TypeOK', StartInv, [Next]_vars
  PROVE  StartInv'
<1> SUFFICES ASSUME consumer' = "start", NEW p \in Partitions
             PROVE  \/ committed'[p] = position'[p]
                    \/ /\ committed'[p] = NoOffset
                       /\ \A t \in Tracks, s \in Listeners : online'[t][s] = Absent
  BY DEF StartInv
<1>t. /\ online \in [Tracks -> [Listeners -> 0 .. Absent]]
      /\ online' \in [Tracks -> [Listeners -> 0 .. Absent]]
      /\ Window \in Nat /\ Day \in Nat /\ Absent = Day + 1
  BY StatisticsConstants DEF TypeOK, PresenceTypeOK, Absent
<1>1. CASE ConsumerFails
  BY <1>1 DEF ConsumerFails
<1>2. ~Crash
  BY DEF Crash
<1>3. CASE /\ consumer = "start" /\ UNCHANGED <<committed, position>>
           /\ \A t \in Tracks, s \in Listeners : online[t][s] = Absent => online'[t][s] = Absent
  BY <1>3 DEF StartInv
<1>4. ASSUME ~ConsumerFails PROVE consumer = "start" /\ UNCHANGED <<committed, position>>
  <2>1. ASSUME ConsumerStarts \/ \E q \in Partitions : TakeEvent(q) PROVE FALSE
    BY <2>1 DEF ConsumerStarts, TakeEvent, FirstCall
  <2>2. ASSUME \/ CountPlay \/ CountDelta \/ PutOnline \/ TrimOnline \/ PutTop24 \/ TrimTop24
               \/ DropOnline
        PROVE  FALSE
    BY <2>2 DEF CountPlay, CountDelta, PutOnline, TrimOnline, PutTop24, TrimTop24, DropOnline,
                Call, Goes, EventDone
  <2>3. ASSUME \/ \E q \in Partitions, e \in Events : Publish(q, e)
               \/ Stats \/ Tick \/ UNCHANGED vars
        PROVE  consumer = "start" /\ UNCHANGED <<committed, position>>
    BY <2>3 DEF Publish, Stats, StatsReads, StatsTrimsOnline, StatsTrimsTop24, StatsFrame, Tick,
                vars, topicVars, consumerVars
  <2>4. ASSUME Flush PROVE consumer = "start" /\ UNCHANGED <<committed, position>>
    BY <2>4 DEF Flush, FlushReads, FlushStores, FlushStoreRaises, FlushLists, FlushDeletes,
                FlushClearRaises, FlushFrame, topicVars, consumerVars
  <2>5. ~AutoCommit
    BY DEF AutoCommit, consumerVars
  <2> QED BY <1>2, <1>4, <2>1, <2>2, <2>3, <2>4, <2>5 DEF Next, Consumer
<1>5. ASSUME consumer = "start"
      PROVE  \A t \in Tracks, s \in Listeners : online[t][s] = Absent => online'[t][s] = Absent
  <2>1. CASE UNCHANGED online
    BY <2>1
  <2>2. CASE Tick
    BY <1>t, <2>2 DEF Tick, Older
  <2>3. ASSUME NEW t \in Tracks, StatsTrimsOnline(t) \/ StatsTrimsTop24(t)
        PROVE  \A u \in Tracks, s \in Listeners : online[u][s] = Absent => online'[u][s] = Absent
    BY <1>t, <2>3 DEF StatsTrimsOnline, StatsTrimsTop24, SetOnline, SetTop24, StatsFails, Trim, presenceVars
  <2>4. ASSUME \/ CountPlay \/ CountDelta \/ PutOnline \/ TrimOnline \/ PutTop24 \/ TrimTop24
               \/ DropOnline
        PROVE  FALSE
    BY <1>5, <2>4 DEF CountPlay, CountDelta, PutOnline, TrimOnline, PutTop24, TrimTop24, DropOnline,
                Call
  <2>5. ASSUME \/ \E q \in Partitions, e \in Events : Publish(q, e)
               \/ \E q \in Partitions : TakeEvent(q)
               \/ ConsumerStarts \/ AutoCommit \/ ConsumerFails \/ StatsReads \/ UNCHANGED vars
        PROVE  UNCHANGED online
    BY <2>5 DEF Publish, TakeEvent, ConsumerStarts, AutoCommit, ConsumerFails, StatsReads, vars, presenceVars
  <2>6. ASSUME Flush PROVE UNCHANGED online
    BY <2>6 DEF Flush, FlushReads, FlushStores, FlushStoreRaises, FlushLists, FlushDeletes,
                FlushClearRaises, FlushFrame, presenceVars
  <2> QED BY <1>2, <2>1, <2>2, <2>3, <2>4, <2>5, <2>6 DEF Next, Consumer, Stats
<1> QED BY <1>1, <1>3, <1>4, <1>5

LEMMA StartInvariant ==
  ASSUME Faults \cap {"commit", "crash"} = {}
  PROVE  Spec => []StartInv
<1>1. Init => StartInv
  BY DEF Init, StartInv, NoneOnline
<1>2. TypeOK /\ TypeOK' /\ StartInv /\ [Next]_vars => StartInv'
  BY StartStep
<1> QED BY <1>1, <1>2, StatisticsTypeCorrect, PTL DEF Spec

\* What the consumer has read, it does not lose.
LEMMA ReadsOnward ==
  ASSUME Faults \cap {"commit", "crash"} = {}, TypeOK, TypeOK', StartInv, [Next]_vars
  PROVE  \A p \in Partitions :
           /\ position[p] \in Nat /\ position'[p] \in Nat
           /\ position[p] <= position'[p]
           /\ \A i \in 1 .. position[p] : topic'[p][i] = topic[p][i]
<1>t. /\ topic \in [Partitions -> Seq(Event)]
      /\ position \in [Partitions -> Nat] /\ position' \in [Partitions -> Nat]
      /\ \A p \in Partitions : position[p] <= Len(topic[p])
  BY DEF TypeOK, ConsumerTypeOK
<1>1. ASSUME NEW q \in Partitions, NEW e \in Events, Publish(q, e)
      PROVE  \A p \in Partitions :
               /\ position'[p] = position[p]
               /\ \A i \in 1 .. position[p] : topic'[p][i] = topic[p][i]
  <2>1. topic' = [topic EXCEPT ![q] = Append(@, e)] /\ position' = position
    BY <1>1 DEF Publish, consumerVars
  <2>2. e \in Event
    BY StatisticsConstants
  <2> QED BY <1>t, <2>1, <2>2
<1>2. ASSUME NEW q \in Partitions, TakeEvent(q)
      PROVE  topic' = topic /\ \A p \in Partitions : position[p] <= position'[p]
  BY <1>t, <1>2 DEF TakeEvent, topicVars
<1>3. ASSUME ConsumerStarts
      PROVE  topic' = topic /\ \A p \in Partitions : position[p] <= position'[p]
  BY <1>t, <1>3 DEF ConsumerStarts, StartInv, topicVars
<1>4. ASSUME ConsumerFails PROVE UNCHANGED <<topic, position>>
  BY <1>4 DEF ConsumerFails
<1>5. ~Crash
  BY DEF Crash
<1>6. ASSUME UNCHANGED <<topic, position>>
      PROVE  topic' = topic /\ \A p \in Partitions : position[p] <= position'[p]
  BY <1>t, <1>6
<1> QED BY <1>t, <1>1, <1>2, <1>3, <1>4, <1>5, <1>6, ReadSteps

\* The 'started' records of a track that the consumer has read.
Seen(t) == UNION {{<<p, i>> : i \in Started(p, t)} : p \in Partitions}

LEMMA SeenMember ==
  ASSUME NEW t, NEW p, NEW i
  PROVE  <<p, i>> \in Seen(t) <=>
           p \in Partitions /\ i \in 1 .. position[p]
             /\ topic[p][i].status = "started" /\ topic[p][i].track = t
BY DEF Seen, Started

\* The topic is finite, and so is what has been read of it.
LEMMA RecordsStep ==
  ASSUME TypeOK, IsFiniteSet(Records), [Next]_vars
  PROVE  IsFiniteSet(Records')
<1>t. topic \in [Partitions -> Seq(Event)]
  BY DEF TypeOK, ConsumerTypeOK
<1>1. ASSUME NEW p \in Partitions, NEW e \in Events, Publish(p, e)
      PROVE  IsFiniteSet(Records')
  <2>1. topic' = [topic EXCEPT ![p] = Append(@, e)] /\ e \in Event
    BY <1>1, StatisticsConstants DEF Publish
  <2>2. \A q \in Partitions : 1 .. Len(topic'[q]) \subseteq
          1 .. Len(topic[q]) \cup (IF q = p THEN {Len(topic[p]) + 1} ELSE {})
    BY <1>t, <2>1
  <2>3. Records' \subseteq Records \cup {<<p, Len(topic[p]) + 1>>}
    BY <2>2 DEF Records
  <2> QED BY <2>3, FS_AddElement, FS_Subset
<1>2. CASE UNCHANGED topic
  BY <1>2 DEF Records
<1> QED BY <1>1, <1>2, ReadSteps DEF TakeEvent, ConsumerStarts, ConsumerFails, Crash, topicVars

LEMMA SeenFinite ==
  ASSUME TypeOK, IsFiniteSet(Records), NEW t \in Tracks
  PROVE  IsFiniteSet(Seen(t)) /\ Cardinality(Seen(t)) \in Nat
<1>1. \A p \in Partitions : 1 .. position[p] \subseteq 1 .. Len(topic[p])
  BY DEF TypeOK, ConsumerTypeOK
<1>2. Seen(t) \subseteq Records
  BY <1>1 DEF Seen, Started, Records
<1> QED BY <1>2, FS_Subset, FS_CardinalityType

\* What PlaysCountedOnce needs to be inductive: the play that has been read
\* and not yet counted is one more.
CountedInv ==
    /\ IsFiniteSet(Records)
    /\ \A t \in Tracks :
         counter[t] + (IF consumer = "count" /\ event.track = t THEN 1 ELSE 0)
             <= Cardinality(Seen(t))

LEMMA CountedInvariant ==
  ASSUME Faults \cap {"commit", "crash"} = {}
  PROVE  Spec => []CountedInv
<1>1. Init => CountedInv
  <2> SUFFICES ASSUME Init PROVE CountedInv
    OBVIOUS
  <2>1. Records = {}
    BY DEF Init, Records
  <2>2. \A t \in Tracks : Seen(t) = {}
    BY DEF Init, Seen, Started
  <2>3. IsFiniteSet({}) /\ Cardinality({}) = 0
    BY FS_EmptySet
  <2>4. counter = [t \in Tracks |-> 0] /\ consumer = "start"
    BY DEF Init, Nothing
  <2> QED BY <2>1, <2>2, <2>3, <2>4 DEF CountedInv
<1>2. TypeOK /\ TypeOK' /\ StartInv /\ CountedInv /\ [Next]_vars => CountedInv'
  <2> SUFFICES ASSUME TypeOK, TypeOK', StartInv, CountedInv, [Next]_vars PROVE CountedInv'
    OBVIOUS
  <2>1. IsFiniteSet(Records')
    BY RecordsStep DEF CountedInv
  <2> SUFFICES ASSUME NEW t \in Tracks
               PROVE  counter'[t] + (IF consumer' = "count" /\ event'.track = t THEN 1 ELSE 0)
                        <= Cardinality(Seen(t)')
    BY <2>1 DEF CountedInv
  <2>2. /\ IsFiniteSet(Seen(t)) /\ Cardinality(Seen(t)) \in Nat
        /\ IsFiniteSet(Seen(t)') /\ Cardinality(Seen(t)') \in Nat
    <3>1. \A p \in Partitions : 1 .. position'[p] \subseteq 1 .. Len(topic'[p])
      BY DEF TypeOK, ConsumerTypeOK
    <3>2. Seen(t)' \subseteq Records'
      BY <3>1 DEF Seen, Started, Records
    <3> QED BY <2>1, <3>2, SeenFinite, FS_Subset, FS_CardinalityType DEF CountedInv
  <2>3. Seen(t) \subseteq Seen(t)'
    BY ReadsOnward DEF Seen, Started
  <2>4. Cardinality(Seen(t)) <= Cardinality(Seen(t)')
    BY <2>2, <2>3, FS_Subset
  <2>5. /\ counter \in [Tracks -> Nat] /\ counter' \in [Tracks -> Nat]
        /\ counter[t] + (IF consumer = "count" /\ event.track = t THEN 1 ELSE 0)
             <= Cardinality(Seen(t))
    BY DEF TypeOK, PlayTypeOK, CountedInv
  <2>6. CASE CountPlay
    BY <2>2, <2>4, <2>5, <2>6 DEF CountPlay, Increment, Goes, EventDone
  <2>7. ASSUME NEW p \in Partitions, TakeEvent(p)
        PROVE  counter'[t] + (IF consumer' = "count" /\ event'.track = t THEN 1 ELSE 0)
                 <= Cardinality(Seen(t)')
    <3> DEFINE n == position[p] + 1
               e == topic[p][n]
    <3>1. /\ consumer = "poll" /\ counter' = counter /\ topic' = topic
          /\ consumer' = FirstCall(e) /\ (event' = IF FirstCall(e) = "poll" THEN NoEvent ELSE e)
          /\ position'[p] = n /\ n \in Nat /\ n > position[p]
      BY <2>7 DEF TakeEvent, playVars, topicVars, TypeOK, ConsumerTypeOK
    <3>2. CASE consumer' = "count" /\ event'.track = t
      <4>1. FirstCall(e) = "count" /\ event' = e
        BY <3>1, <3>2
      <4>2. e.status = "started" /\ e.track = t
        BY <3>2, <4>1 DEF FirstCall
      <4>3. <<p, n>> \notin Seen(t)
        BY <3>1, SeenMember DEF TypeOK, ConsumerTypeOK
      <4>4. <<p, n>> \in Seen(t)'
        <5>1. position[p] \in Nat /\ position'[p] = position[p] + 1
          BY <3>1 DEF TypeOK, ConsumerTypeOK
        <5>2. n \in 1 .. position'[p]
          BY <5>1
        <5>3. topic'[p][n].status = "started" /\ topic'[p][n].track = t
          BY <3>1, <4>2
        <5>4. n \in Started(p, t)'
          BY <5>2, <5>3 DEF Started
        <5> QED BY <5>4 DEF Seen
      <4>5. Seen(t) \cup {<<p, n>>} \subseteq Seen(t)'
        BY <2>3, <4>4
      <4>6. /\ IsFiniteSet(Seen(t) \cup {<<p, n>>})
            /\ Cardinality(Seen(t) \cup {<<p, n>>}) = Cardinality(Seen(t)) + 1
        BY <2>2, <4>3, FS_AddElement
      <4>7. Cardinality(Seen(t) \cup {<<p, n>>}) <= Cardinality(Seen(t)')
        BY <2>2, <4>5, FS_Subset
      <4> QED BY <2>2, <2>5, <3>1, <4>6, <4>7
    <3>3. CASE ~(consumer' = "count" /\ event'.track = t)
      BY <2>2, <2>4, <2>5, <3>1, <3>3
    <3> QED BY <3>2, <3>3
  <2>8. ASSUME ~CountPlay, \A p \in Partitions : ~TakeEvent(p)
        PROVE  /\ counter' = counter
               /\ consumer' = "count" => consumer = "count" /\ event' = event
    <3>1. ASSUME \/ \E p \in Partitions, e \in Events : Publish(p, e)
                 \/ AutoCommit \/ Stats \/ Tick \/ UNCHANGED vars
          PROVE  counter' = counter /\ consumer' = consumer /\ event' = event
      BY <3>1 DEF Publish, AutoCommit, Stats, StatsReads, StatsTrimsOnline, StatsTrimsTop24,
                  StatsFrame, Tick, vars, consumerVars, playVars
    <3>2. ASSUME Flush PROVE counter' = counter /\ consumer' = consumer /\ event' = event
      BY <3>2 DEF Flush, FlushReads, FlushStores, FlushStoreRaises, FlushLists, FlushDeletes,
                  FlushClearRaises, FlushFrame, consumerVars
    <3>3. ASSUME ConsumerStarts \/ ConsumerFails \/ CountDelta \/ Crash
          PROVE  counter' = counter /\ consumer' # "count"
      BY <3>3 DEF ConsumerStarts, ConsumerFails, CountDelta, EventDone, Crash, playVars
    <3>4. ASSUME PutOnline \/ TrimOnline \/ PutTop24 \/ TrimTop24 \/ DropOnline
          PROVE  counter' = counter /\ consumer' # "count"
      BY <3>4 DEF PutOnline, TrimOnline, PutTop24, TrimTop24, DropOnline, Call, Goes, EventDone, playVars
    <3> QED BY <2>8, <3>1, <3>2, <3>3, <3>4 DEF Next, Consumer
  <2> QED BY <2>2, <2>4, <2>5, <2>6, <2>7, <2>8
<1> QED BY <1>1, <1>2, StartInvariant, StatisticsTypeCorrect, PTL DEF Spec

\* A play is counted at most once, whatever the calls on Redis and PostgreSQL
\* report and however often a consumer starts over, as long as a consumer that
\* stops can commit and the service does not crash.
THEOREM CountedOnce ==
  ASSUME Faults \cap {"commit", "crash"} = {}
  PROVE  Spec => []PlaysCountedOnce
<1>1. CountedInv /\ TypeOK => PlaysCountedOnce
  <2> SUFFICES ASSUME CountedInv, TypeOK, NEW t \in Tracks
               PROVE  counter[t] <= Cardinality(Seen(t))
    BY DEF PlaysCountedOnce, Seen
  <2> QED BY SeenFinite DEF CountedInv, TypeOK, PlayTypeOK
<1> QED BY <1>1, CountedInvariant, StatisticsTypeCorrect, PTL
\* From the event to the row: total_plays never exceeds the 'started' records
\* of its track that were published and read.  This joins the two counts above
\* and needs the absence of the faults of both.
StoredWasPlayed == \A t \in Tracks : total[t] <= Cardinality(Seen(t))

THEOREM StoredPlaysWerePlayed ==
  ASSUME Faults \cap {"commit", "indoubt", "clear", "crash"} = {}
  PROVE  Spec => []StoredWasPlayed
<1>1. TypeOK /\ DataInv /\ CountedInv /\ PlaysCountedOnce /\ PlaysNotOvercounted => StoredWasPlayed
  <2> SUFFICES ASSUME TypeOK, DataInv, CountedInv, PlaysCountedOnce, PlaysNotOvercounted,
                      NEW t \in Tracks
               PROVE  total[t] <= Cardinality(Seen(t))
    BY DEF StoredWasPlayed
  <2>1. /\ total[t] \in Nat /\ delta[t] \in Nat /\ counter[t] \in Nat /\ data[t] \in Nat
        /\ data[t] <= delta[t]
    BY DEF TypeOK, PlayTypeOK, DataInv
  <2>2. total[t] + delta[t] <= counter[t] + Stored(t) /\ Stored(t) \in {0, data[t]}
    BY DEF PlaysNotOvercounted, Stored
  <2>3. counter[t] <= Cardinality(Seen(t))
    BY Zenon DEF PlaysCountedOnce, Seen
  <2>4. Cardinality(Seen(t)) \in Nat
    BY SeenFinite DEF CountedInv
  <2> QED BY <2>1, <2>2, <2>3, <2>4
<1>2. Faults \cap {"commit", "crash"} = {} /\ Faults \cap {"indoubt", "clear", "crash"} = {}
  OBVIOUS
<1> QED BY <1>1, <1>2, CountedInvariant, CountedOnce, NotOvercounted, DataCorrect,
           StatisticsTypeCorrect, PTL

-----------------------------------------------------------------------------
(* Who is online.                                                          *)

Played(t, s) ==
    \E p \in Partitions : \E i \in 1 .. position[p] :
        /\ topic[p][i] = [status |-> "playing", track |-> t, listener |-> s]
        /\ \A j \in i + 1 .. position[p] :
              topic[p][j] # [status |-> "stopped", track |-> t, listener |-> s]

Is(t, s) == event.track = t /\ event.listener = s

\* What OnlineHasPlayed needs to be inductive: who is about to be put online
\* has played.
OnlineInv ==
    \A t \in Tracks, s \in Listeners :
        /\ online[t][s] # Absent => (consumer = "offline" /\ Is(t, s)) \/ Played(t, s)
        /\ consumer = "online" /\ Is(t, s) => Played(t, s)

\* A record that is published or read leaves a playback as it is, unless it
\* is the end of it.
LEMMA PlayedStays ==
  ASSUME NEW t, NEW s, Played(t, s),
         \A p \in Partitions :
           /\ position[p] \in Nat /\ position'[p] \in Nat
           /\ position[p] <= position'[p]
           /\ \A i \in 1 .. position[p] : topic'[p][i] = topic[p][i],
         \A p \in Partitions : \A j \in position[p] + 1 .. position'[p] :
           topic'[p][j] # [status |-> "stopped", track |-> t, listener |-> s]
  PROVE  Played(t, s)'
<1>1. PICK p \in Partitions : \E i \in 1 .. position[p] :
        /\ topic[p][i] = [status |-> "playing", track |-> t, listener |-> s]
        /\ \A j \in i + 1 .. position[p] :
              topic[p][j] # [status |-> "stopped", track |-> t, listener |-> s]
  BY Zenon DEF Played
<1>2. PICK i \in 1 .. position[p] :
        /\ topic[p][i] = [status |-> "playing", track |-> t, listener |-> s]
        /\ \A j \in i + 1 .. position[p] :
              topic[p][j] # [status |-> "stopped", track |-> t, listener |-> s]
  BY <1>1
<1>3. /\ i \in 1 .. position'[p]
      /\ topic'[p][i] = [status |-> "playing", track |-> t, listener |-> s]
  BY <1>2
<1>4. ASSUME NEW j \in i + 1 .. position'[p]
      PROVE  topic'[p][j] # [status |-> "stopped", track |-> t, listener |-> s]
  <2>1. CASE j <= position[p]
    <3>1. j \in i + 1 .. position[p] /\ j \in 1 .. position[p]
      BY <1>2, <1>4, <2>1
    <3>2. topic'[p][j] = topic[p][j]
      BY <3>1
    <3> QED BY <1>2, <3>1, <3>2
  <2>2. CASE ~(j <= position[p])
    <3>1. j \in position[p] + 1 .. position'[p]
      BY <1>2, <1>4, <2>2
    <3> QED BY <3>1
  <2> QED BY <2>1, <2>2
<1> QED BY <1>3, <1>4, Zenon DEF Played

\* The steps that neither publish nor read nor start over: nobody comes online
\* but whom the consumer puts there, and its end is not forgotten.
LEMMA OnlineFrame ==
  ASSUME "presence" \notin Faults, TypeOK, [Next]_vars,
         ~\E p \in Partitions, e \in Events : Publish(p, e),
         ~\E p \in Partitions : TakeEvent(p),
         ~ConsumerStarts, ~ConsumerFails, ~Crash,
         NEW t \in Tracks, NEW s \in Listeners
  PROVE  /\ UNCHANGED <<topic, position>>
         /\ online'[t][s] # Absent =>
              \/ consumer = "online" /\ Is(t, s)
              \/ /\ online[t][s] # Absent
                 /\ consumer = "offline" /\ Is(t, s) => consumer' = "offline" /\ event' = event
         /\ consumer' = "online" => consumer = "online" /\ event' = event
<1>t. /\ online \in [Tracks -> [Listeners -> 0 .. Absent]]
      /\ Window \in Nat /\ Day \in Nat /\ Absent = Day + 1
      /\ consumer \in Placing => event \in Event /\ event.listener \in Listeners
  BY StatisticsConstants DEF TypeOK, ConsumerTypeOK, PresenceTypeOK, Absent, NoEvent, Placing
<1>0. UNCHANGED <<topic, position>>
  BY ReadSteps
<1>1. CASE PutOnline
  <2>1. /\ online' = Put(online, event.track, event.listener)
        /\ consumer = "online" /\ consumer' = "trim"
    BY <1>1 DEF PutOnline, Call, SetOnline, Goes
  <2>2. Is(t, s) \/ online'[t][s] = online[t][s]
    BY <1>t, <2>1 DEF Put, Is
  <2> QED BY <1>0, <2>1, <2>2
<1>2. CASE DropOnline
  <2>1. /\ online' = Drop(online, event.track, event.listener)
        /\ consumer = "offline" /\ consumer' = "poll"
    BY <1>2 DEF DropOnline, Call, SetOnline, EventDone
  <2>2. Is(t, s) => online'[t][s] = Absent
    BY <1>t, <2>1 DEF Drop, Is
  <2>3. online'[t][s] # Absent => online[t][s] # Absent
    BY <1>t, <2>1 DEF Drop
  <2> QED BY <1>0, <2>1, <2>2, <2>3
<1>3. CASE TrimOnline
  <2>1. online' = Trim(online, event.track, Window) /\ consumer = "trim" /\ consumer' = "top24"
    BY <1>3 DEF TrimOnline, Call, SetOnline, Goes
  <2>2. online'[t][s] # Absent => online[t][s] # Absent
    BY <1>t, <2>1 DEF Trim
  <2> QED BY <1>0, <2>1, <2>2
<1>4. CASE PutTop24 \/ TrimTop24
  <2>1. /\ online' = online /\ consumer \in {"top24", "trim24"}
        /\ consumer' \in {"trim24", "poll"}
    BY <1>4 DEF PutTop24, TrimTop24, Call, SetTop24, Goes, EventDone
  <2> QED BY <1>0, <2>1
<1>5. CASE CountPlay \/ CountDelta
  <2>1. /\ online' = online /\ consumer \in {"count", "delta"}
        /\ consumer' \in {"delta", "poll"}
    BY <1>5 DEF CountPlay, CountDelta, Goes, EventDone, presenceVars
  <2> QED BY <1>0, <2>1
<1>6. ASSUME NEW u \in Tracks, StatsTrimsOnline(u) \/ StatsTrimsTop24(u)
      PROVE  /\ UNCHANGED <<consumer, event>>
             /\ online'[t][s] # Absent => online[t][s] # Absent
  <2>1. UNCHANGED <<consumer, event>>
    BY <1>6 DEF StatsTrimsOnline, StatsTrimsTop24, StatsFrame, consumerVars
  <2>2. online' = online \/ online' = Trim(online, u, Window)
    BY <1>6 DEF StatsTrimsOnline, StatsTrimsTop24, SetOnline, SetTop24, presenceVars
  <2>3. online' = Trim(online, u, Window) => (online'[t][s] # Absent => online[t][s] # Absent)
    BY <1>t DEF Trim
  <2> QED BY <2>1, <2>2, <2>3
<1>7. CASE Tick
  <2>1. UNCHANGED <<consumer, event>> /\ online' = Older(online)
    BY <1>7 DEF Tick, consumerVars
  <2>2. online'[t][s] # Absent => online[t][s] # Absent
    BY <1>t, <2>1 DEF Older
  <2> QED BY <1>0, <2>1, <2>2
<1>8. CASE AutoCommit \/ StatsReads \/ Flush \/ UNCHANGED vars
  <2>1. AutoCommit \/ StatsReads \/ UNCHANGED vars => UNCHANGED <<consumer, event, online>>
    BY DEF AutoCommit, StatsReads, StatsFrame, vars, consumerVars, presenceVars
  <2>2. Flush => UNCHANGED <<consumer, event, online>>
    BY DEF Flush, FlushReads, FlushStores, FlushStoreRaises, FlushLists, FlushDeletes,
           FlushClearRaises, FlushFrame, consumerVars, presenceVars
  <2> QED BY <1>0, <1>8, <2>1, <2>2
<1> QED BY <1>0, <1>1, <1>2, <1>3, <1>4, <1>5, <1>6, <1>7, <1>8 DEF Next, Consumer, Stats

LEMMA OnlineStep ==
  ASSUME Faults \cap {"presence", "commit", "crash"} = {},
         TypeOK, TypeOK', StartInv, OnlineInv, [Next]_vars
  PROVE  OnlineInv'
<1> SUFFICES ASSUME NEW t \in Tracks, NEW s \in Listeners
             PROVE  /\ online'[t][s] # Absent =>
                         (consumer' = "offline" /\ Is(t, s)') \/ Played(t, s)'
                    /\ consumer' = "online" /\ Is(t, s)' => Played(t, s)'
  BY Zenon DEF OnlineInv
<1> DEFINE playing == [status |-> "playing", track |-> t, listener |-> s]
           stopped == [status |-> "stopped", track |-> t, listener |-> s]
<1>i. /\ online[t][s] # Absent => (consumer = "offline" /\ Is(t, s)) \/ Played(t, s)
      /\ consumer = "online" /\ Is(t, s) => Played(t, s)
  BY Zenon DEF OnlineInv
<1>r. \A p \in Partitions :
        /\ position[p] \in Nat /\ position'[p] \in Nat
        /\ position[p] <= position'[p]
        /\ \A i \in 1 .. position[p] : topic'[p][i] = topic[p][i]
  BY ReadsOnward
<1>s. ASSUME \A p \in Partitions : position'[p] = position[p], Played(t, s)
      PROVE  Played(t, s)'
  <2>1. \A p \in Partitions : \A j \in position[p] + 1 .. position'[p] : topic'[p][j] # stopped
    BY <1>r, <1>s
  <2> QED BY <1>r, <1>s, <2>1, PlayedStays
<1>1. ASSUME NEW q \in Partitions, NEW e \in Events, Publish(q, e)
      PROVE  UNCHANGED <<position, consumer, event, online>>
  BY <1>1 DEF Publish, consumerVars, presenceVars
<1>2. ASSUME NEW q \in Partitions, TakeEvent(q)
      PROVE  /\ online'[t][s] # Absent =>
                  (consumer' = "offline" /\ Is(t, s)') \/ Played(t, s)'
             /\ consumer' = "online" /\ Is(t, s)' => Played(t, s)'
  <2> DEFINE e == topic[q][position[q] + 1]
  <2>1. /\ consumer = "poll" /\ online' = online /\ topic' = topic
        /\ consumer' = FirstCall(e) /\ (event' = IF FirstCall(e) = "poll" THEN NoEvent ELSE e)
    BY <1>2 DEF TakeEvent, presenceVars, topicVars
  <2>2. /\ position[q] \in Nat /\ position'[q] = position[q] + 1
        /\ \A p \in Partitions : p # q => position'[p] = position[p]
    BY <1>2 DEF TakeEvent, TypeOK, ConsumerTypeOK
  <2>3. e \in Event
    BY <1>2 DEF TakeEvent, TypeOK, ConsumerTypeOK
  <2>4. CASE e = stopped
    <3>1. e.status = "stopped" /\ e.track = t /\ e.listener = s /\ s # Nobody
      BY <2>4, StatisticsConstants
    <3>2. FirstCall(e) = "offline"
      BY <3>1 DEF FirstCall
    <3>3. consumer' = "offline" /\ event' = e
      BY <2>1, <3>2
    <3> QED BY <3>1, <3>3 DEF Is
  <2>5. CASE e # stopped
    <3>1. ASSUME NEW p \in Partitions, NEW j \in position[p] + 1 .. position'[p]
          PROVE  topic'[p][j] # stopped
      <4>1. p = q /\ j = position[q] + 1
        BY <1>r, <2>2, <3>1
      <4> QED BY <2>1, <2>5, <4>1
    <3>2. Played(t, s) => Played(t, s)'
      BY <1>r, <3>1, PlayedStays
    <3>3. ASSUME consumer' = "online", Is(t, s)' PROVE Played(t, s)'
      <4>1. FirstCall(e) = "online" /\ event' = e
        BY <2>1, <3>3
      <4>2. e.status = "playing"
        BY <4>1 DEF FirstCall
      <4>3. e = playing
        BY <2>3, <3>3, <4>1, <4>2 DEF Event, Is
      <4>4. topic'[q][position'[q]] = playing /\ position'[q] \in 1 .. position'[q]
        BY <2>1, <2>2, <4>3
      <4>5. \A j \in position'[q] + 1 .. position'[q] : topic'[q][j] # stopped
        BY <2>2
      <4> QED BY <4>4, <4>5, Zenon DEF Played
    <3> QED BY <1>i, <2>1, <3>2, <3>3
  <2> QED BY <2>4, <2>5
<1>3. CASE ConsumerStarts
  <2>1. /\ consumer = "start" /\ consumer' = "poll" /\ online' = online
        /\ position' = [p \in Partitions |->
              IF committed[p] = NoOffset THEN Len(topic[p]) ELSE committed[p]]
    BY <1>3 DEF ConsumerStarts, presenceVars
  <2>2. CASE \E p \in Partitions : committed[p] = NoOffset /\ committed[p] # position[p]
    BY <2>1, <2>2 DEF StartInv
  <2>3. CASE \A p \in Partitions : committed[p] = position[p]
    <3>1. \A p \in Partitions : position'[p] = position[p]
      BY <1>r, <2>1, <2>3 DEF NoOffset
    <3> QED BY <1>i, <1>s, <2>1, <3>1
  <2> QED BY <2>1, <2>2, <2>3 DEF StartInv
<1>4. CASE ConsumerFails
  <2>1. /\ consumer = "poll" /\ consumer' = "start" /\ UNCHANGED <<position, online>>
    BY <1>4 DEF ConsumerFails, presenceVars
  <2> QED BY <1>i, <1>s, <2>1
<1>5. ~Crash
  BY DEF Crash
<1>6. CASE /\ ~\E p \in Partitions, e \in Events : Publish(p, e)
           /\ ~\E p \in Partitions : TakeEvent(p)
           /\ ~ConsumerStarts /\ ~ConsumerFails
  <2>1. /\ UNCHANGED <<topic, position>>
        /\ online'[t][s] # Absent =>
             \/ consumer = "online" /\ Is(t, s)
             \/ /\ online[t][s] # Absent
                /\ consumer = "offline" /\ Is(t, s) => consumer' = "offline" /\ event' = event
        /\ consumer' = "online" => consumer = "online" /\ event' = event
    BY <1>5, <1>6, OnlineFrame
  <2>2. event' = event => (Is(t, s)' <=> Is(t, s))
    BY DEF Is
  <2> QED BY <1>i, <1>s, <2>1, <2>2
<1>7. ASSUME UNCHANGED <<position, consumer, event, online>>
      PROVE  /\ online'[t][s] # Absent =>
                  (consumer' = "offline" /\ Is(t, s)') \/ Played(t, s)'
             /\ consumer' = "online" /\ Is(t, s)' => Played(t, s)'
  <2>1. Is(t, s)' <=> Is(t, s)
    BY <1>7 DEF Is
  <2> QED BY <1>i, <1>s, <1>7, <2>1
<1>8. CASE \E p \in Partitions, e \in Events : Publish(p, e)
  BY <1>1, <1>7, <1>8
<1>9. CASE \E p \in Partitions : TakeEvent(p)
  BY <1>2, <1>9, Zenon
<1> QED BY <1>3, <1>4, <1>6, <1>8, <1>9

\* No ghost listeners: who is online has played, and the consumer has not yet
\* seen the end of it, as long as the calls on the sorted sets get through, a
\* consumer that stops can commit and the service does not crash.
THEOREM NoGhostListeners ==
  ASSUME Faults \cap {"presence", "commit", "crash"} = {}
  PROVE  Spec => []OnlineHasPlayed
<1>1. Init => OnlineInv
  BY DEF Init, OnlineInv, NoneOnline
<1>2. TypeOK /\ TypeOK' /\ StartInv /\ OnlineInv /\ [Next]_vars => OnlineInv'
  BY OnlineStep
<1>3. OnlineInv => OnlineHasPlayed
  BY Zenon DEF OnlineInv, OnlineHasPlayed, Is, Played
<1>4. Faults \cap {"commit", "crash"} = {}
  OBVIOUS
<1> QED BY <1>1, <1>2, <1>3, <1>4, StatisticsTypeCorrect, StartInvariant, PTL DEF Spec

=============================================================================
