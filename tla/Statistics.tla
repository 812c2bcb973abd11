----------------------------- MODULE Statistics -----------------------------
(***************************************************************************)
(* statistics-api/main.py: the consumer of playback-events, the flush of   *)
(* play counts from Redis to PostgreSQL, and GET /stats.  The three run in *)
(* one process and interleave at every await.                              *)
(***************************************************************************)
EXTENDS Integers, Sequences, FiniteSets

CONSTANTS
    Tracks,
    Listeners,      \* user_session of the events
    Nobody,         \* the user_session of an event that has none
    NoTrack,        \* /stats is at no track
    Partitions,     \* partitions of playback-events
    Events,         \* what playback-api may publish
    MaxEvents,      \* bound on the records of the topic
    MaxTotal,       \* bound on total_plays
    MaxRestarts,    \* bound on the restarts of consumer and service
    Window,         \* UPDATE_TIME_RATE, in ticks
    Day,            \* TOP_24_UPDATE_RATE, in ticks
    TopLimit,       \* TOP_TRACKS_LIMIT
    Faults          \* the kinds of fault that may happen

StatisticsFaultKinds == {
    "consumer",     \* the iterator of the consumer raises
    "commit",       \* the commit of a consumer that stops fails
    "count",        \* ZINCRBY or HINCRBY raises, whether or not it counted
    "presence",     \* a call on online:track or top24:track raises, likewise
    "database",     \* a flush fails before its COMMIT
    "indoubt",      \* a flush does not see the answer to its COMMIT
    "clear",        \* the second HGETALL, or HDEL with or without effect, raises
    "crash" }       \* statistics-api stops

\* Events of an unknown status fail validation; playback-api sends a listener
\* with all but 'started', possibly an empty one.
Event == [status : {"started", "playing", "stopped", "invalid"},
          track : Tracks, listener : Listeners \cup {Nobody}]

ASSUME StatisticsConstants ==
    /\ Nobody \notin Listeners /\ NoTrack \notin Tracks
    /\ Events \subseteq Event
    /\ {MaxEvents, MaxTotal, MaxRestarts, TopLimit} \subseteq Nat
    /\ Window \in Nat /\ Day \in Nat
    /\ 0 < Window /\ Window < Day
    /\ Faults \subseteq StatisticsFaultKinds

VARIABLES
    topic,      \* records of each partition of playback-events
    position,   \* records the consumer has taken
    committed,  \* offset of the group, or NoOffset
    consumer,   \* the call consume_playback_events makes next
    event,      \* the event it processes
    counter,    \* plays:counter
    delta,      \* plays:delta; a field of 0 is none
    total,      \* column total_plays
    online,     \* online:track: ages of the members' scores, or Absent
    top24,      \* top24:track, likewise
    flush,      \* flush_plays_once: "sleep", "store", "list" or "delete"
    data,       \* what its first HGETALL returned
    hashes,     \* the fields its second HGETALL returned
    asked,      \* tracks a GET /stats has yet to come to
    trimmed,    \* the one whose online:track it has just trimmed
    restarts    \* restarts so far

topicVars == <<topic, committed>>
consumerVars == <<position, consumer, event>>
playVars == <<counter, delta, total>>
presenceVars == <<online, top24>>
flushVars == <<flush, data, hashes>>
statsVars == <<asked, trimmed>>
taskVars == <<flushVars, statsVars>>
vars == <<topicVars, consumerVars, playVars, presenceVars, taskVars, restarts>>

NoOffset == -1
Absent == Day + 1
NoEvent == [status |-> "none"]
Nothing == [t \in Tracks |-> 0]
NoneOnline == [t \in Tracks |-> [s \in Listeners |-> Absent]]

Counting == {"count", "delta"}
Placing == {"online", "trim", "top24", "trim24", "offline"}

ConsumerTypeOK ==
    /\ topic \in [Partitions -> Seq(Event)]
    /\ position \in [Partitions -> Nat]
    /\ committed \in [Partitions -> Nat \cup {NoOffset}]
    /\ \A p \in Partitions :
          position[p] <= Len(topic[p]) /\ committed[p] <= Len(topic[p])
    /\ consumer \in {"start", "poll"} \cup Counting \cup Placing
    /\ event \in Event \cup {NoEvent}
    /\ event = NoEvent <=> consumer \in {"start", "poll"}
    /\ consumer \in Placing => event.listener \in Listeners
    /\ restarts \in 0 .. MaxRestarts

PlayTypeOK ==
    /\ {counter, delta, total, data} \subseteq [Tracks -> Nat]
    /\ flush \in {"sleep", "store", "list", "delete"}
    /\ hashes \subseteq Tracks
    /\ flush # "delete" => hashes = {}

PresenceTypeOK ==
    /\ {online, top24} \subseteq [Tracks -> [Listeners -> 0 .. Absent]]
    /\ asked \subseteq Tracks
    /\ trimmed \in Tracks \cup {NoTrack}

\* The type invariant.
TypeOK == ConsumerTypeOK /\ PlayTypeOK /\ PresenceTypeOK

Init ==
    /\ topic = [p \in Partitions |-> <<>>]
    /\ position = [p \in Partitions |-> 0]
    /\ committed = [p \in Partitions |-> NoOffset]
    /\ consumer = "start" /\ event = NoEvent
    /\ counter = Nothing /\ delta = Nothing /\ total = Nothing
    /\ online = NoneOnline /\ top24 = NoneOnline
    /\ flush = "sleep" /\ data = Nothing /\ hashes = {}
    /\ asked = {} /\ trimmed = NoTrack
    /\ restarts = 0

-----------------------------------------------------------------------------
(* The topic and the consumer                                              *)

Records == UNION {{<<p, i>> : i \in 1 .. Len(topic[p])} : p \in Partitions}

\* playback-api publishes without a key: any partition may take the record.
Publish(p, e) ==
    /\ Cardinality(Records) < MaxEvents
    /\ topic' = [topic EXCEPT ![p] = Append(@, e)]
    /\ UNCHANGED <<committed, consumerVars, playVars, presenceVars, taskVars, restarts>>

\* A fresh consumer; auto_offset_reset="latest" when the group has no offset.
ConsumerStarts ==
    /\ consumer = "start"
    /\ position' = [p \in Partitions |->
          IF committed[p] = NoOffset THEN Len(topic[p]) ELSE committed[p]]
    /\ consumer' = "poll"
    /\ UNCHANGED <<topicVars, event, playVars, presenceVars, taskVars, restarts>>

\* enable_auto_commit: a timer commits the positions, done or not.
AutoCommit ==
    /\ consumer # "start"
    /\ committed' = position
    /\ UNCHANGED <<topic, consumerVars, playVars, presenceVars, taskVars, restarts>>

Restarts == restarts < MaxRestarts /\ restarts' = restarts + 1

\* Mutant: the consumer that stops does not commit.
ConsumerLeaves ==
    /\ "consumer" \in Faults /\ Restarts
    /\ consumer = "poll" /\ consumer' = "start"
    /\ UNCHANGED <<topicVars, position, event, playVars, presenceVars, taskVars>>

\* The iterator raises; stop() commits a last time, and the loop starts over.
ConsumerFails ==
    /\ "consumer" \in Faults /\ Restarts
    /\ consumer = "poll" /\ consumer' = "start"
    /\ \/ committed' = position
       \/ "commit" \in Faults /\ UNCHANGED committed
    /\ UNCHANGED <<topic, position, event, playVars, presenceVars, taskVars>>

\* Mutant: an event without user_session is not sorted out.
FirstCallUnchecked(e) ==
    CASE e.status = "started" -> "count"
      [] e.status = "playing" -> "online"
      [] e.status = "stopped" -> "offline"
      [] OTHER -> "poll"

\* The first call process_event makes for an event, if any.
FirstCall(e) ==
    CASE e.status = "started" -> "count"
      [] e.status = "playing" /\ e.listener # Nobody -> "online"
      [] e.status = "stopped" /\ e.listener # Nobody -> "offline"
      [] OTHER -> "poll"

TakeEvent(p) ==
    /\ consumer = "poll"
    /\ position[p] < Len(topic[p])
    /\ position' = [position EXCEPT ![p] = @ + 1]
    /\ LET e == topic[p][position[p] + 1] IN
          /\ consumer' = FirstCall(e)
          /\ event' = IF FirstCall(e) = "poll" THEN NoEvent ELSE e
    /\ UNCHANGED <<topicVars, playVars, presenceVars, taskVars, restarts>>

Goes(call) == consumer' = call /\ UNCHANGED event
EventDone == consumer' = "poll" /\ event' = NoEvent

-----------------------------------------------------------------------------
(* process_event, 'started'                                                *)

Increment(f, t) == [f EXCEPT ![t] = @ + 1]

CountPlay ==
    /\ consumer = "count"
    /\ \/ /\ counter' = Increment(counter, event.track)
          /\ Goes("delta")
       \/ /\ "count" \in Faults
          /\ counter' = Increment(counter, event.track) \/ UNCHANGED counter
          /\ EventDone
    /\ UNCHANGED <<topicVars, position, delta, total, presenceVars, taskVars, restarts>>

CountDelta ==
    /\ consumer = "delta"
    /\ \/ delta' = Increment(delta, event.track)
       \/ "count" \in Faults /\ UNCHANGED delta
    /\ EventDone
    /\ UNCHANGED <<topicVars, position, counter, total, presenceVars, taskVars, restarts>>

(* process_event, 'playing' and 'stopped'; 'stopped' stands for both.      *)

Put(z, t, s) == [z EXCEPT ![t][s] = 0]
Drop(z, t, s) == [z EXCEPT ![t][s] = Absent]
\* ZREMRANGEBYSCORE -inf (now - age): the old end of the window is out.
Trim(z, t, age) ==
    [z EXCEPT ![t] = [s \in Listeners |-> IF @[s] >= age THEN Absent ELSE @[s]]]

\* A call of process_event on a sorted set; an error ends the event.
Call(name, result, next) ==
    /\ consumer = name
    /\ \/ result /\ IF next = "poll" THEN EventDone ELSE Goes(next)
       \/ "presence" \in Faults /\ (result \/ UNCHANGED presenceVars) /\ EventDone
    /\ UNCHANGED <<topicVars, position, playVars, taskVars, restarts>>

SetOnline(z) == online' = z /\ UNCHANGED top24
SetTop24(z) == top24' = z /\ UNCHANGED online

PutOnline == Call("online", SetOnline(Put(online, event.track, event.listener)), "trim")
TrimOnline == Call("trim", SetOnline(Trim(online, event.track, Window)), "top24")
PutTop24 == Call("top24", SetTop24(Put(top24, event.track, event.listener)), "trim24")
TrimTop24 == Call("trim24", SetTop24(Trim(top24, event.track, Day)), "poll")
\* Mutant: a stop names the member as playback-api does, and ZREM finds none.
DropNone == Call("offline", UNCHANGED presenceVars, "poll")
DropOnline == Call("offline", SetOnline(Drop(online, event.track, event.listener)), "poll")

Consumer ==
    \/ ConsumerStarts \/ AutoCommit \/ ConsumerFails
    \/ \E p \in Partitions : TakeEvent(p)
    \/ CountPlay \/ CountDelta
    \/ PutOnline \/ TrimOnline \/ PutTop24 \/ TrimTop24 \/ DropOnline

-----------------------------------------------------------------------------
(* flush_plays_once                                                        *)

FlushFrame == UNCHANGED <<topicVars, consumerVars, counter, presenceVars, statsVars, restarts>>
FlushEnds == flush' = "sleep" /\ data' = Nothing /\ hashes' = {}

FlushReads ==
    /\ flush = "sleep" /\ delta # Nothing
    /\ \A t \in Tracks : total[t] + delta[t] <= MaxTotal
    /\ data' = delta /\ flush' = "store"
    /\ UNCHANGED <<hashes, delta, total>> /\ FlushFrame

AddData == total' = [t \in Tracks |-> total[t] + data[t]]

FlushStores ==
    /\ flush = "store"
    /\ AddData
    /\ flush' = "list"
    /\ UNCHANGED <<data, hashes, delta>> /\ FlushFrame

\* Mutant: without the transaction, an error keeps the updates made so far.
FlushStoreRaisesPartly ==
    /\ flush = "store"
    /\ {"database", "indoubt"} \cap Faults # {}
    /\ \E T \in SUBSET Tracks :
          total' = [t \in Tracks |-> IF t \in T THEN total[t] + data[t] ELSE total[t]]
    /\ FlushEnds /\ UNCHANGED delta /\ FlushFrame

\* flush_plays_loop catches every error and waits for the next minute.
FlushStoreRaises ==
    /\ flush = "store"
    /\ \/ "database" \in Faults /\ UNCHANGED total
       \/ "indoubt" \in Faults /\ AddData
    /\ FlushEnds /\ UNCHANGED delta /\ FlushFrame

FlushLists ==
    /\ flush = "list"
    /\ hashes' = {t \in Tracks : delta[t] > 0}
    /\ flush' = "delete"
    /\ UNCHANGED <<data, delta, total>> /\ FlushFrame

DeleteFields == delta' = [t \in Tracks |-> IF t \in hashes THEN 0 ELSE delta[t]]

\* Mutant: the whole hash is deleted, whatever HGETALL listed.
FlushDeletesAll ==
    /\ flush = "delete"
    /\ delta' = Nothing
    /\ FlushEnds /\ UNCHANGED total /\ FlushFrame

FlushDeletes ==
    /\ flush = "delete"
    /\ DeleteFields
    /\ FlushEnds /\ UNCHANGED total /\ FlushFrame

FlushClearRaises ==
    /\ "clear" \in Faults
    /\ \/ flush \in {"list", "delete"} /\ UNCHANGED delta
       \/ flush = "delete" /\ DeleteFields
    /\ FlushEnds /\ UNCHANGED total /\ FlushFrame

Flush ==
    \/ FlushReads \/ FlushStores \/ FlushStoreRaises
    \/ FlushLists \/ FlushDeletes \/ FlushClearRaises

-----------------------------------------------------------------------------
(* GET /stats: one request at a time, others would trim the same sets.     *)

StatsFrame == UNCHANGED <<topicVars, consumerVars, playVars, flushVars, restarts>>

\* The tracks ZREVRANGE plays:counter 0 TOP_TRACKS_LIMIT-1 may return.
IsTop(T) ==
    LET played == {t \in Tracks : counter[t] > 0} IN
    /\ T \subseteq played
    /\ Cardinality(T) <= TopLimit
    /\ T # played => Cardinality(T) = TopLimit
    /\ \A t \in T, u \in played \ T : counter[t] >= counter[u]

StatsReads ==
    /\ asked = {} /\ trimmed = NoTrack
    /\ \E T \in SUBSET Tracks : IsTop(T) /\ asked' = T
    /\ UNCHANGED <<trimmed, presenceVars>> /\ StatsFrame

StatsFails == "presence" \in Faults /\ asked' = {} /\ trimmed' = NoTrack

\* Mutant: /stats counts who is online without cleaning the set.
StatsKeepsOnline(t) ==
    /\ t \in asked /\ trimmed = NoTrack
    /\ asked' = asked \ {t} /\ trimmed' = t
    /\ UNCHANGED presenceVars /\ StatsFrame

StatsTrimsOnline(t) ==
    /\ t \in asked /\ trimmed = NoTrack
    /\ \/ SetOnline(Trim(online, t, Window)) /\ asked' = asked \ {t} /\ trimmed' = t
       \/ StatsFails /\ UNCHANGED presenceVars
    /\ StatsFrame

StatsTrimsTop24(t) ==
    /\ t = trimmed
    /\ \/ SetTop24(Trim(top24, t, Day)) /\ trimmed' = NoTrack /\ UNCHANGED asked
       \/ StatsFails /\ UNCHANGED presenceVars
    /\ StatsFrame

Stats == StatsReads \/ \E t \in Tracks : StatsTrimsOnline(t) \/ StatsTrimsTop24(t)

-----------------------------------------------------------------------------

\* statistics-api stops and is started again.
Crash ==
    /\ "crash" \in Faults /\ Restarts
    /\ consumer' = "start" /\ event' = NoEvent
    /\ FlushEnds
    /\ asked' = {} /\ trimmed' = NoTrack
    /\ UNCHANGED <<topicVars, position, playVars, presenceVars>>

\* Time passes between events and between requests: the calls for one take
\* no time against the windows.
Older(z) ==
    [t \in Tracks |-> [s \in Listeners |-> IF z[t][s] < Day THEN z[t][s] + 1 ELSE z[t][s]]]

Tick ==
    /\ consumer \notin Placing
    /\ trimmed = NoTrack
    /\ online' = Older(online)
    /\ top24' = Older(top24)
    /\ UNCHANGED <<topicVars, consumerVars, playVars, taskVars, restarts>>

Next ==
    \/ \E p \in Partitions, e \in Events : Publish(p, e)
    \/ Consumer
    \/ Flush
    \/ Stats
    \/ Crash
    \/ Tick

Spec == Init /\ [][Next]_vars

-----------------------------------------------------------------------------
\* What a flush has added to total_plays and not yet deleted from Redis.
Stored(t) == IF flush \in {"list", "delete"} THEN data[t] ELSE 0

\* Plays go from plays:delta to total_plays one for one, whatever fails and
\* whenever the service stops, with three exceptions: HINCRBY adds a play;
\* HDEL drops those that came in after the first HGETALL; and a flush that
\* ends after its COMMIT without HDEL leaves what the next one adds again.
PlaysAreConserved ==
    [][\A t \in Tracks :
        LET before == total[t] + delta[t] + Stored(t)'
            after  == total'[t] + delta'[t] + Stored(t)
        IN  \/ after = before
            \/ consumer = "delta" /\ event.track = t /\ after = before + 1
            \/ flush = "delete" /\ t \in hashes /\ delta[t] > data[t] /\ after < before
            \/ flush # "sleep" /\ flush' = "sleep" /\ after = before + data[t]]_vars

\* The count of plays in PostgreSQL and what is still to be flushed never
\* exceed the count in Redis (statistics-api/main.py:157 "to avoid
\* overcounting"), as long as no flush is cut off after its COMMIT.
PlaysNotOvercounted ==
    \A t \in Tracks : total[t] + delta[t] <= counter[t] + Stored(t)

Started(p, t) ==
    {i \in 1 .. position[p] : topic[p][i].status = "started" /\ topic[p][i].track = t}

\* A play is counted at most once, although consumers start over, as long as
\* a consumer that stops can commit.
PlaysCountedOnce ==
    \A t \in Tracks :
        counter[t] <= Cardinality(UNION {{<<p, i>> : i \in Started(p, t)} : p \in Partitions})

\* Who is listening now has been listening in the last 24 hours, except while
\* the consumer is between the two sets.
OnlineIsWithinDay ==
    \A t \in Tracks, s \in Listeners :
        online[t][s] # Absent =>
            \/ top24[t][s] # Absent
            \/ /\ consumer \in {"trim", "top24"}
               /\ event.track = t /\ event.listener = s

\* No ghost listeners: who is online has played, and the consumer has not yet
\* seen the end of it in the partition that told so.
OnlineHasPlayed ==
    \A t \in Tracks, s \in Listeners :
        online[t][s] # Absent =>
            \/ consumer = "offline" /\ event.track = t /\ event.listener = s
            \/ \E p \in Partitions : \E i \in 1 .. position[p] :
                  /\ topic[p][i] = [status |-> "playing", track |-> t, listener |-> s]
                  /\ \A j \in i + 1 .. position[p] :
                        topic[p][j] # [status |-> "stopped", track |-> t, listener |-> s]

=============================================================================
