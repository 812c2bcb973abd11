------------------------ MODULE TrackDeliveryProofs ------------------------
(***************************************************************************)
(* More theorems of TrackPipeline: what a row may turn into, what the      *)
(* offsets of the group promise, and what an upload that fails leaves      *)
(* behind.  Where a theorem needs some kinds of fault to stay away, its    *)
(* statement names them; every other kind may happen.                      *)
(***************************************************************************)
EXTENDS TrackPipelineProofs

\* The three ways in which worker w moves the row of its track.
ClaimsRow(w, t) ==
    wpc[w] = "claim" /\ status[t] \in {"pending", "failed"} /\ status'[t] = "processing"
FinishesRow(w, t) ==
    wpc[w] = "finish" /\ status[t] = "processing" /\ status'[t] = "ready"
FailsRow(w, t) ==
    wpc[w] = "fail" /\ status[t] # "absent" /\ status'[t] = "failed"

\* A worker moves no other row than that of its track, and moves that one
\* only as the three UPDATEs of database.py do.
LEMMA WorkerMovesRow ==
  ASSUME TypeOK, NEW w \in Workers,
         WorkerStep(w) \/ Evict(w) \/ CriticalFailure(w) \/ Crash(w),
         NEW t \in Tracks, status'[t] # status[t]
  PROVE  t = job[w] /\ (ClaimsRow(w, t) \/ FinishesRow(w, t) \/ FailsRow(w, t))
<1>a. wpc[w] \notin {"poll", "down"} => job[w] \in Tracks
  BY DEF TypeOK, WorkerTypeOK, LoopTypeOK
<1>b. status \in [Tracks -> Statuses]
  BY DEF TypeOK, StoreTypeOK
<1> USE DEF ClaimsRow, FinishesRow, FailsRow
<1>1. CASE Claim(w)
  BY <1>a, <1>b, <1>1 DEF Claim, ClaimRow, Claimable
<1>2. CASE ClaimRefused(w)
  BY <1>a, <1>b, <1>2 DEF ClaimRefused, ClaimRow, Claimable
<1>3. CASE Finish(w)
  BY <1>a, <1>b, <1>3 DEF Finish, ReadyRow
<1>4. CASE Fail(w)
  BY <1>a, <1>b, <1>4 DEF Fail, FailRow, RowExists
<1>5. status' = status \/ Claim(w) \/ ClaimRefused(w) \/ Finish(w) \/ Fail(w)
  BY DEF WorkerStep, Fetch, Check, Download, Convert, UploadFile, UploadFails, UploadDone, Ack, Skip, Restart, Evict, CriticalFailure, Crash, storeVars
<1> QED BY <1>1, <1>2, <1>3, <1>4, <1>5

\* A handler of core-api creates the row of its own upload, which no worker
\* can have met yet, or deletes it; it moves no other row.
LEMMA HandlerMovesRow ==
  ASSUME TypeOK, SagaInv, NEW u \in Tracks, ReceiveUpload(u) \/ HandlerStep(u),
         NEW t \in Tracks, status'[t] # status[t]
  PROVE  /\ t = u
         /\ \/ upload[t] = "creating" /\ status[t] = "absent" /\ status'[t] = "pending"
            \/ upload[t] = "undo_row" /\ status'[t] = "absent"
<1>b. status \in [Tracks -> Statuses] /\ upload \in [Tracks -> UploadStates]
  BY DEF TypeOK, StoreTypeOK, UploadTypeOK
<1>1. CASE CreateTrack(u)
  <2>1. upload[u] = "creating" /\ status[u] = "absent"
    BY <1>1 DEF CreateTrack, SagaInv, WritesInv, RowExists
  <2> QED BY <1>b, <1>1, <2>1 DEF CreateTrack, InsertRow
<1>2. CASE UndoRow(u)
  BY <1>b, <1>2 DEF UndoRow, DeleteRow
<1>3. status' = status \/ CreateTrack(u) \/ UndoRow(u)
  BY DEF ReceiveUpload, HandlerStep, StoreOriginal, ProduceJob, PublishSucceeds, PublishFails, UndoRaw, storeVars
<1> QED BY <1>1, <1>2, <1>3

\* Under every fault, a row that is 'ready' stays ready until the rollback of
\* its own upload deletes it: the unconditional UPDATE to 'failed'
\* (database.py:60) never meets it.
THEOREM ReadyStaysReady == Spec => ReadyIsFinal
<1> DEFINE Final == \A t \in Tracks :
         status[t] = "ready" /\ status'[t] # "ready" =>
             upload[t] = "undo_row" /\ ~RowExists(t)'
<1>1. TypeOK /\ SagaInv /\ ClaimInv /\ [Next]_vars => Final
  <2> SUFFICES ASSUME TypeOK, SagaInv, ClaimInv, [Next]_vars, NEW t \in Tracks,
                      status[t] = "ready", status'[t] # "ready"
               PROVE  upload[t] = "undo_row" /\ ~RowExists(t)'
    OBVIOUS
  <2>1. ASSUME NEW u \in Tracks, ReceiveUpload(u) \/ HandlerStep(u)
        PROVE  upload[t] = "undo_row" /\ ~RowExists(t)'
    BY <2>1, HandlerMovesRow DEF RowExists
  <2>2. ASSUME NEW w \in Workers,
               WorkerStep(w) \/ Evict(w) \/ CriticalFailure(w) \/ Crash(w)
        PROVE  FALSE
    <3>1. t = job[w] /\ FailsRow(w, t)
      BY <2>2, WorkerMovesRow DEF ClaimsRow, FinishesRow
    \* A worker about to report a failure holds the track.
    <3>2. status[t] \in {"processing", "absent"}
      BY <3>1 DEF ClaimInv, RowInv, FailsRow, Holding
    <3> QED BY <3>2
  <2>3. CASE CrashCoreApi \/ Rebalance \/ UNCHANGED vars
    BY <2>3 DEF CrashCoreApi, Rebalance, vars, storeVars
  <2> QED BY <2>1, <2>2, <2>3 DEF Next, CoreApi, Converters, Idle
<1>2. TypeOK /\ SagaInv /\ ClaimInv /\ [Next]_vars => [Final]_vars
  BY <1>1
<1> QED BY <1>2, TypeCorrect, SagaInvariant, ClaimInvariant, PTL DEF Spec, ReadyIsFinal
-----------------------------------------------------------------------------
(***************************************************************************)
(* The consumer group.  A worker outside the group may believe whatever it *)
(* likes about its partitions and positions; the members' views exclude    *)
(* each other and none of them is behind the committed offset.             *)
(***************************************************************************)
GroupInv ==
    /\ \A v, w \in members : \A p \in Partitions : p \in view[v] /\ p \in view[w] => v = w
    /\ \A w \in members : \A p \in view[w] : committed[p] <= pos[w][p]

\* What is left of GroupInv when the members become fewer and no position of
\* a remaining one moves.
LEMMA SmallerGroup ==
  ASSUME GroupInv, members' \subseteq members, committed' = committed,
         \A v \in members' : view'[v] = view[v] /\ pos'[v] = pos[v]
  PROVE  GroupInv'
BY Zenon DEF GroupInv

LEMMA RebalanceGroup ==
  ASSUME TypeOK, Rebalance
  PROVE  GroupInv'
<1>1. PICK group \in (SUBSET Polling) \ {{}} : \E owner \in [Partitions -> group] :
         /\ members \subseteq group
         /\ \/ group # members
            \/ \E p \in Partitions : \A w \in members : p \notin view[w]
         /\ members' = group
         /\ view' = [w \in Workers |->
                       IF w \in group THEN {p \in Partitions : owner[p] = w} ELSE view[w]]
         /\ pos' = [w \in Workers |-> IF w \in group THEN committed ELSE pos[w]]
         /\ UNCHANGED <<committed, workVars, storeVars>>
  BY Zenon DEF Rebalance
<1>2. PICK owner \in [Partitions -> group] :
         /\ members' = group
         /\ view' = [w \in Workers |->
                       IF w \in group THEN {p \in Partitions : owner[p] = w} ELSE view[w]]
         /\ pos' = [w \in Workers |-> IF w \in group THEN committed ELSE pos[w]]
         /\ UNCHANGED committed
  BY <1>1
<1>3. group \subseteq Polling
  OBVIOUS
<1>4. group \subseteq Workers
  BY <1>3 DEF Polling
<1>5. \A w \in members' : /\ view'[w] = {p \in Partitions : owner[p] = w}
                          /\ pos'[w] = committed'
  BY <1>2, <1>4
<1>6. \A p \in Partitions : committed'[p] <= committed'[p]
  BY <1>2 DEF TypeOK, WorkerTypeOK, GroupTypeOK
<1> QED BY <1>5, <1>6 DEF GroupInv

\* A commit that arrives moves no offset back, nor past a member's position.
LEMMA CommitGroup ==
  ASSUME TypeOK, GroupInv, NEW w \in Workers, CommitArrives(w)
  PROVE  /\ \A v \in members : \A p \in view[v] : committed'[p] <= pos[v][p]
         /\ \A p \in Partitions : committed'[p] >= committed[p]
<1>1. /\ view \in [Workers -> SUBSET Partitions] /\ members \subseteq Workers
      /\ pos \in [Workers -> [Partitions -> Nat]] /\ committed \in [Partitions -> Nat]
  BY DEF TypeOK, WorkerTypeOK, GroupTypeOK
<1>2. /\ w \in members
      /\ \A p \in Partitions :
           committed'[p] = IF p \in view[w] THEN pos[w][p] ELSE committed[p]
  BY DEF CommitArrives
\* Only w itself reads from the partitions in which w commits.
<1>3. \A v \in members : \A p \in view[v] : committed'[p] <= pos[v][p]
  <2> TAKE v \in members
  <2> TAKE p \in view[v]
  <2>1. p \in Partitions /\ v \in Workers /\ pos[v][p] \in Nat
    BY <1>1
  <2>2. CASE p \in view[w]
    <3>1. v = w
      BY <1>2, <2>1, <2>2 DEF GroupInv
    <3> QED BY <1>2, <2>1, <2>2, <3>1
  <2>3. CASE p \notin view[w]
    BY <1>2, <2>1, <2>3 DEF GroupInv
  <2> QED BY <2>2, <2>3
<1>4. \A p \in Partitions : committed'[p] >= committed[p]
  BY <1>1, <1>2 DEF GroupInv
<1> QED BY <1>3, <1>4

\* What a worker's step does to the group.
LEMMA WorkerGroup ==
  ASSUME TypeOK, GroupInv, NEW w \in Workers,
         WorkerStep(w) \/ Evict(w) \/ CriticalFailure(w) \/ Crash(w)
  PROVE  /\ GroupInv'
         /\ \A p \in Partitions : committed'[p] >= committed[p]
<1>a. /\ view \in [Workers -> SUBSET Partitions] /\ members \subseteq Workers
      /\ pos \in [Workers -> [Partitions -> Nat]] /\ committed \in [Partitions -> Nat]
  BY DEF TypeOK, WorkerTypeOK, GroupTypeOK
<1>b. committed' = committed => \A p \in Partitions : committed'[p] >= committed[p]
  BY <1>a
<1>1. CASE \E p \in Partitions : Fetch(w, p)
  <2> PICK p \in Partitions : Fetch(w, p)
    BY <1>1
  <2>1. /\ members' = members /\ view' = view /\ committed' = committed
        /\ pos' = [pos EXCEPT ![w][p] = @ + 1]
    BY DEF Fetch
  <2>2. \A v \in Workers, q \in Partitions : pos[v][q] <= pos'[v][q] /\ pos'[v][q] \in Nat
    BY <1>a, <2>1
  <2>3. \A v \in members : \A q \in view[v] : committed[q] <= pos'[v][q]
    <3> TAKE v \in members
    <3> TAKE q \in view[v]
    <3>1. v \in Workers /\ q \in Partitions /\ committed[q] \in Nat /\ pos[v][q] \in Nat
      BY <1>a
    <3>2. committed[q] <= pos[v][q]
      BY DEF GroupInv
    <3> QED BY <3>1, <3>2, <2>2
  <2>4. GroupInv'
    BY <2>1, <2>3 DEF GroupInv
  <2> QED BY <1>b, <2>1, <2>4
<1>2. CASE Commit(w)
  <2>1. CommitArrives(w) /\ UNCHANGED <<members, view, pos>>
    BY <1>2 DEF Commit
  <2> QED BY <2>1, CommitGroup DEF GroupInv
<1>3. CASE Die(w) /\ (UNCHANGED committed \/ CommitArrives(w))
  <2>1. /\ members' = members \ {w}
        /\ \A v \in Workers \ {w} : view'[v] = view[v] /\ pos'[v] = pos[v]
    BY <1>a, <1>3 DEF Die
  <2>2. CASE committed' = committed
    BY <1>a, <1>b, <2>1, <2>2, SmallerGroup
  <2>3. CASE CommitArrives(w)
    BY <1>a, <2>1, <2>3, CommitGroup DEF GroupInv
  <2> QED BY <1>3, <2>2, <2>3
<1>4. CASE Evict(w)
  <2>1. members' \subseteq members /\ UNCHANGED <<view, pos, committed>>
    BY <1>4 DEF Evict
  <2> QED BY <1>b, <2>1, SmallerGroup
<1>5. CASE UNCHANGED groupVars
  <2>1. UNCHANGED <<members, view, pos, committed>>
    BY <1>5 DEF groupVars
  <2> QED BY <1>b, <2>1, SmallerGroup
<1> QED BY <1>1, <1>2, <1>3, <1>4, <1>5 DEF WorkerStep, Check, Claim, ClaimRefused, Download, Convert, UploadFile, UploadFails, UploadDone, Finish, Fail, Ack, CommitFails, Skip, Restart, CriticalFailure, Crash

LEMMA GroupInvariant == Spec => []GroupInv
<1>1. Init => GroupInv
  BY DEF Init, WorkerInit, GroupInv
<1>2. TypeOK /\ GroupInv /\ [Next]_vars => GroupInv'
  <2> SUFFICES ASSUME TypeOK, GroupInv, [Next]_vars PROVE GroupInv'
    OBVIOUS
  <2>1. CASE Rebalance
    BY <2>1, RebalanceGroup
  <2>2. CASE \E w \in Workers :
               WorkerStep(w) \/ Evict(w) \/ CriticalFailure(w) \/ Crash(w)
    BY <2>2, WorkerGroup
  <2>3. CASE UNCHANGED groupVars
    BY <2>3, SmallerGroup DEF groupVars
  <2> QED BY <2>1, <2>2, <2>3 DEF Next, CoreApi, Converters, Idle, vars, groupVars
<1> QED BY <1>1, <1>2, TypeCorrect, PTL DEF Spec

\* Under every fault, no committed offset moves back: a worker that was
\* evicted and goes on with its job commits nothing, and a member commits
\* only in partitions where no other member has gone further.
THEOREM OffsetsNeverRewind == Spec => CommitsNeverRewind
<1> DEFINE Onward == \A p \in Partitions : committed'[p] >= committed[p]
<1>1. TypeOK /\ GroupInv /\ [Next]_vars => Onward
  <2> SUFFICES ASSUME TypeOK, GroupInv, [Next]_vars PROVE Onward
    OBVIOUS
  <2>1. CASE committed' = committed
    BY <2>1 DEF TypeOK, WorkerTypeOK, GroupTypeOK
  <2>2. CASE \E w \in Workers :
               WorkerStep(w) \/ Evict(w) \/ CriticalFailure(w) \/ Crash(w)
    BY <2>2, WorkerGroup
  <2> QED BY <2>1, <2>2 DEF Next, CoreApi, Converters, Rebalance, Idle, vars, groupVars
<1>2. TypeOK /\ GroupInv /\ [Next]_vars => [Onward]_vars
  BY <1>1
<1> QED BY <1>2, TypeCorrect, GroupInvariant, PTL DEF Spec, CommitsNeverRewind
-----------------------------------------------------------------------------
(***************************************************************************)
(* Jobs.  Without crashes, failing statements and unexpected exceptions in *)
(* the workers, whatever happens to core-api, S3, ffmpeg and the group:    *)
(* a row is 'processing' only while a worker has it (HeldInv); a worker    *)
(* that has claimed or passed over its track has not left it 'pending'     *)
(* (TakenInv); and of what a member has read, no track is 'pending' but    *)
(* the one it is at (SeenInv), so that a commit covers nothing that is     *)
(* 'pending' (CommittedInv).                                               *)
(***************************************************************************)
HeldInv == \A t \in Tracks : status[t] = "processing" => \E w \in Workers : Holds(w, t)

Taken == Holding \cup {"ack", "skip"}

TakenInv == \A w \in Workers : wpc[w] \in Taken => status[job[w]] # "pending"

SeenInv ==
    \A w \in members : \A p \in view[w] : \A i \in DOMAIN topic[p] :
        i <= pos[w][p] => status[topic[p][i]] # "pending" \/ topic[p][i] = job[w]

CommittedInv ==
    \A p \in Partitions : \A i \in DOMAIN topic[p] :
        i <= committed[p] => status[topic[p][i]] # "pending"

JobInv == HeldInv /\ TakenInv /\ SeenInv /\ CommittedInv

CalmWorkers == {"crash", "db", "exception"} \cap Faults = {}

\* No step makes the row of a launched upload 'pending'.
LEMMA PendingIsNew ==
  ASSUME TypeOK, SagaInv, [Next]_vars, NEW t \in Tracks,
         upload[t] \in Launched, status[t] # "pending"
  PROVE  status'[t] # "pending"
<1>1. ASSUME NEW u \in Tracks, ReceiveUpload(u) \/ HandlerStep(u)
      PROVE  status'[t] # "pending"
  BY <1>1, HandlerMovesRow DEF Launched
<1>2. ASSUME NEW w \in Workers,
             WorkerStep(w) \/ Evict(w) \/ CriticalFailure(w) \/ Crash(w)
      PROVE  status'[t] # "pending"
  BY <1>2, WorkerMovesRow DEF ClaimsRow, FinishesRow, FailsRow
<1>3. CASE CrashCoreApi \/ Rebalance \/ UNCHANGED vars
  BY <1>3 DEF CrashCoreApi, Rebalance, vars, storeVars
<1> QED BY <1>1, <1>2, <1>3 DEF Next, CoreApi, Converters, Idle

\* A worker lets go of a track only by a report, and its step is its own.
LEMMA WorkerKeepsHold ==
  ASSUME CalmWorkers, TypeOK, NEW w \in Workers,
         WorkerStep(w) \/ Evict(w) \/ CriticalFailure(w) \/ Crash(w)
  PROVE  /\ \A v \in Workers \ {w} : wpc'[v] = wpc[v] /\ job'[v] = job[v]
         /\ wpc[w] \in Holding /\ wpc'[w] \notin Holding => wpc[w] \in {"finish", "fail"}
         /\ wpc[w] \in Holding => job'[w] = job[w]
<1>a. /\ wpc \in [Workers -> WorkerStates]
      /\ job \in [Workers -> Tracks \cup {NoJob}]
  BY DEF TypeOK, WorkerTypeOK, LoopTypeOK
<1> USE <1>a DEF Holding
<1>1. CASE \E p \in Partitions : Fetch(w, p)
  BY <1>1 DEF Fetch
<1>2. CASE Check(w) \/ Claim(w) \/ ClaimRefused(w)
  BY <1>2 DEF Check, Claim, ClaimRefused, Jump
<1>3. CASE Download(w) \/ Convert(w)
  BY <1>3 DEF Download, Convert, Jump
<1>4. CASE \E f \in HlsFiles : UploadFile(w, f) \/ UploadFails(w, f)
  BY <1>4 DEF UploadFile, UploadFails, Jump
<1>5. CASE UploadDone(w) \/ Finish(w) \/ Fail(w)
  BY <1>5 DEF UploadDone, Finish, Fail, Jump
<1>6. CASE Ack(w) \/ Skip(w)
  BY <1>6 DEF Ack, Skip, NextMessage, Die
<1>7. CASE Restart(w) \/ Evict(w)
  BY <1>7 DEF Restart, Evict, workVars
<1>8. ~CriticalFailure(w) /\ ~Crash(w)
  BY DEF CalmWorkers, CriticalFailure, Crash
<1> QED BY <1>1, <1>2, <1>3, <1>4, <1>5, <1>6, <1>7, <1>8 DEF WorkerStep

\* Without failing statements, what a worker ends with it has reported.
LEMMA HeldStep ==
  ASSUME CalmWorkers, TypeOK, SagaInv, ClaimInv, HeldInv, [Next]_vars
  PROVE  HeldInv'
<1> SUFFICES ASSUME NEW t \in Tracks, status'[t] = "processing"
             PROVE  \E w \in Workers : Holds(w, t)'
  BY DEF HeldInv
<1>1. CASE UNCHANGED <<workVars, status>>
  <2>1. PICK w \in Workers : Holds(w, t)
    BY <1>1 DEF HeldInv
  <2> QED BY <1>1, <2>1 DEF Holds, workVars
<1>2. ASSUME NEW u \in Tracks, ReceiveUpload(u) \/ HandlerStep(u), UNCHANGED workVars
      PROVE  \E w \in Workers : Holds(w, t)'
  <2>1. status[t] = "processing"
    BY <1>2, HandlerMovesRow
  <2>2. PICK w \in Workers : Holds(w, t)
    BY <2>1 DEF HeldInv
  <2> QED BY <1>2, <2>2 DEF Holds, workVars
<1>3. ASSUME NEW w \in Workers,
             WorkerStep(w) \/ Evict(w) \/ CriticalFailure(w) \/ Crash(w)
      PROVE  \E v \in Workers : Holds(v, t)'
  <2>a. /\ wpc \in [Workers -> WorkerStates]
        /\ job \in [Workers -> Tracks \cup {NoJob}]
        /\ status \in [Tracks -> Statuses]
    BY DEF TypeOK, StoreTypeOK, WorkerTypeOK, LoopTypeOK
  <2>1. CASE status[t] # "processing"
    \* The row has just been claimed.
    <3>1. t = job[w] /\ wpc[w] = "claim" /\ status'[t] # status[t]
      BY <1>3, <2>1, WorkerMovesRow DEF ClaimsRow, FinishesRow, FailsRow
    <3>2. wpc'[w] = "download" /\ job'[w] = t
      <4>1. ~(wpc[w] = "claim" /\ ClaimRefused(w))
        BY <3>1, <2>1 DEF CalmWorkers, ClaimRefused
      <4>2. Claim(w)
        BY <1>3, <3>1, <4>1 DEF WorkerStep, Fetch, Check, Download, Convert, UploadFile, UploadFails, UploadDone, Finish, Fail, Ack, Skip, Restart, Evict, CriticalFailure, Crash, storeVars
      <4> QED BY <2>a, <3>1, <4>2 DEF Claim, Jump
    <3> QED BY <3>2 DEF Holds, Holding
  <2>2. CASE status[t] = "processing"
    <3>1. PICK v \in Workers : Holds(v, t)
      BY <2>2 DEF HeldInv
    <3>2. CASE v # w
      BY <1>3, <3>1, <3>2, WorkerKeepsHold DEF Holds
    <3>3. CASE v = w /\ wpc'[w] \in Holding
      BY <1>3, <3>1, <3>3, WorkerKeepsHold DEF Holds
    <3>4. CASE v = w /\ wpc'[w] \notin Holding
      <4>1. wpc[w] \in {"finish", "fail"} /\ job[w] = t
        BY <1>3, <3>1, <3>4, WorkerKeepsHold DEF Holds
      <4>2. Finish(w) \/ Fail(w)
        BY <1>3, <2>a, <3>4, <4>1 DEF CalmWorkers, WorkerStep, Fetch, Check, Claim, ClaimRefused, Download, Convert, UploadFile, UploadFails, UploadDone, Ack, Skip, Restart, Evict, CriticalFailure, Crash, workVars, Holding
      <4>3. status'[t] \in {"ready", "failed"}
        BY <2>a, <2>2, <4>1, <4>2 DEF CalmWorkers, Finish, Fail, ReadyRow, FailRow, RowExists
      <4> QED BY <4>3
    <3> QED BY <3>2, <3>3, <3>4
  <2> QED BY <2>1, <2>2
<1>4. CASE CrashCoreApi /\ UNCHANGED workVars
  BY <1>1, <1>4 DEF CrashCoreApi, storeVars
<1>5. CASE Rebalance \/ UNCHANGED vars
  BY <1>1, <1>5 DEF Rebalance, storeVars, vars
<1> QED BY <1>2, <1>3, <1>4, <1>5 DEF Next, CoreApi, Converters, Idle

LEMMA TakenStep ==
  ASSUME CalmWorkers, TypeOK, SagaInv, TakenInv, [Next]_vars
  PROVE  TakenInv'
<1>a. /\ wpc \in [Workers -> WorkerStates]
      /\ job \in [Workers -> Tracks \cup {NoJob}]
      /\ status \in [Tracks -> Statuses]
      /\ \A w \in Workers : wpc[w] \notin {"poll", "down"} => job[w] \in Tracks
  BY DEF TypeOK, StoreTypeOK, WorkerTypeOK, LoopTypeOK
<1>1. ASSUME NEW v \in Workers, wpc[v] \in Taken, job'[v] = job[v]
      PROVE  status'[job'[v]] # "pending"
  <2>1. job[v] \in Tracks /\ job[v] # NoJob
    BY <1>a, <1>1, NoJobAssumption DEF Taken, Holding
  <2> QED BY <1>1, <2>1, PendingIsNew DEF TakenInv, SagaInv, JobsInv
<1>2. ASSUME UNCHANGED workVars PROVE TakenInv'
  BY <1>1, <1>2 DEF workVars, TakenInv
<1>3. ASSUME NEW w \in Workers,
             WorkerStep(w) \/ Evict(w) \/ CriticalFailure(w) \/ Crash(w)
      PROVE  TakenInv'
  <2> SUFFICES ASSUME NEW v \in Workers, wpc'[v] \in Taken
               PROVE  status'[job'[v]] # "pending"
    BY DEF TakenInv
  <2>1. CASE v # w
    BY <1>1, <1>3, <2>1, WorkerKeepsHold
  <2>2. CASE v = w
    <3>1. CASE wpc[w] \in Taken
      <4>1. job'[w] = job[w]
        BY <1>3, <1>a, <2>2, <3>1 DEF Taken, Holding, WorkerStep, Fetch, Check, Claim, ClaimRefused, Download, Convert, UploadFile, UploadFails, UploadDone, Finish, Fail, Ack, Skip, NextMessage, Die, Restart, Evict, CriticalFailure, Crash, Jump, workVars
      <4> QED BY <1>1, <2>2, <3>1, <4>1
    <3>2. CASE Check(w)
      BY <1>a, <2>2, <3>2 DEF Check, Jump, Taken, Holding, storeVars
    <3>3. CASE Claim(w)
      BY <1>a, <2>2, <3>3 DEF Claim, ClaimRow, Jump
    <3>4. CASE ClaimRefused(w)
      BY <1>a, <2>2, <3>4 DEF CalmWorkers, ClaimRefused, Claimable, Jump
    <3>5. \/ wpc[w] \in Taken \/ Check(w) \/ Claim(w) \/ ClaimRefused(w)
      BY <1>3, <1>a, <2>2 DEF Taken, Holding, WorkerStep, Fetch, Download, Convert, UploadFile, UploadFails, UploadDone, Finish, Fail, Ack, Skip, Restart, Evict, CriticalFailure, Crash, Die, NextMessage, workVars
    <3> QED BY <3>1, <3>2, <3>3, <3>4, <3>5
  <2> QED BY <2>1, <2>2
<1> QED BY <1>2, <1>3 DEF Next, CoreApi, Converters, Idle, Rebalance, vars, workVars

\* A topic only grows.
LEMMA TopicGrows ==
  ASSUME TypeOK, [Next]_vars
  PROVE  topic' = topic \/ \E t \in Tracks, q \in Partitions :
                               topic' = [topic EXCEPT ![q] = Append(@, t)]
<1>1. ASSUME NEW w \in Workers,
             WorkerStep(w) \/ Evict(w) \/ CriticalFailure(w) \/ Crash(w)
      PROVE  topic' = topic
  BY <1>1, WorkerFrame
<1>2. ASSUME NEW u \in Tracks, ReceiveUpload(u) \/ HandlerStep(u)
      PROVE  \/ topic' = topic
             \/ \E q \in Partitions : topic' = [topic EXCEPT ![q] = Append(@, u)]
  BY <1>2 DEF ReceiveUpload, HandlerStep, StoreOriginal, CreateTrack, ProduceJob, AppendJob, PublishSucceeds, PublishFails, UndoRow, UndoRaw, storeVars
<1>3. CASE CrashCoreApi \/ Rebalance \/ UNCHANGED vars
  BY <1>3 DEF CrashCoreApi, Rebalance, vars, storeVars
<1> QED BY <1>1, <1>2, <1>3 DEF Next, CoreApi, Converters, Idle

\* A record keeps its place, and its track does not become 'pending' again.
LEMMA RecordsStay ==
  ASSUME TypeOK, SagaInv, [Next]_vars, NEW p \in Partitions, NEW i \in DOMAIN topic'[p],
         i <= Len(topic[p])
  PROVE  /\ i \in DOMAIN topic[p] /\ topic'[p][i] = topic[p][i]
         /\ status[topic[p][i]] # "pending" => status'[topic[p][i]] # "pending"
<1>a. topic \in [Partitions -> Seq(Tracks)] /\ topic[p] \in Seq(Tracks)
  BY DEF TypeOK, StoreTypeOK
<1>1. i \in DOMAIN topic[p] /\ topic'[p][i] = topic[p][i]
  <2>1. CASE topic' = topic
    BY <2>1
  <2>2. ASSUME NEW t \in Tracks, NEW q \in Partitions,
               topic' = [topic EXCEPT ![q] = Append(@, t)]
        PROVE  i \in DOMAIN topic[p] /\ topic'[p][i] = topic[p][i]
    BY <1>a, <2>2
  <2> QED BY TopicGrows, <2>1, <2>2
<1>2. topic[p][i] \in Tracks
  BY <1>a, <1>1
<1> QED BY <1>1, <1>2, PendingIsNew DEF SagaInv, RecordsInv

\* Where the group and the commits stay as they are, only new records could
\* break what is known of the old ones, and they are beyond every position.
LEMMA SeenFrame ==
  ASSUME TypeOK, TypeOK', SagaInv, [Next]_vars
  PROVE  /\ CommittedInv /\ UNCHANGED committed => CommittedInv'
         /\ SeenInv => \A w \in members : \A p \in view[w] : \A i \in DOMAIN topic'[p] :
              i <= pos[w][p] => status'[topic'[p][i]] # "pending" \/ topic'[p][i] = job[w]
<1>a. /\ topic \in [Partitions -> Seq(Tracks)]
      /\ view \in [Workers -> SUBSET Partitions] /\ members \subseteq Workers
      /\ pos \in [Workers -> [Partitions -> Nat]] /\ committed \in [Partitions -> Nat]
      /\ \A p \in Partitions :
           /\ committed[p] <= Len(topic[p])
           /\ \A w \in Workers : pos[w][p] <= Len(topic[p])
  BY DEF TypeOK, StoreTypeOK, WorkerTypeOK, GroupTypeOK
<1>b. \A p \in Partitions : DOMAIN topic'[p] \subseteq Nat
  <2>1. topic' \in [Partitions -> Seq(Tracks)]
    BY DEF TypeOK, StoreTypeOK
  <2> QED BY <2>1
<1>1. ASSUME CommittedInv, UNCHANGED committed,
             NEW p \in Partitions, NEW i \in DOMAIN topic'[p], i <= committed[p]
      PROVE  status'[topic'[p][i]] # "pending"
  <2>1. i <= Len(topic[p])
    BY <1>a, <1>b, <1>1
  <2> QED BY <1>1, <2>1, RecordsStay DEF CommittedInv
<1>2. ASSUME SeenInv, NEW w \in members, NEW p \in view[w], NEW i \in DOMAIN topic'[p],
             i <= pos[w][p]
      PROVE  status'[topic'[p][i]] # "pending" \/ topic'[p][i] = job[w]
  <2>1. p \in Partitions /\ i <= Len(topic[p])
    BY <1>a, <1>b, <1>2
  <2> QED BY <1>2, <2>1, RecordsStay DEF SeenInv
<1> QED BY <1>1, <1>2 DEF CommittedInv

\* A worker is at another track, or at none, only after a report or a check
\* of the last one, and the next one is the record at its new position.
LEMMA WorkerMovesOn ==
  ASSUME CalmWorkers, TypeOK, NEW w \in Workers,
         WorkerStep(w) \/ Evict(w) \/ CriticalFailure(w) \/ Crash(w)
  PROVE  /\ members' \subseteq members
         /\ \A v \in Workers \ {w} : view'[v] = view[v] /\ pos'[v] = pos[v] /\ job'[v] = job[v]
         /\ \/ /\ UNCHANGED <<view, pos>>
               /\ job'[w] = job[w] \/ wpc[w] \in {"ack", "skip"}
               /\ committed' = committed \/ (wpc[w] \in {"ack", "skip"} /\ Commit(w))
            \/ /\ \E p \in Partitions : Fetch(w, p)
               /\ UNCHANGED committed
            \/ /\ w \notin members'
               /\ UNCHANGED committed
<1>a. /\ job \in [Workers -> Tracks \cup {NoJob}]
      /\ view \in [Workers -> SUBSET Partitions] /\ members \subseteq Workers
      /\ pos \in [Workers -> [Partitions -> Nat]]
  BY DEF TypeOK, WorkerTypeOK, LoopTypeOK, GroupTypeOK
<1> USE <1>a
<1>1. CASE \E p \in Partitions : Fetch(w, p)
  BY <1>1 DEF Fetch
<1>2. CASE UNCHANGED <<members, view, pos, committed, job>>
  BY <1>2
<1>3. CASE Ack(w)
  <2>1. /\ UNCHANGED <<members, view, pos>> /\ wpc[w] = "ack"
        /\ \A v \in Workers \ {w} : job'[v] = job[v]
        /\ committed' = committed \/ Commit(w)
    BY <1>3 DEF Ack, Commit, CommitFails, NextMessage, groupVars
  <2> QED BY <2>1
<1>4. CASE Skip(w) /\ Commit(w)
  BY <1>4 DEF Skip, Commit, NextMessage, Die
<1>5. CASE Skip(w) /\ ~Commit(w)
  BY <1>5 DEF CalmWorkers, Skip, Die, Commit
<1>6. CASE Evict(w)
  BY <1>6 DEF Evict, workVars
<1>7. ~CriticalFailure(w) /\ ~Crash(w)
  BY DEF CalmWorkers, CriticalFailure, Crash
<1>8. \/ \E p \in Partitions : Fetch(w, p)
      \/ UNCHANGED <<members, view, pos, committed, job>>
      \/ Ack(w) \/ Skip(w) \/ Evict(w)
  BY <1>7 DEF WorkerStep, Check, Claim, ClaimRefused, Download, Convert, UploadFile, UploadFails, UploadDone, Finish, Fail, Restart, Jump, groupVars
<1> QED BY <1>1, <1>2, <1>3, <1>4, <1>5, <1>6, <1>8 DEF Skip

LEMMA SeenStep ==
  ASSUME CalmWorkers, TypeOK, TypeOK', SagaInv, TakenInv, SeenInv, CommittedInv, [Next]_vars
  PROVE  SeenInv'
<1>a. /\ members \subseteq Workers /\ view \in [Workers -> SUBSET Partitions]
      /\ pos \in [Workers -> [Partitions -> Nat]]
      /\ \A v \in Workers : wpc[v] \notin {"poll", "down"} => job[v] \in Tracks
      /\ \A v \in Workers : wpc[v] = "poll" => job[v] = NoJob
  BY DEF TypeOK, WorkerTypeOK, LoopTypeOK, GroupTypeOK
<1>1. CASE UNCHANGED <<workVars, groupVars>>
  BY <1>1, SeenFrame, Zenon DEF SeenInv, workVars, groupVars
<1>2. CASE Rebalance
  <2>1. /\ UNCHANGED <<status, topic>>
        /\ \A w \in members' : w \in Workers /\ pos'[w] = committed /\ view'[w] \subseteq Partitions
    <3>1. members' \subseteq Workers /\ view' \in [Workers -> SUBSET Partitions]
      BY DEF TypeOK, WorkerTypeOK, GroupTypeOK
    <3> QED BY <1>2, <3>1 DEF Rebalance, storeVars
  <2> QED BY <2>1 DEF SeenInv, CommittedInv
<1>3. ASSUME NEW w \in Workers,
             WorkerStep(w) \/ Evict(w) \/ CriticalFailure(w) \/ Crash(w)
      PROVE  SeenInv'
  <2> SUFFICES ASSUME NEW v \in members', NEW p \in view'[v], NEW i \in DOMAIN topic'[p],
                      i <= pos'[v][p]
               PROVE  status'[topic'[p][i]] # "pending" \/ topic'[p][i] = job'[v]
    BY DEF SeenInv
  <2>1. v \in members /\ v \in Workers
    BY <1>a, <1>3, WorkerMovesOn
  <2>2. CASE view'[v] = view[v] /\ pos'[v] = pos[v] /\ job'[v] = job[v]
    BY <2>1, <2>2, SeenFrame
  <2>3. CASE v = w /\ UNCHANGED <<view, pos>> /\ wpc[w] \in {"ack", "skip"}
    \* The track w was at is no longer 'pending'.
    <3>1. job[w] \in Tracks /\ job[w] # NoJob /\ status[job[w]] # "pending"
      BY <1>a, <2>3, NoJobAssumption DEF TakenInv, Taken
    <3>2. status'[job[w]] # "pending"
      BY <3>1, PendingIsNew DEF SagaInv, JobsInv
    <3>3. status'[topic'[p][i]] # "pending" \/ topic'[p][i] = job[v]
      BY <2>1, <2>3, SeenFrame
    <3> QED BY <2>3, <3>2, <3>3
  <2>4. CASE v = w /\ \E q \in Partitions : Fetch(w, q)
    <3> PICK q \in Partitions : Fetch(w, q)
      BY <2>4
    <3>1. /\ topic' = topic /\ status' = status /\ view' = view /\ job[w] = NoJob
          /\ job'[w] = topic[q][pos[w][q] + 1]
          /\ pos' = [pos EXCEPT ![w][q] = @ + 1]
      BY <1>a DEF Fetch, storeVars, TypeOK, WorkerTypeOK, LoopTypeOK
    <3>2. p \in Partitions /\ pos[w][p] \in Nat /\ i \in Nat /\ topic[p][i] \in Tracks
      BY <1>a, <2>4, <3>1 DEF TypeOK, StoreTypeOK
    <3>3. CASE i <= pos[w][p]
      BY <2>1, <2>4, <3>1, <3>2, <3>3, NoJobAssumption DEF SeenInv
    <3>4. CASE ~(i <= pos[w][p])
      <4>1. p = q /\ i = pos[w][q] + 1
        BY <1>a, <2>4, <3>1, <3>2, <3>4
      <4> QED BY <2>4, <3>1, <4>1
    <3> QED BY <3>3, <3>4
  <2> QED BY <1>3, <2>1, <2>2, <2>3, <2>4, WorkerMovesOn
<1> QED BY <1>1, <1>2, <1>3 DEF Next, CoreApi, Converters, Idle, vars

LEMMA CommittedStep ==
  ASSUME CalmWorkers, TypeOK, TypeOK', SagaInv, TakenInv, SeenInv, CommittedInv, [Next]_vars
  PROVE  CommittedInv'
<1>1. CASE UNCHANGED committed
  BY <1>1, SeenFrame
<1>2. ASSUME NEW w \in Workers, wpc[w] \in {"ack", "skip"}, Commit(w)
      PROVE  CommittedInv'
  <2> SUFFICES ASSUME NEW p \in Partitions, NEW i \in DOMAIN topic'[p], i <= committed'[p]
               PROVE  status'[topic'[p][i]] # "pending"
    BY DEF CommittedInv
  <2>1. i \in Nat /\ committed[p] \in Nat /\ pos[w][p] \in Nat /\ w \in members
        /\ Len(topic[p]) \in Nat /\ committed[p] <= Len(topic[p]) /\ pos[w][p] <= Len(topic[p])
    <3>1. topic'[p] \in Seq(Tracks) /\ topic[p] \in Seq(Tracks)
      BY DEF TypeOK, StoreTypeOK
    <3> QED BY <1>2, <3>1 DEF Commit, CommitArrives, TypeOK, WorkerTypeOK, GroupTypeOK
  <2>2. committed'[p] = IF p \in view[w] THEN pos[w][p] ELSE committed[p]
    BY <1>2 DEF Commit, CommitArrives
  <2>3. i \in DOMAIN topic[p] /\ topic'[p][i] = topic[p][i]
    BY <2>1, <2>2, RecordsStay
  <2>4. status[topic[p][i]] # "pending"
    <3>1. CASE p \notin view[w]
      BY <2>2, <2>3, <3>1 DEF CommittedInv
    <3>2. CASE p \in view[w]
      <4>1. status[topic[p][i]] # "pending" \/ topic[p][i] = job[w]
        BY <2>1, <2>2, <2>3, <3>2 DEF SeenInv
      <4> QED BY <1>2, <4>1 DEF TakenInv, Taken
    <3> QED BY <3>1, <3>2
  <2> QED BY <2>1, <2>2, <2>3, <2>4, RecordsStay
<1>3. ASSUME NEW w \in Workers,
             WorkerStep(w) \/ Evict(w) \/ CriticalFailure(w) \/ Crash(w)
      PROVE  CommittedInv'
  <2>1. committed' = committed \/ (wpc[w] \in {"ack", "skip"} /\ Commit(w))
    BY <1>3, WorkerMovesOn, Zenon
  <2> QED BY <1>1, <1>2, <2>1
<1> QED BY <1>1, <1>3 DEF Next, CoreApi, Converters, Rebalance, Idle, vars, groupVars

LEMMA JobInvariant ==
  ASSUME CalmWorkers
  PROVE  Spec => []JobInv
<1>1. Init => JobInv
  BY DEF Init, StoreInit, WorkerInit, JobInv, HeldInv, TakenInv, Taken, Holding, SeenInv, CommittedInv
<1>2. TypeOK /\ TypeOK' /\ SagaInv /\ ClaimInv /\ JobInv /\ [Next]_vars => JobInv'
  BY HeldStep, TakenStep, SeenStep, CommittedStep DEF JobInv
<1> QED BY <1>1, <1>2, TypeCorrect, SagaInvariant, ClaimInvariant, PTL DEF Spec

\* A job that the group has acknowledged has been dealt with: without
\* crashes, failing statements and unexpected exceptions in the workers, its
\* track is at an end or with a worker, evicted perhaps.  Any upload may fail
\* at any step, core-api may stop, a job may be published twice, S3 and
\* ffmpeg may fail, and the group may change hands at any time.
THEOREM CommittedJobsAreSettled ==
  ASSUME CalmWorkers
  PROVE  Spec => []CommittedIsSettled
<1>1. TypeOK /\ JobInv => CommittedIsSettled
  <2> SUFFICES ASSUME TypeOK, JobInv, NEW p \in Partitions, NEW i \in CommittedRecords(p)
               PROVE  \/ status[topic[p][i]] \in {"ready", "failed", "absent"}
                      \/ \E w \in Workers : Holds(w, topic[p][i])
    BY DEF CommittedIsSettled
  <2>1. topic[p][i] \in Tracks /\ status[topic[p][i]] \in Statuses
    BY DEF CommittedRecords, TypeOK, StoreTypeOK
  <2>2. status[topic[p][i]] # "pending"
    BY DEF CommittedRecords, JobInv, CommittedInv
  <2>3. status[topic[p][i]] = "processing" => \E w \in Workers : Holds(w, topic[p][i])
    BY <2>1 DEF JobInv, HeldInv
  <2> QED BY <2>1, <2>2, <2>3 DEF Statuses
<1> QED BY <1>1, JobInvariant, TypeCorrect, PTL

-----------------------------------------------------------------------------
(***************************************************************************)
(* What an upload that fails leaves behind.                                *)
(***************************************************************************)

\* The row goes before the original, and an upload that does not know the id
\* of its row has none.
UndoneInv == \A t \in Tracks : upload[t] = "undo_raw" => ~RowExists(t)

\* Without failing INSERTs and compensations, only UndoRow leads to UndoRaw.
LEMMA UndoneStep ==
  ASSUME {"insert", "undo"} \cap Faults = {}, TypeOK, SagaInv, UndoneInv, [Next]_vars
  PROVE  UndoneInv'
<1>a. status \in [Tracks -> Statuses] /\ upload \in [Tracks -> UploadStates]
  BY DEF TypeOK, StoreTypeOK, UploadTypeOK
<1>1. ASSUME NEW u \in Tracks, ReceiveUpload(u) \/ HandlerStep(u)
      PROVE  UndoneInv'
  <2> SUFFICES ASSUME NEW t \in Tracks, upload'[t] = "undo_raw" PROVE status'[t] = "absent"
    BY DEF UndoneInv, RowExists
  <2>1. CASE upload[t] = "undo_raw"
    <3>1. status[t] = "absent"
      BY <2>1 DEF UndoneInv, RowExists
    <3> QED BY <1>1, <2>1, <3>1, HandlerMovesRow
  <2>2. CASE upload[t] # "undo_raw"
    <3>1. UndoRow(t) /\ u = t
      BY <1>a, <1>1, <2>2 DEF ReceiveUpload, HandlerStep, StoreOriginal, CreateTrack, ProduceJob, PublishSucceeds, PublishFails, UndoRow, UndoRaw, Goto
    <3> QED BY <1>a, <3>1 DEF UndoRow, DeleteRow
  <2> QED BY <2>1, <2>2
<1>2. ASSUME NEW w \in Workers, UNCHANGED upload,
             WorkerStep(w) \/ Evict(w) \/ CriticalFailure(w) \/ Crash(w)
      PROVE  UndoneInv'
  BY <1>2, WorkerFrame DEF UndoneInv
<1>3. CASE CrashCoreApi
  BY <1>3 DEF CrashCoreApi, StopHandlers, InFlight, UndoneInv, RowExists, storeVars
<1>4. CASE Rebalance /\ UNCHANGED upload
  BY <1>4 DEF Rebalance, UndoneInv, RowExists, storeVars
<1>5. CASE UNCHANGED vars
  BY <1>5 DEF vars, UndoneInv, RowExists, storeVars
<1> QED BY <1>1, <1>2, <1>3, <1>4, <1>5 DEF Next, CoreApi, Converters, Idle

LEMMA UndoneInvariant ==
  ASSUME {"insert", "undo"} \cap Faults = {}
  PROVE  Spec => []UndoneInv
<1>1. Init => UndoneInv
  BY DEF Init, UploadInit, UndoneInv
<1>2. TypeOK /\ SagaInv /\ UndoneInv /\ [Next]_vars => UndoneInv'
  BY UndoneStep
<1> QED BY <1>1, <1>2, TypeCorrect, SagaInvariant, PTL DEF Spec

\* While no INSERT and no compensation reports an error, every row that a
\* listing shows has its original in the bucket, also after a failed publish
\* and when core-api stops in the middle of an upload or of its rollback.
THEOREM RowsHaveOriginals ==
  ASSUME {"insert", "undo"} \cap Faults = {}
  PROVE  Spec => []ListedTrackHasOriginal
<1>1. Init => ListedTrackHasOriginal
  BY DEF Init, StoreInit, ListedTrackHasOriginal, RowExists
<1>2. TypeOK /\ SagaInv /\ UndoneInv /\ ListedTrackHasOriginal /\ [Next]_vars
        => ListedTrackHasOriginal'
  <2> SUFFICES ASSUME TypeOK, SagaInv, UndoneInv, ListedTrackHasOriginal, [Next]_vars
               PROVE  ListedTrackHasOriginal'
    OBVIOUS
  <2>1. ASSUME NEW u \in Tracks, ReceiveUpload(u) \/ HandlerStep(u)
        PROVE  ListedTrackHasOriginal'
    <3> SUFFICES ASSUME NEW t \in Tracks, status'[t] # "absent" PROVE t \in raw'
      BY DEF ListedTrackHasOriginal, RowExists
    <3>1. t \in raw
      <4>1. CASE status'[t] = status[t]
        BY <4>1 DEF ListedTrackHasOriginal, RowExists
      <4>2. CASE status'[t] # status[t]
        BY <2>1, <4>2, HandlerMovesRow DEF SagaInv, WritesInv
      <4> QED BY <4>1, <4>2
    <3>2. CASE UndoRaw(u)
      <4>1. upload[u] = "undo_raw" /\ status' = status
        BY <3>2 DEF UndoRaw
      <4>2. t # u
        BY <4>1 DEF UndoneInv, RowExists
      <4> QED BY <3>1, <3>2, <4>2 DEF UndoRaw
    <3>3. CASE ~UndoRaw(u)
      BY <2>1, <3>1, <3>3 DEF ReceiveUpload, HandlerStep, StoreOriginal, CreateTrack, ProduceJob, PublishSucceeds, PublishFails, UndoRow, storeVars
    <3> QED BY <3>2, <3>3
  <2>2. ASSUME NEW w \in Workers,
               WorkerStep(w) \/ Evict(w) \/ CriticalFailure(w) \/ Crash(w)
        PROVE  ListedTrackHasOriginal'
    BY <2>2, WorkerFrame DEF ListedTrackHasOriginal
  <2>3. CASE CrashCoreApi \/ Rebalance \/ UNCHANGED vars
    BY <2>3 DEF CrashCoreApi, Rebalance, vars, ListedTrackHasOriginal, RowExists, storeVars
  <2> QED BY <2>1, <2>2, <2>3 DEF Next, CoreApi, Converters, Idle
<1> QED BY <1>1, <1>2, TypeCorrect, SagaInvariant, UndoneInvariant, PTL DEF Spec

\* While nothing but the publish reports an error to the handler, an upload
\* answered 500 leaves neither a row nor an original, however often its job
\* reached the broker and whatever the workers did with it.
THEOREM RollbacksAreComplete ==
  ASSUME {"store", "insert", "undo"} \cap Faults = {}
  PROVE  Spec => []RolledBackUploadLeavesNothing
<1> USE DEF RolledBackUploadLeavesNothing
<1>1. Init => RolledBackUploadLeavesNothing
  BY DEF Init, UploadInit
<1>2. TypeOK /\ SagaInv /\ UndoneInv /\ RolledBackUploadLeavesNothing /\ [Next]_vars
        => RolledBackUploadLeavesNothing'
  <2> SUFFICES ASSUME TypeOK, SagaInv, UndoneInv, RolledBackUploadLeavesNothing, [Next]_vars
               PROVE  RolledBackUploadLeavesNothing'
    OBVIOUS
  <2>a. status \in [Tracks -> Statuses] /\ upload \in [Tracks -> UploadStates]
    BY DEF TypeOK, StoreTypeOK, UploadTypeOK
  <2>1. ASSUME NEW u \in Tracks, ReceiveUpload(u) \/ HandlerStep(u)
        PROVE  RolledBackUploadLeavesNothing'
    <3> SUFFICES ASSUME NEW t \in Tracks, upload'[t] = "failed"
                 PROVE  status'[t] = "absent" /\ t \notin raw'
      BY DEF RowExists
    <3>1. CASE upload[t] = "failed"
      <4>1. status[t] = "absent" /\ t \notin raw
        BY <3>1 DEF RowExists
      <4>2. status'[t] = "absent"
        BY <2>1, <3>1, <4>1, HandlerMovesRow
      <4>3. t \in raw' => StoreOriginal(u) /\ t = u
        BY <2>1, <4>1 DEF ReceiveUpload, HandlerStep, StoreOriginal, CreateTrack, ProduceJob, PublishSucceeds, PublishFails, UndoRow, UndoRaw, storeVars
      <4> QED BY <3>1, <4>2, <4>3 DEF StoreOriginal
    <3>2. CASE upload[t] # "failed"
      <4>1. UndoRaw(t) /\ u = t
        BY <2>a, <2>1, <3>2 DEF ReceiveUpload, HandlerStep, StoreOriginal, CreateTrack, ProduceJob, PublishSucceeds, PublishFails, UndoRow, UndoRaw, Goto
      <4> QED BY <4>1 DEF UndoRaw, UndoneInv, RowExists
    <3> QED BY <3>1, <3>2
  <2>2. ASSUME NEW w \in Workers, UNCHANGED upload,
               WorkerStep(w) \/ Evict(w) \/ CriticalFailure(w) \/ Crash(w)
        PROVE  RolledBackUploadLeavesNothing'
    BY <2>2, WorkerFrame
  <2>3. CASE CrashCoreApi
    BY <2>3 DEF CrashCoreApi, StopHandlers, RowExists, storeVars
  <2>4. CASE (Rebalance /\ UNCHANGED upload) \/ UNCHANGED vars
    BY <2>4 DEF Rebalance, vars, RowExists, storeVars
  <2> QED BY <2>1, <2>2, <2>3, <2>4 DEF Next, CoreApi, Converters, Idle
<1>3. {"insert", "undo"} \cap Faults = {}
  OBVIOUS
<1> QED BY <1>1, <1>2, <1>3, TypeCorrect, SagaInvariant, UndoneInvariant, PTL DEF Spec

\* Under every fault: what lies under hls/ was written for a job that has a
\* record, and so has what a worker is at.
OriginInv ==
    /\ \A t \in Tracks : hls[t] # {} => JobPublished(t)
    /\ \A w \in Workers : job[w] # NoJob => JobPublished(job[w])

\* A record is never removed.
LEMMA PublishedStays ==
  ASSUME TypeOK, [Next]_vars, NEW t \in Tracks, JobPublished(t)
  PROVE  JobPublished(t)'
<1>a. topic \in [Partitions -> Seq(Tracks)]
  BY DEF TypeOK, StoreTypeOK
<1>1. PICK p \in Partitions : \E i \in DOMAIN topic[p] : topic[p][i] = t
  BY DEF JobPublished, CopiesIn
<1>2. PICK i \in DOMAIN topic[p] : topic[p][i] = t
  BY <1>1
<1>3. i \in DOMAIN topic'[p] /\ topic'[p][i] = topic[p][i]
  <2>1. CASE topic' = topic
    BY <2>1
  <2>2. ASSUME NEW u \in Tracks, NEW q \in Partitions,
               topic' = [topic EXCEPT ![q] = Append(@, u)]
        PROVE  i \in DOMAIN topic'[p] /\ topic'[p][i] = topic[p][i]
    <3>1. topic[p] \in Seq(Tracks)
      BY <1>a
    <3> QED BY <1>a, <2>2, <3>1
  <2> QED BY TopicGrows, <2>1, <2>2
<1> QED BY <1>2, <1>3 DEF JobPublished, CopiesIn

\* A worker adds HLS files for its own track only.
LEMMA WorkerWritesHls ==
  ASSUME TypeOK, NEW w \in Workers,
         WorkerStep(w) \/ Evict(w) \/ CriticalFailure(w) \/ Crash(w),
         NEW t \in Tracks, hls'[t] # hls[t]
  PROVE  t = job[w] /\ job[w] # NoJob
<1>a. /\ hls \in [Tracks -> SUBSET HlsFiles]
      /\ wpc[w] = "upload" => job[w] \in Tracks
  BY DEF TypeOK, StoreTypeOK, WorkerTypeOK, LoopTypeOK
<1>1. PICK f \in HlsFiles : UploadFile(w, f) \/ UploadFails(w, f)
  BY DEF WorkerStep, Fetch, Check, Claim, ClaimRefused, Download, Convert, UploadDone, Finish, Fail, Ack, Skip, Restart, Evict, CriticalFailure, Crash, storeVars
<1> QED BY <1>a, <1>1, NoJobAssumption DEF UploadFile, UploadFails

LEMMA OriginInvariant == Spec => []OriginInv
<1>1. Init => OriginInv
  BY DEF Init, StoreInit, WorkerInit, OriginInv
<1>2. TypeOK /\ TypeOK' /\ OriginInv /\ [Next]_vars => OriginInv'
  <2> SUFFICES ASSUME TypeOK, TypeOK', OriginInv, [Next]_vars PROVE OriginInv'
    OBVIOUS
  <2>a. /\ job \in [Workers -> Tracks \cup {NoJob}]
        /\ job' \in [Workers -> Tracks \cup {NoJob}]
    BY DEF TypeOK, WorkerTypeOK, LoopTypeOK
  <2>1. CASE UNCHANGED <<hls, workVars>>
    <3>1. hls' = hls /\ job' = job
      BY <2>1 DEF workVars
    <3> QED BY <2>a, <3>1, PublishedStays DEF OriginInv
  <2>2. ASSUME NEW w \in Workers,
               WorkerStep(w) \/ Evict(w) \/ CriticalFailure(w) \/ Crash(w)
        PROVE  OriginInv'
    <3>1. ASSUME NEW t \in Tracks, hls'[t] # {} PROVE JobPublished(t)'
      <4>1. JobPublished(t)
        BY <2>2, <3>1, WorkerWritesHls DEF OriginInv
      <4> QED BY <4>1, PublishedStays
    <3>2. ASSUME NEW v \in Workers, NEW t \in Tracks, job'[v] = t
          PROVE  JobPublished(t)'
      <4>1. CASE job[v] = t
        <5>1. JobPublished(t)
          BY <4>1, NoJobAssumption DEF OriginInv
        <5> QED BY <5>1, PublishedStays
      <4>2. CASE job[v] # t
        <5>1. \E p \in Partitions : \E i \in DOMAIN topic[p] : t = topic[p][i]
          <6>1. t # NoJob
            BY NoJobAssumption
          <6> QED BY <2>2, <3>2, <4>2, <6>1, WorkerFrame
        <5>2. topic' = topic
          BY <2>2, WorkerFrame
        <5> QED BY <5>1, <5>2 DEF JobPublished, CopiesIn
      <4> QED BY <4>1, <4>2
    <3>3. \A v \in Workers : job'[v] # NoJob => \E t \in Tracks : job'[v] = t /\ JobPublished(t)'
      BY <2>a, <3>2
    <3> QED BY <3>1, <3>3 DEF OriginInv, JobPublished, CopiesIn
  <2>3. ASSUME NEW t \in Tracks, ReceiveUpload(t) \/ HandlerStep(t) PROVE hls' = hls
    BY <2>3 DEF ReceiveUpload, HandlerStep, StoreOriginal, CreateTrack, ProduceJob, PublishSucceeds, PublishFails, UndoRow, UndoRaw, storeVars
  <2>4. ASSUME CrashCoreApi \/ Rebalance \/ UNCHANGED vars PROVE hls' = hls
    BY <2>4 DEF CrashCoreApi, Rebalance, vars, storeVars
  <2>5. CASE UNCHANGED workVars /\ hls' = hls
    BY <2>1, <2>5
  <2> QED BY <2>2, <2>3, <2>4, <2>5 DEF Next, CoreApi, Converters, Idle, Rebalance, vars, workVars
<1> QED BY <1>1, <1>2, TypeCorrect, PTL DEF Spec

NeverCrashed == \A t \in Tracks : upload[t] # "crashed"

\* Unless core-api stops, HLS files without a row are those of an upload
\* whose publish reported an error although the broker had the job.
THEOREM OrphansAreOfRollbacks ==
  ASSUME "apicrash" \notin Faults
  PROVE  Spec => []OrphansComeFromRollbacks
<1>1. Init => NeverCrashed
  BY DEF Init, UploadInit, NeverCrashed
<1>2. TypeOK /\ NeverCrashed /\ [Next]_vars => NeverCrashed'
  <2> SUFFICES ASSUME TypeOK, NeverCrashed, [Next]_vars PROVE NeverCrashed'
    OBVIOUS
  <2>a. upload \in [Tracks -> UploadStates]
    BY DEF TypeOK, UploadTypeOK
  <2>1. ASSUME NEW t \in Tracks, ReceiveUpload(t) \/ HandlerStep(t) PROVE NeverCrashed'
    BY <2>a, <2>1 DEF NeverCrashed, Goto, ReceiveUpload, HandlerStep, StoreOriginal, CreateTrack, ProduceJob, PublishSucceeds, PublishFails, UndoRow, UndoRaw
  <2>2. CASE UNCHANGED upload
    BY <2>2 DEF NeverCrashed
  <2> QED BY <2>1, <2>2 DEF Next, CoreApi, Converters, Idle, vars, CrashCoreApi
<1>3. TypeOK /\ SagaInv /\ OriginInv /\ NeverCrashed => OrphansComeFromRollbacks
  <2> SUFFICES ASSUME TypeOK, SagaInv, OriginInv, NeverCrashed,
                      NEW t \in Tracks, hls[t] # {}, ~RowExists(t)
               PROVE  JobPublished(t) /\ upload[t] \in {"undo_raw", "failed"}
    BY DEF OrphansComeFromRollbacks
  <2>1. JobPublished(t)
    BY DEF OriginInv
  <2>2. upload[t] \in Launched
    BY <2>1 DEF JobPublished, CopiesIn, SagaInv, RecordsInv
  <2> QED BY <2>1, <2>2 DEF NeverCrashed, Launched, SagaInv, WritesInv
<1> QED BY <1>1, <1>2, <1>3, TypeCorrect, SagaInvariant, OriginInvariant, PTL DEF Spec
-----------------------------------------------------------------------------
(***************************************************************************)
(* What a failed or interrupted upload leaves, whichever of its calls has  *)
(* reported an error.  A handler at its last deletion still has the        *)
(* original (LastUndoInv), and if it has a row too, that of an INSERT      *)
(* which reported an error, the row has never had a job.                   *)
(***************************************************************************)
LastUndoInv ==
    \A t \in Tracks : upload[t] = "undo_raw" =>
        t \in raw /\ (RowExists(t) => status[t] = "pending" /\ ~JobPublished(t))

LeftInv == LastUndoInv /\ LeftoversAreHarmless

\* A worker only moves rows that have a job.
LEMMA WorkerLeavesOthers ==
  ASSUME TypeOK, OriginInv, NEW w \in Workers,
         WorkerStep(w) \/ Evict(w) \/ CriticalFailure(w) \/ Crash(w),
         NEW t \in Tracks, ~JobPublished(t)
  PROVE  status'[t] = status[t] /\ ~JobPublished(t)'
<1>1. job[w] # t
  BY NoJobAssumption DEF OriginInv
<1>2. topic' = topic
  BY WorkerFrame
<1> QED BY <1>1, <1>2, WorkerMovesRow DEF JobPublished, CopiesIn

\* An upload that has not come to its publish has no record.
LEMMA NoRecordBefore ==
  ASSUME SagaInv, NEW t \in Tracks, upload[t] \notin Launched
  PROVE  ~JobPublished(t)
BY DEF SagaInv, RecordsInv, JobPublished, CopiesIn

LEMMA LeftStep ==
  ASSUME "undo" \notin Faults, TypeOK, SagaInv, OriginInv, LeftInv, [Next]_vars
  PROVE  LeftInv'
<1>a. status \in [Tracks -> Statuses] /\ upload \in [Tracks -> UploadStates]
  BY DEF TypeOK, StoreTypeOK, UploadTypeOK
<1> USE DEF LeftInv, LastUndoInv, LeftoversAreHarmless, RowExists
<1>1. ASSUME NEW u \in Tracks, ReceiveUpload(u) \/ HandlerStep(u)
      PROVE  LeftInv'
  <2> USE <1>a DEF Goto, storeVars
  \* The upload of any other track stays as it is.
  <2>1. \A t \in Tracks \ {u} :
          /\ upload'[t] = upload[t] /\ status'[t] = status[t]
          /\ (t \in raw)' <=> t \in raw
    BY <1>1 DEF ReceiveUpload, HandlerStep, StoreOriginal, CreateTrack, InsertRow, ProduceJob, PublishSucceeds, PublishFails, UndoRow, DeleteRow, UndoRaw
  <2>2. \A t \in Tracks \ {u} : JobPublished(t)' <=> JobPublished(t)
    <3>1. CASE topic' = topic
      BY <3>1 DEF JobPublished, CopiesIn
    <3>2. ASSUME NEW p \in Partitions, ProduceJob(u, p)
          PROVE  \A t \in Tracks \ {u} : JobPublished(t)' <=> JobPublished(t)
      <4>1. topic \in [Partitions -> Seq(Tracks)] /\ topic' = [topic EXCEPT ![p] = Append(@, u)]
        BY <3>2 DEF ProduceJob, AppendJob, TypeOK, StoreTypeOK
      <4>2. \A q \in Partitions \ {p} : topic'[q] = topic[q]
        BY <4>1
      <4>3. topic[p] \in Seq(Tracks) /\ topic'[p] = Append(topic[p], u)
        BY <4>1
      <4>4. \A t \in Tracks \ {u} : \A i :
              i \in DOMAIN topic'[p] /\ topic'[p][i] = t <=> i \in DOMAIN topic[p] /\ topic[p][i] = t
        BY <4>3
      <4> QED BY <4>2, <4>4 DEF JobPublished, CopiesIn
    <3> QED BY <1>1, <3>1, <3>2 DEF ReceiveUpload, HandlerStep, StoreOriginal, CreateTrack, PublishSucceeds, PublishFails, UndoRow, UndoRaw
  <2>3. topic' = topic => (JobPublished(u)' <=> JobPublished(u))
    BY DEF JobPublished, CopiesIn
  <2>4. /\ upload'[u] = "undo_raw" =>
             u \in raw' /\ (status'[u] # "absent" => status'[u] = "pending" /\ ~JobPublished(u)')
        /\ upload'[u] = "failed" /\ status'[u] # "absent" /\ u \notin raw' =>
             status'[u] = "pending" /\ ~JobPublished(u)'
        /\ upload'[u] = "failed" /\ u \in raw' => status'[u] = "absent" /\ ~JobPublished(u)'
        /\ upload'[u] # "crashed"
    <3>1. CASE StoreOriginal(u)
      <4>1. status[u] = "absent" /\ ~JobPublished(u)
        BY <3>1, NoRecordBefore DEF StoreOriginal, SagaInv, WritesInv, Launched
      <4> QED BY <2>3, <3>1, <4>1 DEF StoreOriginal
    <3>2. CASE CreateTrack(u)
      <4>1. status[u] = "absent" /\ u \in raw /\ ~JobPublished(u)
        BY <3>2, NoRecordBefore DEF CreateTrack, SagaInv, WritesInv, Launched
      <4> QED BY <2>3, <3>2, <4>1 DEF CreateTrack, InsertRow
    <3>3. CASE UndoRow(u)
      <4>1. u \in raw
        BY <3>3 DEF UndoRow, SagaInv, WritesInv
      <4> QED BY <3>3, <4>1 DEF UndoRow, DeleteRow
    <3>4. CASE UndoRaw(u)
      BY <2>3, <3>4 DEF UndoRaw
    <3>5. upload'[u] \in {"undo_raw", "failed", "crashed"} =>
            StoreOriginal(u) \/ CreateTrack(u) \/ UndoRow(u) \/ UndoRaw(u)
      BY <1>1 DEF ReceiveUpload, HandlerStep, ProduceJob, PublishSucceeds, PublishFails
    <3>6. StoreOriginal(u) \/ CreateTrack(u) \/ UndoRow(u) \/ UndoRaw(u) => upload'[u] # "crashed"
      BY DEF StoreOriginal, CreateTrack, UndoRow, UndoRaw
    <3> QED BY <3>1, <3>2, <3>3, <3>4, <3>5, <3>6
  <2>5. ASSUME NEW t \in Tracks \ {u}
        PROVE  /\ upload'[t] = "undo_raw" =>
                    t \in raw' /\ (status'[t] # "absent" => status'[t] = "pending" /\ ~JobPublished(t)')
               /\ upload'[t] \in {"failed", "crashed"} /\ status'[t] # "absent" /\ t \notin raw' =>
                    upload'[t] = "failed" /\ status'[t] = "pending" /\ ~JobPublished(t)'
               /\ upload'[t] = "failed" /\ t \in raw' => status'[t] = "absent" /\ ~JobPublished(t)'
    BY <2>1, <2>2, <2>5
  <2> QED BY <2>4, <2>5
<1>2. ASSUME NEW w \in Workers, UNCHANGED upload,
             WorkerStep(w) \/ Evict(w) \/ CriticalFailure(w) \/ Crash(w)
      PROVE  LeftInv'
  <2>1. raw' = raw /\ \A t \in Tracks : status'[t] # "absent" <=> status[t] # "absent"
    BY <1>2, WorkerFrame
  <2>2. \A t \in Tracks : ~JobPublished(t) => status'[t] = status[t] /\ ~JobPublished(t)'
    BY <1>2, WorkerLeavesOthers
  <2> QED BY <1>2, <2>1, <2>2
<1>3. CASE CrashCoreApi
  <2>1. UNCHANGED <<status, raw>> /\ \A t \in Tracks : JobPublished(t)' <=> JobPublished(t)
    BY <1>3 DEF CrashCoreApi, storeVars, JobPublished, CopiesIn
  <2>2. \A t \in Tracks : upload[t] \in InFlight => (status[t] # "absent" => t \in raw)
    BY DEF InFlight, SagaInv, WritesInv
  <2> QED BY <1>3, <2>1, <2>2 DEF CrashCoreApi, StopHandlers, InFlight
<1>4. CASE (Rebalance /\ UNCHANGED upload) \/ UNCHANGED vars
  <2>1. UNCHANGED <<status, raw, upload>> /\ \A t \in Tracks : JobPublished(t)' <=> JobPublished(t)
    BY <1>4 DEF Rebalance, vars, storeVars, JobPublished, CopiesIn
  <2> QED BY <2>1
<1> QED BY <1>1, <1>2, <1>3, <1>4 DEF Next, CoreApi, Converters, Idle

\* Unless a compensation reports an error, whatever else fails or stops: a row
\* that a failed upload leaves without its original has no job and stays
\* 'pending', an original that a 500 leaves has neither row nor job, and an
\* upload cut short keeps the original of its row.
THEOREM FailedLeavesNoHarm ==
  ASSUME "undo" \notin Faults
  PROVE  Spec => []LeftoversAreHarmless
<1>1. Init => LeftInv
  BY DEF Init, UploadInit, LeftInv, LastUndoInv, LeftoversAreHarmless
<1>2. TypeOK /\ SagaInv /\ OriginInv /\ LeftInv /\ [Next]_vars => LeftInv'
  BY LeftStep
<1>3. LeftInv => LeftoversAreHarmless
  BY DEF LeftInv
<1> QED BY <1>1, <1>2, <1>3, TypeCorrect, SagaInvariant, OriginInvariant, PTL DEF Spec
=============================================================================
