----------------------- MODULE TrackRefinementProofs -----------------------
(***************************************************************************)
(* TrackPipeline implements TrackLifecycle: every step of the pipeline is  *)
(* one step of the life cycle or leaves it as it is.  The mapping hides    *)
(* the queue, the consumer group and the bucket; what a worker works on is *)
(* the job it has claimed, from the claim to its report.                   *)
(***************************************************************************)
EXTENDS TrackPipelineProofs

LifecycleStep == Lifecycle!Next \/ UNCHANGED <<status, Working, Acked>>

\* A step of a worker that neither claims nor lets go of a track, and does
\* not touch the table, is invisible.
LEMMA InvisibleStep ==
  ASSUME TypeOK, NEW w \in Workers, NEW next,
         wpc' = [wpc EXCEPT ![w] = next],
         (wpc[w] \in Holding /\ next \in Holding /\ job' = job)
           \/ (wpc[w] \notin Holding /\ next \notin Holding
                 /\ \A v \in Workers \ {w} : job'[v] = job[v]),
         UNCHANGED <<status, upload>>
  PROVE  LifecycleStep
<1>1. Working' = Working
  BY DEF Working, TypeOK, WorkerTypeOK, LoopTypeOK, GroupTypeOK
<1> QED BY <1>1 DEF LifecycleStep, Acked

\* A worker that lets go of its track leaves Working with NoJob.
LEMMA LetGo ==
  ASSUME TypeOK, NEW w \in Workers, NEW next, next \notin Holding,
         wpc' = [wpc EXCEPT ![w] = next],
         \A v \in Workers \ {w} : job'[v] = job[v]
  PROVE  Working' = [Working EXCEPT ![w] = NoJob]
BY DEF Working, TypeOK, WorkerTypeOK, LoopTypeOK, GroupTypeOK

THEOREM StepRefinement ==
  ASSUME TypeOK, SagaInv, ClaimInv, [Next]_vars
  PROVE  LifecycleStep
<1>a. \A w \in Workers : wpc[w] \notin {"poll", "down"} => job[w] \in Tracks
  BY DEF TypeOK, WorkerTypeOK, LoopTypeOK, GroupTypeOK
<1>b. Working \in [Workers -> Tracks \cup {NoJob}]
  BY DEF Working, TypeOK, WorkerTypeOK, LoopTypeOK, GroupTypeOK
<1>c. ASSUME NEW w \in Workers, wpc[w] \in Holding
      PROVE  Working[w] = job[w] /\ job[w] \in Tracks /\ Working[w] # NoJob
  BY <1>a, <1>c, NoJobAssumption DEF Working, Holding
\* A track whose row a worker may claim is nobody's.
<1>d. ASSUME NEW t \in Tracks, status[t] \in {"pending", "failed"}
      PROVE  Lifecycle!Unattended(t)
  BY <1>d, NoJobAssumption DEF Lifecycle!Unattended, Working, ClaimInv, RowInv
<1>1. ASSUME NEW t \in Tracks, ReceiveUpload(t) \/ HandlerStep(t),
             UNCHANGED <<workVars, groupVars>>
      PROVE  LifecycleStep
  <2>w. Working' = Working
    BY <1>1 DEF Working, workVars
  <2> USE DEF TypeOK, StoreTypeOK, UploadTypeOK
  <2>1. CASE CreateTrack(t)
    <3>1. Acked' = Acked /\ t \notin Acked
      BY <2>1 DEF CreateTrack, Goto, Acked
    <3>2. CASE UNCHANGED status
      BY <3>1, <3>2, <2>w DEF LifecycleStep
    <3>3. CASE InsertRow(t)
      <4>1. \A w \in Workers : job[w] # t
        BY <2>1, NoJobAssumption DEF CreateTrack, SagaInv, JobsInv, Launched
      <4>2. status[t] = "absent"
        BY <2>1 DEF CreateTrack, SagaInv, WritesInv, RowExists
      <4>3. Lifecycle!Unattended(t)
        BY <4>1, NoJobAssumption DEF Lifecycle!Unattended, Working
      <4>4. Lifecycle!Create(t)
        BY <3>1, <3>3, <4>2, <4>3, <2>w DEF Lifecycle!Create, InsertRow
      <4> QED BY <4>4 DEF LifecycleStep, Lifecycle!Next
    <3> QED BY <2>1, <3>2, <3>3 DEF CreateTrack
  <2>2. CASE PublishSucceeds(t)
    <3>1. Acked' = Acked \cup {t} /\ status' = status /\ status[t] # "absent"
      BY <2>2 DEF PublishSucceeds, Goto, Acked, storeVars, SagaInv, WritesInv, RowExists
    <3>2. Lifecycle!Acknowledge(t)
      BY <3>1, <2>w DEF Lifecycle!Acknowledge
    <3> QED BY <3>2 DEF LifecycleStep, Lifecycle!Next
  <2>3. CASE UndoRow(t)
    <3>1. Acked' = Acked /\ t \notin Acked
      BY <2>3 DEF UndoRow, Goto, Acked
    <3>2. CASE UNCHANGED status
      BY <3>1, <3>2, <2>w DEF LifecycleStep
    <3>3. CASE DeleteRow(t)
      <4>1. Lifecycle!Remove(t)
        BY <3>1, <3>3, <2>w DEF Lifecycle!Remove, DeleteRow
      <4> QED BY <4>1 DEF LifecycleStep, Lifecycle!Next
    <3> QED BY <2>3, <3>2, <3>3 DEF UndoRow
  <2>4. CASE ReceiveUpload(t) \/ StoreOriginal(t) \/ PublishFails(t) \/ UndoRaw(t)
               \/ \E p \in Partitions : ProduceJob(t, p)
    <3>1. Acked' = Acked /\ status' = status
      BY <2>4 DEF ReceiveUpload, StoreOriginal, PublishFails, UndoRaw, ProduceJob, Goto, Acked, storeVars
    <3> QED BY <3>1, <2>w DEF LifecycleStep
  <2> QED BY <1>1, <2>1, <2>2, <2>3, <2>4 DEF HandlerStep
<1>2. ASSUME CrashCoreApi, UNCHANGED <<workVars, groupVars>> PROVE LifecycleStep
  <2>1. Working' = Working /\ Acked' = Acked /\ status' = status
    BY <1>2 DEF CrashCoreApi, StopHandlers, InFlight, Working, Acked, workVars, storeVars, TypeOK, UploadTypeOK
  <2> QED BY <2>1 DEF LifecycleStep
<1>3. ASSUME Rebalance, UNCHANGED upload PROVE LifecycleStep
  <2>1. Working' = Working /\ Acked' = Acked /\ status' = status
    BY <1>3 DEF Rebalance, Working, Acked, workVars, storeVars
  <2> QED BY <2>1 DEF LifecycleStep
<1>4. ASSUME NEW w \in Workers, UNCHANGED upload,
             WorkerStep(w) \/ Evict(w) \/ CriticalFailure(w) \/ Crash(w)
      PROVE  LifecycleStep
  <2>a. Acked' = Acked
    BY <1>4 DEF Acked
  <2>b. ASSUME wpc[w] \in Holding, status' = status,
               Working' = [Working EXCEPT ![w] = NoJob]
        PROVE  LifecycleStep
    <3>1. Lifecycle!Abandon(w)
      BY <2>a, <2>b, <1>c DEF Lifecycle!Abandon
    <3> QED BY <3>1 DEF LifecycleStep, Lifecycle!Next
  <2> USE <1>4
  <2>1. CASE (\E p \in Partitions : Fetch(w, p)) \/ Check(w) \/ Download(w) \/ Convert(w)
               \/ UploadDone(w) \/ (\E f \in HlsFiles : UploadFails(w, f)) \/ Restart(w) \/ Ack(w) \/ Skip(w)
    <3>1. UNCHANGED <<status, upload>>
      BY <2>1 DEF Fetch, Check, Download, Convert, UploadDone, UploadFails, Restart, Ack, Skip, storeVars
    <3>2. PICK next : /\ wpc' = [wpc EXCEPT ![w] = next]
                      /\ \/ wpc[w] \in Holding /\ next \in Holding /\ job' = job
                         \/ /\ wpc[w] \notin Holding /\ next \notin Holding
                            /\ \A v \in Workers \ {w} : job'[v] = job[v]
      <4> USE DEF Holding, TypeOK, WorkerTypeOK, LoopTypeOK, GroupTypeOK
      <4>1. CASE \E p \in Partitions : Fetch(w, p)
        <5>1. wpc[w] \notin Holding /\ "check" \notin Holding
          BY <4>1 DEF Fetch
        <5>2. wpc' = [wpc EXCEPT ![w] = "check"] /\ \A v \in Workers \ {w} : job'[v] = job[v]
          BY <4>1 DEF Fetch
        <5> QED BY <5>1, <5>2
      <4>2. CASE Check(w)
        BY <4>2 DEF Check, Jump
      <4>3. CASE Download(w)
        BY <4>3 DEF Download, Jump
      <4>4. CASE Convert(w)
        BY <4>4 DEF Convert, Jump
      <4>5. CASE UploadDone(w)
        BY <4>5 DEF UploadDone, Jump
      <4>6. CASE \E f \in HlsFiles : UploadFails(w, f)
        BY <4>6 DEF UploadFails, Jump
      <4>7. CASE Restart(w)
        <5>1. wpc[w] \notin Holding /\ "poll" \notin Holding
          BY <4>7 DEF Restart
        <5>2. wpc' = [wpc EXCEPT ![w] = "poll"] /\ \A v \in Workers \ {w} : job'[v] = job[v]
          BY <4>7 DEF Restart
        <5> QED BY <5>1, <5>2
      <4>8. CASE Ack(w)
        <5>1. wpc[w] \notin Holding /\ "poll" \notin Holding
          BY <4>8 DEF Ack
        <5>2. wpc' = [wpc EXCEPT ![w] = "poll"] /\ \A v \in Workers \ {w} : job'[v] = job[v]
          BY <4>8 DEF Ack, NextMessage
        <5> QED BY <5>1, <5>2
      <4>9. CASE Skip(w)
        BY <4>9 DEF Skip, NextMessage, Die
      <4> QED BY <2>1, <4>1, <4>2, <4>3, <4>4, <4>5, <4>6, <4>7, <4>8, <4>9
    <3> QED BY <3>1, <3>2, InvisibleStep
  <2>2. CASE Evict(w) \/ \E f \in HlsFiles : UploadFile(w, f)
    <3>1. Working' = Working /\ status' = status
      BY <2>2 DEF Evict, UploadFile, Working, workVars, storeVars
    <3> QED BY <3>1, <2>a DEF LifecycleStep
  <2>3. CASE Claim(w)
    <3>1. Working' = [Working EXCEPT ![w] = job[w]] /\ Working[w] = NoJob
      BY <2>3 DEF Claim, Jump, Working, Holding, TypeOK, WorkerTypeOK, LoopTypeOK, GroupTypeOK
    <3>2. job[w] \in Tracks /\ status[job[w]] \in {"pending", "failed"}
             /\ status' = [status EXCEPT ![job[w]] = "processing"]
      BY <2>3, <1>a DEF Claim, ClaimRow, Claimable
    <3>3. Lifecycle!Claim(w, job[w])
      BY <3>1, <3>2, <1>d, <2>a DEF Lifecycle!Claim
    <3> QED BY <3>2, <3>3 DEF LifecycleStep, Lifecycle!Next
  <2>4. CASE ClaimRefused(w)
    <3>1. Working' = Working
      BY <2>4 DEF ClaimRefused, Jump, Working, Holding, TypeOK, WorkerTypeOK, LoopTypeOK, GroupTypeOK
    <3>2. CASE UNCHANGED status
      BY <3>1, <3>2, <2>a DEF LifecycleStep
    <3>3. CASE ClaimRow(job[w])
      <4>1. job[w] \in Tracks
        BY <2>4, <1>a DEF ClaimRefused
      <4>2. Lifecycle!LoseClaim(job[w])
        BY <3>1, <3>3, <4>1, <1>d, <2>a DEF ClaimRow, Claimable, Lifecycle!LoseClaim
      <4> QED BY <4>1, <4>2 DEF LifecycleStep, Lifecycle!Next
    <3> QED BY <2>4, <3>2, <3>3 DEF ClaimRefused
  <2>5. CASE Finish(w)
    <3>1. wpc[w] \in Holding /\ Working' = [Working EXCEPT ![w] = NoJob]
      BY <2>5, LetGo DEF Finish, Jump, Holding
    <3>2. CASE status' = status
      BY <3>1, <3>2, <2>b
    <3>3. CASE status[job[w]] = "processing" /\ status' = [status EXCEPT ![job[w]] = "ready"]
      <4>1. Lifecycle!Settle(w, "ready")
        BY <3>1, <3>3, <1>c, <2>a DEF Lifecycle!Settle
      <4> QED BY <4>1 DEF LifecycleStep, Lifecycle!Next
    <3> QED BY <2>5, <3>2, <3>3 DEF Finish, ReadyRow
  <2>6. CASE Fail(w)
    <3>1. wpc[w] \in Holding /\ Working' = [Working EXCEPT ![w] = NoJob]
      BY <2>6, LetGo DEF Fail, Jump, Holding
    <3>2. CASE status' = status
      BY <3>1, <3>2, <2>b
    <3>3. CASE status[job[w]] # "absent" /\ status' = [status EXCEPT ![job[w]] = "failed"]
      <4>1. status[job[w]] = "processing"
        BY <3>1, <3>3 DEF ClaimInv, RowInv
      <4>2. Lifecycle!Settle(w, "failed")
        BY <3>1, <3>3, <4>1, <1>c, <2>a DEF Lifecycle!Settle
      <4> QED BY <4>2 DEF LifecycleStep, Lifecycle!Next
    <3> QED BY <2>6, <3>2, <3>3 DEF Fail, FailRow, RowExists
  <2>7. CASE CriticalFailure(w)
    <3>1. wpc[w] \in Holding /\ status' = status
      BY <2>7 DEF CriticalFailure, Holding, storeVars
    <3>2. Working' = [Working EXCEPT ![w] = NoJob]
      BY <2>7, LetGo DEF CriticalFailure, NextMessage, Holding, TypeOK, WorkerTypeOK, LoopTypeOK, GroupTypeOK
    <3> QED BY <3>1, <3>2, <2>b
  <2>8. CASE Crash(w)
    <3>1. status' = status
      BY <2>8 DEF Crash, storeVars
    <3>2. Working' = [Working EXCEPT ![w] = NoJob]
      BY <2>8, LetGo DEF Crash, Die, Holding, TypeOK, WorkerTypeOK, LoopTypeOK, GroupTypeOK
    <3>3. CASE wpc[w] \in Holding
      BY <3>1, <3>2, <3>3, <2>b
    <3>4. CASE wpc[w] \notin Holding
      <4>1. Working' = Working
        BY <3>2, <3>4 DEF Working
      <4> QED BY <3>1, <4>1, <2>a DEF LifecycleStep
    <3> QED BY <3>3, <3>4
  <2> QED BY <2>1, <2>2, <2>3, <2>4, <2>5, <2>6, <2>7, <2>8 DEF WorkerStep
<1>5. CASE UNCHANGED vars
  BY <1>5 DEF vars, storeVars, workVars, Working, Acked, LifecycleStep
<1> QED BY <1>1, <1>2, <1>3, <1>4, <1>5 DEF Next, CoreApi, Converters, Idle

\* Under every fault, the pipeline is an implementation of the life cycle.
THEOREM Refinement == Spec => ImplementsLifecycle
<1>1. Init => Lifecycle!Init
  BY DEF Init, StoreInit, UploadInit, WorkerInit, Lifecycle!Init, Working, Holding, Acked
<1>2. TypeOK /\ SagaInv /\ ClaimInv /\ [Next]_vars => [Lifecycle!Next]_(Lifecycle!lifecycle)
  BY StepRefinement DEF LifecycleStep, Lifecycle!lifecycle
<1> QED BY <1>1, <1>2, TypeCorrect, SagaInvariant, ClaimInvariant, PTL
        DEF Spec, ImplementsLifecycle, Lifecycle!Spec
=============================================================================
