------------------------ MODULE TrackPipelineProofs ------------------------
(***************************************************************************)
(* Theorems of TrackPipeline, for any set of uploads, workers, partitions  *)
(* and HLS files, any number of copies and any set of faults.              *)
(***************************************************************************)
EXTENDS TrackPipeline, TLAPS

THEOREM TypeCorrect == Spec => []TypeOK
<1>1. Init => TypeOK
  BY DEF Init, StoreInit, UploadInit, WorkerInit, TypeOK, StoreTypeOK, UploadTypeOK, WorkerTypeOK, LoopTypeOK, GroupTypeOK, Statuses, UploadStates, WorkerStates
<1>2. TypeOK /\ [Next]_vars => TypeOK'
  <2> SUFFICES ASSUME TypeOK, [Next]_vars PROVE TypeOK'
    OBVIOUS
  <2>1. ASSUME NEW t \in Tracks, ReceiveUpload(t) \/ HandlerStep(t),
               UNCHANGED <<workVars, groupVars>>
        PROVE  TypeOK'
    <3>a. StoreTypeOK /\ UploadTypeOK /\ LoopTypeOK /\ GroupTypeOK
      BY DEF TypeOK, WorkerTypeOK
    <3>b. LoopTypeOK'
      BY <2>1, <3>a DEF LoopTypeOK, workVars
    <3>c. ASSUME UNCHANGED topic PROVE GroupTypeOK'
      BY <2>1, <3>a, <3>c DEF GroupTypeOK, groupVars
    <3>d. ASSUME NEW next \in UploadStates, Goto(t, next) PROVE UploadTypeOK'
      BY <3>a, <3>d DEF UploadTypeOK, Goto
    <3>e. ASSUME UNCHANGED storeVars PROVE StoreTypeOK'
      BY <3>a, <3>e DEF StoreTypeOK, storeVars
    <3>f. ASSUME StoreTypeOK', UploadTypeOK', GroupTypeOK' PROVE TypeOK'
      BY <3>b, <3>f DEF TypeOK, WorkerTypeOK
    <3>1. CASE ReceiveUpload(t)
      <4>1. StoreTypeOK'
        BY <3>1, <3>e DEF ReceiveUpload
      <4>2. UploadTypeOK'
        BY <3>1, <3>d DEF ReceiveUpload, UploadStates, InFlight, Answered
      <4>3. GroupTypeOK'
        BY <3>1, <3>c DEF ReceiveUpload, storeVars
      <4> QED BY <4>1, <4>2, <4>3, <3>f
    <3>2. CASE StoreOriginal(t)
      <4>1. StoreTypeOK'
        BY <3>a, <3>2 DEF StoreOriginal, StoreTypeOK, Statuses
      <4>2. UploadTypeOK'
        BY <3>2, <3>d DEF StoreOriginal, UploadStates, InFlight, Answered
      <4>3. GroupTypeOK'
        BY <3>2, <3>c DEF StoreOriginal
      <4> QED BY <4>1, <4>2, <4>3, <3>f
    <3>3. CASE CreateTrack(t)
      <4>1. StoreTypeOK'
        BY <3>a, <3>3 DEF CreateTrack, InsertRow, StoreTypeOK, Statuses
      <4>2. UploadTypeOK'
        BY <3>3, <3>d DEF CreateTrack, UploadStates, InFlight, Answered
      <4>3. GroupTypeOK'
        BY <3>3, <3>c DEF CreateTrack
      <4> QED BY <4>1, <4>2, <4>3, <3>f
    <3>4. CASE \E p \in Partitions : ProduceJob(t, p)
      <4> PICK p \in Partitions : ProduceJob(t, p)
        BY <3>4
      <4>1. topic' = [topic EXCEPT ![p] = Append(@, t)]
        BY DEF ProduceJob, AppendJob
      <4>2. StoreTypeOK'
        BY <3>a, <4>1 DEF ProduceJob, StoreTypeOK
      <4>3. UploadTypeOK'
        BY <3>a DEF ProduceJob, UploadTypeOK
      <4>4. \A q \in Partitions : Len(topic[q]) <= Len(topic'[q])
        BY <3>a, <4>1 DEF StoreTypeOK
      <4>5. \A q \in Partitions : Len(topic[q]) \in Nat /\ Len(topic'[q]) \in Nat
        BY <3>a, <4>2 DEF StoreTypeOK
      <4>6. GroupTypeOK'
        BY <2>1, <3>a, <4>4, <4>5 DEF GroupTypeOK, groupVars
      <4> QED BY <4>2, <4>3, <4>6, <3>f
    <3>5. CASE PublishSucceeds(t)
      <4>1. StoreTypeOK'
        BY <3>5, <3>e DEF PublishSucceeds
      <4>2. UploadTypeOK'
        BY <3>5, <3>d DEF PublishSucceeds, UploadStates, InFlight, Answered
      <4>3. GroupTypeOK'
        BY <3>5, <3>c DEF PublishSucceeds, storeVars
      <4> QED BY <4>1, <4>2, <4>3, <3>f
    <3>6. CASE PublishFails(t)
      <4>1. StoreTypeOK'
        BY <3>6, <3>e DEF PublishFails
      <4>2. UploadTypeOK'
        BY <3>6, <3>d DEF PublishFails, UploadStates, InFlight, Answered
      <4>3. GroupTypeOK'
        BY <3>6, <3>c DEF PublishFails, storeVars
      <4> QED BY <4>1, <4>2, <4>3, <3>f
    <3>7. CASE UndoRow(t)
      <4>1. StoreTypeOK'
        BY <3>a, <3>7 DEF UndoRow, DeleteRow, StoreTypeOK, Statuses
      <4>2. UploadTypeOK'
        BY <3>7, <3>d DEF UndoRow, UploadStates, InFlight, Answered
      <4>3. GroupTypeOK'
        BY <3>7, <3>c DEF UndoRow
      <4> QED BY <4>1, <4>2, <4>3, <3>f
    <3>8. CASE UndoRaw(t)
      <4>1. StoreTypeOK'
        BY <3>a, <3>8 DEF UndoRaw, StoreTypeOK, Statuses
      <4>2. UploadTypeOK'
        BY <3>8, <3>d DEF UndoRaw, UploadStates, InFlight, Answered
      <4>3. GroupTypeOK'
        BY <3>8, <3>c DEF UndoRaw
      <4> QED BY <4>1, <4>2, <4>3, <3>f
    <3> QED BY <2>1, <3>1, <3>2, <3>3, <3>4, <3>5, <3>6, <3>7, <3>8 DEF HandlerStep
  <2>2. ASSUME CrashCoreApi, UNCHANGED <<workVars, groupVars>> PROVE TypeOK'
    <3>1. UploadTypeOK'
      BY <2>2 DEF CrashCoreApi, StopHandlers, TypeOK, UploadTypeOK, UploadStates, InFlight, Answered
    <3>2. StoreTypeOK' /\ WorkerTypeOK'
      BY <2>2 DEF CrashCoreApi, StopHandlers, TypeOK, StoreTypeOK, WorkerTypeOK, LoopTypeOK, GroupTypeOK, storeVars, workVars, groupVars
    <3> QED BY <3>1, <3>2 DEF TypeOK
  <2>3. ASSUME Rebalance, UNCHANGED upload PROVE TypeOK'
    <3>1. StoreTypeOK' /\ UploadTypeOK' /\ LoopTypeOK'
      BY <2>3 DEF Rebalance, TypeOK, StoreTypeOK, UploadTypeOK, WorkerTypeOK, LoopTypeOK, storeVars, workVars
    <3>2. GroupTypeOK'
      BY <2>3 DEF Rebalance, Polling, TypeOK, WorkerTypeOK, GroupTypeOK, storeVars
    <3> QED BY <3>1, <3>2 DEF TypeOK, WorkerTypeOK
  <2>4. ASSUME NEW w \in Workers, UNCHANGED upload,
               WorkerStep(w) \/ Evict(w) \/ CriticalFailure(w) \/ Crash(w)
        PROVE  TypeOK'
    <3>a. wpc[w] \notin {"poll", "down"} => job[w] \in Tracks
      BY DEF TypeOK, WorkerTypeOK, LoopTypeOK
    <3>b. StoreTypeOK /\ LoopTypeOK /\ GroupTypeOK
      BY DEF TypeOK, WorkerTypeOK
    <3>c. UploadTypeOK'
      BY <2>4 DEF TypeOK, UploadTypeOK
    <3>d. ASSUME UNCHANGED storeVars PROVE StoreTypeOK'
      BY <3>b, <3>d DEF StoreTypeOK, storeVars
    <3>e. ASSUME UNCHANGED <<groupVars, topic>> PROVE GroupTypeOK'
      BY <3>b, <3>e DEF GroupTypeOK, groupVars
    <3>f. ASSUME NEW next \in WorkerStates \ {"poll", "down"},
                 Jump(w, next), wpc[w] \notin {"poll", "down"},
                 todo' \in [Workers -> SUBSET HlsFiles]
          PROVE  LoopTypeOK'
      BY <3>b, <3>f DEF LoopTypeOK, Jump
    <3>g. ASSUME NextMessage(w) PROVE LoopTypeOK'
      BY <3>b, <3>g DEF LoopTypeOK, NextMessage, WorkerStates
    <3>h. ASSUME Die(w) PROVE LoopTypeOK'
      BY <3>b, <3>h DEF LoopTypeOK, Die, WorkerStates
    <3>i. ASSUME Die(w), UNCHANGED <<committed, topic>> PROVE GroupTypeOK'
      BY <3>b, <3>i DEF GroupTypeOK, Die
    <3>j. ASSUME Commit(w), UNCHANGED topic PROVE GroupTypeOK'
      BY <3>b, <3>j DEF GroupTypeOK, Commit, CommitArrives
    <3>m. ASSUME Die(w), CommitArrives(w), UNCHANGED topic PROVE GroupTypeOK'
      BY <3>b, <3>m DEF GroupTypeOK, Die, CommitArrives
    <3>k. todo \in [Workers -> SUBSET HlsFiles]
      BY <3>b DEF LoopTypeOK
    <3>l. ASSUME StoreTypeOK', LoopTypeOK', GroupTypeOK' PROVE TypeOK'
      BY <3>c, <3>l DEF TypeOK, WorkerTypeOK
    <3>1. CASE \E p \in Partitions : Fetch(w, p)
      <4> PICK p \in Partitions : Fetch(w, p)
        BY <3>1
      <4>1. StoreTypeOK'
        BY <3>d DEF Fetch
      <4>2. job'[w] \in Tracks
        BY <3>b DEF Fetch, StoreTypeOK, LoopTypeOK, GroupTypeOK
      <4>3. LoopTypeOK'
        BY <3>b, <4>2, NoJobAssumption DEF Fetch, LoopTypeOK, WorkerStates
      <4>4. GroupTypeOK'
        BY <3>b DEF Fetch, StoreTypeOK, GroupTypeOK, storeVars
      <4> QED BY <4>1, <4>3, <4>4, <3>l
    <3>2. CASE Check(w)
      <4>1. StoreTypeOK'
        BY <3>2, <3>d DEF Check
      <4>2. LoopTypeOK'
        BY <3>2, <3>f, <3>k DEF Check, WorkerStates, Holding
      <4>3. GroupTypeOK'
        BY <3>2, <3>e DEF Check, storeVars
      <4> QED BY <4>1, <4>2, <4>3, <3>l
    <3>3. CASE Claim(w)
      <4>1. StoreTypeOK'
        BY <3>a, <3>b, <3>3 DEF Claim, ClaimRow, StoreTypeOK, Statuses
      <4>2. LoopTypeOK'
        BY <3>3, <3>f, <3>k DEF Claim, WorkerStates, Holding
      <4>3. GroupTypeOK'
        BY <3>3, <3>e DEF Claim, storeVars
      <4> QED BY <4>1, <4>2, <4>3, <3>l
    <3>4. CASE ClaimRefused(w)
      <4>1. StoreTypeOK'
        BY <3>a, <3>b, <3>4 DEF ClaimRefused, ClaimRow, StoreTypeOK, Statuses
      <4>2. LoopTypeOK'
        BY <3>4, <3>f, <3>k DEF ClaimRefused, WorkerStates, Holding
      <4>3. GroupTypeOK'
        BY <3>4, <3>e DEF ClaimRefused, storeVars
      <4> QED BY <4>1, <4>2, <4>3, <3>l
    <3>5. CASE Download(w)
      <4>1. StoreTypeOK'
        BY <3>5, <3>d DEF Download
      <4>2. LoopTypeOK'
        BY <3>5, <3>f, <3>k DEF Download, WorkerStates, Holding
      <4>3. GroupTypeOK'
        BY <3>5, <3>e DEF Download, storeVars
      <4> QED BY <4>1, <4>2, <4>3, <3>l
    <3>6. CASE Convert(w)
      <4>1. StoreTypeOK'
        BY <3>6, <3>d DEF Convert
      <4>2. LoopTypeOK'
        <5>1. todo' \in [Workers -> SUBSET HlsFiles]
          BY <3>6, <3>k DEF Convert
        <5> QED BY <5>1, <3>6, <3>f DEF Convert, WorkerStates, Holding
      <4>3. GroupTypeOK'
        BY <3>6, <3>e DEF Convert, storeVars
      <4> QED BY <4>1, <4>2, <4>3, <3>l
    <3>7. CASE \E f \in HlsFiles : UploadFile(w, f)
      <4> PICK f \in HlsFiles : UploadFile(w, f)
        BY <3>7
      <4>1. StoreTypeOK'
        BY <3>a, <3>b DEF UploadFile, StoreTypeOK
      <4>2. LoopTypeOK'
        BY <3>b DEF UploadFile, LoopTypeOK
      <4>3. GroupTypeOK'
        BY <3>e DEF UploadFile
      <4> QED BY <4>1, <4>2, <4>3, <3>l
    <3>8. CASE \E f \in HlsFiles : UploadFails(w, f)
      <4> PICK f \in HlsFiles : UploadFails(w, f)
        BY <3>8
      <4>1. hls' \in [Tracks -> SUBSET HlsFiles]
        <5>1. job[w] \in Tracks
          BY <3>a DEF UploadFails
        <5>2. [hls EXCEPT ![job[w]] = @ \cup {f}] \in [Tracks -> SUBSET HlsFiles]
          BY <3>b, <5>1 DEF StoreTypeOK
        <5> QED BY <5>2, <3>b, Zenon DEF UploadFails, StoreTypeOK
      <4>2. StoreTypeOK'
        BY <3>b, <4>1 DEF UploadFails, StoreTypeOK
      <4>3. todo' \in [Workers -> SUBSET HlsFiles]
        BY <3>k DEF UploadFails
      <4>4. LoopTypeOK'
        BY <4>3, <3>f DEF UploadFails, WorkerStates, Holding
      <4>5. GroupTypeOK'
        BY <3>e DEF UploadFails
      <4> QED BY <4>2, <4>4, <4>5, <3>l
    <3>9. CASE UploadDone(w)
      <4>1. StoreTypeOK'
        BY <3>9, <3>d DEF UploadDone
      <4>2. LoopTypeOK'
        BY <3>9, <3>f, <3>k DEF UploadDone, WorkerStates, Holding
      <4>3. GroupTypeOK'
        BY <3>9, <3>e DEF UploadDone, storeVars
      <4> QED BY <4>1, <4>2, <4>3, <3>l
    <3>10. CASE Finish(w)
      <4>1. StoreTypeOK'
        BY <3>a, <3>b, <3>10 DEF Finish, ReadyRow, StoreTypeOK, Statuses
      <4>2. LoopTypeOK'
        BY <3>10, <3>f, <3>k DEF Finish, WorkerStates, Holding
      <4>3. GroupTypeOK'
        BY <3>10, <3>e DEF Finish, storeVars
      <4> QED BY <4>1, <4>2, <4>3, <3>l
    <3>11. CASE Fail(w)
      <4>1. StoreTypeOK'
        BY <3>a, <3>b, <3>11 DEF Fail, FailRow, StoreTypeOK, Statuses
      <4>2. LoopTypeOK'
        BY <3>11, <3>f, <3>k DEF Fail, WorkerStates, Holding
      <4>3. GroupTypeOK'
        BY <3>11, <3>e DEF Fail, storeVars
      <4> QED BY <4>1, <4>2, <4>3, <3>l
    <3>12. CASE Ack(w)
      <4>1. StoreTypeOK'
        BY <3>12, <3>d DEF Ack
      <4>2. LoopTypeOK'
        BY <3>12, <3>g DEF Ack
      <4>3. GroupTypeOK'
        BY <3>12, <3>e, <3>j DEF Ack, CommitFails, storeVars
      <4> QED BY <4>1, <4>2, <4>3, <3>l
    <3>13. CASE Skip(w)
      <4>1. StoreTypeOK'
        BY <3>13, <3>d DEF Skip
      <4>2. LoopTypeOK'
        BY <3>13, <3>g, <3>h DEF Skip
      <4>3. GroupTypeOK'
        BY <3>13, <3>i, <3>j, <3>m DEF Skip, storeVars
      <4> QED BY <4>1, <4>2, <4>3, <3>l
    <3>14. CASE Restart(w)
      <4>1. StoreTypeOK'
        BY <3>14, <3>d DEF Restart
      <4>2. LoopTypeOK'
        BY <3>b, <3>14 DEF Restart, LoopTypeOK, WorkerStates
      <4>3. GroupTypeOK'
        BY <3>14, <3>e DEF Restart, storeVars
      <4> QED BY <4>1, <4>2, <4>3, <3>l
    <3>15. CASE Evict(w)
      <4>1. StoreTypeOK'
        BY <3>15, <3>d DEF Evict
      <4>2. LoopTypeOK'
        BY <3>b, <3>15 DEF Evict, LoopTypeOK, workVars
      <4>3. GroupTypeOK'
        BY <3>b, <3>15 DEF Evict, GroupTypeOK, storeVars
      <4> QED BY <4>1, <4>2, <4>3, <3>l
    <3>16. CASE CriticalFailure(w)
      <4>1. StoreTypeOK'
        BY <3>16, <3>d DEF CriticalFailure
      <4>2. LoopTypeOK'
        BY <3>16, <3>g DEF CriticalFailure
      <4>3. GroupTypeOK'
        BY <3>16, <3>e DEF CriticalFailure, storeVars
      <4> QED BY <4>1, <4>2, <4>3, <3>l
    <3>17. CASE Crash(w)
      <4>1. StoreTypeOK'
        BY <3>17, <3>d DEF Crash
      <4>2. LoopTypeOK'
        BY <3>17, <3>h DEF Crash
      <4>3. GroupTypeOK'
        BY <3>17, <3>i DEF Crash, storeVars
      <4> QED BY <4>1, <4>2, <4>3, <3>l
    <3> QED BY <3>1, <3>2, <3>3, <3>4, <3>5, <3>6, <3>7, <3>8, <3>9, <3>10, <3>11, <3>12, <3>13, <3>14, <3>15, <3>16, <3>17, <2>4 DEF WorkerStep
  <2>5. CASE UNCHANGED vars
    <3>1. StoreTypeOK' /\ UploadTypeOK'
      BY <2>5 DEF vars, storeVars, TypeOK, StoreTypeOK, UploadTypeOK
    <3>2. LoopTypeOK'
      BY <2>5 DEF vars, workVars, TypeOK, WorkerTypeOK, LoopTypeOK
    <3>3. GroupTypeOK'
      BY <2>5 DEF vars, storeVars, groupVars, TypeOK, WorkerTypeOK, GroupTypeOK
    <3> QED BY <3>1, <3>2, <3>3 DEF TypeOK, WorkerTypeOK
  <2> QED BY <2>1, <2>2, <2>3, <2>4, <2>5 DEF Next, CoreApi, Converters, Idle
<1> QED BY <1>1, <1>2, PTL DEF Spec
-----------------------------------------------------------------------------
(***************************************************************************)
(* The inductive invariant, in two layers.                                 *)
(*                                                                         *)
(* SagaInv ties an upload to what it has written.  Launched uploads are    *)
(* those that may have a record in the topic: a worker never meets the     *)
(* track of any other, so the INSERT of a row cannot meet a worker.        *)
(***************************************************************************)
Launched == {"publishing", "undo_row", "undo_raw", "created", "failed", "crashed"}

WritesInv ==
    \A t \in Tracks :
        /\ upload[t] \in {"publishing", "undo_row", "created"} => RowExists(t)
        /\ upload[t] \in {"idle", "storing", "creating", "rejected"} => ~RowExists(t)
        /\ upload[t] \in {"creating", "publishing", "undo_row", "created"} => t \in raw
        /\ upload[t] = "created" => JobPublished(t)

RecordsInv ==
    \A p \in Partitions : \A i \in DOMAIN topic[p] : upload[topic[p][i]] \in Launched

JobsInv == \A w \in Workers : job[w] # NoJob => upload[job[w]] \in Launched

SagaInv == WritesInv /\ RecordsInv /\ JobsInv

(***************************************************************************)
(* ClaimInv ties a claim to the row and to the HLS objects: what a worker  *)
(* holds is 'processing' or gone, nobody else holds it, and what it has    *)
(* still to upload is all that is missing in the bucket.                   *)
(***************************************************************************)
RowInv ==
    \A w \in Workers :
        wpc[w] \in Holding => status[job[w]] \in {"processing", "absent"}

ProgressInv ==
    \A w \in Workers :
        /\ wpc[w] = "upload" => HlsFiles \subseteq hls[job[w]] \cup todo[w]
        /\ wpc[w] = "finish" => hls[job[w]] = HlsFiles

ClaimInv == RowInv /\ OneHolderPerTrack /\ ProgressInv /\ ReadyIsPlayable

\* What a worker's step leaves alone: originals, records and the existence of
\* every row; a worker takes up a track only from a record.
LEMMA WorkerFrame ==
  ASSUME TypeOK, NEW w \in Workers,
         WorkerStep(w) \/ Evict(w) \/ CriticalFailure(w) \/ Crash(w)
  PROVE  /\ raw' = raw /\ topic' = topic
         /\ \A t \in Tracks : RowExists(t)' <=> RowExists(t)
         /\ \A v \in Workers :
              \/ job'[v] = job[v] \/ job'[v] = NoJob
              \/ \E p \in Partitions : \E i \in DOMAIN topic[p] : job'[v] = topic[p][i]
<1> DEFINE Goal ==
         /\ raw' = raw /\ topic' = topic
         /\ \A t \in Tracks : RowExists(t)' <=> RowExists(t)
         /\ \A v \in Workers :
              \/ job'[v] = job[v] \/ job'[v] = NoJob
              \/ \E p \in Partitions : \E i \in DOMAIN topic[p] : job'[v] = topic[p][i]
<1>a. wpc[w] \notin {"poll", "down"} => job[w] \in Tracks
  BY DEF TypeOK, WorkerTypeOK, LoopTypeOK, GroupTypeOK
<1> USE DEF RowExists, storeVars, workVars, groupVars, TypeOK, StoreTypeOK, WorkerTypeOK, LoopTypeOK, GroupTypeOK
<1>1. CASE \E p \in Partitions : Fetch(w, p)
  <2> PICK p \in Partitions : Fetch(w, p)
    BY <1>1
  <2>1. pos[w][p] + 1 \in DOMAIN topic[p]
    BY DEF Fetch
  <2> QED BY <2>1 DEF Fetch
<1>2. CASE Check(w)
  BY <1>a, <1>2 DEF Check, Jump
<1>3. CASE Claim(w)
  BY <1>a, <1>3 DEF Claim, ClaimRow, Claimable, Jump
<1>4. CASE ClaimRefused(w)
  BY <1>a, <1>4 DEF ClaimRefused, ClaimRow, Claimable, Jump
<1>5. CASE Download(w)
  BY <1>a, <1>5 DEF Download, Jump
<1>6. CASE Convert(w)
  BY <1>a, <1>6 DEF Convert, Jump
<1>7. CASE \E f \in HlsFiles : UploadFile(w, f)
  BY <1>a, <1>7 DEF UploadFile
<1>8. CASE \E f \in HlsFiles : UploadFails(w, f)
  BY <1>a, <1>8 DEF UploadFails, Jump
<1>9. CASE UploadDone(w)
  BY <1>a, <1>9 DEF UploadDone, Jump
<1>10. CASE Finish(w)
  BY <1>a, <1>10 DEF Finish, ReadyRow, Jump
<1>11. CASE Fail(w)
  BY <1>a, <1>11 DEF Fail, FailRow, Jump
<1>12. CASE Ack(w)
  BY <1>a, <1>12 DEF Ack, Commit, CommitFails, NextMessage
<1>13. CASE Skip(w)
  BY <1>a, <1>13 DEF Skip, Commit, Die, NextMessage
<1>14. CASE Restart(w)
  BY <1>a, <1>14 DEF Restart
<1>15. CASE Evict(w)
  BY <1>a, <1>15 DEF Evict
<1>16. CASE CriticalFailure(w)
  BY <1>a, <1>16 DEF CriticalFailure, NextMessage
<1>17. CASE Crash(w)
  BY <1>a, <1>17 DEF Crash, Die
<1> QED BY <1>1, <1>2, <1>3, <1>4, <1>5, <1>6, <1>7, <1>8, <1>9, <1>10, <1>11, <1>12, <1>13, <1>14, <1>15, <1>16, <1>17 DEF WorkerStep

LEMMA SagaInvariant == Spec => []SagaInv
<1>1. Init => SagaInv
  BY DEF Init, StoreInit, UploadInit, WorkerInit, SagaInv, WritesInv, RecordsInv, JobsInv, RowExists
<1>2. TypeOK /\ TypeOK' /\ SagaInv /\ [Next]_vars => SagaInv'
  <2> SUFFICES ASSUME TypeOK, TypeOK', SagaInv, [Next]_vars PROVE SagaInv'
    OBVIOUS
  <2>1. ASSUME NEW t \in Tracks, ReceiveUpload(t) \/ HandlerStep(t),
               UNCHANGED <<workVars, groupVars>>
        PROVE  SagaInv'
    <3> USE <2>1 DEF SagaInv, Launched, Goto, storeVars, workVars, groupVars, TypeOK, StoreTypeOK, UploadTypeOK, WorkerTypeOK, LoopTypeOK, GroupTypeOK
    <3>r. \A p \in Partitions : \A i \in DOMAIN topic[p] : topic[p][i] \in Tracks
      OBVIOUS
    <3>1. CASE ReceiveUpload(t)
      <4>1. WritesInv'
        BY <3>1 DEF ReceiveUpload, WritesInv, RowExists, JobPublished, CopiesIn
      <4>2. RecordsInv'
        BY <3>r, <3>1 DEF ReceiveUpload, RecordsInv
      <4>3. JobsInv'
        BY <3>1 DEF ReceiveUpload, JobsInv
      <4> QED BY <4>1, <4>2, <4>3
    <3>2. CASE StoreOriginal(t)
      <4>1. WritesInv'
        BY <3>2 DEF StoreOriginal, WritesInv, RowExists, JobPublished, CopiesIn
      <4>2. RecordsInv'
        BY <3>r, <3>2 DEF StoreOriginal, RecordsInv
      <4>3. JobsInv'
        BY <3>2 DEF StoreOriginal, JobsInv
      <4> QED BY <4>1, <4>2, <4>3
    <3>3. CASE CreateTrack(t)
      <4>1. WritesInv'
        BY <3>3 DEF CreateTrack, InsertRow, WritesInv, RowExists, JobPublished, CopiesIn
      <4>2. RecordsInv'
        BY <3>r, <3>3 DEF CreateTrack, InsertRow, RecordsInv
      <4>3. JobsInv'
        <5>1. \A u \in Tracks : upload[u] \in Launched => upload'[u] \in Launched
          BY <3>3 DEF CreateTrack
        <5> QED BY <5>1 DEF JobsInv
      <4> QED BY <4>1, <4>2, <4>3
    <3>4. CASE \E p \in Partitions : ProduceJob(t, p)
      <4>1. WritesInv'
        <5> PICK p \in Partitions : ProduceJob(t, p)
          BY <3>4
        <5>1. topic[p] \in Seq(Tracks)
          OBVIOUS
        <5>2. \A q \in Partitions : \A i \in DOMAIN topic[q] :
                 i \in DOMAIN topic'[q] /\ topic'[q][i] = topic[q][i]
          BY <5>1 DEF ProduceJob, AppendJob
        <5>3. \A u \in Tracks : JobPublished(u) => JobPublished(u)'
          BY <5>2 DEF JobPublished, CopiesIn
        <5> QED BY <5>3 DEF ProduceJob, WritesInv, RowExists
      <4>2. RecordsInv'
        BY <3>r, <3>4 DEF ProduceJob, AppendJob, RecordsInv
      <4>3. JobsInv'
        BY <3>4 DEF ProduceJob, AppendJob, JobsInv
      <4> QED BY <4>1, <4>2, <4>3
    <3>5. CASE PublishSucceeds(t)
      <4>1. WritesInv'
        BY <3>5 DEF PublishSucceeds, WritesInv, RowExists, JobPublished, CopiesIn
      <4>2. RecordsInv'
        BY <3>r, <3>5 DEF PublishSucceeds, RecordsInv
      <4>3. JobsInv'
        BY <3>5 DEF PublishSucceeds, JobsInv
      <4> QED BY <4>1, <4>2, <4>3
    <3>6. CASE PublishFails(t)
      <4>1. WritesInv'
        BY <3>6 DEF PublishFails, WritesInv, RowExists, JobPublished, CopiesIn
      <4>2. RecordsInv'
        BY <3>r, <3>6 DEF PublishFails, RecordsInv
      <4>3. JobsInv'
        BY <3>6 DEF PublishFails, JobsInv
      <4> QED BY <4>1, <4>2, <4>3
    <3>7. CASE UndoRow(t)
      <4>1. WritesInv'
        BY <3>7 DEF UndoRow, DeleteRow, WritesInv, RowExists, JobPublished, CopiesIn
      <4>2. RecordsInv'
        BY <3>r, <3>7 DEF UndoRow, DeleteRow, RecordsInv
      <4>3. JobsInv'
        BY <3>7 DEF UndoRow, DeleteRow, JobsInv
      <4> QED BY <4>1, <4>2, <4>3
    <3>8. CASE UndoRaw(t)
      <4>1. WritesInv'
        BY <3>8 DEF UndoRaw, WritesInv, RowExists, JobPublished, CopiesIn
      <4>2. RecordsInv'
        BY <3>r, <3>8 DEF UndoRaw, RecordsInv
      <4>3. JobsInv'
        BY <3>8 DEF UndoRaw, JobsInv
      <4> QED BY <4>1, <4>2, <4>3
    <3> QED BY <3>1, <3>2, <3>3, <3>4, <3>5, <3>6, <3>7, <3>8 DEF HandlerStep
  <2>2. ASSUME CrashCoreApi, UNCHANGED <<workVars, groupVars>> PROVE SagaInv'
    BY <2>2 DEF CrashCoreApi, StopHandlers, InFlight, SagaInv, WritesInv, RecordsInv, JobsInv, Launched, RowExists, JobPublished, CopiesIn, storeVars, workVars, groupVars, TypeOK, StoreTypeOK, UploadTypeOK, WorkerTypeOK, LoopTypeOK, GroupTypeOK
  <2>3. ASSUME Rebalance, UNCHANGED upload PROVE SagaInv'
    BY <2>3 DEF Rebalance, SagaInv, WritesInv, RecordsInv, JobsInv, RowExists, JobPublished, CopiesIn, storeVars, workVars
  <2>4. ASSUME NEW w \in Workers, UNCHANGED upload,
               WorkerStep(w) \/ Evict(w) \/ CriticalFailure(w) \/ Crash(w)
        PROVE  SagaInv'
    <3>1. WritesInv'
      BY <2>4, WorkerFrame DEF SagaInv, WritesInv, JobPublished, CopiesIn
    <3>2. RecordsInv'
      BY <2>4, WorkerFrame DEF SagaInv, RecordsInv
    <3>3. JobsInv'
      BY <2>4, WorkerFrame, Zenon DEF SagaInv, RecordsInv, JobsInv
    <3> QED BY <3>1, <3>2, <3>3 DEF SagaInv
  <2>5. CASE UNCHANGED vars
    BY <2>5 DEF vars, storeVars, workVars, SagaInv, WritesInv, RecordsInv, JobsInv, RowExists, JobPublished, CopiesIn
  <2> QED BY <2>1, <2>2, <2>3, <2>4, <2>5 DEF Next, CoreApi, Converters, Idle
<1> QED BY <1>1, <1>2, TypeCorrect, PTL DEF Spec

\* An upload answered 201 keeps its row, its original and its record, for any
\* faults of other uploads, of core-api and of the workers.
THEOREM AcknowledgedDurable == Spec => []AcknowledgedUploadIsDurable
<1>1. SagaInv => AcknowledgedUploadIsDurable
  BY DEF SagaInv, WritesInv, AcknowledgedUploadIsDurable
<1> QED BY <1>1, SagaInvariant, PTL

LEMMA ClaimInvariant == Spec => []ClaimInv
<1>1. Init => ClaimInv
  BY DEF Init, StoreInit, WorkerInit, ClaimInv, RowInv, OneHolderPerTrack, Holds, Holding, ProgressInv, ReadyIsPlayable
<1>2. TypeOK /\ TypeOK' /\ SagaInv /\ ClaimInv /\ [Next]_vars => ClaimInv'
  <2> SUFFICES ASSUME TypeOK, TypeOK', SagaInv, ClaimInv, [Next]_vars PROVE ClaimInv'
    OBVIOUS
  <2> USE DEF ClaimInv, RowInv, OneHolderPerTrack, Holds, Holding, ProgressInv, ReadyIsPlayable
  <2>a. \A w \in Workers : wpc[w] \notin {"poll", "down"} => job[w] \in Tracks
    BY DEF TypeOK, WorkerTypeOK, LoopTypeOK, GroupTypeOK
  <2>1. ASSUME NEW t \in Tracks, ReceiveUpload(t) \/ HandlerStep(t),
               UNCHANGED <<workVars, groupVars>>
        PROVE  ClaimInv'
    <3> USE <2>1 DEF storeVars, workVars
    <3>1. CASE CreateTrack(t)
      \* No worker can have met the track: its upload is not launched.
      <4>1. \A w \in Workers : job[w] # t
        BY <3>1, NoJobAssumption DEF CreateTrack, SagaInv, JobsInv, Launched
      <4> QED BY <3>1, <4>1, <2>a DEF CreateTrack, InsertRow, TypeOK, StoreTypeOK
    <3>2. CASE UndoRow(t)
      BY <3>2, <2>a DEF UndoRow, DeleteRow, TypeOK, StoreTypeOK
    <3>3. CASE UNCHANGED <<status, playlist, hls>>
      BY <3>3
    <3> QED BY <3>1, <3>2, <3>3 DEF HandlerStep, ReceiveUpload, StoreOriginal, ProduceJob, PublishSucceeds, PublishFails, UndoRaw
  <2>2. ASSUME CrashCoreApi, UNCHANGED <<workVars, groupVars>> PROVE ClaimInv'
    BY <2>2 DEF CrashCoreApi, StopHandlers, storeVars, workVars
  <2>3. ASSUME Rebalance, UNCHANGED upload PROVE ClaimInv'
    BY <2>3 DEF Rebalance, storeVars, workVars
  <2>4. ASSUME NEW w \in Workers,
               WorkerStep(w) \/ Evict(w) \/ CriticalFailure(w) \/ Crash(w)
        PROVE  ClaimInv'
    <3> USE <2>4, <2>a DEF storeVars, workVars, groupVars, TypeOK, StoreTypeOK, WorkerTypeOK, LoopTypeOK, GroupTypeOK
    <3>1. CASE \E p \in Partitions : Fetch(w, p)
      BY <3>1 DEF Fetch
    <3>2. CASE Check(w)
      <4>1. RowInv'
        BY <3>2 DEF Check, Jump
      <4>2. OneHolderPerTrack'
        <5>1. \A v \in Workers, t \in Tracks : Holds(v, t)' => Holds(v, t)
          BY <3>2 DEF Check, Jump
        <5> QED BY <5>1, Zenon DEF OneHolderPerTrack
      <4>3. ProgressInv'
        BY <3>2 DEF Check, Jump
      <4>4. ReadyIsPlayable'
        BY <3>2 DEF Check, Jump
      <4> QED BY <4>1, <4>2, <4>3, <4>4
    <3>3. CASE Claim(w)
      <4>1. RowInv'
        BY <3>3 DEF Claim, ClaimRow, Claimable, Jump
      <4>2. OneHolderPerTrack'
        \* The row was claimable, so by RowInv nobody held it.
        <5>1. \A v \in Workers : ~Holds(v, job[w])
          BY <3>3 DEF Claim, ClaimRow, Claimable
        <5>2. \A v \in Workers, t \in Tracks : Holds(v, t)' => (v = w /\ t = job[w]) \/ Holds(v, t)
          BY <3>3 DEF Claim, Jump
        <5> SUFFICES ASSUME NEW a \in Workers, NEW b \in Workers, NEW t \in Tracks,
                            Holds(a, t)', Holds(b, t)'
                     PROVE  a = b
          BY Zenon DEF OneHolderPerTrack
        <5>3. CASE t = job[w]
          <6>1. ~Holds(a, t) /\ ~Holds(b, t)
            BY <5>1, <5>3
          <6>2. a = w
            BY <5>2, <6>1, Zenon
          <6>3. b = w
            BY <5>2, <6>1, Zenon
          <6> QED BY <6>2, <6>3
        <5>4. CASE t # job[w]
          <6>1. Holds(a, t) /\ Holds(b, t)
            BY <5>2, <5>4
          <6> QED BY <6>1 DEF OneHolderPerTrack
        <5> QED BY <5>3, <5>4
      <4>3. ProgressInv'
        BY <3>3 DEF Claim, ClaimRow, Claimable, Jump
      <4>4. ReadyIsPlayable'
        BY <3>3 DEF Claim, ClaimRow, Claimable, Jump
      <4> QED BY <4>1, <4>2, <4>3, <4>4
    <3>4. CASE ClaimRefused(w)
      <4>1. /\ wpc' = [wpc EXCEPT ![w] = "skip"] /\ wpc[w] = "claim"
            /\ UNCHANGED <<job, todo, hls, playlist>>
            /\ \/ UNCHANGED status
               \/ status' = [status EXCEPT ![job[w]] = "processing"]
        BY <3>4 DEF ClaimRefused, ClaimRow, Jump
      <4>2. RowInv'
        BY <4>1
      <4>3. OneHolderPerTrack'
        <5>1. \A v \in Workers, t \in Tracks : Holds(v, t)' => Holds(v, t)
          BY <4>1
        <5> QED BY <5>1, Zenon DEF OneHolderPerTrack
      <4>4. ProgressInv'
        BY <4>1
      <4>5. ReadyIsPlayable'
        BY <4>1
      <4> QED BY <4>2, <4>3, <4>4, <4>5
    <3>5. CASE Download(w)
      <4>1. RowInv'
        BY <3>5 DEF Download, Jump
      <4>2. OneHolderPerTrack'
        <5>1. \A v \in Workers, t \in Tracks : Holds(v, t)' => Holds(v, t)
          BY <3>5 DEF Download, Jump
        <5> QED BY <5>1, Zenon DEF OneHolderPerTrack
      <4>3. ProgressInv'
        BY <3>5 DEF Download, Jump
      <4>4. ReadyIsPlayable'
        BY <3>5 DEF Download, Jump
      <4> QED BY <4>1, <4>2, <4>3, <4>4
    <3>6. CASE Convert(w)
      <4>1. RowInv'
        BY <3>6 DEF Convert, Jump
      <4>2. OneHolderPerTrack'
        <5>1. \A v \in Workers, t \in Tracks : Holds(v, t)' => Holds(v, t)
          BY <3>6 DEF Convert, Jump
        <5> QED BY <5>1, Zenon DEF OneHolderPerTrack
      <4>3. ProgressInv'
        BY <3>6 DEF Convert, Jump
      <4>4. ReadyIsPlayable'
        BY <3>6 DEF Convert, Jump
      <4> QED BY <4>1, <4>2, <4>3, <4>4
    <3>7. CASE \E f \in HlsFiles : UploadFile(w, f)
      <4>1. RowInv'
        BY <3>7 DEF UploadFile
      <4>2. OneHolderPerTrack'
        BY <3>7 DEF UploadFile
      <4>3. ProgressInv'
        BY <3>7 DEF UploadFile
      <4>4. ReadyIsPlayable'
        BY <3>7 DEF UploadFile
      <4> QED BY <4>1, <4>2, <4>3, <4>4
    <3>8. CASE \E f \in HlsFiles : UploadFails(w, f)
      <4>1. RowInv'
        BY <3>8 DEF UploadFails, Jump
      <4>2. OneHolderPerTrack'
        BY <3>8 DEF UploadFails, Jump
      <4>3. ProgressInv'
        <5> PICK f \in HlsFiles : UploadFails(w, f)
          BY <3>8
        <5>1. \A t \in Tracks : hls[t] \subseteq hls'[t] /\ hls'[t] \subseteq HlsFiles
          <6>1. job[w] \in Tracks /\ hls' \in {hls, [hls EXCEPT ![job[w]] = @ \cup {f}]}
            BY DEF UploadFails
          <6>2. CASE hls' = hls
            BY <6>2
          <6>3. CASE hls' = [hls EXCEPT ![job[w]] = @ \cup {f}]
            BY <6>1, <6>3
          <6> QED BY <6>1, <6>2, <6>3, Zenon
        <5>2. wpc' = [wpc EXCEPT ![w] = "fail"] /\ job' = job /\ todo' = [todo EXCEPT ![w] = {}]
          BY DEF UploadFails, Jump
        <5>3. ASSUME NEW v \in Workers, wpc'[v] \in {"upload", "finish"}
              PROVE  /\ job[v] \in Tracks /\ wpc[v] = wpc'[v]
                     /\ job'[v] = job[v] /\ todo'[v] = todo[v]
          BY <5>2, <5>3
        <5>4. ASSUME NEW v \in Workers, wpc'[v] = "upload"
              PROVE  HlsFiles \subseteq hls'[job'[v]] \cup todo'[v]
          BY <5>1, <5>3, <5>4
        <5>5. ASSUME NEW v \in Workers, wpc'[v] = "finish"
              PROVE  hls'[job'[v]] = HlsFiles
          <6>1. wpc[v] = "finish" /\ job[v] \in Tracks /\ job'[v] = job[v]
            BY <5>3, <5>5
          <6>2. hls[job[v]] = HlsFiles
            BY <6>1
          <6>3. HlsFiles \subseteq hls'[job[v]] /\ hls'[job[v]] \subseteq HlsFiles
            BY <6>1, <6>2, <5>1
          <6>4. hls'[job[v]] = HlsFiles
            BY ONLY <6>3, Zenon
          <6> QED BY <6>1, <6>4
        <5> QED BY <5>4, <5>5 DEF ProgressInv
      <4>4. ReadyIsPlayable'
        BY <3>8 DEF UploadFails, Jump
      <4> QED BY <4>1, <4>2, <4>3, <4>4
    <3>9. CASE UploadDone(w)
      <4>1. RowInv'
        BY <3>9 DEF UploadDone, Jump
      <4>2. OneHolderPerTrack'
        BY <3>9 DEF UploadDone, Jump
      <4>3. ProgressInv'
        <5>1. hls[job[w]] = HlsFiles
          <6>1. job[w] \in Tracks /\ wpc[w] = "upload" /\ todo[w] = {}
            BY <3>9 DEF UploadDone
          <6>2. hls[job[w]] \subseteq HlsFiles /\ HlsFiles \subseteq hls[job[w]] \cup todo[w]
            BY <6>1
          <6> QED BY <6>1, <6>2, Zenon
        <5> QED BY <5>1, <3>9 DEF UploadDone, Jump
      <4>4. ReadyIsPlayable'
        BY <3>9 DEF UploadDone, Jump
      <4> QED BY <4>1, <4>2, <4>3, <4>4
    <3>10. CASE Finish(w)
      <4>1. RowInv'
        \* The row moves on, but w has let go of it and nobody else held it.
        <5>1. /\ wpc' = [wpc EXCEPT ![w] = "ack"] /\ UNCHANGED job
              /\ \A t \in Tracks \ {job[w]} : status'[t] = status[t]
          BY <3>10 DEF Finish, ReadyRow, Jump
        <5>2. \A v \in Workers : wpc'[v] \in Holding =>
                 wpc[v] \in Holding /\ job[v] \in Tracks \ {job[w]}
          BY <3>10, <5>1 DEF Finish
        <5> QED BY <5>1, <5>2
      <4>2. OneHolderPerTrack'
        BY <3>10 DEF Finish, ReadyRow, Jump
      <4>3. ProgressInv'
        BY <3>10 DEF Finish, ReadyRow, Jump
      <4>4. ReadyIsPlayable'
        BY <3>10 DEF Finish, ReadyRow, Jump
      <4> QED BY <4>1, <4>2, <4>3, <4>4
    <3>11. CASE Fail(w)
      <4>1. RowInv'
        <5>1. /\ wpc' = [wpc EXCEPT ![w] = "ack"] /\ UNCHANGED job
              /\ \A t \in Tracks \ {job[w]} : status'[t] = status[t]
          BY <3>11 DEF Fail, FailRow, Jump
        <5>2. \A v \in Workers : wpc'[v] \in Holding =>
                 wpc[v] \in Holding /\ job[v] \in Tracks \ {job[w]}
          BY <3>11, <5>1 DEF Fail
        <5> QED BY <5>1, <5>2
      <4>2. OneHolderPerTrack'
        BY <3>11 DEF Fail, FailRow, Jump
      <4>3. ProgressInv'
        BY <3>11 DEF Fail, FailRow, Jump
      <4>4. ReadyIsPlayable'
        BY <3>11 DEF Fail, FailRow, Jump
      <4> QED BY <4>1, <4>2, <4>3, <4>4
    <3>12. CASE Ack(w)
      <4>1. RowInv'
        BY <3>12 DEF Ack, Commit, CommitFails, NextMessage
      <4>2. OneHolderPerTrack'
        BY <3>12 DEF Ack, Commit, CommitFails, NextMessage
      <4>3. ProgressInv'
        BY <3>12 DEF Ack, Commit, CommitFails, NextMessage
      <4>4. ReadyIsPlayable'
        BY <3>12 DEF Ack, Commit, CommitFails, NextMessage
      <4> QED BY <4>1, <4>2, <4>3, <4>4
    <3>13. CASE Skip(w)
      <4>0. /\ UNCHANGED <<status, playlist, hls>>
            /\ \E next \in {"poll", "down"} : wpc' = [wpc EXCEPT ![w] = next]
            /\ job' = [job EXCEPT ![w] = NoJob]
            /\ todo' = [todo EXCEPT ![w] = {}]
        BY <3>13 DEF Skip, NextMessage, Die
      <4>1. RowInv'
        BY <4>0
      <4>2. OneHolderPerTrack'
        BY <4>0 DEF Skip
      <4>3. ProgressInv'
        BY <4>0 DEF Skip
      <4>4. ReadyIsPlayable'
        BY <3>13 DEF Skip, Commit, Die, NextMessage
      <4> QED BY <4>1, <4>2, <4>3, <4>4
    <3>14. CASE Restart(w)
      BY <3>14 DEF Restart
    <3>15. CASE Evict(w)
      BY <3>15 DEF Evict
    <3>16. CASE CriticalFailure(w)
      BY <3>16 DEF CriticalFailure, NextMessage
    <3>17. CASE Crash(w)
      BY <3>17 DEF Crash, Die
    <3> QED BY <3>1, <3>2, <3>3, <3>4, <3>5, <3>6, <3>7, <3>8, <3>9, <3>10, <3>11, <3>12, <3>13, <3>14, <3>15, <3>16, <3>17 DEF WorkerStep
  <2>5. CASE UNCHANGED vars
    BY <2>5 DEF vars, storeVars, workVars
  <2> QED BY <2>1, <2>2, <2>3, <2>4, <2>5 DEF Next, CoreApi, Converters, Idle
<1> QED BY <1>1, <1>2, TypeCorrect, SagaInvariant, PTL DEF Spec

\* The conditional UPDATE of database.py:61 is a lock: two workers never
\* transcode the same track at once.
THEOREM MutualExclusion == Spec => []OneHolderPerTrack
BY ClaimInvariant, PTL DEF ClaimInv

\* What /play serves is complete.
THEOREM ReadyPlayable == Spec => []ReadyIsPlayable
BY ClaimInvariant, PTL DEF ClaimInv

\* A worker's report finds the row its claim left, or a row that was rolled
\* back.
THEOREM ReportsMatchClaims == Spec => []ReportFindsItsClaim
<1>1. TypeOK /\ SagaInv /\ ClaimInv => ReportFindsItsClaim
  <2> SUFFICES ASSUME TypeOK, SagaInv, ClaimInv, NEW w \in Workers, wpc[w] \in Holding
               PROVE  \/ status[job[w]] = "processing"
                      \/ ~RowExists(job[w]) /\ upload[job[w]] \in {"undo_raw", "failed", "crashed"}
    BY DEF ReportFindsItsClaim
  <2>1. job[w] \in Tracks /\ job[w] # NoJob
    BY DEF TypeOK, WorkerTypeOK, LoopTypeOK, Holding
  <2>2. status[job[w]] \in {"processing", "absent"}
    BY DEF ClaimInv, RowInv
  <2>3. upload[job[w]] \in Launched
    BY <2>1 DEF SagaInv, JobsInv
  <2>4. ~RowExists(job[w]) => upload[job[w]] \notin {"publishing", "undo_row", "created"}
    BY <2>1 DEF SagaInv, WritesInv
  <2> QED BY <2>2, <2>3, <2>4 DEF Launched, RowExists
<1> QED BY <1>1, TypeCorrect, SagaInvariant, ClaimInvariant, PTL
=============================================================================
