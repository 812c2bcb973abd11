---------------------------- MODULE TrackPipeline ----------------------------
(***************************************************************************)
(* The path of a track from POST /upload to a playable HLS stream: the     *)
(* upload handlers of core-api and the transcoder workers over the table,  *)
(* the bucket and the topic they share.                                    *)
(***************************************************************************)
EXTENDS UploadSaga, Transcoder

vars == <<storeVars, upload, workVars, groupVars>>

Init == StoreInit /\ UploadInit /\ WorkerInit

CoreApi ==
    /\ \/ \E t \in Tracks : ReceiveUpload(t) \/ HandlerStep(t)
       \/ CrashCoreApi
    /\ UNCHANGED <<workVars, groupVars>>

Converters ==
    /\ \/ Rebalance
       \/ \E w \in Workers :
            WorkerStep(w) \/ Evict(w) \/ CriticalFailure(w) \/ Crash(w)
    /\ UNCHANGED upload

\* Every upload has been answered and every record has been handled: the
\* only way in which the pipeline may stop.
Quiescent ==
    /\ \A t \in Tracks : upload[t] \in Answered
    /\ members = Workers
    /\ \A w \in Workers : wpc[w] = "poll"
    /\ \A w \in Workers : \A p \in view[w] : pos[w][p] = Len(topic[p])

Idle == Quiescent /\ UNCHANGED vars

Next == CoreApi \/ Converters \/ Idle

Spec == Init /\ [][Next]_vars

\* A handler that runs goes on; a worker that runs goes on and a stopped one
\* is restarted; the group coordinator completes a rebalance.  Uploads need
\* not arrive and no fault need happen.
Fairness ==
    /\ \A t \in Tracks : WF_vars(HandlerStep(t) /\ UNCHANGED <<workVars, groupVars>>)
    /\ \A w \in Workers : WF_vars(WorkerStep(w) /\ UNCHANGED upload)
    /\ WF_vars(Rebalance /\ UNCHANGED upload)

FairSpec == Spec /\ Fairness

-----------------------------------------------------------------------------
(* Safety under every fault.                                               *)

\* The type invariant.
TypeOK == StoreTypeOK /\ UploadTypeOK /\ WorkerTypeOK

\* No two workers transcode the same track at the same time, whatever is
\* delivered twice, re-delivered after a crash or to another worker while an
\* evicted one goes on: the conditional UPDATE of database.py:60 is a lock.
OneHolderPerTrack ==
    \A v, w \in Workers, t \in Tracks : Holds(v, t) /\ Holds(w, t) => v = w

\* A track that /play serves has its playlist key and every HLS file of it
\* in the bucket, after any retry and any partial upload before it.
ReadyIsPlayable ==
    \A t \in Tracks :
        status[t] = "ready" => t \in playlist /\ hls[t] = HlsFiles

\* A 201 is never taken back: the row, the original and the job are there
\* from then on, whichever step of another upload fails or core-api stops.
AcknowledgedUploadIsDurable ==
    \A t \in Tracks :
        upload[t] = "created" => RowExists(t) /\ t \in raw /\ JobPublished(t)

\* When a worker reports 'ready' or 'failed', nobody has moved the track on:
\* it still is 'processing', unless the upload's rollback deleted the row
\* (the "logic error in the workflow" of database.py:107).
ReportFindsItsClaim ==
    \A w \in Workers :
        wpc[w] \in Holding =>
            \/ status[job[w]] = "processing"
            \/ ~RowExists(job[w]) /\ upload[job[w]] \in {"undo_raw", "failed", "crashed"}

\* Once ready, a track stays ready for as long as its row exists, and only
\* the rollback of its own upload removes the row.
ReadyIsFinal ==
    [][\A t \in Tracks :
         status[t] = "ready" /\ status'[t] # "ready" =>
             upload[t] = "undo_row" /\ ~RowExists(t)']_vars

\* The committed offset of a partition never moves back: an evicted worker
\* cannot commit over the worker that took its partition.
CommitsNeverRewind ==
    [][\A p \in Partitions : committed'[p] >= committed[p]]_vars

-----------------------------------------------------------------------------
(* The life cycle the pipeline implements.                                 *)

Working ==
    [w \in Workers |-> IF wpc[w] \in Holding THEN job[w] ELSE NoJob]

Acked == {t \in Tracks : upload[t] = "created"}

Lifecycle == INSTANCE TrackLifecycle
               WITH phase <- status, working <- Working, acked <- Acked

\* Every behaviour, under every fault, is one of the abstract life cycle:
\* claims exclude each other, only the claimant settles a track, and nothing
\* acknowledged is removed.
ImplementsLifecycle == Lifecycle!Spec

-----------------------------------------------------------------------------
(* Safety while some kinds of fault stay away.                             *)

CommittedRecords(p) == {i \in DOMAIN topic[p] : i <= committed[p]}

\* Without crashes, failing statements and unexpected exceptions, a job is
\* acknowledged only when its track has reached an end (or was rolled back)
\* or some worker, evicted perhaps, still holds it.
CommittedIsSettled ==
    \A p \in Partitions : \A i \in CommittedRecords(p) :
        LET t == topic[p][i] IN
        \/ status[t] \in {"ready", "failed", "absent"}
        \/ \E w \in Workers : Holds(w, t)

\* When only the publish fails, a 500 leaves neither a row nor an original.
RolledBackUploadLeavesNothing ==
    \A t \in Tracks : upload[t] = "failed" => ~RowExists(t) /\ t \notin raw

\* Unless a compensation reports an error, nothing that an upload leaves
\* behind when it fails, or when core-api stops under it, ever meets a worker
\* without its other half: a row without its original is one whose INSERT
\* reported an error, pending for ever with no job; an original that a 500
\* left has neither row nor job; and an upload that was cut short keeps the
\* original for as long as it has the row (upload.go:106, 122, 129).
LeftoversAreHarmless ==
    \A t \in Tracks :
        /\ upload[t] \in {"failed", "crashed"} /\ RowExists(t) /\ t \notin raw =>
               upload[t] = "failed" /\ status[t] = "pending" /\ ~JobPublished(t)
        /\ upload[t] = "failed" /\ t \in raw => ~RowExists(t) /\ ~JobPublished(t)

\* Every row a listing shows has its original in the bucket: the rollback
\* deletes the row before the object (upload.go:129).
ListedTrackHasOriginal ==
    \A t \in Tracks : RowExists(t) => t \in raw

\* HLS files without a row are what a worker wrote for an upload whose publish
\* reported an error although the broker had the job: nothing else strands an
\* object, and nothing deletes these (upload.go:130).
OrphansComeFromRollbacks ==
    \A t \in Tracks :
        hls[t] # {} /\ ~RowExists(t) =>
            JobPublished(t) /\ upload[t] \in {"undo_raw", "failed"}

\* An acknowledged upload ends up ready or failed.
AcknowledgedUploadSettles ==
    \A t \in Tracks :
        (upload[t] = "created") ~> (status[t] \in {"ready", "failed"})
=============================================================================
