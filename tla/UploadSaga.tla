----------------------------- MODULE UploadSaga -----------------------------
(***************************************************************************)
(* POST /upload of core-api (server/handlers/upload.go): store the         *)
(* original in S3, insert the row, publish the transcode job, answer; and  *)
(* the compensations a failing step runs.  Every remote call is a step of  *)
(* its own: other uploads and the workers run between any two of them.     *)
(***************************************************************************)
EXTENDS TrackStore

VARIABLE upload  \* for each upload, the call its handler is about to make

(***************************************************************************)
(* "idle"        not received yet       "undo_row"  DeleteTrackByID        *)
(* "storing"     PutOriginal            "undo_raw"  Delete of the original *)
(* "creating"    CreateTrack            "created"   answered 201           *)
(* "publishing"  PublishCreated         "failed"    answered 500           *)
(* "rejected"    answered 4xx           "crashed"   core-api stopped       *)
(***************************************************************************)
InFlight == {"storing", "creating", "publishing", "undo_row", "undo_raw"}
Answered == {"created", "failed", "rejected", "crashed"}
UploadStates == {"idle"} \cup InFlight \cup Answered

UploadTypeOK == upload \in [Tracks -> UploadStates]

UploadInit == upload = [t \in Tracks |-> "idle"]

Goto(t, next) == upload' = [upload EXCEPT ![t] = next]

\* The checks of the form, the file name and the body come before any write.
ReceiveUpload(t) ==
    /\ upload[t] = "idle"
    /\ \/ Goto(t, "storing")
       \/ "invalid" \in Faults /\ Goto(t, "rejected")
    /\ UNCHANGED storeVars

\* Mutant: the error is logged and the handler goes on.
StoreErrorIgnored(t) ==
    /\ upload[t] = "storing"
    /\ \/ raw' = raw \cup {t}
       \/ "store" \in Faults /\ UNCHANGED raw
    /\ Goto(t, "creating")
    /\ UNCHANGED <<status, playlist, hls, topic>>

\* An error is answered at once: nothing deletes an object that was written
\* although the call reported an error.
StoreOriginal(t) ==
    /\ upload[t] = "storing"
    /\ \/ raw' = raw \cup {t} /\ Goto(t, "creating")
       \/ /\ "store" \in Faults
          /\ raw' \in {raw, raw \cup {t}}
          /\ Goto(t, "failed")
    /\ UNCHANGED <<status, playlist, hls, topic>>

\* Mutant: an error of the INSERT is answered at once.
CreateErrorAnswered(t) ==
    /\ upload[t] = "creating"
    /\ \/ InsertRow(t) /\ Goto(t, "publishing")
       \/ /\ "insert" \in Faults
          /\ (InsertRow(t) \/ UNCHANGED <<status, playlist>>)
          /\ Goto(t, "failed")
    /\ UNCHANGED <<raw, hls, topic>>

\* An error leads to the deletion of the original; the row, whose id the
\* handler never learned, is not deleted.
CreateTrack(t) ==
    /\ upload[t] = "creating"
    /\ \/ InsertRow(t) /\ Goto(t, "publishing")
       \/ /\ "insert" \in Faults
          /\ (InsertRow(t) \/ UNCHANGED <<status, playlist>>)
          /\ Goto(t, "undo_raw")
    /\ UNCHANGED <<raw, hls, topic>>

\* One attempt of WriteMessages reaches the broker.
ProduceJob(t, p) ==
    /\ upload[t] = "publishing"
    /\ AppendJob(t, p)
    /\ UNCHANGED <<status, playlist, raw, hls, upload>>

\* Mutant: the writer does not wait for the broker.
PublishUnconfirmed(t) ==
    /\ upload[t] = "publishing"
    /\ Goto(t, "created")
    /\ UNCHANGED storeVars

PublishSucceeds(t) ==
    /\ upload[t] = "publishing"
    /\ JobPublished(t)
    /\ Goto(t, "created")
    /\ UNCHANGED storeVars

\* Mutant: the rollback forgets the row.
PublishFailsKeepingRow(t) ==
    /\ upload[t] = "publishing"
    /\ "publish" \in Faults
    /\ Goto(t, "undo_raw")
    /\ UNCHANGED storeVars

\* The last attempt reports an error, whatever the broker did with them.
PublishFails(t) ==
    /\ upload[t] = "publishing"
    /\ "publish" \in Faults
    /\ Goto(t, "undo_row")
    /\ UNCHANGED storeVars

\* Mutant: the rollback forgets the original.
UndoRowOnly(t) ==
    /\ upload[t] = "undo_row"
    /\ \/ DeleteRow(t)
       \/ "undo" \in Faults /\ UNCHANGED <<status, playlist>>
    /\ Goto(t, "failed")
    /\ UNCHANGED <<raw, hls, topic>>

\* The result of each compensation is discarded.
UndoRow(t) ==
    /\ upload[t] = "undo_row"
    /\ \/ DeleteRow(t)
       \/ "undo" \in Faults /\ UNCHANGED <<status, playlist>>
    /\ Goto(t, "undo_raw")
    /\ UNCHANGED <<raw, hls, topic>>

UndoRaw(t) ==
    /\ upload[t] = "undo_raw"
    /\ \/ raw' = raw \ {t}
       \/ "undo" \in Faults /\ UNCHANGED raw
    /\ Goto(t, "failed")
    /\ UNCHANGED <<status, playlist, hls, topic>>

HandlerStep(t) ==
    \/ StoreOriginal(t) \/ CreateTrack(t)
    \/ \E p \in Partitions : ProduceJob(t, p)
    \/ PublishSucceeds(t) \/ PublishFails(t)
    \/ UndoRow(t) \/ UndoRaw(t)

\* The process stops: no handler that was running goes on, and nothing
\* resumes or undoes what it had done.
StopHandlers ==
    upload' = [t \in Tracks |->
                 IF upload[t] \in InFlight THEN "crashed" ELSE upload[t]]

CrashCoreApi ==
    /\ "apicrash" \in Faults
    /\ \E t \in Tracks : upload[t] \in InFlight
    /\ StopHandlers
    /\ UNCHANGED storeVars
=============================================================================
