----------------------------- MODULE Transcoder -----------------------------
(***************************************************************************)
(* The audio-converter workers: the loop of main.py with the functions of  *)
(* database.py, converter.py and storage.py it calls, and the consumer     *)
(* group "transcoder-group" as kafka-python shows it to the loop.  Every   *)
(* call the loop makes to PostgreSQL, S3, ffmpeg or Kafka is a step.       *)
(***************************************************************************)
EXTENDS TrackStore

CONSTANTS
    Workers,  \* the worker processes
    NoJob     \* not a track

ASSUME NoJobAssumption == NoJob \notin Tracks

VARIABLES
    wpc,       \* the call each worker is about to make
    job,       \* the track of the message each worker is handling
    todo,      \* the HLS files each worker has still to upload
    members,   \* the workers whose membership of the group is valid
    view,      \* the partitions each worker believes it is assigned
    pos,       \* the position of each worker in each partition
    committed  \* the offsets committed for the group

workVars == <<wpc, job, todo>>
groupVars == <<members, view, pos, committed>>

(***************************************************************************)
(* "poll"     next(consumer)               "finish"  update_track_ready    *)
(* "check"    get_track_status             "fail"    update_track_status   *)
(* "claim"    update_track_status                    to 'failed'           *)
(*            to 'processing'              "ack"     commit, inside try    *)
(* "download" s3_client.download_file      "skip"    commit, outside try   *)
(* "convert"  convert_audio_to_hls         "down"    not running           *)
(* "upload"   s3_client.upload_hls_folder                                  *)
(***************************************************************************)
Holding == {"download", "convert", "upload", "finish", "fail"}
WorkerStates == {"poll", "check", "claim", "ack", "skip", "down"} \cup Holding

LoopTypeOK ==
    /\ wpc \in [Workers -> WorkerStates]
    /\ job \in [Workers -> Tracks \cup {NoJob}]
    /\ todo \in [Workers -> SUBSET HlsFiles]
    /\ \A w \in Workers : job[w] = NoJob <=> wpc[w] \in {"poll", "down"}

GroupTypeOK ==
    /\ members \subseteq Workers
    /\ view \in [Workers -> SUBSET Partitions]
    /\ pos \in [Workers -> [Partitions -> Nat]]
    /\ committed \in [Partitions -> Nat]
    /\ \A p \in Partitions :
         /\ committed[p] <= Len(topic[p])
         /\ \A w \in Workers : pos[w][p] <= Len(topic[p])

WorkerTypeOK == LoopTypeOK /\ GroupTypeOK

\* Worker w has claimed track t and has not let go of it.
Holds(w, t) == wpc[w] \in Holding /\ job[w] = t

WorkerInit ==
    /\ wpc = [w \in Workers |-> "poll"]
    /\ job = [w \in Workers |-> NoJob]
    /\ todo = [w \in Workers |-> {}]
    /\ members = {}
    /\ view = [w \in Workers |-> {}]
    /\ pos = [w \in Workers |-> [p \in Partitions |-> 0]]
    /\ committed = [p \in Partitions |-> 0]

Running == {w \in Workers : wpc[w] # "down"}
Polling == {w \in Workers : wpc[w] = "poll"}

-----------------------------------------------------------------------------
(* The consumer group.                                                     *)

\* A worker joins only from its poll, so a rebalance completes when every
\* member that has not been dropped is polling.  Members resume from the
\* committed offsets; a worker outside the group keeps what it believed.
Rebalance ==
    \E group \in (SUBSET Polling) \ {{}} : \E owner \in [Partitions -> group] :
        /\ members \subseteq group
        /\ \/ group # members
           \/ \E p \in Partitions : \A w \in members : p \notin view[w]
        /\ members' = group
        /\ view' = [w \in Workers |->
                      IF w \in group THEN {p \in Partitions : owner[p] = w}
                                     ELSE view[w]]
        /\ pos' = [w \in Workers |->
                      IF w \in group THEN committed ELSE pos[w]]
        /\ UNCHANGED <<committed, workVars, storeVars>>

\* The heartbeat thread leaves the group: the job took longer than
\* max.poll.interval.  The worker goes on with it.
Evict(w) ==
    /\ "evict" \in Faults
    /\ w \in members
    /\ wpc[w] \notin {"poll", "down"}
    /\ members' = members \ {w}
    /\ UNCHANGED <<view, pos, committed, workVars, storeVars>>

\* The next record of an assigned partition.  An evicted worker may still
\* read on through the batch it had fetched.
Fetch(w, p) ==
    /\ wpc[w] = "poll"
    /\ p \in view[w]
    /\ pos[w][p] < Len(topic[p])
    /\ pos' = [pos EXCEPT ![w][p] = @ + 1]
    /\ job' = [job EXCEPT ![w] = topic[p][pos[w][p] + 1]]
    /\ wpc' = [wpc EXCEPT ![w] = "check"]
    /\ UNCHANGED <<todo, members, view, committed, storeVars>>

\* Mutant: commits the offset after the next one.
CommitOneTooFar(w) ==
    /\ w \in members
    /\ committed' = [p \in Partitions |->
                       IF p \in view[w] THEN pos[w][p] + 1 ELSE committed[p]]

\* Mutant: the commit does not carry the member's generation.
CommitOutsideGroup(w) ==
    committed' = [p \in Partitions |->
                    IF p \in view[w] THEN pos[w][p] ELSE committed[p]]

\* commit() names no offset: the broker takes the position in every assigned
\* partition, from a member only.
CommitArrives(w) ==
    /\ w \in members
    /\ committed' = [p \in Partitions |->
                       IF p \in view[w] THEN pos[w][p] ELSE committed[p]]

Commit(w) == CommitArrives(w) /\ UNCHANGED <<members, view, pos>>

\* CommitFailedError of a worker outside the group, or an error of the call.
CommitFails(w) ==
    /\ w \notin members \/ "exception" \in Faults
    /\ UNCHANGED groupVars

-----------------------------------------------------------------------------
(* The loop.                                                               *)

Jump(w, next) ==
    /\ wpc' = [wpc EXCEPT ![w] = next]
    /\ UNCHANGED job

\* The end of one iteration: the loop asks for the next message.
NextMessage(w) ==
    /\ wpc' = [wpc EXCEPT ![w] = "poll"]
    /\ job' = [job EXCEPT ![w] = NoJob]
    /\ todo' = [todo EXCEPT ![w] = {}]

\* The process ends with everything it had in memory, and leaves the group.
Die(w) ==
    /\ wpc' = [wpc EXCEPT ![w] = "down"]
    /\ job' = [job EXCEPT ![w] = NoJob]
    /\ todo' = [todo EXCEPT ![w] = {}]
    /\ members' = members \ {w}
    /\ view' = [view EXCEPT ![w] = {}]
    /\ pos' = [pos EXCEPT ![w] = [p \in Partitions |-> 0]]

\* A missing row and a failed query both read as None.
Check(w) ==
    /\ wpc[w] = "check"
    /\ \/ status[job[w]] = "ready" /\ Jump(w, "skip")
       \/ (status[job[w]] # "ready" \/ "db" \in Faults) /\ Jump(w, "claim")
    /\ UNCHANGED <<todo, groupVars, storeVars>>

Claim(w) ==
    /\ wpc[w] = "claim"
    /\ ClaimRow(job[w])
    /\ Jump(w, "download")
    /\ UNCHANGED <<todo, groupVars, raw, hls, topic>>

\* Mutant: the loop does not look at is_task_acquired.
ClaimResultIgnored(w) ==
    /\ wpc[w] = "claim"
    /\ ~Claimable(job[w])
    /\ Jump(w, "download")
    /\ UNCHANGED <<todo, groupVars, storeVars>>

\* No row matched, or the statement reported an error (and may have matched).
ClaimRefused(w) ==
    /\ wpc[w] = "claim"
    /\ \/ ~Claimable(job[w]) /\ UNCHANGED <<status, playlist>>
       \/ "db" \in Faults /\ (ClaimRow(job[w]) \/ UNCHANGED <<status, playlist>>)
    /\ Jump(w, "skip")
    /\ UNCHANGED <<todo, groupVars, raw, hls, topic>>

\* Mutant: a failed download is acknowledged without being recorded.
DownloadUnrecorded(w) ==
    /\ wpc[w] = "download"
    /\ \/ job[w] \in raw /\ Jump(w, "convert")
       \/ (job[w] \notin raw \/ "s3" \in Faults) /\ Jump(w, "ack")
    /\ UNCHANGED <<todo, groupVars, storeVars>>

Download(w) ==
    /\ wpc[w] = "download"
    /\ \/ job[w] \in raw /\ Jump(w, "convert")
       \/ (job[w] \notin raw \/ "s3" \in Faults) /\ Jump(w, "fail")
    /\ UNCHANGED <<todo, groupVars, storeVars>>

\* Mutant: nor is a failed conversion.
ConvertUnrecorded(w) ==
    /\ wpc[w] = "convert"
    /\ \/ Jump(w, "upload") /\ todo' = [todo EXCEPT ![w] = HlsFiles]
       \/ "ffmpeg" \in Faults /\ Jump(w, "ack") /\ UNCHANGED todo
    /\ UNCHANGED <<groupVars, storeVars>>

Convert(w) ==
    /\ wpc[w] = "convert"
    /\ \/ Jump(w, "upload") /\ todo' = [todo EXCEPT ![w] = HlsFiles]
       \/ "ffmpeg" \in Faults /\ Jump(w, "fail") /\ UNCHANGED todo
    /\ UNCHANGED <<groupVars, storeVars>>

\* One put_object of upload_hls_folder, in the order os.listdir returns.
UploadFile(w, f) ==
    /\ wpc[w] = "upload"
    /\ f \in todo[w]
    /\ hls' = [hls EXCEPT ![job[w]] = @ \cup {f}]
    /\ todo' = [todo EXCEPT ![w] = @ \ {f}]
    /\ UNCHANGED <<wpc, job, groupVars, status, playlist, raw, topic>>

\* Mutant: the upload ends before the last file.
UploadCutShort(w) ==
    /\ wpc[w] = "upload"
    /\ Jump(w, "finish")
    /\ UNCHANGED <<todo, groupVars, storeVars>>

UploadDone(w) ==
    /\ wpc[w] = "upload"
    /\ todo[w] = {}
    /\ Jump(w, "finish")
    /\ UNCHANGED <<todo, groupVars, storeVars>>

\* Mutant: the result of upload_hls_folder is not looked at.
UploadResultIgnored(w, f) ==
    /\ wpc[w] = "upload"
    /\ "s3" \in Faults
    /\ f \in todo[w]
    /\ hls' \in {hls, [hls EXCEPT ![job[w]] = @ \cup {f}]}
    /\ todo' = [todo EXCEPT ![w] = {}]
    /\ Jump(w, "finish")
    /\ UNCHANGED <<groupVars, status, playlist, raw, topic>>

\* A put_object raises ClientError, the file written or not; what was
\* uploaded before it stays.
UploadFails(w, f) ==
    /\ wpc[w] = "upload"
    /\ "s3" \in Faults
    /\ f \in todo[w]
    /\ hls' \in {hls, [hls EXCEPT ![job[w]] = @ \cup {f}]}
    /\ todo' = [todo EXCEPT ![w] = {}]
    /\ Jump(w, "fail")
    /\ UNCHANGED <<groupVars, status, playlist, raw, topic>>

\* The result of update_track_ready is not looked at.
Finish(w) ==
    /\ wpc[w] = "finish"
    /\ \/ ReadyRow(job[w])
       \/ "db" \in Faults /\ UNCHANGED <<status, playlist>>
    /\ Jump(w, "ack")
    /\ UNCHANGED <<todo, groupVars, raw, hls, topic>>

\* Nor is the result of update_track_status(track_id, 'failed').
Fail(w) ==
    /\ wpc[w] = "fail"
    /\ \/ FailRow(job[w])
       \/ "db" \in Faults /\ UNCHANGED <<status, playlist>>
    /\ Jump(w, "ack")
    /\ UNCHANGED <<todo, groupVars, raw, hls, topic>>

\* A commit that raises here is caught by the critical handler.
Ack(w) ==
    /\ wpc[w] = "ack"
    /\ Commit(w) \/ CommitFails(w)
    /\ NextMessage(w)
    /\ UNCHANGED storeVars

\* A commit that raises here ends the process; the broker may have taken it
\* all the same.
Skip(w) ==
    /\ wpc[w] = "skip"
    /\ \/ Commit(w) /\ NextMessage(w)
       \/ /\ w \notin members \/ "exception" \in Faults
          /\ UNCHANGED committed
          /\ Die(w)
       \/ "exception" \in Faults /\ CommitArrives(w) /\ Die(w)
    /\ UNCHANGED storeVars

\* The handler of main.py:131: log, and go on with the next message.
CriticalFailure(w) ==
    /\ "exception" \in Faults
    /\ wpc[w] \in {"download", "convert", "upload"}
    /\ NextMessage(w)
    /\ UNCHANGED <<groupVars, storeVars>>

Crash(w) ==
    /\ "crash" \in Faults
    /\ wpc[w] # "down"
    /\ Die(w)
    /\ UNCHANGED <<committed, storeVars>>

\* docker-compose restarts the container.
Restart(w) ==
    /\ wpc[w] = "down"
    /\ wpc' = [wpc EXCEPT ![w] = "poll"]
    /\ UNCHANGED <<job, todo, groupVars, storeVars>>

\* What a running worker does by itself; the fault-only steps are apart.
WorkerStep(w) ==
    \/ \E p \in Partitions : Fetch(w, p)
    \/ Check(w) \/ Claim(w) \/ ClaimRefused(w)
    \/ Download(w) \/ Convert(w)
    \/ \E f \in HlsFiles : UploadFile(w, f) \/ UploadFails(w, f)
    \/ UploadDone(w) \/ Finish(w) \/ Fail(w)
    \/ Ack(w) \/ Skip(w) \/ Restart(w)
=============================================================================
