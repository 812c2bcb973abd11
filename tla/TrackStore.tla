----------------------------- MODULE TrackStore -----------------------------
(***************************************************************************)
(* What core-api and the audio-converter workers share: the PostgreSQL     *)
(* table "tracks", the S3 bucket and the Kafka topic "transcode-jobs".     *)
(* All three are services outside the repository; they are modelled from   *)
(* the statements and calls the repository makes.                          *)
(*                                                                         *)
(* A member of Tracks stands for one POST /upload.  The object id, the     *)
(* database id and the HLS prefix are drawn fresh for each upload, so one  *)
(* value names the row, the raw object and the HLS objects.                *)
(***************************************************************************)
EXTENDS Naturals, Sequences, FiniteSets

CONSTANTS
    Tracks,      \* the uploads
    HlsFiles,    \* the files ffmpeg writes for a track: playlist, segments
    Partitions,  \* partitions of transcode-jobs (docker-compose.yml: 2)
    MaxCopies,   \* bound: records one publish may append (producer retries)
    Faults       \* the kinds of fault that may happen in a behaviour

(***************************************************************************)
(* "invalid"   the upload is rejected before anything is written           *)
(* "store"     PutObject of the original reports an error                  *)
(* "insert"    the INSERT of the row reports an error                      *)
(* "publish"   WriteMessages reports an error                              *)
(* "undo"      a compensating DELETE reports an error                      *)
(* "apicrash"  core-api stops                                              *)
(* "db"        a statement of a worker reports an error                    *)
(* "s3"        botocore raises ClientError in a worker                     *)
(* "exception" anything else raises in a worker                            *)
(* "ffmpeg"    ffmpeg exits with an error                                  *)
(* "crash"     a worker process stops                                      *)
(* "evict"     a job outlasts max.poll.interval: the group drops the worker*)
(*                                                                         *)
(* A reported error never tells whether the request took effect: the       *)
(* answer may have been lost.                                              *)
(***************************************************************************)
FaultKinds == {"invalid", "store", "insert", "publish", "undo", "apicrash",
               "db", "s3", "exception", "ffmpeg", "crash", "evict"}

ASSUME MaxCopiesAssumption == MaxCopies \in Nat \ {0}
ASSUME FaultsAssumption == Faults \subseteq FaultKinds

VARIABLES
    status,    \* tracks.status, or "absent" where there is no row
    playlist,  \* the tracks whose hls_playlist_key is not NULL
    raw,       \* the tracks with an object under raw/
    hls,       \* for each track, its objects under hls/
    topic      \* for each partition, the tracks of its records in order

storeVars == <<status, playlist, raw, hls, topic>>

Statuses == {"absent", "pending", "processing", "ready", "failed"}

StoreTypeOK ==
    /\ status \in [Tracks -> Statuses]
    /\ playlist \subseteq Tracks
    /\ raw \subseteq Tracks
    /\ hls \in [Tracks -> SUBSET HlsFiles]
    /\ topic \in [Partitions -> Seq(Tracks)]

StoreInit ==
    /\ status = [t \in Tracks |-> "absent"]
    /\ playlist = {}
    /\ raw = {}
    /\ hls = [t \in Tracks |-> {}]
    /\ topic = [p \in Partitions |-> <<>>]

-----------------------------------------------------------------------------
(* The statements run against the table.                                   *)

RowExists(t) == status[t] # "absent"

InsertRow(t) ==
    /\ status' = [status EXCEPT ![t] = "pending"]
    /\ UNCHANGED playlist

DeleteRow(t) ==
    /\ status' = [status EXCEPT ![t] = "absent"]
    /\ playlist' = playlist \ {t}

\* Mutant: 'ready' is claimable too.
ClaimableWhenReady(t) == status[t] \in {"pending", "failed", "ready"}

Claimable(t) == status[t] \in {"pending", "failed"}

\* Mutant: the UPDATE has lost its condition on the status.
ClaimAnyRow(t) ==
    /\ RowExists(t)
    /\ status' = [status EXCEPT ![t] = "processing"]
    /\ UNCHANGED playlist

\* UPDATE ... SET status = 'processing' where it matches a row.
ClaimRow(t) ==
    /\ Claimable(t)
    /\ status' = [status EXCEPT ![t] = "processing"]
    /\ UNCHANGED playlist

\* Mutant: a failed job goes back to 'pending'.
RequeueRow(t) ==
    /\ status' = IF RowExists(t) THEN [status EXCEPT ![t] = "pending"]
                                 ELSE status
    /\ UNCHANGED playlist

\* Mutant: what has failed is deleted.
DropFailedRow(t) ==
    /\ status' = [status EXCEPT ![t] = "absent"]
    /\ UNCHANGED playlist

\* UPDATE ... SET status = 'failed': unconditional, except that the row may
\* be gone.
FailRow(t) ==
    /\ status' = IF RowExists(t) THEN [status EXCEPT ![t] = "failed"]
                                 ELSE status
    /\ UNCHANGED playlist

\* UPDATE ... SET status = 'ready' ... WHERE status = 'processing'.
ReadyRow(t) ==
    IF status[t] = "processing"
    THEN /\ status' = [status EXCEPT ![t] = "ready"]
         /\ playlist' = playlist \cup {t}
    ELSE UNCHANGED <<status, playlist>>

-----------------------------------------------------------------------------
(* The records of a job in the topic.                                      *)

CopiesIn(t, p) == {i \in DOMAIN topic[p] : topic[p][i] = t}

JobPublished(t) == \E p \in Partitions : CopiesIn(t, p) # {}

\* kafka-go picks the partition once (LeastBytes, not the key) and retries the
\* batch there, so every copy of a job is in one partition.
AppendJob(t, p) ==
    /\ \A q \in Partitions \ {p} : CopiesIn(t, q) = {}
    /\ Cardinality(CopiesIn(t, p)) < MaxCopies
    /\ topic' = [topic EXCEPT ![p] = Append(@, t)]
=============================================================================
