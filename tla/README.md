# Verification of the audio streaming service

TLA+ models of the service in this repository, the TLC configurations that check
them on small instances, and TLAPS proofs of the results that matter most.

    tlc -config faults.cfg MCTrackPipeline.tla
    tlapm TrackPipelineProofs.tla

## The system

A listener uploads an audio file, workers turn it into an HLS stream, listeners
play it, and statistics are kept of who plays what.

| Part | State it keeps | Operations | Talks to |
|---|---|---|---|
| core-api (Go) | its process and its two clients; rows of `tracks`, objects under `raw/` | `POST /upload`, `GET /tracks`, `GET /download/{id}` | PostgreSQL, S3, topic `transcode-jobs` |
| audio-converter (Python, any number of workers) | position in the topic; claims in `tracks.status`; objects under `hls/` | take a job, claim, download, convert, upload, report, commit | topic `transcode-jobs`, PostgreSQL, S3, ffmpeg |
| playback-api (Python) | Redis sorted set `active_sessions` | `/play`, `/ping`, `/stop`, poller of expired sessions | PostgreSQL, Redis, topic `playback-events` |
| statistics-api (Python) | Redis `online:*`, `top24:*`, `plays:counter`, `plays:delta`; column `total_plays` | event consumer, flush of play counts, `/stats` | topic `playback-events`, Redis, PostgreSQL |
| frontend (React) | session, current track, ping timer | play, pause, switch, poll | the four APIs |
| deployment | restart policies, two partitions per topic | restart | all |

PostgreSQL, S3, Kafka and Redis are external: they are modelled from the
statements and calls the source makes.

What is hard here: a remote call that reports an error may have taken effect; a
job may be delivered several times or to a second worker while the first still
runs; a process may stop between any two calls; several workers, handlers and a
rollback touch one row; offsets are committed for a whole position, not for a
message; two Python services interleave their handlers and tasks at every
`await`, between the publish of an event and the write that belongs to it; the
player's handlers interleave at theirs, around one ping timer; an answer may be
cut while its handler goes on, and the process stopped under it.
`PROJECT.json` lists each such hazard at its line.

What makes each part correct, as far as the code goes (each property says under
which faults it holds, and Findings where it does not):

* upload and transcoding: one worker per track, a ready track is complete, an
  acknowledged upload survives and reaches an end, a failed one leaves at most parts
  that nothing meets, an offset is committed only after its job's track is settled;
* sessions: a listener who has gone is reported while the session has an entry, the
  entry goes for good, and not before the report;
* statistics: a play is counted at most once, and at named places lost; whoever is
  online has played and is in the last 24 hours;
* core-api as a service: no handler outlives its clients, a retry doubles a file only
  after a lost answer, an old page or link fails only after a rollback, service resumes;
* object keys: an id leads to a key of its own track's folder or to an error, a key
  that meets an object leads to that object in every link;
* player: one ping loop at a time, with its handle; a paused player is silent; for a
  listener who waits for each call, what is pinged is what plays, and what is pinged
  no more has been stopped.

## Modules

| Module | What it models |
|---|---|
| `TrackStore` | the table `tracks`, the bucket and the topic `transcode-jobs`, one operator per SQL statement; the kinds of fault |
| `UploadSaga` | `UploadHandler.ServeHTTP` (core-api/server/handlers/upload.go), one action per remote call, with its compensations |
| `Transcoder` | audio-converter: `main.py` with the functions it calls, one action per call; the consumer group |
| `TrackPipeline` | both over the shared store; the properties; fairness |
| `TrackLifecycle` | the abstract specification of a track's life: what the two promise together |
| `MCTrackPipeline` | symmetry and fault sets for TLC |
| `ApiServer` | the life of the core-api process: main.go and the fx hooks of server.go, fx.go, transcode_jobs.go |
| `Catalogue` | `GET /tracks`, `GET /download/{id}` and the listener's old page and link |
| `CoreApi` | `UploadSaga`, `Catalogue` and `ApiServer` together, with a user who retries; properties and fairness |
| `TrackStorage` | usecases/track_storage.go over storage/s3.go: ids, keys, links and listings |
| `MCTrackStorage` | ids, keys and words for TLC |
| `Player` | the player of frontend/src/pages/Home.jsx: `playTrack`, ping loop, `<audio>` |
| `PlaybackSessions` | `/ping`, `/stop` and `poll_expired_sessions` of playback-api/main.py over the sorted set `active_sessions`; its properties and fairness |
| `Statistics` | statistics-api/main.py: consumer, flush, `/stats`; its properties |
| `MCStatistics` | events, fault sets and symmetry for TLC |
| `TrackPipelineProofs` | the inductive invariant and the theorems it gives |
| `TrackRefinementProofs` | `TrackPipeline` implements `TrackLifecycle` |
| `TrackDeliveryProofs` | theorems of `TrackPipeline` on offsets, acknowledged jobs and rollbacks |
| `PlaybackSessionsProofs` | theorems of `PlaybackSessions` |
| `StatisticsProofs` | theorems of `Statistics` |
| `CoreApiProofs` | theorems of `CoreApi` |
| `TrackStorageProofs` | theorems of `TrackStorage`, with induction over paths |
| `PlayerProofs` | theorems of `Player` |

`TrackStore` and `UploadSaga` are shared: `TrackPipeline` composes them with the
real workers and a plain stop of core-api (`apicrash`), `CoreApi` with the real
process and with workers that do no more than `TrackLifecycle` allows, which
`Refinement` justifies.

### State and actions: the track pipeline

A member of `Tracks` is one `POST /upload`. `status[t]` is the row's status, or
`"absent"` without a row; `playlist` the rows with an `hls_playlist_key`; `raw`
and `hls[t]` the objects in the bucket; `topic[p]` the records of a partition.

`upload[t]` is the call the handler of `t` makes next:

    idle -> storing -> creating -> publishing -> created
              |           |            |
            failed     undo_raw     undo_row -> undo_raw -> failed

Each step has its error path as an alternative of the same action. An error never
says whether the request took effect, so both outcomes follow. `PublishFails` may
come after any number of attempts have reached the broker (`ProduceJob`).

`wpc[w]` is the call worker `w` makes next:

    poll -> check -> claim -> download -> convert -> upload -> finish -> ack -> poll
              \       |           \__________\_________\____> fail ___/
               skip <-+

`check` reads the status, `claim` is the conditional UPDATE, `finish` and `fail`
report, `ack` commits inside the `try`, `skip` outside it: a commit that raises
in `ack` is caught and the loop goes on, in `skip` it ends the process; either way
the broker may have taken it.
`CriticalFailure` is the `except` at main.py:131. `members`, `view`, `pos` and
`committed` are the consumer group as kafka-python shows it: a worker joins only
while polling; a worker that was dropped goes on with its job and with what it
had fetched, and cannot commit; `commit()` commits every consumed position of
every assigned partition.

Faults are a constant, the set of kinds that may happen, so that a property can
say under which faults it holds:

| Kind | Effect |
|---|---|
| `invalid` | an upload fails validation before any write |
| `store`, `insert`, `publish`, `undo` | the call of that step reports an error |
| `apicrash`, `crash` | core-api, a worker, stops |
| `db`, `s3`, `ffmpeg` | a statement, a storage call, the conversion fails in a worker |
| `exception` | anything else raises in a worker: in the `try` or in a commit |
| `evict` | a job outlasts `max.poll.interval` |

### State and actions: core-api

    process: down -> building -> starting -> serving -> draining -> closing -> down
                                    |           \-> deaf -/          ^
                                    \------------(Listen fails)------/

`clients` are the pool and the Kafka writer. `NewPool`, `NewTranscodePublisher`
and `NewHTTPServer` follow the parameters of the handlers' constructors, hooks
run in the opposite order. `Listen` is OnStart, `ServeEnds` the goroutine that
logs and returns, `Drained` the return of `Shutdown`; fx stops waiting after 15
seconds, which never happens in a container: docker kills after 10
(`GraceEnds`). `Kill` may come at any time.

A member of `Tracks` is here one attempt of a user to upload one file.
`answer[t]` is what the user knows: `waiting`, `created`, `error`, or `lost` when
the answer was cut (`HangUp`) or the process ended. The handler's contexts are
`context.Background()`, so it goes on. The user sends again only after `error` or
`lost`: the form blocks nothing, but a second click before the answer is a
second file by intent. `page`, `query` and `link` are what a listener still sees of
an earlier answer; `List` and `Download` are one SELECT each.

### State and actions: object keys

A path is the sequence of its elements between slashes, so that cleaning,
joining, trimming and prefixes are what they do to elements; a file name is its
extension. `bucket` holds the objects under `raw/`, changed by `PutOriginal` and
`Delete`; the other methods are operators, which the invariants apply to every
id and key in every state. `ListRaw`, `Get`, `PresignUpload` and
`PresignOriginalDownload` have no caller in the handlers and are stated as the
package offers them.

### State and actions: the player

`call[t]` is where `playTrack(t)` waits: `stopping` for the stop it sends,
`fetching` for `GET /play`. `handle` is the ref `pingInterval`, `intervals` the
timers that run: code that clears a timer and keeps the ref, or the other way
round, shows as a difference of the two. `told[t]` is the last of ping and stop
sent for a track. `source`, `paused` and `parsing` are the `<audio>` element and
its stream; loading a stream pauses it without an event. `mishaps` records what
`playTrack` does not expect: a click while a call runs (`hurry`), a failed call, a
browser that refuses to play. A property that needs their absence says so.

### State and actions: sessions

A member of `Sessions` is a pair of `user_session` and track, the member that
/ping adds to `active_sessions`. `left[s]` is its score minus the time: 0 means
expired, `NoEntry` not in the set. `ping[s]` and `stop[s]` are the requests on
their way, at the publish (`send`) or at the Redis write after it (`add`,
`remove`). `poll` is where the polling task stands: `range` (ZRANGE, and the
sleep before it), `each` (the loop over `batch`, in any order), `remove` (ZREM
of `current`), `dead` after the outer `except`. `playing` is what the events
published so far say, in the order of their publication.

`client[s]` lets a listener leave for good, with or without a last stop. A listener
who is here sends pings and stops at will; the order the player sends them in is
not used, because its requests do not wait for each other and may arrive in any
order. Faults: `send`, `write` (either may have taken effect), `range`, `crash`.

### State and actions: statistics

    consumer: start -> poll -> count -> delta -> poll              (started)
                         \-> online -> trim -> top24 -> trim24 -> poll  (playing)
                         \-> offline -> poll                       (stopped)
    flush:    sleep -> store -> list -> delete -> sleep

`consumer` names the call made next; an error in one ends the event, not the
consumer (main.py:111). `stopped` stands for `stopped_by_timeout` too, which the
code treats alike. `position` and `committed` are the consumer group: a commit
covers whatever has been taken, a fresh consumer starts from it, or from the end
of the topic when there is none. `online[t][s]` and `top24[t][s]` are the ages
of the scores: a ZADD sets 0, `Tick` adds one, ZREMRANGEBYSCORE removes what is
as old as the window. `data` is what the first HGETALL of a flush returned,
`hashes` the fields of the second. `/stats` is two trims for each of the tracks
it found (`asked`, `trimmed`). `Publish` is every `send_and_wait` of
playback-api: 'started' of `/play`, and pings, stops and timeouts in any order,
also records that do not validate.

Faults: `consumer`, `commit`, `count`, `presence`, `database` (the flush fails
before its COMMIT), `indoubt` (it does not see the answer), `clear`, `crash`.

## Runs

| Run | Instance | Shows |
|---|---|---|
| `faults` | 2 uploads, 2 workers, 1 partition, 1 file, all faults | `TypeOK`, `OneHolderPerTrack`, `ReadyIsPlayable`, `AcknowledgedUploadIsDurable`, `ReportFindsItsClaim`, `ReadyIsFinal`, `CommitsNeverRewind`, `ImplementsLifecycle` |
| `settled` | 2 uploads, 2 workers, 1 partition, 2 copies, 2 files; `invalid`, `publish`, `s3`, `ffmpeg`, `evict` | `CommittedIsSettled`, `RolledBackUploadLeavesNothing`, `ListedTrackHasOriginal`, `OrphansComeFromRollbacks`, `ReadyIsPlayable` |
| `settles` | 2 uploads, 2 workers, 2 partitions; no `crash`, `db`, `exception`, `evict`, `undo`; fairness | `LeftoversAreHarmless`, `AcknowledgedUploadSettles` |
| `sessions` | 2 sessions, `Ttl` 1, 1 restart, all faults; fairness | `TypeOK`, `LeaverIsForgotten`, `LeaverIsReported`, `UnreportedIsKept` |
| `plays` | 2 tracks, 1 listener, 1 partition, 2 records, all faults | `TypeOK`, `PlaysAreConserved` |
| `presence` | 2 tracks, 1 listener, 2 partitions, 3 records; `consumer`, `count`, `database` | `PlaysNotOvercounted`, `PlaysCountedOnce`, `OnlineIsWithinDay`, `OnlineHasPlayed` |
| `core_api` | 2 attempts, all faults of the process; `invalid`, `store`, `publish`; fairness | `TypeOK`, `HandlersHaveTheirClients`, `DuplicateNeedsLostAnswer`, `DeadLinkNeedsRollback`, `ListedStaysPlayable`, `ServesAgain` |
| `storage` | 259 ids, 28 keys, 2 track ids, 5 extensions, 2 contents | `TypeOK`, `AcceptedNamesHaveKeys`, `KeysAgree`, `ListRawIsOfItsTrack` |
| `player` | 3 tracks | `TypeOK`, `NoIntervalIsLost`, `PausedIsSilent`, `PingsMatchSound`, `LeftTrackIsStopped` |
| `claim_at_least_once` | 1 upload, 2 workers; `crash`, `db`, `exception` | violated: a job is acknowledged only once it was processed (main.py:43, 90, 127, 134) |
| `claim_poller` | only `range`; fairness | violated: expired sessions are processed (playback-api/main.py:75, 98) |
| `claim_player` | 2 tracks | violated: pings start for the track that starts (Home.jsx:169) |

The faults a property leaves out are those under which the code really breaks
it; those of `CommittedIsSettled` are a finding. The others follow from the code: with
`insert`, a row may outlive the deletion of its original; with `undo` or
`store`, an original may stay, and so it may after `apicrash`, when no one is
left to undo (`settles` has the stops of core-api). What such uploads leave then is
the subject of `LeftoversAreHarmless`: after a 500 an original without row and job, or
a pending row without a job; after a stop no row without its original. It fails only with `undo`: a row whose deletion failed loses its
original all the same. `PlaysAreConserved` holds
under all faults and names the two places where a flush loses plays, as the
comment at statistics-api/main.py:167 admits, or repeats them;
`PlaysNotOvercounted` holds without `indoubt`, `clear` and `crash`, each of
which lets a flush repeat what it has stored; `PlaysCountedOnce` without
`commit` and `crash`, after which records are consumed again;
`OnlineIsWithinDay` and `OnlineHasPlayed` without `presence` and `crash`, which
cut an event off between its calls, the second also without `commit`. `DuplicateNeedsLostAnswer` holds without
`insert` and `undo`, either of which leaves a row behind an error that arrives;
the other properties of `core_api` hold with them too, as the theorems show.

Bounds. Two workers are enough for every race of this code: each conflict is
between one holder and one other worker or the handler. Two uploads let one
job's commit cover another's, and two copies let a job meet both workers. With
one HLS file the partial upload is "none or all"; `settled`
has two, so that a folder can be half uploaded. `faults` has one copy of each job, so
that a second worker gets it by redelivery only; `settled` has two,
and the theorems hold for any number. `MaxCopies` is
the only bound in the guards: kafka-go stops after ten attempts. Crashes,
restarts, evictions and rebalances of the pipeline are not bounded.

In `core_api`, two attempts are a file and its retry; starts, stops and kills are
not bounded. Each upload has one record (`MaxCopies` 1): `Transcode` asks only whether
there is one. In `storage`, ids are all paths of up to three elements
from `""`, `.`, `..`, a blank, `a` and `ab`, of which one begins with the other;
`DefaultKeys` is 2 for the 100 of the code, and three objects of a track exceed
it. In `player`, a call of a track that already has one is left out (it does what
the first does), so the calls are at most as many as the tracks; a third track is
one to be left behind by two calls that overlap. Nothing else is bounded there.

In `PlaybackSessions` only the restarts are bounded (`MaxCrashes`); one restart
is enough for a task that dies and one that is cut off at any await. At most one
ping and one stop of a session are on their way: a second of a kind repeats what
the first did. In `Statistics`, `MaxEvents` bounds the records, `MaxTotal` the
plays stored (a flush may store the same plays again and again), `MaxRestarts`
the new starts of the consumer and the service. Three records are one to be
counted or shown, one to race with it and one in the other partition. `Window` 1
and `Day` 2 are the least that differ. One `/stats` at a time: two would make
the same trims. Time does not pass during the calls of one event or of one track
of `/stats`: they take milliseconds, the windows are 20 seconds and a day. The
flush's UPDATE always finds its row: a row with plays was ready, and only the
rollback of a publish whose error was false deletes such a row.

Symmetry is used in the safety runs of the pipeline, over uploads, workers and HLS
files, which no action and no property tells apart, and in `Statistics` over tracks, listeners and
partitions; the liveness runs have none.

Deadlock is checked in every run. In `TrackPipeline`, `Idle` lets the system
stutter only when every upload is answered and every record is consumed by a
group of all the workers.

### Fairness

`FairSpec` assumes that a running handler goes on, that a running worker goes on
and a stopped one is restarted (docker-compose: `restart: always`), and that the
group completes a rebalance whenever one is due. It does not assume that an
upload arrives, that a fault happens, or that one stops happening. Weak fairness
is enough: nobody disables a handler's or a worker's step but itself.

`CoreApi!FairSpec` assumes that a container that is down is started (docker-compose:
`restart: unless-stopped`; a `stop` is an operator's stop and start), that hooks
run, that docker's patience ends, and that neither a kill nor a busy port meets
the same step of every start (strong fairness). The pool's constructor fails only on a URL that does not parse (fx.go:26); the
process is then down as before, and fairness assumes that the URL is put right. It assumes nothing of handlers:
a call to S3 or PostgreSQL has no timeout in the code and may hang. It does not
assume that a `deaf` process is noticed; `ServesAgain` excepts it, as nothing in
the code does notice it.

`PlaybackSessions!FairSpec` assumes that time passes, that the polling task and
the requests that arrived go on, and that a publish or a removal the task makes
again and again succeeds at some time (strong fairness: a failed attempt and a
restart put it off, and the task comes back to the session after five seconds).
It does not assume that the task stays alive: `LeaverIsForgotten` and
`LeaverIsReported` have that as their premise, since `claim_poller` shows it may
not. Nothing is assumed of
listeners.

## Findings

* A track whose worker stops after the claim stays `processing` for ever, one
  abandoned in the critical handler does too, and one whose claim or report met
  a database error is acknowledged unfinished (`claim_at_least_once`).
* The polling task of playback-api ends at the first error of ZRANGE (`claim_poller`).
* After a change of tracks the new track is not pinged (`claim_player`).

The quoted lines are in `PROJECT.json`.

Two weaknesses are written into the properties and have no run of their own:

* A ping that overlaps a stop, or an expiry that overlaps a ping, leaves a session that
  plays in the topic and has no entry in the sorted set (`StopSends`, `PingSends`,
  `PingAdds`, `StopRemoves`, in this order, without any fault). If its listener leaves
  then, no event of the end follows, although README.md:78 of the repository says that
  closing the tab is reported; the counter of listeners drops it after 20 seconds all
  the same. `Abandoned` requires an entry and no removal under way for this reason.
* The second HGETALL of a flush also finds fields that came in after the first, and the
  HDEL deletes them unread, against the comment at statistics-api/main.py:158; the one
  at :167 admits the loss. `PlaysAreConserved` names it.

## Proofs

For any sets of uploads, workers, partitions and files, any `MaxCopies > 0` and
any subset of the faults (`MaxCopiesAssumption`, `FaultsAssumption`,
`NoJobAssumption`) in the pipeline, for any sessions and `Ttl` (`SessionConstants`), and for any tracks, listeners, partitions,
events, bounds and windows with `0 < Window < Day` (`StatisticsConstants`) in
the statistics; for any attempts and any faults of handlers and process
(`NoTrackAssumption`) in core-api, for ids, keys and base paths of any length over
any words (`StorageConstants`), and for any tracks in the player:

| Theorem | States |
|---|---|
| `TypeCorrect` | `Spec => []TypeOK` |
| `AcknowledgedDurable` | `Spec => []AcknowledgedUploadIsDurable` |
| `MutualExclusion` | `Spec => []OneHolderPerTrack` |
| `ReadyPlayable` | `Spec => []ReadyIsPlayable` |
| `ReportsMatchClaims` | `Spec => []ReportFindsItsClaim` |
| `Refinement` | `Spec => ImplementsLifecycle` |
| `ReadyStaysReady` | `Spec => ReadyIsFinal` |
| `OffsetsNeverRewind` | `Spec => CommitsNeverRewind` |
| `CommittedJobsAreSettled` | `Spec => []CommittedIsSettled`, without `crash`, `db`, `exception` |
| `RowsHaveOriginals` | `Spec => []ListedTrackHasOriginal`, without `insert`, `undo` |
| `RollbacksAreComplete` | `Spec => []RolledBackUploadLeavesNothing`, without `store`, `insert`, `undo` |
| `FailedLeavesNoHarm` | `Spec => []LeftoversAreHarmless`, without `undo` |
| `OrphansAreOfRollbacks` | `Spec => []OrphansComeFromRollbacks`, without `apicrash` |
| `SessionsTypeCorrect` | `Spec => []TypeOK` |
| `UnreportedStays` | `Spec => UnreportedIsKept` |
| `StatisticsTypeCorrect` | `Spec => []TypeOK` |
| `Conservation` | `Spec => PlaysAreConserved` |
| `NotOvercounted` | `Spec => []PlaysNotOvercounted`, without `indoubt`, `clear`, `crash` |
| `OnlineWithinDay` | `Spec => []OnlineIsWithinDay`, without `presence`, `crash` |
| `CountedOnce` | `Spec => []PlaysCountedOnce`, without `commit`, `crash` |
| `StoredPlaysWerePlayed` | `total_plays` is at most the 'started' records read, without `commit`, `indoubt`, `clear`, `crash` |
| `NoGhostListeners` | `Spec => []OnlineHasPlayed`, without `presence`, `commit`, `crash` |
| `CoreTypeCorrect` | `Spec => []TypeOK` |
| `HandlersServed` | `Spec => []HandlersHaveTheirClients` |
| `DeadLinks` | `Spec => []DeadLinkNeedsRollback` |
| `ListedPlayable` | `Spec => []ListedStaysPlayable` |
| `DuplicatesNeedLoss` | `Spec => []DuplicateNeedsLostAnswer`, without `insert`, `undo` |
| `CreatedIsKept` | `Spec => []AnsweredIsKept`: after a 201 the row, the original and the job are there; stated by no run |
| `StorageTypeCorrect` | `Spec => []TypeOK` |
| `AcceptedNamesAlwaysHaveKeys` | `Spec => []AcceptedNamesHaveKeys` |
| `KeysAlwaysAgree` | `Spec => []KeysAgree` |
| `ListRawIsAlwaysOfItsTrack` | `Spec => []ListRawIsOfItsTrack` |
| `PlayerTypeCorrect` | `Spec => []TypeOK` |
| `NoLostInterval` | `Spec => []NoIntervalIsLost` |
| `PausedSilent` | `Spec => []PausedIsSilent` |
| `PingsAreOfTheSound` | `Spec => []PingsMatchSound` |
| `LeftTracksStopped` | `Spec => []LeftTrackIsStopped` |

For the pipeline the argument has two layers over `TypeOK`. `SagaInv`: an upload
that may have a record has passed its INSERT, and no worker knows any other
upload's track; rows and originals exist exactly as far as the upload has come.
This is what makes the INSERT harmless: it cannot bring back a row some worker
is at work on. `ClaimInv`: what a worker holds is `processing` or deleted,
nobody else holds it, and the files it has still to upload are all that is
missing. Neither mutual exclusion nor `ReadyIsPlayable` is inductive alone: the
first needs to know that a held row is not claimable, the second that the holder
is the only one to report. The refinement maps a worker's work to the job it has
claimed and an acknowledgement to the answer 201; with the invariant each step
is one abstract step or none.

`GroupInv`: the views of the members of the consumer group exclude each other, and
none of them is behind the committed offset. A worker outside may believe what it
likes, since it cannot commit; this is why a late commit never rewinds the offset.
`JobInv` follows a job through the group: a row is `processing` only while a
worker has it, a worker that claimed or passed over a track has not left it
`pending`, and of what a member has read only the track it is at may be
`pending`. The last part is the one a commit needs, because `commit()` covers
every position and not the job at hand. A track that was published is never
`pending` again (`PendingIsNew`), so a partition that changes hands takes its
committed part with it. `UndoneInv`: an upload that comes to delete its original
has no row. `LastUndoInv`: with an INSERT that may report an error it may have one, but
a pending one without a job; and it still has the original. `OriginInv`: what lies under hls/ was written for a job with a record.

For the statistics, `DataInv` says that what a flush holds is still in
`plays:delta`, up to the plays that came in since: this is what makes the HDEL
the only step that can lose some, and no step that can store some twice but a
flush cut off. `OwedInv` adds that a play is in `plays:counter` before it is in
`plays:delta`, so that the debt of the consumer between its two calls is one
play of its track. `PresenceInv` says that in both sets a member's age is the
same once the consumer has passed from one to the other; `Window < Day` then
keeps the trims in order. `StartInv` says that a consumer which starts over finds the
offset where it stopped, or none while nobody is online: with it, `position` only
grows. `CountedInv` then counts the play that was taken and not yet counted as one
more, over finite sets (`Records` grows by one at a time), and `OnlineInv` says that
whom the consumer is about to put online has played. `StoredPlaysWerePlayed` joins
`DataInv`, `PlaysNotOvercounted` and `PlaysCountedOnce`: no run checks it.

For core-api, `ProcessInv` says where requests may be (only in a process that is
up) and that both clients are open there; it is what makes the order of the
hooks enough. `OriginalInv` follows the original from its storing to its
deletion. `ListedInv`: a ready row has its playlist key, no worker moves it on, and
no handler that may still insert a row finds one, so that a row which was listed and
deleted does not come back in another state. `AttemptInv` says which
uploads an answer is compatible with and that one attempt at a time may still
end in a 201, `KeepInv` that each part of a track is there before the handler goes
on to the next.

For the player, `Calm` is inductive under everything: an interval that runs has
its handle. `Quiet` is the state of a page where nothing overlapped or failed:
one call at a time, no interval while it runs, and after it the page, the
interval and the sound are of one track. That is why `PingsMatchSound` needs
more than itself: during a call, page and sound differ.

For sessions, `UnreportedIsKept` is a property of single steps, given the types: the
task and `/stop` come to a removal only by their publish, and a publish that fails, a
restart and the passing of time leave the entry. What it leaves out is a removal that
was under way before the session was abandoned (see Findings).

For object keys, everything rests on `Clean`, a recursive function. `CleanAppend`
says that cleaning a path and one element more is cleaning the path, and then the
element; `CleanType` that no blank element and no dots are left. Both are
inductions over the length of the path, by `NumbersInduction`: the induction
theorems of the library take a predicate, this lemma takes the set of the
numbers that have the property, and follows from the library's theorem on
minimal elements. With `TypeOK` (the key of an object is `raw`, a word and an
extension) the properties hold for paths of any length, not only for the three
elements of the run.

The faults a theorem leaves out are the least: with any one of them alone, TLC
finds a violation of the property on the instance of its run.

Only model-checked: `AcknowledgedUploadSettles`, `LeaverIsForgotten`,
`LeaverIsReported` and `ServesAgain`. Liveness under fairness is out of the prover's
reach, and so is `ENABLED`. Every invariant and every action
property of the passing runs is a theorem.

## Not modelled

* The content of requests, audio and messages; validation is one choice.
* A record that reaches the broker after `WriteMessages` has already returned its
  error.
* The rebalance protocol itself: join and sync are one step, and a stopped
  worker's session expires at once.
* The order of a track list, and the queries nobody calls (`ListTracks`, `ListReadyTracks`,
  `MarkTrackFailed`).
* The limits of a form: a body read too slowly for ReadTimeout is answered 413 like one
  too large, and a file name of more than 255 characters fails at the INSERT. Both
  are errors of a step that the model has.
* Characters inside a path element: `Words` are the allowed ones, `OtherWords` the rest.
* `GET /health` of the services; the row read of `/play`, which decides only whether an event
  is published.
* A timeout published for a session that has just been stopped, because the poller had
  read it before: `PlaybackSessions` reaches such states and no property forbids them.
* In the player: seeking, volume, the play button before any track was chosen, a second
  call for a track whose call still runs, the interval of a page that is left.
* The branch of the poller for an entry that is no JSON (playback-api/main.py:121), which
  `/ping` never writes; a removal that fails there would end the task as ZRANGE does.
* `HeadObject` of the storage, which has no caller.
* Rendering, CORS, routing, the parsing of the environment.

## Plan

1. `PlaybackSessions` and `Statistics` over the topic `playback-events`: a listener who
   left is not online for ever, although the end may never be published
   and a 'playing' may overtake its 'stopped' in the other partition.
2. An abstract counter of plays that the write-behind implements when no increment
   meets a flush.
3. Proofs: the safety steps of `LeaverIsForgotten` (an entry that is read and renewed is
   read again, a batch holds only what was once expired).
