--------------------------- MODULE CoreApiProofs ---------------------------
(***************************************************************************)
(* The safety properties of CoreApi, for any number of attempts and every  *)
(* fault of its handlers and of its process, except where an assumption    *)
(* says otherwise.                                                         *)
(***************************************************************************)
EXTENDS CoreApi, TLAPS

-----------------------------------------------------------------------------
(* The handlers.                                                           *)

\* What any step of a handler does to the upload it serves.
LEMMA HandlerMoves ==
    ASSUME NEW t \in Tracks, UploadTypeOK, HandlerStep(t)
    PROVE  /\ upload[t] \in InFlight
           /\ \E next \in InFlight \cup {"created", "failed"} :
                 upload' = [upload EXCEPT ![t] = next]
<1> USE DEF InFlight, Goto
<1>1. ASSUME NEW p \in Partitions, ProduceJob(t, p)
      PROVE  upload[t] = "publishing" /\ upload' = [upload EXCEPT ![t] = "publishing"]
  BY <1>1 DEF ProduceJob, UploadTypeOK
<1>2. CASE StoreOriginal(t)
  BY <1>2 DEF StoreOriginal
<1>3. CASE CreateTrack(t)
  BY <1>3 DEF CreateTrack
<1>4. CASE PublishSucceeds(t) \/ PublishFails(t)
  BY <1>4 DEF PublishSucceeds, PublishFails
<1>5. CASE UndoRow(t) \/ UndoRaw(t)
  BY <1>5 DEF UndoRow, UndoRaw
<1>6. CASE \E p \in Partitions : ProduceJob(t, p)
  BY <1>1, <1>6
<1> QED BY <1>2, <1>3, <1>4, <1>5, <1>6 DEF HandlerStep

\* The table and the bucket keep their types.
LEMMA HandlerKeepsStore ==
    ASSUME NEW t \in Tracks, StoreTypeOK, HandlerStep(t)
    PROVE  StoreTypeOK'
<1> USE DEF StoreTypeOK, Statuses
<1>1. ASSUME NEW p \in Partitions, ProduceJob(t, p) PROVE StoreTypeOK'
  BY <1>1 DEF ProduceJob, AppendJob
<1>2. CASE StoreOriginal(t)
  BY <1>2 DEF StoreOriginal
<1>3. CASE CreateTrack(t)
  BY <1>3 DEF CreateTrack, InsertRow
<1>4. CASE PublishSucceeds(t) \/ PublishFails(t)
  BY <1>4 DEF PublishSucceeds, PublishFails, storeVars
<1>5. CASE UndoRow(t)
  BY <1>5 DEF UndoRow, DeleteRow
<1>6. CASE UndoRaw(t)
  BY <1>6 DEF UndoRaw
<1> QED BY <1>1, <1>2, <1>3, <1>4, <1>5, <1>6 DEF HandlerStep

LEMMA TranscodeKeepsStore ==
    ASSUME NEW t \in Tracks, StoreTypeOK, Transcode(t)
    PROVE  /\ StoreTypeOK'
           /\ status[t] \notin {"absent", "ready"} /\ status'[t] # "absent"
           /\ \A u \in Tracks \ {t} : status'[u] = status[u]
           /\ playlist \subseteq playlist'
           /\ status'[t] = "ready" => t \in playlist'
           /\ raw' = raw
BY DEF Transcode, StoreTypeOK, Statuses, ClaimRow, Claimable, ReadyRow, FailRow, RowExists

-----------------------------------------------------------------------------
(* The process and its requests.                                           *)

Up == {"serving", "deaf", "draining"}

\* The clients are open in a process that is up, and only there is a request.
ProcessInv ==
    /\ process \in Up \cup {"starting"} => clients = AllClients
    /\ process \notin Up => Busy = {}

LEMMA TypesStep ==
    ASSUME TypeOK, ProcessInv, [Next]_vars
    PROVE  TypeOK'
<1> DEFINE AnswerOK == /\ answer \in [Tracks -> {"none", "waiting", "created", "error", "lost"}]
                       /\ \A t \in Tracks : answer[t] = "none" <=> upload[t] = "idle"
           ProcessOK == process \in Up => clients = AllClients
<1>0. StoreTypeOK /\ UploadTypeOK /\ CatalogueTypeOK /\ ServerTypeOK /\ AnswerOK /\ ProcessOK
  BY DEF TypeOK, Up
<1>1. SUFFICES /\ StoreTypeOK' /\ UploadTypeOK' /\ CatalogueTypeOK' /\ ServerTypeOK'
               /\ AnswerOK' /\ ProcessOK'
  BY DEF TypeOK, Up
<1>a. ASSUME UNCHANGED storeVars PROVE StoreTypeOK'
  BY <1>0, <1>a DEF StoreTypeOK, storeVars
<1>b. ASSUME UNCHANGED <<upload, answer>> PROVE UploadTypeOK' /\ AnswerOK'
  BY <1>0, <1>b DEF UploadTypeOK
<1>c. ASSUME UNCHANGED catalogueVars PROVE CatalogueTypeOK'
  BY <1>0, <1>c DEF CatalogueTypeOK, catalogueVars
<1>d. ASSUME UNCHANGED serverVars PROVE ServerTypeOK' /\ ProcessOK'
  BY <1>0, <1>d DEF ServerTypeOK, serverVars
<1>2. CASE Uploads
  <2>0. CatalogueTypeOK' /\ ServerTypeOK' /\ ProcessOK'
    BY <1>2, <1>c, <1>d DEF Uploads
  <2>1. ASSUME NEW t \in Tracks, Send(t)
        PROVE  StoreTypeOK' /\ UploadTypeOK' /\ AnswerOK'
    BY <2>1, <1>0, <1>a DEF Send, ReceiveUpload, Goto, UploadTypeOK, UploadStates, InFlight, Answered
  <2>2. ASSUME NEW t \in Tracks, HangUp(t) \/ Respond(t)
        PROVE  StoreTypeOK' /\ UploadTypeOK' /\ AnswerOK'
    BY <2>2, <1>0, <1>a DEF HangUp, Respond, Waiting, UploadTypeOK
  <2>3. ASSUME NEW t \in Tracks, HandlerStep(t), UNCHANGED answer
        PROVE  StoreTypeOK' /\ UploadTypeOK' /\ AnswerOK'
    <3>1. UploadTypeOK' /\ AnswerOK'
      BY <2>3, <1>0, HandlerMoves DEF UploadTypeOK, UploadStates, InFlight, Answered
    <3> QED BY <2>3, <3>1, <1>0, HandlerKeepsStore
  <2>4. ASSUME NEW t \in Tracks, Transcode(t), UNCHANGED <<upload, answer>>
        PROVE  StoreTypeOK' /\ UploadTypeOK' /\ AnswerOK'
    BY <2>4, <1>0, <1>b, TranscodeKeepsStore
  <2> QED BY <1>2, <2>0, <2>1, <2>2, <2>3, <2>4 DEF Uploads
<1>3. CASE Reads
  <2>1. CatalogueTypeOK'
    BY <1>3, <1>0 DEF Reads, List, Download, Expire, CatalogueTypeOK, ListTracksByStatus
  <2>2. StoreTypeOK'
    BY <1>3, <1>a DEF Reads, List, Download, Expire
  <2> QED BY <1>3, <2>1, <2>2, <1>b, <1>d DEF Reads
<1>4. CASE Build \/ Serve \/ Stop \/ Close
  <2>1. KeepRequests
    BY <1>4 DEF Build, Serve, Stop, Close
  <2>2. ServerTypeOK' /\ ProcessOK'
    BY <1>4, <1>0 DEF ProcessInv, Up, Build, Serve, Stop, Close, ServerTypeOK, AllClients,
       NewPool, NewTranscodePublisher, NewHTTPServer, Listen, ListenFails, ServeEnds,
       Terminate, Drained, CloseWriter, ClosePool
  <2> QED BY <2>1, <2>2, <1>a, <1>b, <1>c DEF KeepRequests
<1>5. CASE Die
  <2>1. UploadTypeOK' /\ AnswerOK'
    BY <1>5, <1>0 DEF Die, EndRequests, StopHandlers, Waiting, UploadTypeOK, UploadStates, InFlight, Answered
  <2>2. ServerTypeOK' /\ ProcessOK'
    BY <1>5 DEF Die, GraceEnds, Kill, Halt, ServerTypeOK, Up
  <2> QED BY <1>5, <2>1, <2>2, <1>a, <1>c DEF Die, EndRequests
<1>6. CASE UNCHANGED vars
  BY <1>6, <1>a, <1>b, <1>c, <1>d DEF vars
<1> QED BY <1>2, <1>3, <1>4, <1>5, <1>6 DEF Next

LEMMA ProcessStep ==
    ASSUME TypeOK, ProcessInv, [Next]_vars
    PROVE  ProcessInv'
<1> USE DEF ProcessInv
<1>0. UploadTypeOK
  BY DEF TypeOK
<1>1. CASE Uploads
  <2>1. ASSUME NEW t \in Tracks, Send(t) PROVE process \in Up
    BY <2>1 DEF Send, Up
  <2>2. ASSUME NEW t \in Tracks, HangUp(t) \/ Respond(t) PROVE Busy # {}
    BY <2>2 DEF HangUp, Respond, Busy, Waiting
  <2>3. ASSUME NEW t \in Tracks, HandlerStep(t) PROVE Busy # {}
    BY <2>3, <1>0, HandlerMoves DEF Busy, Running
  <2>4. ASSUME UNCHANGED <<upload, answer>> PROVE Busy' = Busy
    BY <2>4 DEF Busy, Running, Waiting
  <2> QED BY <1>1, <2>1, <2>2, <2>3, <2>4 DEF Uploads, serverVars
<1>2. CASE Reads \/ UNCHANGED vars
  <2>1. UNCHANGED <<upload, answer, process, clients>>
    BY <1>2 DEF Reads, vars, serverVars
  <2> QED BY <2>1 DEF Busy, Running, Waiting
<1>3. CASE Build \/ Serve \/ Stop \/ Close
  <2>1. Busy' = Busy
    BY <1>3 DEF Build, Serve, Stop, Close, KeepRequests, Busy, Running, Waiting
  <2> QED BY <1>3, <2>1 DEF Up, Build, Serve, Stop, Close, AllClients,
       NewPool, NewTranscodePublisher, NewHTTPServer, Listen, ListenFails, ServeEnds,
       Terminate, Drained, CloseWriter, ClosePool
<1>4. CASE Die
  <2>1. Running' = {} /\ Waiting' = {}
    BY <1>4, <1>0 DEF Die, EndRequests, StopHandlers, Running, Waiting, InFlight
  <2> QED BY <1>4, <2>1 DEF Die, GraceEnds, Kill, Halt, Up, Busy
<1> QED BY <1>1, <1>2, <1>3, <1>4 DEF Next

Core == TypeOK /\ ProcessInv

THEOREM CoreInvariant == Spec => []Core
<1>1. Init => Core
  <2> SUFFICES ASSUME Init PROVE Core
    OBVIOUS
  <2>1. TypeOK
    <3>1. StoreTypeOK
      BY DEF Init, StoreInit, StoreTypeOK, Statuses
    <3>2. UploadTypeOK /\ CatalogueTypeOK /\ ServerTypeOK
      BY DEF Init, UploadInit, CatalogueInit, ServerInit, UploadTypeOK, CatalogueTypeOK,
             ServerTypeOK, UploadStates, Queries
    <3> QED BY <3>1, <3>2 DEF Init, UploadInit, ServerInit, TypeOK
  <2>2. ProcessInv
    BY DEF Init, ServerInit, UploadInit, ProcessInv, Up, Busy, Running, Waiting, InFlight
  <2> QED BY <2>1, <2>2 DEF Core
<1>2. Core /\ [Next]_vars => Core'
  BY TypesStep, ProcessStep DEF Core
<1> QED BY <1>1, <1>2, PTL DEF Spec

\* Every variable keeps its type, and a process that is up has both clients.
THEOREM CoreTypeCorrect == Spec => []TypeOK
<1>1. Core => TypeOK
  BY DEF Core
<1> QED BY <1>1, CoreInvariant, PTL

\* However the process is stopped, killed or fails to start, no handler runs
\* with a client closed (server.go:78).
THEOREM HandlersServed == Spec => []HandlersHaveTheirClients
<1>1. Core => HandlersHaveTheirClients
  BY DEF Core, ProcessInv, HandlersHaveTheirClients, Busy, Up
<1> QED BY <1>1, CoreInvariant, PTL

-----------------------------------------------------------------------------
(* The file and its row.                                                   *)

\* A step of the system as one upload sees it: its handler's, a worker's, or
\* one that leaves the table and the bucket alone.
LEMMA StepsOfATrack ==
    ASSUME TypeOK, [Next]_vars
    PROVE  \/ \E t \in Tracks : HandlerStep(t) /\ UNCHANGED <<answer, catalogueVars>>
           \/ \E t \in Tracks : Transcode(t) /\ UNCHANGED <<upload, answer, catalogueVars>>
           \/ \E t \in Tracks : Send(t) /\ UNCHANGED catalogueVars
           \/ \E t \in Tracks : (HangUp(t) \/ Respond(t)) /\ UNCHANGED catalogueVars
           \/ Reads
           \/ EndRequests /\ UNCHANGED catalogueVars
           \/ UNCHANGED <<storeVars, upload, answer, catalogueVars>>
BY DEF Next, Uploads, Build, Serve, Stop, Close, Die, KeepRequests, vars

\* The original is in the bucket from PutOriginal to its deletion, and
\* whatever has a row or a link had it once.
OriginalInv ==
    /\ \A t \in Tracks :
          upload[t] \in {"creating", "publishing", "undo_row", "undo_raw", "created"} => t \in raw
    /\ \A t \in Tracks : RowExists(t) \/ link = t => t \in raw \/ upload[t] = "failed"

LEMMA OriginalStep ==
    ASSUME TypeOK, OriginalInv, [Next]_vars
    PROVE  OriginalInv'
<1> USE DEF OriginalInv, RowExists
<1>0. StoreTypeOK /\ UploadTypeOK /\ CatalogueTypeOK
  BY DEF TypeOK
<1>1. ASSUME NEW t \in Tracks, HandlerStep(t), UNCHANGED catalogueVars PROVE OriginalInv'
  <2> USE <1>0, <1>1 DEF UploadTypeOK, StoreTypeOK, Goto, catalogueVars
  <2>1. CASE StoreOriginal(t)
    BY <2>1 DEF StoreOriginal
  <2>2. CASE CreateTrack(t)
    BY <2>2 DEF CreateTrack, InsertRow
  <2>3. CASE (\E p \in Partitions : ProduceJob(t, p)) \/ PublishSucceeds(t) \/ PublishFails(t)
    BY <2>3 DEF ProduceJob, PublishSucceeds, PublishFails, storeVars
  <2>4. CASE UndoRow(t)
    BY <2>4 DEF UndoRow, DeleteRow
  <2>5. CASE UndoRaw(t)
    BY <2>5 DEF UndoRaw
  <2> QED BY <2>1, <2>2, <2>3, <2>4, <2>5 DEF HandlerStep
<1>2. ASSUME NEW t \in Tracks, Transcode(t), UNCHANGED <<upload, catalogueVars>> PROVE OriginalInv'
  BY <1>0, <1>2, TranscodeKeepsStore DEF catalogueVars
<1>3. ASSUME NEW t \in Tracks, Send(t), UNCHANGED catalogueVars PROVE OriginalInv'
  BY <1>0, <1>3 DEF Send, ReceiveUpload, Goto, storeVars, catalogueVars, UploadTypeOK
<1>4. CASE Reads
  <2>1. UNCHANGED <<storeVars, upload>> /\ \A t \in Tracks : link' = t => link = t \/ RowExists(t)
    BY <1>0, <1>4, NoTrackAssumption DEF Reads, List, Download, Expire, GetTrackByID, CatalogueTypeOK
  <2> QED BY <2>1 DEF storeVars
<1>5. CASE EndRequests /\ UNCHANGED catalogueVars
  BY <1>0, <1>5 DEF EndRequests, StopHandlers, storeVars, catalogueVars, UploadTypeOK, InFlight
<1>6. CASE UNCHANGED <<storeVars, upload, catalogueVars>>
  BY <1>6 DEF storeVars, catalogueVars
<1>7. ASSUME NEW t \in Tracks, HangUp(t) \/ Respond(t), UNCHANGED catalogueVars PROVE OriginalInv'
  BY <1>7, <1>6 DEF HangUp, Respond
<1> QED BY <1>1, <1>2, <1>3, <1>4, <1>5, <1>6, <1>7, StepsOfATrack

\* A link leads nowhere only when its upload was rolled back, whichever calls
\* fail and wherever the process dies (download.go:69).
THEOREM DeadLinks == Spec => []DeadLinkNeedsRollback
<1>1. Init => OriginalInv
  <2> SUFFICES ASSUME Init, NEW t \in Tracks
               PROVE  upload[t] = "idle" /\ ~RowExists(t) /\ link # t
    BY DEF OriginalInv
  <2>1. upload[t] = "idle" /\ ~RowExists(t)
    BY DEF Init, UploadInit, StoreInit, RowExists
  <2>2. link # t
    BY NoTrackAssumption DEF Init, CatalogueInit
  <2> QED BY <2>1, <2>2
<1>2. Core /\ OriginalInv /\ [Next]_vars => OriginalInv'
  BY OriginalStep DEF Core
<1>3. Core /\ OriginalInv => DeadLinkNeedsRollback
  BY DEF Core, TypeOK, CatalogueTypeOK, OriginalInv, DeadLinkNeedsRollback, LinkWorks
<1> QED BY <1>1, <1>2, <1>3, CoreInvariant, PTL DEF Spec

\* The row says 'ready' only with a playlist; no worker moves it on from there,
\* and no handler that may insert a row finds one.
ListedInv ==
    /\ \A t \in Tracks : status[t] = "ready" => t \in playlist
    /\ \A t \in Tracks : upload[t] \in {"idle", "storing", "creating"} => ~RowExists(t)
    /\ ListedStaysPlayable

LEMMA ListedStep ==
    ASSUME TypeOK, ListedInv, [Next]_vars
    PROVE  ListedInv'
<1> USE DEF ListedInv, ListedStaysPlayable, RowExists
<1>0. StoreTypeOK /\ UploadTypeOK /\ CatalogueTypeOK
  BY DEF TypeOK
<1>1. ASSUME NEW t \in Tracks, HandlerStep(t), UNCHANGED catalogueVars PROVE ListedInv'
  <2> USE <1>0, <1>1 DEF UploadTypeOK, StoreTypeOK, CatalogueTypeOK, Goto, catalogueVars
  <2>1. CASE StoreOriginal(t)
    BY <2>1 DEF StoreOriginal
  <2>2. CASE CreateTrack(t)
    BY <2>2 DEF CreateTrack, InsertRow
  <2>3. CASE (\E p \in Partitions : ProduceJob(t, p)) \/ PublishSucceeds(t) \/ PublishFails(t)
    BY <2>3 DEF ProduceJob, PublishSucceeds, PublishFails, storeVars
  <2>4. CASE UndoRow(t)
    BY <2>4 DEF UndoRow, DeleteRow
  <2>5. CASE UndoRaw(t)
    BY <2>5 DEF UndoRaw
  <2> QED BY <2>1, <2>2, <2>3, <2>4, <2>5 DEF HandlerStep
<1>2. ASSUME NEW t \in Tracks, Transcode(t), UNCHANGED <<upload, catalogueVars>> PROVE ListedInv'
  BY <1>0, <1>2, TranscodeKeepsStore DEF catalogueVars, CatalogueTypeOK
<1>3. ASSUME NEW t \in Tracks, Send(t), UNCHANGED catalogueVars PROVE ListedInv'
  BY <1>0, <1>3 DEF Send, ReceiveUpload, Goto, storeVars, catalogueVars, UploadTypeOK, CatalogueTypeOK
<1>4. CASE Reads
  <2>1. UNCHANGED <<storeVars, upload>>
    BY <1>4 DEF Reads, List, Download, Expire
  <2>2. ASSUME NEW q \in Queries, List(q), q = "" PROVE \A t \in page' : status[t] = "ready" /\ t \in Tracks
    BY <2>2 DEF List, ListTracksByStatus, ParseTrackStatus
  <2>3. UNCHANGED <<query, page>> \/ \E q \in Queries : List(q) /\ query' = q
    BY <1>4 DEF Reads, List, Download, Expire
  <2> QED BY <2>1, <2>2, <2>3 DEF storeVars
<1>5. CASE EndRequests /\ UNCHANGED catalogueVars
  BY <1>0, <1>5 DEF EndRequests, StopHandlers, storeVars, catalogueVars, UploadTypeOK, CatalogueTypeOK, InFlight
<1>6. CASE UNCHANGED <<storeVars, upload, catalogueVars>>
  BY <1>6 DEF storeVars, catalogueVars
<1>7. ASSUME NEW t \in Tracks, HangUp(t) \/ Respond(t), UNCHANGED catalogueVars PROVE ListedInv'
  BY <1>7, <1>6 DEF HangUp, Respond
<1> QED BY <1>1, <1>2, <1>3, <1>4, <1>5, <1>6, <1>7, StepsOfATrack

\* However old the page, each of its tracks is 'ready' and has its playlist
\* key, or the rollback of its upload has deleted the row (tracks.go:60).
THEOREM ListedPlayable == Spec => []ListedStaysPlayable
<1>1. Init => ListedInv
  BY DEF Init, StoreInit, CatalogueInit, ListedInv, ListedStaysPlayable, RowExists
<1>2. Core /\ ListedInv /\ [Next]_vars => ListedInv'
  BY ListedStep DEF Core
<1>3. ListedInv => ListedStaysPlayable
  BY DEF ListedInv
<1> QED BY <1>1, <1>2, <1>3, CoreInvariant, PTL DEF Spec

-----------------------------------------------------------------------------
(* The user and the attempts.                                              *)

\* The user has one attempt at a time that may still come to a 201.
OneAttempt ==
    \A t, u \in Tracks :
        answer[t] \in {"waiting", "created"} /\ answer[u] \in {"waiting", "created"} => t = u

\* Where neither the INSERT nor a compensation reports an error, an attempt
\* that came to an error that arrived has no row.
AnswerFits(t) ==
    /\ RowExists(t) => upload[t] \in {"publishing", "undo_row", "created", "crashed"}
    /\ upload[t] \in InFlight => answer[t] \in {"waiting", "lost"}
    /\ upload[t] = "crashed" => answer[t] = "lost"
    /\ answer[t] = "error" => upload[t] \in {"failed", "rejected"}

AttemptInv == OneAttempt /\ \A t \in Tracks : AnswerFits(t)

LEMMA AttemptStep ==
    ASSUME TypeOK, AttemptInv, [Next]_vars, "insert" \notin Faults, "undo" \notin Faults
    PROVE  AttemptInv'
<1> USE DEF AttemptInv, OneAttempt, AnswerFits, RowExists
<1>0. StoreTypeOK /\ UploadTypeOK /\ answer \in [Tracks -> {"none", "waiting", "created", "error", "lost"}]
      /\ \A t \in Tracks : answer[t] = "none" <=> upload[t] = "idle"
  BY DEF TypeOK
<1>1. ASSUME NEW t \in Tracks, HandlerStep(t), UNCHANGED answer PROVE AttemptInv'
  <2> USE <1>0, <1>1 DEF UploadTypeOK, StoreTypeOK, Goto, InFlight
  <2>1. AnswerFits(t)'
    <3>1. CASE StoreOriginal(t)
      BY <3>1 DEF StoreOriginal
    <3>2. CASE CreateTrack(t)
      BY <3>2 DEF CreateTrack, InsertRow
    <3>3. CASE (\E p \in Partitions : ProduceJob(t, p)) \/ PublishSucceeds(t) \/ PublishFails(t)
      BY <3>3 DEF ProduceJob, PublishSucceeds, PublishFails, storeVars
    <3>4. CASE UndoRow(t)
      BY <3>4 DEF UndoRow, DeleteRow
    <3>5. CASE UndoRaw(t)
      BY <3>5 DEF UndoRaw
    <3> QED BY <3>1, <3>2, <3>3, <3>4, <3>5 DEF HandlerStep
  <2>2. ASSUME NEW u \in Tracks \ {t} PROVE status'[u] = status[u]
    BY DEF HandlerStep, StoreOriginal, CreateTrack, InsertRow, ProduceJob, PublishSucceeds,
           PublishFails, UndoRow, DeleteRow, UndoRaw, storeVars
  <2>3. ASSUME NEW u \in Tracks \ {t} PROVE upload'[u] = upload[u]
    BY HandlerMoves
  <2> QED BY <2>1, <2>2, <2>3
<1>2. ASSUME NEW t \in Tracks, Transcode(t), UNCHANGED <<upload, answer>> PROVE AttemptInv'
  BY <1>0, <1>2, TranscodeKeepsStore
<1>3. ASSUME NEW t \in Tracks, Send(t) PROVE AttemptInv'
  BY <1>0, <1>3 DEF Send, ReceiveUpload, Goto, storeVars, UploadTypeOK, InFlight
<1>4. ASSUME NEW t \in Tracks, HangUp(t) PROVE AttemptInv'
  BY <1>0, <1>4 DEF HangUp, Waiting, storeVars
<1>5. ASSUME NEW t \in Tracks, Respond(t) PROVE AttemptInv'
  <2>1. upload[t] \in {"created", "failed", "rejected"}
    BY <1>0, <1>5 DEF Respond, Waiting, Running, UploadTypeOK, UploadStates, Answered
  <2> QED BY <1>0, <1>5, <2>1 DEF Respond, Waiting, Running, storeVars
<1>6. CASE EndRequests
  BY <1>0, <1>6 DEF EndRequests, StopHandlers, Waiting, storeVars, UploadTypeOK, InFlight
<1>7. CASE UNCHANGED <<storeVars, upload, answer>>
  BY <1>7 DEF storeVars
<1>8. CASE Reads
  BY <1>7, <1>8 DEF Reads, List, Download, Expire
<1> QED BY <1>1, <1>2, <1>3, <1>4, <1>5, <1>6, <1>7, <1>8, StepsOfATrack

\* Where neither the INSERT nor a compensation reports an error, a user who
\* waits for each answer has the file twice only after a lost answer
\* (server.go:55, upload.go:129).
THEOREM DuplicatesNeedLoss ==
    ASSUME "insert" \notin Faults, "undo" \notin Faults
    PROVE  Spec => []DuplicateNeedsLostAnswer
<1>1. Init => AttemptInv
  BY DEF Init, StoreInit, UploadInit, AttemptInv, OneAttempt, AnswerFits, RowExists, InFlight
<1>2. Core /\ AttemptInv /\ [Next]_vars => AttemptInv'
  BY AttemptStep DEF Core
<1>3. Core /\ AttemptInv => DuplicateNeedsLostAnswer
  BY DEF Core, TypeOK, AttemptInv, OneAttempt, AnswerFits, DuplicateNeedsLostAnswer, InFlight
<1> QED BY <1>1, <1>2, <1>3, CoreInvariant, PTL DEF Spec
-----------------------------------------------------------------------------
(* The answer 201 and what it promises.                                    *)

\* A user who was told 201 has a track: row, original and a job for a worker.
Kept(t) == upload[t] = "created" /\ RowExists(t) /\ t \in raw /\ JobPublished(t)
AnsweredIsKept == \A t \in Tracks : answer[t] = "created" => Kept(t)

\* Why: the handler has each part before it goes on to the next, and nothing
\* deletes a part of an upload that came to its end.
KeepInv ==
    \A t \in Tracks :
        /\ upload[t] \in {"creating", "publishing", "created"} => t \in raw
        /\ upload[t] \in {"publishing", "created"} => RowExists(t)
        /\ upload[t] = "created" => JobPublished(t)
        /\ answer[t] = "created" => upload[t] = "created"

\* Jobs are appended and never taken out of the topic.
LEMMA JobsStay ==
    ASSUME StoreTypeOK, NEW t \in Tracks, NEW p \in Partitions, AppendJob(t, p),
           NEW u \in Tracks, JobPublished(u)
    PROVE  JobPublished(u)'
<1>1. PICK q \in Partitions : CopiesIn(u, q) # {}
  BY DEF JobPublished
<1>2. PICK i \in DOMAIN topic[q] : topic[q][i] = u
  BY <1>1 DEF CopiesIn
<1>3. i \in DOMAIN topic'[q] /\ topic'[q][i] = u
  BY <1>2 DEF AppendJob, StoreTypeOK
<1> QED BY <1>3 DEF JobPublished, CopiesIn

LEMMA KeepStep ==
    ASSUME TypeOK, KeepInv, [Next]_vars
    PROVE  KeepInv'
<1> USE DEF KeepInv, RowExists
<1>0. StoreTypeOK /\ UploadTypeOK /\ answer \in [Tracks -> {"none", "waiting", "created", "error", "lost"}]
      /\ \A t \in Tracks : answer[t] = "none" <=> upload[t] = "idle"
  BY DEF TypeOK
<1>a. ASSUME UNCHANGED topic PROVE \A u \in Tracks : JobPublished(u)' = JobPublished(u)
  BY <1>a DEF JobPublished, CopiesIn
<1>1. ASSUME NEW t \in Tracks, HandlerStep(t), UNCHANGED answer PROVE KeepInv'
  <2> USE <1>0, <1>1 DEF UploadTypeOK, StoreTypeOK, Goto
  <2>1. CASE StoreOriginal(t)
    BY <2>1, <1>a DEF StoreOriginal
  <2>2. CASE CreateTrack(t)
    BY <2>2, <1>a DEF CreateTrack, InsertRow
  <2>3. ASSUME NEW p \in Partitions, ProduceJob(t, p) PROVE KeepInv'
    BY <2>3, JobsStay DEF ProduceJob
  <2>4. CASE PublishSucceeds(t) \/ PublishFails(t)
    BY <2>4, <1>a DEF PublishSucceeds, PublishFails, storeVars
  <2>5. CASE UndoRow(t)
    BY <2>5, <1>a DEF UndoRow, DeleteRow
  <2>6. CASE UndoRaw(t)
    BY <2>6, <1>a DEF UndoRaw
  <2> QED BY <2>1, <2>2, <2>3, <2>4, <2>5, <2>6 DEF HandlerStep
<1>2. ASSUME NEW t \in Tracks, Transcode(t), UNCHANGED <<upload, answer>> PROVE KeepInv'
  BY <1>0, <1>2, <1>a, TranscodeKeepsStore DEF Transcode
<1>3. ASSUME NEW t \in Tracks, Send(t) PROVE KeepInv'
  BY <1>0, <1>3, <1>a DEF Send, ReceiveUpload, Goto, storeVars, UploadTypeOK
<1>4. ASSUME NEW t \in Tracks, HangUp(t) \/ Respond(t) PROVE KeepInv'
  BY <1>0, <1>4, <1>a DEF HangUp, Respond, storeVars
<1>5. CASE EndRequests
  BY <1>0, <1>5, <1>a DEF EndRequests, StopHandlers, storeVars, UploadTypeOK, InFlight
<1>6. CASE UNCHANGED <<storeVars, upload, answer>>
  BY <1>6, <1>a DEF storeVars
<1>7. CASE Reads
  BY <1>6, <1>7 DEF Reads, List, Download, Expire
<1> QED BY <1>1, <1>2, <1>3, <1>4, <1>5, <1>6, <1>7, StepsOfATrack

\* A user who was told 201 keeps the row, the original and the job, whatever
\* fails in other uploads and wherever the process dies (upload.go:146).
THEOREM CreatedIsKept == Spec => []AnsweredIsKept
<1>1. Init => KeepInv
  BY DEF Init, UploadInit, KeepInv
<1>2. Core /\ KeepInv /\ [Next]_vars => KeepInv'
  BY KeepStep DEF Core
<1>3. KeepInv => AnsweredIsKept
  BY DEF KeepInv, AnsweredIsKept, Kept
<1> QED BY <1>1, <1>2, <1>3, CoreInvariant, PTL DEF Spec
=============================================================================
