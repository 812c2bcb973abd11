------------------------------ MODULE CoreApi ------------------------------
(***************************************************************************)
(* core-api as its clients meet it: the handlers of UploadSaga and         *)
(* Catalogue inside the process of ApiServer, a user who sends a file and  *)
(* sends it again when no 201 came, a listener.  The workers are what      *)
(* TrackLifecycle promises of them: they claim, finish and fail rows.      *)
(*                                                                         *)
(* The members of Tracks are here the attempts at one file by one user.    *)
(***************************************************************************)
EXTENDS UploadSaga, Catalogue, ApiServer

VARIABLE answer  \* what the user knows of each attempt

vars == <<storeVars, upload, answer, catalogueVars, serverVars>>

TypeOK ==
    /\ StoreTypeOK /\ UploadTypeOK /\ CatalogueTypeOK /\ ServerTypeOK
    /\ answer \in [Tracks -> {"none", "waiting", "created", "error", "lost"}]
    /\ \A t \in Tracks : answer[t] = "none" <=> upload[t] = "idle"
    /\ process \in {"serving", "deaf", "draining"} => clients = AllClients

Init ==
    /\ StoreInit /\ UploadInit /\ CatalogueInit /\ ServerInit
    /\ answer = [t \in Tracks |-> "none"]

Running == {t \in Tracks : upload[t] \in InFlight}
Waiting == {t \in Tracks : answer[t] = "waiting"}

\* The handler runs, or has returned and its answer is on the way.
Busy == Running \cup Waiting

-----------------------------------------------------------------------------
(* The user.  The form is sent again only when the last attempt came to    *)
(* something else than a 201.                                              *)

Send(t) ==
    /\ process = "serving"
    /\ ReceiveUpload(t)
    /\ \A u \in Tracks : answer[u] \in {"none", "error", "lost"}
    /\ answer' = [answer EXCEPT ![t] = "waiting"]

\* The answer is cut by WriteTimeout, by the proxy or by the browser.  The
\* handler's calls have a background context: it goes on.
HangUp(t) ==
    /\ t \in Waiting
    /\ answer' = [answer EXCEPT ![t] = "lost"]
    /\ UNCHANGED <<upload, storeVars>>

Respond(t) ==
    /\ t \in Waiting \ Running
    /\ answer' = [answer EXCEPT ![t] =
                    IF upload[t] = "created" THEN "created" ELSE "error"]
    /\ UNCHANGED <<upload, storeVars>>

\* The process ends: handlers stop where they are, connections are cut.
EndRequests ==
    /\ StopHandlers
    /\ answer' = [t \in Tracks |-> IF t \in Waiting THEN "lost" ELSE answer[t]]
    /\ UNCHANGED storeVars

-----------------------------------------------------------------------------
\* A worker moves a published track on as TrackLifecycle allows.
Transcode(t) ==
    /\ JobPublished(t)
    /\ \/ ClaimRow(t)
       \/ status[t] = "processing" /\ (ReadyRow(t) \/ FailRow(t))
    /\ UNCHANGED <<raw, hls, topic>>

Uploads ==
    /\ \E t \in Tracks :
         \/ Send(t) \/ HangUp(t) \/ Respond(t)
         \/ HandlerStep(t) /\ UNCHANGED answer
         \/ Transcode(t) /\ UNCHANGED <<upload, answer>>
    /\ UNCHANGED <<catalogueVars, serverVars>>

Reads ==
    /\ \/ process = "serving" /\ \E q \in Queries : List(q)
       \/ process = "serving" /\ \E t \in Tracks : Download(t)
       \/ Expire
    /\ UNCHANGED <<upload, answer, serverVars>>

KeepRequests == UNCHANGED <<storeVars, upload, answer, catalogueVars>>

Build == (NewPool \/ NewTranscodePublisher \/ NewHTTPServer) /\ KeepRequests
Serve == Listen /\ KeepRequests
Stop == (ListenFails \/ ServeEnds \/ Terminate) /\ KeepRequests
Close == (Drained(Busy) \/ CloseWriter \/ ClosePool) /\ KeepRequests
Die == (GraceEnds(Busy) \/ Kill) /\ EndRequests /\ UNCHANGED catalogueVars

Next == Uploads \/ Reads \/ Build \/ Serve \/ Stop \/ Close \/ Die

Spec == Init /\ [][Next]_vars

\* A stopped container is started again, and not each start is cut short: the
\* process is not killed in the same step of its start for ever, and the port
\* is free at some time.  Hooks run and docker's patience ends.  Handlers may
\* hang: no timeout of the code bounds a call to S3 or PostgreSQL.
Fairness ==
    /\ WF_vars(NewPool /\ KeepRequests)
    /\ SF_vars(NewTranscodePublisher /\ KeepRequests)
    /\ SF_vars(NewHTTPServer /\ KeepRequests)
    /\ SF_vars(Serve)
    /\ WF_vars(Close)
    /\ WF_vars(GraceEnds(Busy) /\ EndRequests /\ UNCHANGED catalogueVars)

FairSpec == Spec /\ Fairness

-----------------------------------------------------------------------------
\* No handler meets a closed pool or writer: Shutdown waits for the requests
\* before the other hooks run (server.go:78, fx.go:32, transcode_jobs.go:62),
\* and whatever cuts the wait short ends the handlers too.
HandlersHaveTheirClients == Running # {} => clients = AllClients

\* A user who waits for each answer has the file twice in the table only when
\* the answer to one of the two was lost: an error that arrives means that the
\* rollback left no row (server.go:55 cuts answers, upload.go:129 rolls back).
DuplicateNeedsLostAnswer ==
    \A t, u \in Tracks :
        t # u /\ RowExists(t) /\ RowExists(u) => "lost" \in {answer[t], answer[u]}

\* download.go:69 signs a link without looking for the object.  All the same a
\* link leads nowhere only when its upload was rolled back.
DeadLinkNeedsRollback ==
    link # NoTrack /\ ~LinkWorks => upload[link] = "failed"

\* The page the player shows asks for no status.  However old it is, and
\* whatever workers do with repeated jobs, /play still serves each of its
\* tracks (playback-api/main.py:160), or the rollback of its upload, which may
\* have been cut short after that, has deleted the row.
ListedStaysPlayable ==
    query = "" =>
        \A t \in page :
            \/ status[t] = "ready" /\ t \in playlist
            \/ ~RowExists(t) /\ upload[t] \in {"undo_raw", "failed", "crashed"}

\* After any stop, death or failed start, and with handlers that hang, the
\* service accepts requests again, unless its Serve has returned for good:
\* the process stays up then and nothing restarts it (server.go:70).
ServesAgain == <>[](process = "deaf") \/ []<>(process = "serving")
=============================================================================
