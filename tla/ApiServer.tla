----------------------------- MODULE ApiServer -----------------------------
(***************************************************************************)
(* The life of the core-api process: fx builds the database pool and the   *)
(* Kafka writer before the HTTP server that needs them, starts the server, *)
(* and on the way down runs the stop hooks in the opposite order.  A       *)
(* request in the server is "busy" until its handler has returned.         *)
(***************************************************************************)
CONSTANT ServerFaults  \* what may happen to the process

ServerFaultKinds == {
    "listen",   \* the port cannot be bound
    "serve",    \* Accept reports an error for good
    "stop",     \* docker stops and starts the container: SIGTERM first
    "kill" }    \* the process dies at once

ASSUME ServerFaultsAssumption == ServerFaults \subseteq ServerFaultKinds

VARIABLES
    process,  \* where the process stands in its life
    clients   \* the clients that are open, of "pool" and "writer"

serverVars == <<process, clients>>

AllClients == {"pool", "writer"}

(***************************************************************************)
(* "down"     not running          "serving"   accepts requests            *)
(* "building" in a constructor     "deaf"      up, but Serve has returned  *)
(* "starting" before OnStart       "draining"  in Shutdown                 *)
(*                                 "closing"   the hooks after Shutdown    *)
(***************************************************************************)
ServerTypeOK ==
    /\ process \in {"down", "building", "starting", "serving",
                   "deaf", "draining", "closing"}
    /\ clients \subseteq AllClients

ServerInit == process = "down" /\ clients = {}

\* pgxpool.New connects nobody yet; its stop hook is the first appended.  It
\* fails only on a URL it cannot parse: the process ends with what it was, down.
NewPool ==
    /\ process = "down"
    /\ process' = "building"
    /\ clients' = {"pool"}

NewTranscodePublisher ==
    /\ process = "building" /\ "writer" \notin clients
    /\ clients' = clients \cup {"writer"}
    /\ UNCHANGED process

\* Mutant: the server does not ask for the writer.
ServerWithoutWriter ==
    /\ process = "building"
    /\ process' = "starting"
    /\ UNCHANGED clients

\* The routes, and so the server, are built last and stopped first.
NewHTTPServer ==
    /\ process = "building" /\ clients = AllClients
    /\ process' = "starting"
    /\ UNCHANGED clients

\* The OnStart hook: it returns as soon as the port is bound.
Listen ==
    /\ process = "starting"
    /\ process' = "serving"
    /\ UNCHANGED clients

\* The start is rolled back: the stop hooks of pool and writer run.
ListenFails ==
    /\ process = "starting" /\ "listen" \in ServerFaults
    /\ process' = "closing"
    /\ UNCHANGED clients

\* The goroutine logs the error and ends; the process stays.
ServeEnds ==
    /\ process = "serving" /\ "serve" \in ServerFaults
    /\ process' = "deaf"
    /\ UNCHANGED clients

\* SIGTERM: Run returns from its wait and Stop calls the OnStop hook of the
\* server first; Shutdown closes the listener.
Terminate ==
    /\ process \in {"serving", "deaf"} /\ "stop" \in ServerFaults
    /\ process' = "draining"
    /\ UNCHANGED clients

\* Mutant: the server is closed, not shut down.
DrainedAtOnce(busy) ==
    /\ process = "draining"
    /\ process' = "closing"
    /\ UNCHANGED clients

\* Shutdown returns once no connection has a request.
Drained(busy) ==
    /\ process = "draining" /\ busy = {}
    /\ process' = "closing"
    /\ UNCHANGED clients

CloseWriter ==
    /\ process = "closing" /\ "writer" \in clients
    /\ clients' = clients \ {"writer"}
    /\ UNCHANGED process

\* The last hook; the process ends.
ClosePool ==
    /\ process = "closing" /\ "writer" \notin clients
    /\ clients' = {}
    /\ process' = "down"

Halt == process' = "down" /\ clients' = {}

\* Mutant: a stop waits for its requests, however long they take.
GraceHasNoEnd(busy) == process = "draining" /\ busy = {} /\ Halt

\* A request outlasts the time docker gives a container to stop (10 s, less
\* than the 15 s fx gives its hooks).
GraceEnds(busy) == process = "draining" /\ busy # {} /\ Halt

Kill == process # "down" /\ "kill" \in ServerFaults /\ Halt
=============================================================================
