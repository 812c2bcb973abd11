--------------------------- MODULE TrackLifecycle ---------------------------
(***************************************************************************)
(* What the pipeline promises about each track, with no queue, no consumer *)
(* group and no object store: a life cycle driven by one worker at a time, *)
(* and an acknowledgement that is never taken back.  Not translated from   *)
(* one place of the code: TrackPipeline is shown to implement it.          *)
(***************************************************************************)
CONSTANTS Tracks, Workers, NoJob

VARIABLES
    phase,    \* "absent", "pending", "processing", "ready" or "failed"
    working,  \* the track each worker is transcoding, or NoJob
    acked     \* the tracks whose upload was answered 201

lifecycle == <<phase, working, acked>>

Phases == {"absent", "pending", "processing", "ready", "failed"}

Init ==
    /\ phase = [t \in Tracks |-> "absent"]
    /\ working = [w \in Workers |-> NoJob]
    /\ acked = {}

Unattended(t) == \A w \in Workers : working[w] # t

Create(t) ==
    /\ phase[t] = "absent" /\ t \notin acked /\ Unattended(t)
    /\ phase' = [phase EXCEPT ![t] = "pending"]
    /\ UNCHANGED <<working, acked>>

Acknowledge(t) ==
    /\ phase[t] # "absent"
    /\ acked' = acked \cup {t}
    /\ UNCHANGED <<phase, working>>

\* The rollback of an upload: only before it is acknowledged, at any phase.
Remove(t) ==
    /\ t \notin acked
    /\ phase' = [phase EXCEPT ![t] = "absent"]
    /\ UNCHANGED <<working, acked>>

Claim(w, t) ==
    /\ phase[t] \in {"pending", "failed"} /\ Unattended(t)
    /\ working[w] = NoJob
    /\ phase' = [phase EXCEPT ![t] = "processing"]
    /\ working' = [working EXCEPT ![w] = t]
    /\ UNCHANGED acked

\* The answer to a claim is lost: the track is in processing for nobody.
LoseClaim(t) ==
    /\ phase[t] \in {"pending", "failed"} /\ Unattended(t)
    /\ phase' = [phase EXCEPT ![t] = "processing"]
    /\ UNCHANGED <<working, acked>>

\* The worker ends its work on a track, well or badly, and says so, unless
\* the track was removed meanwhile.
Settle(w, end) ==
    /\ working[w] # NoJob
    /\ phase[working[w]] = "processing"
    /\ phase' = [phase EXCEPT ![working[w]] = end]
    /\ working' = [working EXCEPT ![w] = NoJob]
    /\ UNCHANGED acked

\* The worker stops, or its report is lost or comes too late.
Abandon(w) ==
    /\ working[w] # NoJob
    /\ working' = [working EXCEPT ![w] = NoJob]
    /\ UNCHANGED <<phase, acked>>

Next ==
    \/ \E t \in Tracks :
         \/ Create(t) \/ Acknowledge(t) \/ Remove(t) \/ LoseClaim(t)
         \/ \E w \in Workers : Claim(w, t)
    \/ \E w \in Workers :
         Settle(w, "ready") \/ Settle(w, "failed") \/ Abandon(w)

Spec == Init /\ [][Next]_lifecycle
=============================================================================
