---------------------------- MODULE RunContract ----------------------------
(***************************************************************************)
(* What a validator polling GET /v1/runs/{id} may rely on, with nothing    *)
(* about workers, containers or the broker: a bounded number of runs is    *)
(* active, each ends once, as done or as failed, and a sticky verdict (a   *)
(* client's cancellation, an exhausted allowance) is never amended.        *)
(***************************************************************************)
EXTENDS Naturals, FiniteSets

CONSTANTS Runs, RunSlots

VARIABLES
    phase,  \* "absent", "active", "done" or "failed"
    cause,  \* the failure class, "nil" while there is none
    sticky  \* runs whose failure is final

Causes == {"nil", "infra", "agent", "runtime", "resource"}

Active == {r \in Runs : phase[r] = "active"}

Init ==
    /\ phase = [r \in Runs |-> "absent"]
    /\ cause = [r \in Runs |-> "nil"]
    /\ sticky = {}

Accept(r) ==
    /\ phase[r] = "absent"
    /\ Cardinality(Active) < RunSlots
    /\ phase' = [phase EXCEPT ![r] = "active"]
    /\ UNCHANGED <<cause, sticky>>

Succeed(r) ==
    /\ phase[r] = "active"
    /\ phase' = [phase EXCEPT ![r] = "done"]
    /\ UNCHANGED <<cause, sticky>>

Fail(r) ==
    /\ phase[r] = "active"
    /\ phase' = [phase EXCEPT ![r] = "failed"]
    /\ \E c \in Causes : cause' = [cause EXCEPT ![r] = c]
    /\ sticky' = sticky \/ sticky' = sticky \cup {r}

\* The post-mortem may classify an unclassified failure, and resource evidence
\* may replace a classification; a sticky verdict is left alone.
Reclassify(r) ==
    /\ phase[r] = "failed"
    /\ r \notin sticky
    /\ \E c \in Causes :
          /\ cause[r] = "nil" \/ c = "resource"
          /\ cause' = [cause EXCEPT ![r] = c]
    /\ UNCHANGED <<phase, sticky>>

Next == \E r \in Runs : Accept(r) \/ Succeed(r) \/ Fail(r) \/ Reclassify(r)

Spec == Init /\ [][Next]_<<phase, cause, sticky>>
=============================================================================
