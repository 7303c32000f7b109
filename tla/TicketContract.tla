--------------------------- MODULE TicketContract ---------------------------
(***************************************************************************)
(* What a ticket session of the inference broker promises, whoever races   *)
(* whom: it is issued once, opened by one activation, claimed by one run   *)
(* for good, and a retired session never comes back.                       *)
(***************************************************************************)
CONSTANTS Sessions, Runs, NoRun

VARIABLES
    phase,  \* "new", "issued", "open", "claimed" or "retired"
    owner   \* the run that claimed the session

Init ==
    /\ phase = [s \in Sessions |-> "new"]
    /\ owner = [s \in Sessions |-> NoRun]

Move(s, from, to) == phase[s] \in from /\ phase' = [phase EXCEPT ![s] = to]

Issue(s) == Move(s, {"new"}, "issued") /\ UNCHANGED owner

Open(s) == Move(s, {"issued"}, "open") /\ UNCHANGED owner

Claim(s) ==
    /\ Move(s, {"open"}, "claimed")
    /\ \E r \in Runs : owner' = [owner EXCEPT ![s] = r]

Retire(s) == Move(s, {"issued", "open", "claimed"}, "retired") /\ UNCHANGED owner

Next == \E s \in Sessions : Issue(s) \/ Open(s) \/ Claim(s) \/ Retire(s)

Spec == Init /\ [][Next]_<<phase, owner>>
=============================================================================
