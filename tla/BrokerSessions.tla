--------------------------- MODULE BrokerSessions ---------------------------
(***************************************************************************)
(* The ticket sessions of the inference broker and the chat calls routed   *)
(* to them by source address.                                              *)
(*                                                                         *)
(* Two locks: b.mu guards the table of sessions, session.mu one session.   *)
(* Every handler looks its session up under the first, lets go of it, and   *)
(* works under the second, so a session may be removed from the table and   *)
(* destroyed in between.  A step here is one critical section.              *)
(*                                                                         *)
(* The worker is kept as far as it uses the broker: claim, container, bind, *)
(* one compatibility restart, stop, removeRun.  The accounting of a call    *)
(* and the embedding lane are not part of this module.                      *)
(***************************************************************************)
EXTENDS Naturals, FiniteSets

CONSTANTS
    Sessions,             \* session ids prepare may hand out
    Runs,                 \* runs
    Calls,                \* chat calls, each made by the harness of some run
    Addresses,            \* source addresses of containers, reused once freed
    Loopback,             \* the source address of every direct harness
    Direct,               \* runs with a loopback harness_url and no container
    MaxSessions,          \* b.maxSessions
    PerSourceConcurrency, \* brokerPerSourceConcurrency
    NoRun, NoAddress      \* empty boundRunID, empty expectedSourceIP

ASSUME BrokerAssumption ==
    /\ IsFiniteSet(Calls)
    /\ Direct \subseteq Runs
    /\ MaxSessions \in Nat \ {0}
    /\ PerSourceConcurrency \in Nat \ {0}
    /\ NoRun \notin Runs
    /\ Loopback \notin Addresses /\ NoAddress \notin Addresses \cup {Loopback}

VARIABLES
    table,      \* ids in b.sessions
    doomed,     \* sessions deleted from the table and not destroyed yet
    sess,       \* the sessions themselves, reachable through stale pointers
    activation, \* progress of the platform's activation of each session
    sweep,      \* expired ids a pruneExpired has collected and not removed yet
    pc,         \* the worker's next broker operation
    want,       \* the session the run's request names
    addr,       \* the address of the run's live harness
    old,        \* the address of the container a restart has stopped
    call        \* the chat calls

vars == <<table, doomed, sess, activation, sweep, pc, want, addr, old, call>>

\* Who runs pruneExpired: the prepare handler and every call.
Platform == "platform"
Sweepers == Calls \cup {Platform}

\* clock: prepared less than 2 minutes ago, prepared longer ago, active until
\* expiresAt, past expiresAt.
Clocks == {"unborn", "prepared", "stale", "live", "over"}

Born(s) == sess[s].clock # "unborn"

Expired(s) == sess[s].clock \in {"stale", "over"}

\* activeLocked
Active(s) ==
    /\ sess[s].run # NoRun
    /\ sess[s].source # NoAddress
    /\ sess[s].clock = "live"
    /\ sess[s].bearer

NoCall == [pc |-> "idle", run |-> NoRun, source |-> NoAddress, sess |-> {}, cancelled |-> FALSE]

Init ==
    /\ table = {}
    /\ doomed = {}
    /\ sess = [s \in Sessions |-> [clock |-> "unborn", secret |-> FALSE, bearer |-> FALSE,
                                   run |-> NoRun, source |-> NoAddress, inFlight |-> 0]]
    /\ activation = [s \in Sessions |-> "none"]
    /\ sweep = [a \in Sweepers |-> {}]
    /\ pc = [r \in Runs |-> "submit"]
    /\ want \in [Runs -> Sessions]
    /\ addr = [r \in Runs |-> NoAddress]
    /\ old = [r \in Runs |-> NoAddress]
    /\ call = [c \in Calls |-> NoCall]

-----------------------------------------------------------------------------
(* The platform: prepare, activate, DELETE, and the passing of time.       *)

\* remove and removeRun take the session out of the table and then destroy it.
Evict(S) == table' = table \ S /\ doomed' = doomed \cup (S \cap table)

platformOnly == <<pc, want, addr, old, call>>

\* pruneExpired collects under the read lock ...
Collect(a) == sweep' = [sweep EXCEPT ![a] = {s \in table : Expired(s)}]

\* ... and removes one id at a time.
RemoveCollected(a) ==
    /\ \E s \in sweep[a] :
          /\ sweep' = [sweep EXCEPT ![a] = @ \ {s}]
          /\ Evict({s})
    /\ UNCHANGED <<sess, activation, platformOnly>>

PrepareSweep ==
    /\ sweep[Platform] = {}
    /\ \E s \in table : Expired(s)
    /\ Collect(Platform)
    /\ UNCHANGED <<table, doomed, sess, activation, platformOnly>>

\* Mutant: the capacity check admits one session too many.
PrepareOverCapacity(s) ==
    /\ sweep[Platform] = {}
    /\ ~Born(s)
    /\ Cardinality(table) <= MaxSessions
    /\ table' = table \cup {s}
    /\ sess' = [sess EXCEPT ![s].clock = "prepared", ![s].secret = TRUE]
    /\ UNCHANGED <<doomed, activation, sweep, platformOnly>>

Prepare(s) ==
    /\ sweep[Platform] = {}
    /\ ~Born(s)
    /\ Cardinality(table) < MaxSessions
    /\ table' = table \cup {s}
    /\ sess' = [sess EXCEPT ![s].clock = "prepared", ![s].secret = TRUE]
    /\ UNCHANGED <<doomed, activation, sweep, platformOnly>>

LookupActivation(s) ==
    /\ s \in table
    /\ activation[s] = "none"
    /\ activation' = [activation EXCEPT ![s] = "found"]
    /\ UNCHANGED <<table, doomed, sess, sweep, platformOnly>>

\* The platform presents the secret prepare issued; a destroyed or an already
\* activated session has none.
Activate(s) ==
    /\ activation[s] = "found"
    /\ activation' = [activation EXCEPT ![s] = "answered"]
    /\ sess' = IF sess[s].secret
               THEN [sess EXCEPT ![s].secret = FALSE, ![s].bearer = TRUE, ![s].clock = "live"]
               ELSE sess
    /\ UNCHANGED <<table, doomed, sweep, platformOnly>>

CancelSession(s) ==
    /\ s \in table
    /\ Evict({s})
    /\ UNCHANGED <<sess, activation, sweep, platformOnly>>

TimePasses(s) ==
    /\ \/ sess[s].clock = "prepared" /\ sess' = [sess EXCEPT ![s].clock = "stale"]
       \/ sess[s].clock = "live" /\ sess' = [sess EXCEPT ![s].clock = "over"]
    /\ UNCHANGED <<table, doomed, activation, sweep, platformOnly>>

\* Mutant: destroying a session forgets its activation secret.
DestroyKeepsSecret(s) ==
    /\ s \in doomed
    /\ doomed' = doomed \ {s}
    /\ sess' = [sess EXCEPT ![s].bearer = FALSE]
    /\ call' = [c \in Calls |-> IF call[c].sess = {s} /\ call[c].pc = "upstream"
                                THEN [call[c] EXCEPT !.cancelled = TRUE] ELSE call[c]]
    /\ UNCHANGED <<table, activation, sweep, pc, want, addr, old>>

\* destroyBrokerSession: cancel the registered calls, zero the credentials.
Destroy(s) ==
    /\ s \in doomed
    /\ doomed' = doomed \ {s}
    /\ sess' = [sess EXCEPT ![s].secret = FALSE, ![s].bearer = FALSE]
    /\ call' = [c \in Calls |-> IF call[c].sess = {s} /\ call[c].pc = "upstream"
                                THEN [call[c] EXCEPT !.cancelled = TRUE] ELSE call[c]]
    /\ UNCHANGED <<table, activation, sweep, pc, want, addr, old>>

-----------------------------------------------------------------------------
(* The worker of a run.                                                    *)

Go(r, from, to) == pc[r] = from /\ pc' = [pc EXCEPT ![r] = to]

brokerOnly == <<table, doomed, activation, sweep, want, call>>

\* claimRun, bindSource and replaceBoundSource look the session up first.
LookupSession(r) ==
    /\ \E step \in {<<"submit", "claim", "refused">>, <<"bind", "binding", "stop">>,
                    <<"rebind", "rebinding", "stop">>} :
          Go(r, step[1], IF want[r] \in table THEN step[2] ELSE step[3])
    /\ UNCHANGED <<brokerOnly, sess, addr, old>>

\* Mutant: the session is not checked for another run's claim.
ClaimTwice(r) ==
    /\ \/ /\ sess[want[r]].bearer /\ sess[want[r]].clock = "live"
          /\ Go(r, "claim", "start")
          /\ sess' = [sess EXCEPT ![want[r]].run = r]
       \/ Go(r, "claim", "refused") /\ UNCHANGED sess
    /\ UNCHANGED <<brokerOnly, addr, old>>

\* claimRun; a request whose ticket identity or model does not match is refused.
Claim(r) ==
    /\ \/ /\ sess[want[r]].run = NoRun
          /\ sess[want[r]].bearer
          /\ sess[want[r]].clock = "live"
          /\ Go(r, "claim", "start")
          /\ sess' = [sess EXCEPT ![want[r]].run = r]
       \/ Go(r, "claim", "refused") /\ UNCHANGED sess
    /\ UNCHANGED <<brokerOnly, addr, old>>

FreeAddresses == {a \in Addresses : \A q \in Runs : addr[q] # a}

\* The address a harness gets: docker's choice, or loopback.
Obtain(r, from, to) ==
    /\ Go(r, from, to)
    /\ \E a \in IF r \in Direct THEN {Loopback} ELSE FreeAddresses :
          addr' = [addr EXCEPT ![r] = a]
    /\ UNCHANGED <<brokerOnly, sess, old>>

\* Build, generate and container start may fail; there is nothing to stop then.
Start(r) ==
    \/ Obtain(r, "start", "bind")
    \/ Go(r, "start", "remove") /\ UNCHANGED <<brokerOnly, sess, addr, old>>

BindSource(r) ==
    /\ LET s == want[r] IN
       IF /\ sess[s].run = r /\ sess[s].source = NoAddress
          /\ sess[s].bearer /\ sess[s].clock = "live"
       THEN Go(r, "binding", "serving") /\ sess' = [sess EXCEPT ![s].source = addr[r]]
       ELSE Go(r, "binding", "stop") /\ UNCHANGED sess
    /\ UNCHANGED <<brokerOnly, addr, old>>

\* stopSandboxForRestart, at most once.
StopForRestart(r) ==
    /\ r \notin Direct
    /\ old[r] = NoAddress
    /\ Go(r, "serving", "restart")
    /\ old' = [old EXCEPT ![r] = addr[r]]
    /\ addr' = [addr EXCEPT ![r] = NoAddress]
    /\ UNCHANGED <<brokerOnly, sess>>

StartAgain(r) ==
    \/ Obtain(r, "restart", "rebind")
    \/ Go(r, "restart", "remove") /\ UNCHANGED <<brokerOnly, sess, addr, old>>

\* Mutant: the restarted run keeps the stopped container's source.
ReplaceKeepsOldSource(r) ==
    /\ Go(r, "rebinding", "serving")
    /\ UNCHANGED <<brokerOnly, sess, addr, old>>

ReplaceBoundSource(r) ==
    /\ LET s == want[r] IN
       IF /\ sess[s].run = r /\ sess[s].source = old[r]
          /\ sess[s].bearer /\ sess[s].clock = "live"
       THEN Go(r, "rebinding", "serving") /\ sess' = [sess EXCEPT ![s].source = addr[r]]
       ELSE Go(r, "rebinding", "stop") /\ UNCHANGED sess
    /\ UNCHANGED <<brokerOnly, addr, old>>

\* The run ends, well or not: its container is removed before its session.
EndServing(r) ==
    /\ Go(r, "serving", "stop")
    /\ UNCHANGED <<brokerOnly, sess, addr, old>>

Stop(r) ==
    /\ Go(r, "stop", "remove")
    /\ addr' = [addr EXCEPT ![r] = NoAddress]
    /\ UNCHANGED <<brokerOnly, sess, old>>

\* Mutant: a run that never bound a source leaves its session behind.
RemoveBoundRun(r) ==
    /\ Go(r, "remove", "removed")
    /\ Evict(IF sess[want[r]].source # NoAddress THEN {want[r]} ELSE {})
    /\ UNCHANGED <<sess, activation, sweep, want, addr, old, call>>

\* removeRun: only the session this run claimed.
RemoveRun(r) ==
    /\ Go(r, "remove", "removed")
    /\ Evict(IF sess[want[r]].run = r THEN {want[r]} ELSE {})
    /\ UNCHANGED <<sess, activation, sweep, want, addr, old, call>>

Worker(r) ==
    \/ LookupSession(r) \/ Claim(r) \/ Start(r) \/ BindSource(r) \/ StopForRestart(r)
    \/ StartAgain(r) \/ ReplaceBoundSource(r) \/ EndServing(r) \/ Stop(r) \/ RemoveRun(r)

-----------------------------------------------------------------------------
(* A chat call: handle, handleChat, proxy.                                 *)

callOnly == <<doomed, activation, pc, want, addr, old>>

CallTo(c, to) == call' = [call EXCEPT ![c].pc = to]

Target(c) == CHOOSE s \in Sessions : call[c].sess = {s}

\* A live harness calls; handle prunes first.
Arrive(c) ==
    /\ call[c].pc = "idle"
    /\ \E r \in Runs :
          /\ addr[r] # NoAddress
          /\ call' = [call EXCEPT ![c] = [NoCall EXCEPT !.pc = "arrived", !.run = r,
                                                        !.source = addr[r]]]
    /\ Collect(c)
    /\ UNCHANGED <<callOnly, table, sess>>

\* sessionForSource ranges over a Go map: any active match may be returned.
Route(c) ==
    /\ call[c].pc = "arrived"
    /\ sweep[c] = {}
    /\ LET matches == {s \in table : sess[s].source = call[c].source /\ Active(s)}
       IN  IF matches = {}
           THEN CallTo(c, "done")
           ELSE \E s \in matches :
                   call' = [call EXCEPT ![c].pc = "routed", ![c].sess = {s}]
    /\ UNCHANGED <<callOnly, table, sess, sweep>>

Admit(c) ==
    /\ call[c].pc = "routed"
    /\ IF sess[Target(c)].inFlight >= PerSourceConcurrency
       THEN CallTo(c, "done") /\ UNCHANGED sess
       ELSE CallTo(c, "admitted") /\ sess' = [sess EXCEPT ![Target(c)].inFlight = @ + 1]
    /\ UNCHANGED <<callOnly, table, sweep>>

\* Mutant: a call refused after admission keeps its place.
CheckLeaks(c) ==
    /\ call[c].pc = "admitted"
    /\ CallTo(c, IF sess[Target(c)].source = call[c].source /\ Active(Target(c))
                 THEN "checked" ELSE "done")
    /\ UNCHANGED <<callOnly, table, sess, sweep>>

\* proxy looks again under session.mu and copies the bearer ...
Check(c) ==
    /\ call[c].pc = "admitted"
    /\ CallTo(c, IF sess[Target(c)].source = call[c].source /\ Active(Target(c))
                 THEN "checked" ELSE "leaving")
    /\ UNCHANGED <<callOnly, table, sess, sweep>>

\* ... and registers its cancel function in a later critical section.
Register(c) ==
    /\ call[c].pc = "checked"
    /\ CallTo(c, "upstream")
    /\ UNCHANGED <<callOnly, table, sess, sweep>>

Complete(c) ==
    /\ call[c].pc = "upstream"
    /\ CallTo(c, "leaving")
    /\ UNCHANGED <<callOnly, table, sess, sweep>>

Leave(c) ==
    /\ call[c].pc = "leaving"
    /\ CallTo(c, "done")
    /\ sess' = [sess EXCEPT ![Target(c)].inFlight = @ - 1]
    /\ UNCHANGED <<callOnly, table, sweep>>

Call(c) ==
    Route(c) \/ Admit(c) \/ Check(c) \/ Register(c) \/ Complete(c) \/ Leave(c)

-----------------------------------------------------------------------------
Next ==
    \/ \E s \in Sessions : \/ Prepare(s) \/ LookupActivation(s) \/ Activate(s)
                           \/ CancelSession(s) \/ TimePasses(s) \/ Destroy(s)
    \/ PrepareSweep
    \/ \E a \in Sweepers : RemoveCollected(a)
    \/ \E r \in Runs : Worker(r)
    \/ \E c \in Calls : Arrive(c) \/ Call(c)

Spec == Init /\ [][Next]_vars

\* A worker's blocking calls end by timeouts, a destroy waits for nothing here, and
\* a sweep runs to its end.
FairSpec ==
    /\ Spec
    /\ \A r \in Runs : WF_vars(Worker(r))
    /\ \A s \in Sessions : WF_vars(Destroy(s))
    /\ \A a \in Sweepers : WF_vars(RemoveCollected(a))

-----------------------------------------------------------------------------
(* Correctness.                                                            *)

TypeOK ==
    /\ table \subseteq Sessions /\ Cardinality(table) <= MaxSessions
    /\ doomed \subseteq Sessions
    /\ sess \in [Sessions -> [clock : Clocks, secret : BOOLEAN, bearer : BOOLEAN,
                              run : Runs \cup {NoRun},
                              source : Addresses \cup {Loopback, NoAddress},
                              inFlight : 0..PerSourceConcurrency]]
    /\ activation \in [Sessions -> {"none", "found", "answered"}]
    /\ sweep \in [Sweepers -> SUBSET Sessions]
    /\ pc \in [Runs -> {"submit", "claim", "refused", "start", "bind", "binding", "serving",
                        "restart", "rebind", "rebinding", "stop", "remove", "removed"}]
    /\ want \in [Runs -> Sessions]
    /\ addr \in [Runs -> Addresses \cup {Loopback, NoAddress}]
    /\ old \in [Runs -> Addresses \cup {NoAddress}]
    /\ call \in [Calls -> [pc : {"idle", "arrived", "routed", "admitted", "checked", "upstream",
                                 "leaving", "done"},
                           run : Runs \cup {NoRun},
                           source : Addresses \cup {Loopback, NoAddress},
                           sess : {{}} \cup {{s} : s \in Sessions}, cancelled : BOOLEAN]]

\* A destroyed session holds neither secret nor bearer, although an activation, a
\* claim or a binding that looked it up before its removal may still write to it.
DestroyedIsPowerless ==
    \A s \in Sessions : Born(s) /\ s \notin table \cup doomed =>
        ~sess[s].secret /\ ~sess[s].bearer

\* session.inFlight is the number of calls between admission and the deferred
\* decrement, whichever way they leave and whatever happened to the session.
InFlightCountsCalls ==
    \A s \in Sessions :
        sess[s].inFlight = Cardinality({c \in Calls :
            call[c].sess = {s} /\ call[c].pc \in {"admitted", "checked", "upstream", "leaving"}})

\* A run that is through with its deferred calls left no session of its own in the
\* table, whether it was ever bound to a source or not.
RemovedRunsHoldNoSession ==
    \A r \in Runs : pc[r] = "removed" => \A s \in table : sess[s].run # r

\* While a run serves cases, the source its session admits is the address of the
\* container it is serving from, the compatibility replacement included.
SourceFollowsContainer ==
    \A r \in Runs : pc[r] = "serving" => sess[want[r]].source = addr[r]

\* What the platform and the workers see of a session is a TicketContract ticket.
PhaseOf(s) ==
    CASE ~Born(s) -> "new"
      [] Born(s) /\ s \notin table \cup doomed -> "retired"
      [] OTHER -> IF sess[s].run # NoRun THEN "claimed"
                  ELSE IF sess[s].bearer THEN "open" ELSE "issued"

Contract == INSTANCE TicketContract WITH
    phase <- [s \in Sessions |-> PhaseOf(s)],
    owner <- [s \in Sessions |-> sess[s].run]

TicketHolds == Contract!Spec

\* A claimed session does not outlive its run: its bearer is gone in the end.
ClaimedSessionsEnd == \A s \in Sessions : sess[s].run # NoRun ~> ~sess[s].bearer

\* "preserves the sandbox source IP through the local REDIRECT, so this reaches the
\* same source-bound session": the session that serves a call is the caller's own.
CallServedByOwnSession ==
    \A c \in Calls : call[c].pc = "checked" => sess[Target(c)].run = call[c].run
=============================================================================
