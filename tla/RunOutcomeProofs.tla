-------------------------- MODULE RunOutcomeProofs --------------------------
(***************************************************************************)
(* What a run leaves behind, shows and answers for: the resources of a     *)
(* worker that exited, the stage and the relay pause a poller sees, the    *)
(* completeness of a report, the reach of a cancellation, the final        *)
(* classification of a failure, and RunContract, which the runs implement. *)
(* The proofs build on the verdict's invariant of RunLifecycleProofs.      *)
(***************************************************************************)
EXTENDS RunLifecycleProofs

USE DEF Unless

-----------------------------------------------------------------------------
(* The invariant.                                                          *)

\* Locations from the generation of the dataset to the tool server, and from the last
\* batch to the report.
EarlyPC == {"generating", "starting", "binding", "health", "admission", "relayStart", "probe",
            "restart", "rebinding", "rehealth", "reprobe", "toolServer"}
LatePC == {"endPhase", "relayResult", "scoring", "transcript"}

Started(r) == pc[r] \in BodyPC \cup UnwindPC \cup {"exited"}

\* Each resource outlives the body of the worker only up to the deferred call that
\* gives it back, and only a started worker has a harness to serve.
ResourceInv(r) ==
    /\ res[r].tools => pc[r] \in BodyPC \cup {"stopTools"}
    /\ res[r].phase => pc[r] \in BodyPC \cup {"stopTools", "closePhase"}
    /\ res[r].container =>
          pc[r] \in BodyPC \cup {"stopTools", "closePhase", "postmortem", "attach", "stop"}
    /\ res[r].image =>
          pc[r] \in BodyPC \cup {"stopTools", "closePhase", "postmortem", "attach", "stop",
                                 "release"}
    /\ pc[r] \in {"unregister", "releaseSlot", "exited"} => session[r] \in {"none", "gone"}
    /\ pc[r] \in {"releaseSlot", "exited"} => r \notin runCancels
    /\ chat[r].open > 0 \/ session[r] = "bound" \/ notify[r] # "no" => Started(r)

\* A canceller is about to fire the cancel function.
Firing(r) ==
    \/ notify[r] \in {"lookup", "fire"}
    \/ \E d \in Deleters : del[d].run = r /\ del[d].pc = "fire"

\* A sticky verdict is on its way to the worker, has reached it, or comes too late.
CancelInv(r) ==
    job[r].cancelled => Firing(r) \/ r \in ctxDone \/ pc[r] \in {"releaseSlot", "exited"}

\* The stage a poller sees, or will see once the relay pause ends.
Shown(j) == IF j.status = Waiting THEN j.resumeStatus ELSE j.status

\* An active job shows its worker's stage, is paused while calls wait, and has no
\* failure yet.
ShowInv(r) ==
    /\ pc[r] \in {"created"} \cup BodyPC /\ ~Terminal(job[r]) => Shown(job[r]) = AnnouncedStage(r)
    /\ ~Terminal(job[r]) => (job[r].status = Waiting <=> chat[r].waiting > 0)

\* An active job carries no failure, the post-mortem classifies from what it read, and a
\* panic meets no failure it could overwrite.
FailureInv(r) ==
    /\ ~Terminal(job[r]) => job[r].failure = "nil"
    /\ pc[r] = "attach" /\ work[r].seen.status = "failed" /\ ~job[r].cancelled
          => job[r].failure = work[r].seen.failure
    /\ work[r].panicked /\ pc[r] \in PanicPC /\ Terminal(job[r]) => job[r].cancelled

\* The cases accounted for: appended, crashed or in flight, until somebody cancels.
CaseInv(r) ==
    /\ pc[r] \in HandlerPC \cup {"start", "building"} \cup EarlyPC =>
          /\ work[r].batch = 0 /\ work[r].inflight = 0
          /\ work[r].crashed = 0 /\ job[r].partial = 0
    /\ pc[r] \in {"batch", "seeding"} =>
          /\ work[r].batch < Batches /\ work[r].inflight = 0
          /\ job[r].cancelled \/ job[r].partial + work[r].crashed = Cases * work[r].batch
    /\ pc[r] = "cases" =>
          /\ work[r].batch < Batches
          /\ \/ job[r].cancelled
             \/ job[r].partial + work[r].crashed + work[r].inflight
                   = Cases * work[r].batch + work[r].started
    /\ pc[r] \in LatePC =>
          /\ work[r].batch = Batches /\ work[r].inflight = 0
          /\ job[r].cancelled \/ job[r].partial + work[r].crashed = Total
    /\ job[r].status = "done" =>
          /\ job[r].report
          /\ work[r].batch = Batches /\ work[r].inflight = 0
          /\ job[r].partial + work[r].crashed = Total

-----------------------------------------------------------------------------
(* The frame of a step.                                                    *)

\* Everything the invariant says of a run but the DELETEs that chase it.
Untouched(q) ==
    /\ job'[q] = job[q] /\ pc'[q] = pc[q] /\ work'[q] = work[q] /\ res'[q] = res[q]
    /\ chat'[q] = chat[q] /\ session'[q] = session[q] /\ notify'[q] = notify[q]
    /\ q \in runCancels' <=> q \in runCancels
    /\ q \in ctxDone' <=> q \in ctxDone
    /\ q \in stored' <=> q \in stored

\* A step of a run touches no other run and no DELETE.
LEMMA OthersUntouched ==
    ASSUME TypeOK, NEW r \in Runs, Submit(r) \/ BodyStep(r) \/ Unwind(r) \/ Broker(r)
    PROVE  del' = del /\ \A q \in Runs : q # r => Untouched(q)
  <1> USE DEF TypeOK, Untouched
  <1>1. CASE Submit(r)
    BY <1>1 DEF Submit, AcquireSlot, ClaimSession, CreateJob, StartWorker, Go, Store
  <1>2. CASE BodyStep(r)
    BY <1>2 DEF BodyStep, MovesOn, StartsUnwinding
  <1>3. CASE Unwind(r)
    BY <1>3 DEF Unwind, StopTools, ClosePhase, ReadForPostmortem, AttachDiagnostics, StopContainer,
           ReleaseImage, Recover, RemoveRun, UnregisterRunCancel, ReleaseSlot, outside, Go, Store
  <1>4. CASE Broker(r)
    BY <1>4, ZenonT(60) DEF Broker, BeginCall, BeginRelayWait, EndCall, AgentDeclined, AgentFailure,
           FailAgentRun, LookupAgentCancel, FireAgentCancel, LoseSession, worker, Store
  <1> QED BY <1>1, <1>2, <1>3, <1>4

\* A DELETE touches the job and the context of its run only.
LEMMA DeleteTouches ==
    ASSUME TypeOK, NEW d \in Deleters, DeleteRead(d) \/ Delete(d)
    PROVE  /\ UNCHANGED <<pc, work, res, chat, session, notify, runCancels, stored>>
           /\ \A e \in Deleters : e # d => del'[e] = del[e]
  BY DEF TypeOK, DeleteRead, Delete, DeleteLookup, DeleteReread, DeleteTransition, DeleteFire,
         worker, Reply, DeleteTo

-----------------------------------------------------------------------------
(* What an exited worker leaves behind.                                    *)

\* Nothing is held, and nobody serves a harness, before the first request.
LEMMA InitResources == Init => \A r \in Runs : ResourceInv(r)
  <1> SUFFICES ASSUME Init, NEW r \in Runs PROVE ResourceInv(r)
    OBVIOUS
  <1>1. /\ pc[r] = "idle" /\ chat[r].open = 0 /\ notify[r] = "no"
        /\ session[r] \in {"ready", "none"} /\ runCancels = {}
        /\ ~res[r].container /\ ~res[r].image /\ ~res[r].tools /\ ~res[r].phase
    BY DEF Init
  <1> QED BY <1>1 DEF ResourceInv

\* A run none of whose variables moves keeps what it holds.
LEMMA ResourceFrame ==
    ASSUME NEW q, ResourceInv(q), Untouched(q)
    PROVE  ResourceInv(q)'
  BY DEF ResourceInv, Untouched, Started

\* No step of a run makes it hold what a later deferred call will not give back.
LEMMA ResourceStep ==
    ASSUME TypeOK, NEW r \in Runs, ResourceInv(r),
           Submit(r) \/ BodyStep(r) \/ Unwind(r) \/ Broker(r)
    PROVE  ResourceInv(r)'
  <1> USE DEF TypeOK
  <1>pc. /\ BodyPC \cap (HandlerPC \cup UnwindPC \cup {"exited"}) = {}
         /\ HandlerPC = {"idle", "slot", "claimed", "created", "rejected"}
         /\ UnwindPC = {"stopTools", "closePhase", "postmortem", "attach", "stop", "release",
                        "recover", "removeRun", "unregister", "releaseSlot"}
         /\ "start" \in BodyPC
    BY DEF BodyPC, HandlerPC, UnwindPC
  <1>1. CASE Submit(r)
    <2>1. /\ UNCHANGED <<res, chat, notify>> /\ pc[r] \in HandlerPC
          /\ \/ pc'[r] \in HandlerPC /\ runCancels' = runCancels
             \/ pc'[r] = "start"
          /\ session'[r] # session[r] => session'[r] = "claimed"
      BY <1>1, <1>pc DEF Submit, AcquireSlot, ClaimSession, CreateJob, StartWorker, Go
    <2> QED BY <1>pc, <2>1 DEF ResourceInv, Started
  <1>2. CASE BodyStep(r)
    <2>1. /\ pc'[r] \in BodyPC \cup {"stopTools"} /\ UNCHANGED <<chat, notify, runCancels>>
      BY <1>2 DEF BodyStep, MovesOn, StartsUnwinding
    <2> QED BY <1>pc, <2>1 DEF ResourceInv, Started
  <1>3. CASE Unwind(r)
    <2>1. /\ UNCHANGED <<chat, notify>> /\ pc[r] \in UnwindPC /\ pc'[r] \in UnwindPC \cup {"exited"}
          /\ session'[r] # session[r] => pc[r] = "removeRun" /\ session'[r] = "gone"
      BY <1>3, <1>pc DEF Unwind, StopTools, ClosePhase, ReadForPostmortem, AttachDiagnostics,
             StopContainer, ReleaseImage, Recover, RemoveRun, UnregisterRunCancel, ReleaseSlot,
             outside, Go
    <2>2. CASE StopTools(r)
      BY <1>pc, <2>1, <2>2 DEF StopTools, Go, outside, ResourceInv, Started, ResType
    <2>3. CASE ClosePhase(r)
      BY <1>pc, <2>1, <2>3 DEF ClosePhase, Go, outside, ResourceInv, Started, ResType
    <2>4. CASE ReadForPostmortem(r) \/ AttachDiagnostics(r) \/ Recover(r)
      BY <1>pc, <2>1, <2>4 DEF ReadForPostmortem, AttachDiagnostics, Recover, Go, outside,
             ResourceInv, Started
    <2>5. CASE StopContainer(r)
      BY <1>pc, <2>1, <2>5 DEF StopContainer, Go, outside, ResourceInv, Started, ResType
    <2>6. CASE ReleaseImage(r)
      BY <1>pc, <2>1, <2>6 DEF ReleaseImage, Go, outside, ResourceInv, Started, ResType
    <2>7. CASE RemoveRun(r)
      BY <1>pc, <2>1, <2>7 DEF RemoveRun, Go, ResourceInv, Started
    <2>8. CASE UnregisterRunCancel(r) \/ ReleaseSlot(r)
      BY <1>pc, <2>1, <2>8 DEF UnregisterRunCancel, ReleaseSlot, Go, ResourceInv, Started
    <2> QED BY <1>3, <2>2, <2>3, <2>4, <2>5, <2>6, <2>7, <2>8 DEF Unwind
  <1>4. CASE Broker(r)
    <2>1. UNCHANGED <<pc, res, runCancels>>
      BY <1>4 DEF Broker, BeginCall, BeginRelayWait, EndCall, AgentDeclined, AgentFailure,
             FailAgentRun, LookupAgentCancel, FireAgentCancel, LoseSession, worker
    <2>2. chat[r].open \in Nat /\ chat[r].waiting \in Nat
      BY RunLifecycleAssumption DEF ChatType
    <2>3. chat'[r].open > 0 \/ session'[r] = "bound" \/ notify'[r] # "no"
             => chat[r].open > 0 \/ session[r] = "bound" \/ notify[r] # "no"
      <3>1. CASE BeginCall(r)
        BY <3>1 DEF BeginCall
      <3>2. CASE BeginRelayWait(r)
        BY <3>2 DEF BeginRelayWait, ChatType
      <3>3. CASE EndCall(r)
        <4>1. chat[r].open > 0
          <5>1. chat[r].waiting <= chat[r].open
            BY DEF ChatType
          <5>2. chat[r].waiting < chat[r].open \/ chat[r].waiting > 0
            BY <3>3 DEF EndCall
          <5>3. \A o, w \in Nat : w <= o /\ (w < o \/ w > 0) => o > 0
            OBVIOUS
          <5> QED BY <2>2, <5>1, <5>2, <5>3
        <4> QED BY <4>1
      <3>4. CASE AgentDeclined(r)
        BY <3>4 DEF AgentDeclined
      <3>5. CASE AgentFailure(r) \/ LoseSession(r)
        BY <3>5 DEF AgentFailure, FailAgentRun, LookupAgentCancel, FireAgentCancel, LoseSession
      <3> QED BY <1>4, <3>1, <3>2, <3>3, <3>4, <3>5 DEF Broker
    <2>4. session'[r] # session[r] => session'[r] = "gone"
      BY <1>4 DEF Broker, BeginCall, BeginRelayWait, EndCall, AgentDeclined, AgentFailure,
             FailAgentRun, LookupAgentCancel, FireAgentCancel, LoseSession
    <2> QED BY <2>1, <2>3, <2>4 DEF ResourceInv, Started
  <1> QED BY <1>1, <1>2, <1>3, <1>4

\* What a run holds is accounted for after every step of the system.
LEMMA ResourcesKept ==
    ASSUME TypeOK, \A r \in Runs : ResourceInv(r), Next
    PROVE  \A r \in Runs : ResourceInv(r)'
  <1>1. ASSUME NEW r \in Runs, Submit(r) \/ BodyStep(r) \/ Unwind(r) \/ Broker(r)
        PROVE  \A q \in Runs : ResourceInv(q)'
    BY <1>1, OthersUntouched, ResourceFrame, ResourceStep
  <1>2. ASSUME NEW d \in Deleters, DeleteRead(d) \/ Delete(d)
        PROVE  \A q \in Runs : ResourceInv(q)'
    BY <1>2, DeleteTouches DEF ResourceInv, Started
  <1> QED BY <1>1, <1>2, NextCases

\* The account of every run's resources holds in every reachable state.
LEMMA ResourcesHold == Spec => [](\A r \in Runs : ResourceInv(r))
  <1> DEFINE Inv == \A r \in Runs : ResourceInv(r)
  <1>1. TypeOK /\ Inv /\ [Next]_vars => Inv'
    <2>1. CASE UNCHANGED vars
      BY <2>1 DEF vars, ResourceInv, Started
    <2>2. CASE Next
      BY <2>2, ResourcesKept
    <2> QED BY <2>1, <2>2
  <1>2. Init => Inv
    BY InitResources
  <1> HIDE DEF Inv
  <1>3. Spec => []Inv
    BY <1>1, <1>2, TypeCorrect, PTL DEF Spec
  <1> QED BY <1>3 DEF Inv

\* An exited worker leaves no container, image, tool route, embedding phase, session or
\* cancel function, for any number of runs and whichever return it took.
THEOREM ExitIsClean == Spec => []ExitLeavesNothing
  <1> DEFINE Inv == \A r \in Runs : ResourceInv(r)
  <1>1. TypeOK /\ Inv => ExitLeavesNothing
    <2> SUFFICES ASSUME TypeOK, Inv, NEW r \in Runs, pc[r] = "exited"
                 PROVE  /\ res[r] = [container |-> FALSE, image |-> FALSE, tools |-> FALSE,
                                     phase |-> FALSE]
                        /\ session[r] \in {"none", "gone"} /\ r \notin runCancels
      BY DEF ExitLeavesNothing
    <2>1. "exited" \notin BodyPC
      BY DEF BodyPC
    <2>2. res[r] \in ResType
      BY DEF TypeOK
    <2>3. /\ res[r].container = FALSE /\ res[r].image = FALSE
          /\ res[r].tools = FALSE /\ res[r].phase = FALSE
      BY <2>1, <2>2 DEF ResourceInv, ResType
    <2> QED BY <2>2, <2>3 DEF ResourceInv, ResType
  <1> HIDE DEF Inv
  <1>2. Spec => []Inv
    BY ResourcesHold DEF Inv
  <1> QED BY <1>1, <1>2, TypeCorrect, PTL

-----------------------------------------------------------------------------
(* The reach of a cancellation.                                            *)

\* A verdict on its way stays on its way while nothing about its run moves.
LEMMA CancelFrame ==
    ASSUME NEW q, CancelInv(q), Untouched(q), del' = del
    PROVE  CancelInv(q)'
  BY DEF CancelInv, Firing, Untouched

\* A callback that finds no cancel function finds a worker past its unregistration.
LEMMA NoCancelFunction ==
    ASSUME TypeOK, VerdictInv, NEW r \in Runs, Started(r), r \notin runCancels
    PROVE  pc[r] \in {"releaseSlot", "exited"}
  <1>1. pc[r] \in BodyPC \cup (UnwindPC \ {"releaseSlot"}) => r \in runCancels
    BY DEF VerdictInv, RunInv
  <1> QED BY <1>1 DEF Started

\* A step of a run that cancels its job is about to fire, and one that stops firing has
\* fired or comes too late.
LEMMA CancelStep ==
    ASSUME TypeOK, VerdictInv, NEW r \in Runs, ResourceInv(r), CancelInv(r),
           Submit(r) \/ BodyStep(r) \/ Unwind(r) \/ Broker(r)
    PROVE  CancelInv(r)'
  <1> USE DEF TypeOK
  <1>pc. /\ {"releaseSlot", "exited"} \cap (BodyPC \cup HandlerPC) = {}
         /\ {"slot", "claimed", "created", "idle"} \subseteq HandlerPC
    BY DEF BodyPC, HandlerPC
  <1>j. job[r] \in JobType
    OBVIOUS
  <1>d. del' = del
    BY OthersUntouched
  <1>1. CASE Submit(r)
    <2>1. /\ UNCHANGED <<ctxDone, notify>> /\ pc[r] \in HandlerPC
          /\ job'[r] = job[r] \/ job'[r] = NewJob
      BY <1>1, <1>pc DEF Submit, AcquireSlot, ClaimSession, CreateJob, StartWorker, Go, Store
    <2>2. ~NewJob.cancelled
      BY DEF NewJob
    <2> QED BY <1>pc, <1>d, <2>1, <2>2 DEF CancelInv, Firing
  <1>2. CASE BodyStep(r)
    <2>1. /\ pc[r] \in BodyPC /\ UNCHANGED <<ctxDone, notify>>
          /\ job'[r].cancelled => job[r].cancelled
      BY <1>2 DEF BodyStep, MovesOn, StartsUnwinding, Progressing, Ending
    <2> QED BY <1>pc, <1>d, <2>1 DEF CancelInv, Firing
  <1>3. CASE Unwind(r)
    <2>1. /\ UNCHANGED <<ctxDone, notify>>
          /\ pc[r] \in {"releaseSlot", "exited"} => pc'[r] \in {"releaseSlot", "exited"}
      BY <1>3 DEF Unwind, StopTools, ClosePhase, ReadForPostmortem, AttachDiagnostics,
             StopContainer, ReleaseImage, Recover, RemoveRun, UnregisterRunCancel, ReleaseSlot,
             outside, Go
    <2>2. job'[r].cancelled => job[r].cancelled
      <3>1. job'[r] = job[r] \/ \E e, f : job'[r] = FailWith(job[r], e, f)
        BY <1>3 DEF Unwind, StopTools, ClosePhase, ReadForPostmortem, AttachDiagnostics,
               StopContainer, ReleaseImage, Recover, RemoveRun, UnregisterRunCancel, ReleaseSlot,
               outside, Store
      <3> QED BY <1>j, <3>1, FailWithKeeps
    <2> QED BY <1>d, <2>1, <2>2 DEF CancelInv, Firing
  <1>4. CASE Broker(r)
    <2>0. pc' = pc
      BY <1>4 DEF Broker, BeginCall, BeginRelayWait, EndCall, AgentDeclined, AgentFailure,
             FailAgentRun, LookupAgentCancel, FireAgentCancel, LoseSession, worker
    <2>1. ASSUME BeginCall(r) \/ BeginRelayWait(r) \/ EndCall(r) \/ LoseSession(r)
          PROVE  CancelInv(r)'
      <3>1. /\ UNCHANGED <<ctxDone, notify>>
            /\ \/ job'[r] = job[r]
               \/ \E waiting \in BOOLEAN : job'[r] = SetRelayWaiting(job[r], waiting)
        BY <2>1 DEF BeginCall, BeginRelayWait, EndCall, LoseSession, Store
      <3>2. job'[r].cancelled => job[r].cancelled
        BY <1>j, <3>1, OutsideWrites
      <3> QED BY <1>d, <2>0, <3>1, <3>2 DEF CancelInv, Firing
    <2>2. ASSUME AgentDeclined(r) PROVE CancelInv(r)'
      BY <1>d, <2>0, <2>2 DEF AgentDeclined, CancelInv, Firing
    <2>3. ASSUME FailAgentRun(r) PROVE CancelInv(r)'
      <3>1. CASE Terminal(job[r])
        BY <1>d, <2>0, <2>3, <3>1 DEF FailAgentRun, FailIfActive, Store, CancelInv, Firing
      <3>2. CASE ~Terminal(job[r])
        BY <2>3, <3>2 DEF FailAgentRun, CancelInv, Firing
      <3> QED BY <3>1, <3>2
    <2>4. ASSUME LookupAgentCancel(r) PROVE CancelInv(r)'
      <3>1. CASE r \in runCancels
        BY <2>4, <3>1 DEF LookupAgentCancel, CancelInv, Firing
      <3>2. CASE r \notin runCancels
        <4>1. Started(r)
          BY <2>4 DEF LookupAgentCancel, ResourceInv
        <4> QED BY <2>0, <3>2, <4>1, NoCancelFunction DEF CancelInv
      <3> QED BY <3>1, <3>2
    <2>5. ASSUME FireAgentCancel(r) PROVE CancelInv(r)'
      BY <2>5 DEF FireAgentCancel, CancelInv
    <2> QED BY <1>4, <2>1, <2>2, <2>3, <2>4, <2>5 DEF Broker, AgentFailure
  <1> QED BY <1>1, <1>2, <1>3, <1>4

\* A DELETE that cancels a job is about to fire, and it stops only having fired.
LEMMA CancelDelete ==
    ASSUME TypeOK, VerdictInv, NEW d \in Deleters, DeleteRead(d) \/ Delete(d),
           NEW q \in Runs, CancelInv(q)
    PROVE  CancelInv(q)'
  <1> USE DEF TypeOK
  <1>1. /\ UNCHANGED <<pc, notify>> /\ \A e \in Deleters : e # d => del'[e] = del[e]
    BY DeleteTouches
  <1>2. del[d] \in DelType
    OBVIOUS
  <1>3. ASSUME del[d].pc # "fire", job' = job, ctxDone' = ctxDone
        PROVE  CancelInv(q)'
    BY <1>1, <1>3 DEF CancelInv, Firing
  <1>4. CASE DeleteRead(d) \/ DeleteLookup(d) \/ DeleteReread(d)
    <2>1. del[d].pc # "fire" /\ job' = job /\ ctxDone' = ctxDone
      BY <1>4 DEF DeleteRead, DeleteLookup, DeleteReread
    <2> QED BY <1>3, <2>1
  <1>5. CASE DeleteTransition(d)
    <2>1. CASE Terminal(job[del[d].run])
      BY <1>3, <1>5, <2>1 DEF DeleteTransition
    <2>2. CASE ~Terminal(job[del[d].run])
      <3>1. CASE q = del[d].run
        <4>1. del'[d].run = q /\ del'[d].pc = "fire"
          BY <1>2, <1>5, <2>2, <3>1 DEF DeleteTransition, DeleteTo, DelType
        <4> QED BY <4>1 DEF CancelInv, Firing
      <3>2. CASE q # del[d].run
        <4>1. job'[q] = job[q] /\ ctxDone' = ctxDone /\ del[d].pc = "transition"
          BY <1>5, <2>2, <3>2 DEF DeleteTransition, Store
        <4> QED BY <1>1, <4>1 DEF CancelInv, Firing
      <3> QED BY <3>1, <3>2
    <2> QED BY <2>1, <2>2
  <1>6. CASE DeleteFire(d)
    <2>1. job' = job /\ ctxDone' = ctxDone \cup {del[d].run}
      BY <1>6 DEF DeleteFire
    <2>2. CASE q = del[d].run
      BY <2>1, <2>2 DEF CancelInv
    <2>3. CASE q # del[d].run
      BY <1>1, <2>1, <2>3 DEF CancelInv, Firing
    <2> QED BY <2>2, <2>3
  <1> QED BY <1>4, <1>5, <1>6 DEF Delete

\* Every sticky verdict is on its way, has arrived or comes too late, in every
\* reachable state.
LEMMA CancelsHold == Spec => [](\A r \in Runs : CancelInv(r))
  <1> DEFINE Held == \A r \in Runs : ResourceInv(r)
             Inv == \A r \in Runs : CancelInv(r)
  <1>1. TypeOK /\ VerdictInv /\ Held /\ Inv /\ [Next]_vars => Inv'
    <2>1. CASE UNCHANGED vars
      BY <2>1 DEF vars, CancelInv, Firing
    <2>2. ASSUME TypeOK, VerdictInv, Held, Inv, NEW r \in Runs,
                 Submit(r) \/ BodyStep(r) \/ Unwind(r) \/ Broker(r)
          PROVE  Inv'
      BY <2>2, OthersUntouched, CancelFrame, CancelStep
    <2>3. ASSUME TypeOK, VerdictInv, Held, Inv, NEW d \in Deleters, DeleteRead(d) \/ Delete(d)
          PROVE  Inv'
      BY <2>3, CancelDelete
    <2> QED BY <2>1, <2>2, <2>3, NextCases
  <1>2. Init => Inv
    <2>1. ASSUME Init, NEW r \in Runs PROVE job[r] = NewJob
      BY <2>1 DEF Init
    <2>2. ~NewJob.cancelled
      BY DEF NewJob
    <2> QED BY <2>1, <2>2 DEF CancelInv
  <1>3. Spec => []Held
    BY ResourcesHold
  <1> HIDE DEF Held, Inv
  <1>4. Spec => []Inv
    BY <1>1, <1>2, <1>3, TypeCorrect, VerdictInvariant, PTL DEF Spec
  <1> QED BY <1>4 DEF Inv

\* A sticky verdict reaches the worker: once nobody is about to fire the cancel function,
\* the context is cancelled or the worker has unregistered, for any number of DELETEs.
THEOREM CancellationArrives == Spec => []CancelReachesWorker
  <1> DEFINE Inv == \A r \in Runs : CancelInv(r)
  <1>1. TypeOK /\ Inv => CancelReachesWorker
    BY DEF TypeOK, CancelInv, Firing, CancelReachesWorker
  <1> HIDE DEF Inv
  <1>2. Spec => []Inv
    BY CancelsHold DEF Inv
  <1> QED BY <1>1, <1>2, TypeCorrect, PTL

\* A 409 meets a worker that has not unregistered yet: a job found active after its
\* cancel function was missing is one whose worker has yet to start.
THEOREM ConflictsAreEarly == Spec => ConflictOnlyBeforeStart
  <1>1. ASSUME TypeOK, VerdictInv, Next, NEW d \in Deleters, del'[d].code = 409,
               del[d].code # 409
        PROVE  pc[del[d].run] \notin {"releaseSlot", "exited"}
    <2>1. del' # del
      BY <1>1
    <2>2. PICK e \in Deleters : DeleteRead(e) \/ Delete(e)
      BY <1>1, <2>1, NextCases, OthersUntouched
    <2>3. e = d
      BY <1>1, <2>2, DeleteTouches
    <2>4. del[d] \in DelType /\ del[d].run \in Runs
      BY <1>1 DEF TypeOK, DelType
    <2>5. DeleteReread(d)
      <3>1. CASE DeleteRead(d)
        <4>1. PICK q \in Runs : del'[d] =
                  IF q \notin stored THEN [pc |-> "replied", run |-> q, code |-> 404]
                  ELSE IF Terminal(job[q]) THEN [pc |-> "replied", run |-> q, code |-> 200]
                  ELSE [pc |-> "lookup", run |-> q, code |-> 0]
          BY <1>1, <3>1 DEF DeleteRead, TypeOK
        <4> QED BY <1>1, <4>1
      <3>2. CASE DeleteLookup(d) \/ DeleteTransition(d) \/ DeleteFire(d)
        <4>1. del'[d].code \in {del[d].code, 200, 202}
          BY <1>1, <2>4, <3>2 DEF TypeOK, DelType, DeleteLookup, DeleteTransition, DeleteFire,
                 DeleteTo, Reply
        <4> QED BY <1>1, <4>1
      <3> QED BY <2>2, <2>3, <3>1, <3>2 DEF Delete
    <2>6. ~Terminal(job[del[d].run])
      BY <1>1, <2>4, <2>5 DEF DeleteReread, Reply, TypeOK, DelType
    <2>7. RunInv(del[d].run)
      BY <1>1, <2>4 DEF VerdictInv
    <2> QED BY <2>6, <2>7 DEF RunInv, UnwindPC, PanicPC
  <1>2. TypeOK /\ VerdictInv /\ [Next]_vars =>
          [\A d \in Deleters :
              del'[d].code = 409 /\ del[d].code # 409
                  => pc[del[d].run] \notin {"releaseSlot", "exited"}]_vars
    BY <1>1
  <1> QED BY <1>2, TypeCorrect, VerdictInvariant, PTL DEF Spec, ConflictOnlyBeforeStart

-----------------------------------------------------------------------------
(* What the steps of the pipeline write.                                   *)

\* A step that tells the poller nothing.
Quiet(r) ==
    /\ \/ \E from \in EarlyPC, to \in EarlyPC \cup {"batch"} : Go(r, from, to)
       \/ Go(r, "endPhase", "relayResult")
    /\ UNCHANGED <<job, work>>

\* A step that announces the stage it enters, the cases of a batch apart.
Announces(r) ==
    /\ \E done \in Nat :
          \/ Go(r, "start", "building") /\ Store(r, SetStage(job[r], "building", done))
          \/ /\ Go(r, "start", "generating") \/ Go(r, "building", "generating")
             /\ Store(r, SetStage(job[r], "generating", done))
          \/ Go(r, "batch", "seeding") /\ Store(r, SetStage(job[r], "seeding", done))
          \/ Go(r, "relayResult", "scoring") /\ Store(r, SetStage(job[r], "scoring", done))
    /\ UNCHANGED work

\* A step that fails the job and starts the deferred calls.
Fails(r) ==
    /\ \E from \in BodyPC : Go(r, from, "stopTools")
    /\ \E failure \in FailureClass : Store(r, FailWith(job[r], "failed", failure))
    /\ UNCHANGED work

\* A step that leaves the job to whoever cancelled the context.
LeavesToCanceller(r) ==
    /\ \E from \in BodyPC : Go(r, from, "stopTools")
    /\ r \in ctxDone
    /\ UNCHANGED <<job, work>>

BodyMove(r) ==
    \/ Quiet(r) \/ Announces(r) \/ Fails(r) \/ LeavesToCanceller(r) \/ Panic(r)
    \/ BeginCases(r) \/ StartCase(r) \/ FinishCase(r) \/ CasePanics(r) \/ EndBatch(r)
    \/ AttachTranscript(r) \/ Publish(r)

\* Every step of the pipeline is one of these.
LEMMA PipelineMoves ==
    ASSUME TypeOK, NEW r \in Runs, Pipeline(r) \/ CasePanics(r) \/ Panic(r)
    PROVE  BodyMove(r)
  <1>1. /\ EarlyPC \subseteq BodyPC
        /\ {"start", "building", "seeding", "relayResult"} \subseteq BodyPC
        /\ {"nil", "infra", "agent"} \subseteq FailureClass
        /\ Progress(r) \in Nat /\ 0 \in Nat
    BY ProgressType DEF EarlyPC, BodyPC, FailureClass
  <1>2. ASSUME NEW from \in BodyPC, NEW f \in FailureClass, UNCHANGED work,
               Abort(r, from, f) \/ AbortUnlessCancelled(r, from, f)
        PROVE  Fails(r) \/ LeavesToCanceller(r)
    <2>1. CASE Abort(r, from, f)
      BY <1>2, <2>1 DEF Abort, Fails
    <2>2. CASE AbortUnlessCancelled(r, from, f)
      BY <1>2, <2>2 DEF AbortUnlessCancelled, Fails, LeavesToCanceller, Store, TypeOK
    <2> QED BY <1>2, <2>1, <2>2
  <1>3. ASSUME NEW from \in EarlyPC, NEW to \in EarlyPC \cup {"batch"}, Go(r, from, to),
               UNCHANGED <<job, work>>
        PROVE  Quiet(r)
    BY <1>3 DEF Quiet
  <1>4. CASE BeginBuild(r) \/ EndBuild(r) \/ BeginSeed(r) \/ SeedFails(r)
    <2>1. \/ Announces(r)
          \/ /\ work' = work
             /\ \E from \in BodyPC, f \in FailureClass : Abort(r, from, f)
      BY <1>1, <1>4 DEF BeginBuild, EndBuild, BeginSeed, SeedFails, Announces
    <2> QED BY <1>2, <2>1 DEF BodyMove
  <1>5. CASE \/ Generate(r) \/ StartContainer(r) \/ BindSource(r) \/ WaitHealthy(r)
             \/ AdmitEmbedding(r) \/ RelayRunStart(r) \/ ProbeRoute(r) \/ RestartContainer(r)
             \/ ReplaceBoundSource(r) \/ WaitHealthyAgain(r) \/ ReprobeRoute(r)
             \/ StartToolServer(r)
    <2> USE DEF EarlyPC
    <2>1. \/ /\ \E from \in EarlyPC, to \in EarlyPC \cup {"batch"} : Go(r, from, to)
             /\ UNCHANGED <<job, work>>
          \/ /\ \E from \in BodyPC, f \in FailureClass :
                   Abort(r, from, f) \/ AbortUnlessCancelled(r, from, f)
             /\ UNCHANGED work
      <3>1. CASE Generate(r)
        BY <1>1, <3>1 DEF Generate
      <3>2. CASE StartContainer(r)
        BY <1>1, <3>2 DEF StartContainer, RunContainer
      <3>3. CASE BindSource(r)
        BY <1>1, <3>3 DEF BindSource
      <3>4. CASE WaitHealthy(r)
        BY <1>1, <3>4 DEF WaitHealthy
      <3>5. CASE AdmitEmbedding(r)
        BY <1>1, <3>5 DEF AdmitEmbedding
      <3>6. CASE RelayRunStart(r)
        BY <1>1, <3>6 DEF RelayRunStart
      <3>7. CASE ProbeRoute(r)
        BY <1>1, <3>7 DEF ProbeRoute
      <3>8. CASE RestartContainer(r)
        BY <1>1, <3>8 DEF RestartContainer, RunContainer
      <3>9. CASE ReplaceBoundSource(r) \/ WaitHealthyAgain(r)
        BY <1>1, <3>9 DEF ReplaceBoundSource, WaitHealthyAgain
      <3>10. CASE ReprobeRoute(r)
        BY <1>1, <3>10 DEF ReprobeRoute
      <3>11. CASE StartToolServer(r)
        BY <1>1, <3>11 DEF StartToolServer
      <3> QED BY <1>5, <3>1, <3>2, <3>3, <3>4, <3>5, <3>6, <3>7, <3>8, <3>9, <3>10, <3>11
    <2> QED BY <1>2, <1>3, <2>1 DEF BodyMove
  <1>6. CASE EndEmbeddingPhase(r)
    BY <1>6 DEF EndEmbeddingPhase, Quiet, BodyMove, outside
  <1>7. CASE RelayRunResult(r)
    <2>1. \/ Announces(r)
          \/ /\ \E from \in BodyPC, f \in FailureClass :
                   Abort(r, from, f) \/ AbortUnlessCancelled(r, from, f)
             /\ UNCHANGED work
      BY <1>1, <1>7 DEF RelayRunResult, Announces
    <2> QED BY <1>2, <2>1 DEF BodyMove
  <1> QED BY <1>4, <1>5, <1>6, <1>7 DEF Pipeline, BodyMove

\* The cases of a step, the pipeline in detail.
LEMMA NextMoves ==
    ASSUME TypeOK, Next
    PROVE  \/ \E r \in Runs : Submit(r) \/ (BodyStep(r) /\ BodyMove(r)) \/ Unwind(r) \/ Broker(r)
           \/ \E d \in Deleters : DeleteRead(d) \/ Delete(d)
  BY PipelineShape, PipelineMoves DEF Next, Worker, Broker

\* What the worker's writes show of an active job and what they keep of any.
LEMMA WorkerWrites ==
    ASSUME NEW j \in JobType
    PROVE  /\ \A s \in Stages, done \in Nat :
                 LET k == SetStage(j, s, done)
                 IN  /\ j.cancelled \/ Shown(k) = s
                     /\ j.cancelled \/ (k.status = Waiting <=> j.status = Waiting)
                     /\ k.failure = j.failure /\ k.partial = j.partial /\ k.report = j.report
                     /\ k.status \in {"done", "failed"} => j.cancelled
           /\ LET k == SetTranscript(j)
              IN  /\ k.status = j.status /\ Shown(k) = Shown(j) /\ k.failure = j.failure
                  /\ k.partial = j.partial /\ k.report = j.report
           /\ LET k == AppendPartial(j)
              IN  /\ k.status = j.status /\ Shown(k) = Shown(j) /\ k.failure = j.failure
                  /\ k.report = j.report
                  /\ j.cancelled \/ k.partial = j.partial + 1
           /\ LET k == Finish(j)
              IN  /\ k.failure = j.failure /\ k.partial = j.partial
                  /\ j.cancelled \/ (k.status = "done" /\ k.report)
           /\ \A e, f :
                 LET k == FailWith(j, e, f)
                 IN  k.partial = j.partial /\ (j.cancelled \/ k.failure = f)
  <1> USE DEF JobType, Shown
  <1>1. ASSUME NEW s \in Stages, NEW done \in Nat
        PROVE  LET k == SetStage(j, s, done)
               IN  /\ j.cancelled \/ Shown(k) = s
                   /\ j.cancelled \/ (k.status = Waiting <=> j.status = Waiting)
                   /\ k.failure = j.failure /\ k.partial = j.partial /\ k.report = j.report
                   /\ k.status \in {"done", "failed"} => j.cancelled
    <2>1. Waiting \notin Stages /\ s # Waiting /\ s \notin {"done", "failed"}
          /\ Waiting \notin {"done", "failed"}
      BY DEF Stages, Waiting
    <2> QED BY <2>1 DEF SetStage
  <1>2. LET k == SetTranscript(j)
        IN  /\ k.status = j.status /\ Shown(k) = Shown(j) /\ k.failure = j.failure
            /\ k.partial = j.partial /\ k.report = j.report
    BY DEF SetTranscript
  <1>3. LET k == AppendPartial(j)
        IN  /\ k.status = j.status /\ Shown(k) = Shown(j) /\ k.failure = j.failure
            /\ k.report = j.report
            /\ j.cancelled \/ k.partial = j.partial + 1
    <2> DEFINE n == j.partial + 1
    <2>1. AppendPartial(j) = IF j.cancelled THEN j ELSE [j EXCEPT !.partial = n, !.done = n]
      BY DEF AppendPartial
    <2> HIDE DEF n
    <2>2. LET k == AppendPartial(j)
          IN  /\ k.status = j.status /\ Shown(k) = Shown(j) /\ k.failure = j.failure
              /\ k.report = j.report /\ (j.cancelled \/ k.partial = n)
      BY <2>1
    <2> QED BY <2>2 DEF n
  <1>4. LET k == Finish(j)
        IN  /\ k.failure = j.failure /\ k.partial = j.partial
            /\ j.cancelled \/ (k.status = "done" /\ k.report)
    BY DEF Finish
  <1>5. ASSUME NEW e, NEW f
        PROVE  LET k == FailWith(j, e, f)
               IN  k.partial = j.partial /\ (j.cancelled \/ k.failure = f)
    BY DEF FailWith
  <1> QED BY <1>1, <1>2, <1>3, <1>4, <1>5

\* What the relay's pause and resume show of an active job, and what they keep of any.
LEMMA OutsideShows ==
    ASSUME NEW j \in JobType
    PROVE  /\ \A waiting \in BOOLEAN :
                 LET k == SetRelayWaiting(j, waiting)
                 IN  /\ k.failure = j.failure /\ k.partial = j.partial /\ k.report = j.report
                     /\ ~Terminal(j) /\ ~j.cancelled => (k.status = Waiting <=> waiting)
                     /\ ~Terminal(j) /\ Shown(j) \in Stages => Shown(k) = Shown(j)
  <1>1. Waiting \notin Stages /\ Waiting \notin TerminalStatus /\ "" \notin Stages
        /\ "running" \in Stages /\ TerminalStatus \cap Stages = {}
    BY DEF Stages, Waiting, TerminalStatus
  <1>2. LET k == SetRelayWaiting(j, TRUE)
        IN  /\ k.failure = j.failure /\ k.partial = j.partial /\ k.report = j.report
            /\ ~Terminal(j) /\ ~j.cancelled => k.status = Waiting
            /\ ~Terminal(j) /\ Shown(j) \in Stages => Shown(k) = Shown(j)
    BY <1>1 DEF SetRelayWaiting, PauseForRelay, Terminal, Shown, JobType
  <1>3. LET k == SetRelayWaiting(j, FALSE)
        IN  /\ k.failure = j.failure /\ k.partial = j.partial /\ k.report = j.report
            /\ ~Terminal(j) /\ ~j.cancelled => k.status # Waiting
            /\ ~Terminal(j) /\ Shown(j) \in Stages => Shown(k) = Shown(j)
    <2> DEFINE status == IF j.resumeStatus = "" THEN "running" ELSE j.resumeStatus
               stage  == IF j.resumeStage = "" THEN status ELSE j.resumeStage
    <2>1. j.resumeStatus \in Stages \cup {""}
      BY DEF JobType
    <2>2. status \in Stages /\ (j.resumeStatus \in Stages => status = j.resumeStatus)
      BY <1>1, <2>1
    <2>3. SetRelayWaiting(j, FALSE) =
             Unless(j, IF j.status # Waiting THEN j
                       ELSE [j EXCEPT !.status = status, !.stage = stage,
                                      !.resumeStatus = "", !.resumeStage = ""])
      BY DEF SetRelayWaiting, ResumeFromRelay
    <2> HIDE DEF status, stage
    <2> QED BY <1>1, <2>2, <2>3, ZenonT(60) DEF Shown, JobType
  <1> QED BY <1>2, <1>3

-----------------------------------------------------------------------------
(* The stage and the pause a poller sees.                                  *)

\* The announced stage as a function of the location and the batch.
StageAt(at, batch) ==
    CASE at \in {"created", "start"} -> "queued"
      [] at = "building" -> "building"
      [] at = "seeding" -> "seeding"
      [] at \in {"cases", "endPhase", "relayResult"} -> "running"
      [] at \in {"scoring", "transcript"} -> "scoring"
      [] at = "batch" /\ batch > 0 -> "running"
      [] OTHER -> "generating"

\* Its value at every location, which is a stage.
LEMMA StageAtLocation ==
    ASSUME NEW at, NEW batch
    PROVE  /\ StageAt("created", batch) = "queued" /\ StageAt("start", batch) = "queued"
           /\ StageAt("building", batch) = "building" /\ StageAt("seeding", batch) = "seeding"
           /\ StageAt("cases", batch) = "running" /\ StageAt("endPhase", batch) = "running"
           /\ StageAt("relayResult", batch) = "running"
           /\ StageAt("scoring", batch) = "scoring" /\ StageAt("transcript", batch) = "scoring"
           /\ at \in EarlyPC => StageAt(at, batch) = "generating"
           /\ batch > 0 => StageAt("batch", batch) = "running"
           /\ ~(batch > 0) => StageAt("batch", batch) = "generating"
           /\ StageAt(at, batch) \in Stages
  BY DEF StageAt, EarlyPC, Stages

\* A step of the pipeline announces the stage it enters, behind a pause too, and
\* neither begins nor ends a pause.
LEMMA ShowBody ==
    ASSUME TypeOK, VerdictInv, NEW r \in Runs, ShowInv(r), CaseInv(r), BodyStep(r), BodyMove(r)
    PROVE  ShowInv(r)'
  <1> USE DEF TypeOK
  <1> DEFINE j == job[r]
             k == job'[r]
             b == work[r].batch
  <1>j. j \in JobType
    OBVIOUS
  <1>pc. /\ EarlyPC \subseteq BodyPC /\ "created" \notin BodyPC /\ "stopTools" \notin BodyPC
         /\ {"start", "building", "batch", "seeding", "cases", "endPhase", "relayResult",
             "scoring", "transcript"} \subseteq BodyPC
         /\ {"building", "generating", "seeding", "running", "scoring"} \subseteq Stages
         /\ "batch" \notin EarlyPC
    BY DEF EarlyPC, BodyPC, Stages
  <1>b. b \in Nat /\ 0 \in Nat /\ Progress(r) \in Nat
    BY ProgressType DEF WorkType
  <1>1. pc[r] \in BodyPC /\ chat' = chat
    BY DEF BodyStep
  <1>2. Kept(r)
    BY BodyVerdict
  <1>3. /\ Terminal(j) => j.cancelled
        /\ j.cancelled => j.status = "failed"
    BY <1>1 DEF VerdictInv, RunInv
  <1> HIDE DEF TypeOK
  <1> SUFFICES ASSUME ~Terminal(k)
               PROVE  /\ pc'[r] \in BodyPC => Shown(k) = StageAt(pc'[r], work'[r].batch)
                      /\ k.status = Waiting <=> j.status = Waiting
    <2>1. ~Terminal(j) \/ Terminal(k)
      BY <1>2, <1>3 DEF Kept, Terminal, TerminalStatus
    <2>2. (~Terminal(job[r]))' <=> ~Terminal(k)
      BY DEF Terminal
    <2>3. ShowInv(r)' <=>
            /\ pc'[r] \in {"created"} \cup BodyPC /\ ~Terminal(k)
                  => Shown(k) = StageAt(pc'[r], work'[r].batch)
            /\ ~Terminal(k) => (k.status = Waiting <=> chat'[r].waiting > 0)
      BY DEF ShowInv, Shown, AnnouncedStage, StageAt, Terminal
    <2>4. ~Terminal(j) => (j.status = Waiting <=> chat[r].waiting > 0)
      BY DEF ShowInv
    <2>5. pc'[r] # "created"
      <3>1. pc'[r] \in BodyPC \cup {"stopTools"}
        BY DEF BodyStep, MovesOn, StartsUnwinding, TypeOK
      <3> QED BY <1>pc, <3>1
    <2> QED BY <1>1, <2>1, <2>2, <2>3, <2>4, <2>5
  <1>4. ~j.cancelled /\ ~Terminal(j)
    BY <1>2, <1>3 DEF Kept, Terminal, TerminalStatus
  <1>5. Shown(j) = StageAt(pc[r], b)
    BY <1>1, <1>4 DEF ShowInv, AnnouncedStage, StageAt
  <1> DEFINE Goal == /\ pc'[r] \in BodyPC => Shown(k) = StageAt(pc'[r], work'[r].batch)
                     /\ k.status = Waiting <=> j.status = Waiting
  <1>go. ASSUME NEW from, NEW to, Go(r, from, to) PROVE pc[r] = from /\ pc'[r] = to
    BY <1>go DEF Go, TypeOK
  <1>set. ASSUME NEW s \in Stages, NEW done \in Nat, Store(r, SetStage(j, s, done))
          PROVE  Shown(k) = s /\ (k.status = Waiting <=> j.status = Waiting)
    <2>1. k = SetStage(j, s, done)
      BY <1>set DEF Store, TypeOK
    <2> QED BY <1>j, <1>4, <2>1, WorkerWrites
  <1>6. CASE Quiet(r)
    <2>1. k = j /\ work' = work
      BY <1>6 DEF Quiet
    <2>2. CASE Go(r, "endPhase", "relayResult")
      BY <1>5, <1>go, <2>1, <2>2, StageAtLocation
    <2>3. ASSUME NEW from \in EarlyPC, NEW to \in EarlyPC \cup {"batch"}, Go(r, from, to)
          PROVE  Goal
      <3>1. pc[r] = from /\ pc'[r] = to
        BY <1>go, <2>3
      <3>2. b = 0
        BY <3>1 DEF CaseInv
      <3>3. StageAt(from, b) = "generating"
        BY StageAtLocation
      <3>4. StageAt(to, b) = "generating"
        BY <3>2, StageAtLocation
      <3> QED BY <1>5, <2>1, <3>1, <3>3, <3>4
    <2> QED BY <1>6, <2>2, <2>3 DEF Quiet
  <1>7. CASE Announces(r)
    <2>1. work' = work
      BY <1>7 DEF Announces
    <2>2. PICK done \in Nat :
            \/ Go(r, "start", "building") /\ Store(r, SetStage(job[r], "building", done))
            \/ /\ Go(r, "start", "generating") \/ Go(r, "building", "generating")
               /\ Store(r, SetStage(job[r], "generating", done))
            \/ Go(r, "batch", "seeding") /\ Store(r, SetStage(job[r], "seeding", done))
            \/ Go(r, "relayResult", "scoring") /\ Store(r, SetStage(job[r], "scoring", done))
      BY <1>7 DEF Announces
    <2>3. StageAt("generating", b) = "generating"
      BY StageAtLocation DEF EarlyPC
    <2>4. \E s \in {"building", "generating", "seeding", "scoring"} :
             /\ pc'[r] = s /\ Store(r, SetStage(j, s, done)) /\ StageAt(s, b) = s
      BY <1>go, <2>2, <2>3, StageAtLocation
    <2> HIDE DEF b, k, j
    <2> QED BY <1>pc, <1>set, <2>1, <2>4 DEF b
  <1>8. CASE Fails(r) \/ LeavesToCanceller(r) \/ Panic(r)
    <2>1. pc'[r] = "stopTools"
      BY <1>8, <1>go DEF Fails, LeavesToCanceller, Panic, TypeOK
    <2>2. k = j
      <3>1. k = j \/ \E f : k = FailWith(j, "failed", f)
        BY <1>8 DEF Fails, LeavesToCanceller, Panic, Store, TypeOK, outside
      <3>2. \A f : FailWith(j, "failed", f).status = "failed"
        BY <1>j, <1>4, FailWithKeeps
      <3> QED BY <3>1, <3>2 DEF Terminal, TerminalStatus
    <2> QED BY <1>pc, <2>1, <2>2
  <1>9. CASE BeginCases(r)
    <2>1. pc'[r] = "cases" /\ Store(r, SetStage(j, "running", Progress(r)))
      BY <1>9, <1>go DEF BeginCases
    <2>2. Shown(k) = "running" /\ (k.status = Waiting <=> j.status = Waiting)
      BY <1>pc, <1>b, <1>set, <2>1
    <2> QED BY <2>1, <2>2, StageAtLocation
  <1>10. CASE StartCase(r) \/ CasePanics(r)
    <2>1. pc[r] = "cases" /\ pc' = pc /\ k = j
      BY <1>10 DEF StartCase, CasePanics
    <2> QED BY <1>5, <2>1, StageAtLocation
  <1>11. CASE FinishCase(r)
    <2>1. pc[r] = "cases" /\ pc' = pc /\ k = AppendPartial(j)
      BY <1>11 DEF FinishCase, Store, TypeOK
    <2>2. Shown(k) = Shown(j) /\ k.status = j.status
      BY <1>j, <2>1, WorkerWrites
    <2> QED BY <1>5, <2>1, <2>2, StageAtLocation
  <1>12. CASE EndBatch(r)
    <2>1. k = j
      BY <1>12 DEF EndBatch
    <2>2. CASE r \in ctxDone
      BY <1>12, <1>pc, <1>go, <2>1, <2>2 DEF EndBatch
    <2>3. CASE r \notin ctxDone
      <3> DEFINE n == b + 1
      <3>1. /\ pc[r] = "cases" /\ pc'[r] \in {"endPhase", "batch"}
            /\ work' = [work EXCEPT ![r].batch = @ + 1]
        BY <1>12, <1>go, <2>3 DEF EndBatch
      <3>2. work'[r].batch = n
        BY <3>1 DEF TypeOK, WorkType
      <3>3. n > 0
        BY <1>b
      <3> HIDE DEF n
      <3>4. StageAt(pc'[r], n) = "running" /\ StageAt(pc[r], b) = "running"
        BY <3>1, <3>3, StageAtLocation
      <3> QED BY <1>5, <2>1, <3>2, <3>4
    <2> QED BY <2>2, <2>3
  <1>13. CASE AttachTranscript(r)
    <2>1. /\ pc[r] = "scoring" /\ pc'[r] = "transcript"
          /\ k = j \/ k = SetTranscript(j)
      BY <1>13, <1>go DEF AttachTranscript, Store, TypeOK
    <2>2. Shown(k) = Shown(j) /\ k.status = j.status
      BY <1>j, <2>1, WorkerWrites
    <2> QED BY <1>5, <2>1, <2>2, StageAtLocation
  <1>14. CASE Publish(r)
    <2>1. k = Finish(j)
      BY <1>14 DEF Publish, Store, TypeOK
    <2>2. k.status = "done"
      BY <1>j, <1>4, <2>1, WorkerWrites
    <2> QED BY <2>2 DEF Terminal, TerminalStatus
  <1> QED BY <1>6, <1>7, <1>8, <1>9, <1>10, <1>11, <1>12, <1>13, <1>14 DEF BodyMove

-----------------------------------------------------------------------------
(* The cases of a report.                                                  *)

\* The account at the end of a batch is the account at the start of the next.
LEMMA NextBatch == \A n, b \in Nat : n * (b + 1) = n * b + n
  OBVIOUS

\* The counters of a worker are numbers.
LEMMA WorkCounts ==
    ASSUME NEW v \in WorkType
    PROVE  /\ v.batch \in Nat /\ v.crashed \in Nat /\ v.inflight \in Int /\ v.started \in Int
           /\ v.batch + 1 \in Nat
  <1>1. /\ v.batch \in Nat /\ v.crashed \in Nat
        /\ v.inflight \in 0..CaseConcurrency /\ v.started \in 0..Cases
    BY DEF WorkType
  <1>2. v.inflight \in Int /\ v.started \in Int
    BY <1>1, RunLifecycleAssumption
  <1>3. v.batch + 1 \in Nat
    BY <1>1, NatStep, Zenon
  <1> QED BY <1>1, <1>2, <1>3

\* One case less in flight and one more accounted for, in two ways.
LEMMA CaseMoves ==
    ASSUME NEW p \in Int, NEW c \in Int, NEW f \in Int, NEW s \in Int
    PROVE  /\ p + c + (f + 1) - (s + 1) = p + c + f - s
           /\ (p + 1) + c + (f - 1) - s = p + c + f - s
           /\ p + (c + 1) + (f - 1) - s = p + c + f - s
  OBVIOUS

\* No case is lost or counted twice by a step of the pipeline, unless the job was
\* cancelled and its scores are dropped.
LEMMA CaseBody ==
    ASSUME TypeOK, VerdictInv, NEW r \in Runs, CaseInv(r), BodyStep(r), BodyMove(r)
    PROVE  CaseInv(r)'
  <1> USE DEF TypeOK
  <1> DEFINE j == job[r]
             k == job'[r]
             w == work[r]
             u == work'[r]
  <1>j. /\ j \in JobType /\ j.partial \in Nat
        /\ w \in WorkType /\ w.batch \in Nat /\ w.crashed \in Nat /\ w.inflight \in Int
        /\ w.started \in Int
    <2>1. j \in JobType /\ j.partial \in Nat /\ w \in WorkType
      BY DEF JobType
    <2> QED BY <2>1, WorkCounts
  <1>c. Cases \in Nat /\ Batches \in Nat \ {0} /\ Total = Cases * Batches /\ Cases * 0 = 0
        /\ Cases * w.batch \in Nat
    BY <1>j, RunLifecycleAssumption DEF Total
  <1>pc. /\ "stopTools" \notin HandlerPC \cup {"start", "building", "batch", "seeding", "cases"}
                                \cup EarlyPC \cup LatePC
         /\ HandlerPC \cap BodyPC = {}
         /\ EarlyPC \cap ({"start", "building", "batch", "seeding", "cases"} \cup LatePC) = {}
         /\ LatePC \cap ({"start", "building", "batch", "seeding", "cases"} \cup HandlerPC) = {}
         /\ HandlerPC \cap {"batch", "seeding", "cases"} = {}
         /\ EarlyPC \subseteq BodyPC
         /\ {"building", "generating", "seeding", "running", "scoring"} \subseteq Stages
         /\ LatePC = {"endPhase", "relayResult", "scoring", "transcript"} /\ "generating" \in EarlyPC
    BY DEF HandlerPC, BodyPC, EarlyPC, LatePC, Stages
  <1>1. pc[r] \in BodyPC
    BY DEF BodyStep
  <1>2. Kept(r)
    BY BodyVerdict
  <1>3. /\ Terminal(j) => j.cancelled
        /\ j.cancelled => j.status = "failed"
    BY <1>1 DEF VerdictInv, RunInv
  <1>4. j.status # "done"
    BY <1>3 DEF Terminal, TerminalStatus
  <1>5. k.cancelled = j.cancelled
    BY DEF BodyStep, MovesOn, StartsUnwinding, Progressing, Ending
  <1>6. k.status = "done" => StartsUnwinding(r)
    BY <1>3, <1>4 DEF BodyStep, MovesOn, Progressing, Terminal, TerminalStatus
  <1> HIDE DEF TypeOK
  <1>go. ASSUME NEW from, NEW to, Go(r, from, to) PROVE pc[r] = from /\ pc'[r] = to
    BY <1>go DEF Go, TypeOK
  <1>set. ASSUME NEW s \in Stages, NEW done \in Nat, Store(r, SetStage(j, s, done))
          PROVE  k.partial = j.partial
    <2>1. k = SetStage(j, s, done)
      BY <1>set DEF Store, TypeOK
    <2> QED BY <1>j, <2>1, WorkerWrites
  <1>w. ASSUME work' = work PROVE u = w
    BY <1>w
  <1>off. ASSUME pc'[r] = "stopTools", k.status # "done" PROVE CaseInv(r)'
    BY <1>off, <1>pc DEF CaseInv
  <1>on. pc'[r] # "stopTools" => k.status # "done"
    <2>1. StartsUnwinding(r) => pc'[r] = "stopTools"
      BY DEF StartsUnwinding, TypeOK
    <2> QED BY <1>6, <2>1
  <1>7. CASE Quiet(r)
    <2>1. k = j /\ u = w
      BY <1>7, <1>w DEF Quiet
    <2>2. CASE Go(r, "endPhase", "relayResult")
      <3>1. pc[r] = "endPhase" /\ pc'[r] = "relayResult"
        BY <1>go, <2>2
      <3> QED BY <1>pc, <1>4, <2>1, <3>1 DEF CaseInv, Total
    <2>3. ASSUME NEW from \in EarlyPC, NEW to \in EarlyPC \cup {"batch"}, Go(r, from, to)
          PROVE  CaseInv(r)'
      <3>1. pc[r] = from /\ pc'[r] = to
        BY <1>go, <2>3
      <3>2. w.batch = 0 /\ w.inflight = 0 /\ w.crashed = 0 /\ j.partial = 0
        BY <3>1 DEF CaseInv
      <3>3. 0 < Batches /\ j.partial + w.crashed = Cases * w.batch
        BY <1>c, <3>2
      <3> QED BY <1>pc, <1>4, <2>1, <3>1, <3>2, <3>3 DEF CaseInv
    <2> QED BY <1>7, <2>2, <2>3 DEF Quiet
  <1>8. CASE Announces(r)
    <2>1. u = w
      BY <1>8, <1>w DEF Announces
    <2>2. PICK done \in Nat :
            \/ Go(r, "start", "building") /\ Store(r, SetStage(job[r], "building", done))
            \/ /\ Go(r, "start", "generating") \/ Go(r, "building", "generating")
               /\ Store(r, SetStage(job[r], "generating", done))
            \/ Go(r, "batch", "seeding") /\ Store(r, SetStage(job[r], "seeding", done))
            \/ Go(r, "relayResult", "scoring") /\ Store(r, SetStage(job[r], "scoring", done))
      BY <1>8 DEF Announces
    <2>3. k.partial = j.partial
      BY <1>pc, <1>set, <2>2
    <2>4. \/ pc[r] \in {"start", "building"} /\ pc'[r] \in {"building", "generating"}
          \/ pc[r] = "batch" /\ pc'[r] = "seeding"
          \/ pc[r] = "relayResult" /\ pc'[r] = "scoring"
      BY <1>go, <2>2
    <2>5. k.status # "done"
      BY <1>on, <2>4
    <2> QED BY <1>pc, <1>5, <2>1, <2>3, <2>4, <2>5 DEF CaseInv, Total
  <1>9. CASE Fails(r) \/ LeavesToCanceller(r) \/ Panic(r)
    <2>1. pc'[r] = "stopTools"
      BY <1>9, <1>go DEF Fails, LeavesToCanceller, Panic, TypeOK
    <2>2. k.status # "done"
      <3>1. k = j \/ \E f : k = FailWith(j, "failed", f)
        BY <1>9 DEF Fails, LeavesToCanceller, Panic, Store, TypeOK, outside
      <3>2. \A f : FailWith(j, "failed", f) = j \/ FailWith(j, "failed", f).status = "failed"
        BY <1>j, FailWithKeeps
      <3> QED BY <1>4, <3>1, <3>2
    <2> QED BY <1>off, <2>1, <2>2
  <1>10. CASE BeginCases(r)
    <2>1. /\ pc[r] \in {"seeding", "batch"} /\ pc'[r] = "cases"
          /\ Store(r, SetStage(j, "running", Progress(r)))
      BY <1>10, <1>go DEF BeginCases
    <2>2. k.partial = j.partial
      BY <1>pc, <1>set, <2>1, ProgressType
    <2>3. u = [w EXCEPT !.started = 0]
      BY <1>10 DEF BeginCases, TypeOK
    <2>4. u.started = 0 /\ u.inflight = w.inflight /\ u.batch = w.batch /\ u.crashed = w.crashed
      BY <1>j, <2>3 DEF WorkType
    <2>5. /\ w.batch < Batches /\ w.inflight = 0
          /\ j.cancelled \/ j.partial + w.crashed = Cases * w.batch
      BY <2>1 DEF CaseInv
    <2>6. /\ u.batch < Batches
          /\ k.cancelled \/ k.partial + u.crashed + u.inflight = Cases * u.batch + u.started
      BY <1>j, <1>c, <1>5, <2>2, <2>4, <2>5
    <2>7. k.status # "done"
      BY <1>on, <2>1
    <2> QED BY <1>pc, <2>1, <2>6, <2>7 DEF CaseInv
  <1>11. CASE StartCase(r) \/ FinishCase(r) \/ CasePanics(r)
    <2>1. pc[r] = "cases" /\ pc'[r] = "cases"
      BY <1>11 DEF StartCase, FinishCase, CasePanics
    <2>2. /\ w.batch < Batches
          /\ \/ j.cancelled
             \/ j.partial + w.crashed + w.inflight = Cases * w.batch + w.started
      BY <2>1 DEF CaseInv
    <2>3. /\ u.batch = w.batch
          /\ \/ j.cancelled
             \/ k.partial + u.crashed + u.inflight - u.started
                    = j.partial + w.crashed + w.inflight - w.started
      <3>1. CASE StartCase(r)
        <4> DEFINE m == w.started + 1
                   n == w.inflight + 1
        <4>1. u = [w EXCEPT !.started = m, !.inflight = n]
          BY <3>1 DEF StartCase, TypeOK
        <4> HIDE DEF m, n
        <4>2. u.started = m /\ u.inflight = n /\ u.batch = w.batch /\ u.crashed = w.crashed
          BY <1>j, <4>1 DEF WorkType
        <4>3. k = j
          BY <3>1 DEF StartCase
        <4> HIDE DEF j, k, u, w
        <4> QED BY <1>j, <4>2, <4>3, CaseMoves DEF m, n
      <3>2. CASE FinishCase(r)
        <4> DEFINE n == w.inflight - 1
        <4>1. u = [w EXCEPT !.inflight = n] /\ k = AppendPartial(j)
          BY <3>2 DEF FinishCase, Store, TypeOK
        <4> HIDE DEF n
        <4>2. /\ u.started = w.started /\ u.inflight = n /\ u.batch = w.batch
              /\ u.crashed = w.crashed
          BY <1>j, <4>1 DEF WorkType
        <4>3. j.cancelled \/ k.partial = j.partial + 1
          BY <1>j, <4>1, WorkerWrites
        <4> HIDE DEF j, k, u, w
        <4> QED BY <1>j, <4>2, <4>3, CaseMoves DEF n
      <3>3. CASE CasePanics(r)
        <4> DEFINE m == w.crashed + 1
                   n == w.inflight - 1
        <4>1. u = [w EXCEPT !.inflight = n, !.crashed = m]
          BY <3>3 DEF CasePanics, TypeOK
        <4> HIDE DEF m, n
        <4>2. u.started = w.started /\ u.inflight = n /\ u.batch = w.batch /\ u.crashed = m
          BY <1>j, <4>1 DEF WorkType
        <4>3. k = j
          BY <3>3 DEF CasePanics
        <4> HIDE DEF j, k, u, w
        <4> QED BY <1>j, <4>2, <4>3, CaseMoves DEF m, n
      <3> QED BY <1>11, <3>1, <3>2, <3>3
    <2>4. u \in WorkType /\ k \in JobType
      BY BodyType DEF TypeOK
    <2>5. k.partial \in Nat /\ u.crashed \in Nat /\ u.inflight \in Int /\ u.started \in Int
      <3>1. k.partial \in Nat
        BY <2>4 DEF JobType
      <3> QED BY <2>4, <3>1, WorkCounts
    <2>6. k.cancelled \/ k.partial + u.crashed + u.inflight = Cases * u.batch + u.started
      <3>1. CASE j.cancelled
        BY <1>5, <3>1
      <3>2. CASE ~j.cancelled
        <4> DEFINE a == Cases * w.batch
        <4>1. a \in Nat /\ j.partial + w.crashed + w.inflight = a + w.started
          BY <1>c, <2>2, <3>2
        <4>2. k.partial + u.crashed + u.inflight - u.started
                    = j.partial + w.crashed + w.inflight - w.started
          BY <2>3, <3>2
        <4>3. a = Cases * u.batch
          BY <2>3
        <4> HIDE DEF a, j, k, u, w
        <4> QED BY <1>j, <2>5, <4>1, <4>2, <4>3
      <3> QED BY <3>1, <3>2
    <2>7. k.status # "done"
      BY <1>on, <2>1
    <2> QED BY <1>pc, <2>1, <2>2, <2>3, <2>6, <2>7 DEF CaseInv
  <1>12. CASE EndBatch(r)
    <2>1. k = j /\ pc[r] = "cases" /\ w.inflight = 0
      BY <1>12, <1>go DEF EndBatch, BatchReturned
    <2>2. CASE r \in ctxDone
      BY <1>12, <1>4, <1>go, <1>off, <2>1, <2>2 DEF EndBatch
    <2>3. CASE r \notin ctxDone
      <3> DEFINE n == w.batch + 1
      <3>1. /\ w.started = Cases
            /\ pc'[r] = IF n = Batches THEN "endPhase" ELSE "batch"
            /\ u = [w EXCEPT !.batch = n]
        BY <1>12, <1>go, <2>3 DEF EndBatch, BatchReturned, TypeOK
      <3>2. /\ w.batch < Batches
            /\ j.cancelled \/ j.partial + w.crashed + w.inflight = Cases * w.batch + w.started
        BY <2>1 DEF CaseInv
      <3>3. n \in Nat /\ (n = Batches \/ n < Batches) /\ Cases * n = Cases * w.batch + Cases
        <4>1. n \in Nat
          BY <1>j, WorkCounts
        <4>2. \A b, m \in Nat : b < m => b + 1 = m \/ b + 1 < m
          OBVIOUS
        <4>3. n = Batches \/ n < Batches
          BY <1>j, <1>c, <3>2, <4>2
        <4>4. Cases * n = Cases * w.batch + Cases
          BY <1>j, <1>c, NextBatch, Zenon
        <4> QED BY <4>1, <4>3, <4>4
      <3>4. j.cancelled \/ j.partial + w.crashed = Cases * n
        <4> DEFINE a == Cases * w.batch
        <4>1. a \in Nat
          BY <1>c
        <4>2. Cases * n = a + Cases
          BY <3>3
        <4>3. j.cancelled \/ j.partial + w.crashed + 0 = a + Cases
          BY <2>1, <3>1, <3>2
        <4> HIDE DEF a, n
        <4> QED BY <1>j, <1>c, <4>1, <4>2, <4>3
      <3> HIDE DEF n
      <3>5. u.batch = n /\ u.inflight = w.inflight /\ u.crashed = w.crashed
        BY <1>j, <3>1 DEF WorkType
      <3> QED BY <1>pc, <1>c, <1>4, <2>1, <3>1, <3>3, <3>4, <3>5 DEF CaseInv
    <2> QED BY <2>2, <2>3
  <1>13. CASE AttachTranscript(r)
    <2>1. /\ pc[r] = "scoring" /\ pc'[r] = "transcript" /\ u = w
          /\ k = j \/ k = SetTranscript(j)
      BY <1>13, <1>go DEF AttachTranscript, Store, TypeOK
    <2>2. k.partial = j.partial
      BY <1>j, <2>1, WorkerWrites
    <2>3. k.status # "done"
      BY <1>on, <2>1
    <2> QED BY <1>pc, <1>5, <2>1, <2>2, <2>3 DEF CaseInv, Total
  <1>14. CASE Publish(r)
    <2>1. pc[r] = "transcript" /\ pc'[r] = "stopTools" /\ u = w /\ k = Finish(j)
      BY <1>14, <1>go DEF Publish, Store, TypeOK
    <2>2. k.partial = j.partial /\ (j.cancelled \/ (k.status = "done" /\ k.report))
      BY <1>j, <2>1, WorkerWrites
    <2>3. w.batch = Batches /\ w.inflight = 0 /\ (j.cancelled \/ j.partial + w.crashed = Total)
      BY <1>pc, <2>1 DEF CaseInv
    <2>4. CASE j.cancelled
      <3>1. k.status # "done"
        BY <1>3, <2>4, <1>2 DEF Kept
      <3> QED BY <1>off, <2>1, <3>1
    <2>5. CASE ~j.cancelled
      BY <1>pc, <2>1, <2>2, <2>3, <2>5 DEF CaseInv, Total
    <2> QED BY <2>4, <2>5
  <1> QED BY <1>7, <1>8, <1>9, <1>10, <1>11, <1>12, <1>13, <1>14 DEF BodyMove

-----------------------------------------------------------------------------
(* What a write may do to a verdict: nothing, publish, fail, or reclassify *)
(* an unsettled failure.                                                   *)

ContractWrite(j, k) ==
    \/ /\ k.failure = j.failure /\ k.cancelled = j.cancelled
       /\ Terminal(k) <=> Terminal(j)
       /\ Terminal(j) => k.status = j.status
    \/ ~Terminal(j) /\ k.status = "done" /\ k.failure = j.failure /\ k.cancelled = j.cancelled
    \/ ~Terminal(j) /\ k.status = "failed" /\ (j.cancelled => k.cancelled)
    \/ /\ j.status = "failed" /\ k.status = "failed"
       /\ ~j.cancelled /\ ~k.cancelled
       /\ j.failure = "nil" \/ k.failure = "resource"

\* What the steps of a run owe its job, besides the verdict's own invariant.
Accounted(r) == ShowInv(r)' /\ FailureInv(r)' /\ CaseInv(r)' /\ ContractWrite(job[r], job'[r])

\* A run none of whose variables moves is owed nothing more.
LEMMA AccountedFrame ==
    ASSUME NEW q, ShowInv(q), FailureInv(q), CaseInv(q), Untouched(q)
    PROVE  Accounted(q)
  BY DEF Accounted, ShowInv, FailureInv, CaseInv, Untouched, ContractWrite, Terminal,
         AnnouncedStage, Shown

\* Before the first request every job is new and every account is empty.
LEMMA InitAccounted == Init => \A r \in Runs : ShowInv(r) /\ FailureInv(r) /\ CaseInv(r)
  <1> SUFFICES ASSUME Init, NEW r \in Runs PROVE ShowInv(r) /\ FailureInv(r) /\ CaseInv(r)
    OBVIOUS
  <1>1. pc[r] = "idle" /\ job[r] = NewJob /\ chat[r].waiting = 0
    BY DEF Init
  <1>2. ~work[r].panicked /\ work[r].batch = 0 /\ work[r].inflight = 0 /\ work[r].crashed = 0
    <2>1. PICK q \in Requests :
            work[r] = [req |-> q, batch |-> 0, started |-> 0, inflight |-> 0,
                       crashed |-> 0, panicked |-> FALSE, seen |-> Verdict(NewJob),
                       evidence |-> FALSE]
      BY DEF Init
    <2> QED BY <2>1
  <1>3. "idle" \notin {"created", "batch", "seeding", "cases", "attach"} \cup BodyPC \cup LatePC
    BY DEF BodyPC, LatePC
  <1>4. /\ NewJob.failure = "nil" /\ NewJob.partial = 0 /\ NewJob.status \notin {"done", Waiting}
    BY DEF NewJob, Waiting
  <1> QED BY <1>1, <1>2, <1>3, <1>4 DEF ShowInv, FailureInv, CaseInv

\* A submission stores a new job, which nobody has seen yet.
LEMMA SubmitAccounted ==
    ASSUME TypeOK, VerdictInv, NEW r \in Runs, ShowInv(r), FailureInv(r), CaseInv(r), Submit(r)
    PROVE  Accounted(r) /\ job' = job
  <1> USE DEF TypeOK
  <1>1. RunInv(r)
    BY DEF VerdictInv
  <1>pc. /\ {"slot", "claimed", "created", "rejected", "idle"} = HandlerPC
         /\ HandlerPC \cap ({"attach", "batch", "seeding", "cases", "start"} \cup LatePC \cup EarlyPC
                              \cup UnwindPC \cup BodyPC \cup {"exited"}) = {}
         /\ "start" \in BodyPC /\ "start" \notin PanicPC \cup EarlyPC \cup LatePC
         /\ PanicPC \subseteq UnwindPC
    BY DEF HandlerPC, BodyPC, UnwindPC, PanicPC, LatePC, EarlyPC
  <1>2. /\ pc[r] \in HandlerPC /\ pc'[r] \in (HandlerPC \ {"created"}) \cup {"created", "start"}
        /\ UNCHANGED <<chat, work>>
        /\ pc'[r] = "created" => pc[r] = "claimed" /\ job' = [job EXCEPT ![r] = NewJob]
        /\ pc'[r] = "start" => pc[r] = "created"
        /\ pc'[r] # "created" => job' = job
    BY <1>pc DEF Submit, AcquireSlot, ClaimSession, CreateJob, StartWorker, Go, Store
  <1>3. job' = job
    <2>1. CASE pc'[r] = "created"
      <3>1. r \notin stored /\ job[r] = NewJob
        BY <1>1, <1>2, <1>pc, <2>1 DEF RunInv
      <3> QED BY <1>2, <2>1, <3>1
    <2> QED BY <1>2, <2>1
  <1>4. pc'[r] = "created" => Shown(job[r]) = "queued"
    <2>1. CASE pc'[r] = "created"
      <3>1. r \notin stored /\ job[r] = NewJob
        BY <1>1, <1>2, <1>pc, <2>1 DEF RunInv
      <3>2. NewJob.status = "queued" /\ Waiting # "queued"
        BY DEF NewJob, Waiting
      <3> QED BY <3>1, <3>2 DEF Shown
    <2> QED BY <2>1
  <1>5. pc'[r] = "start" /\ ~Terminal(job[r]) => Shown(job[r]) = "queued"
    BY <1>2, StageAtLocation DEF ShowInv, AnnouncedStage, StageAt
  <1>6. (~Terminal(job[r]))' <=> ~Terminal(job[r])
    BY <1>3 DEF Terminal
  <1>7. ShowInv(r)'
    <2>1. pc'[r] \in {"created"} \cup BodyPC => pc'[r] \in {"created", "start"}
      BY <1>2, <1>pc
    <2>2. pc'[r] \in {"created", "start"} => AnnouncedStage(r)' = "queued"
      BY DEF AnnouncedStage
    <2>3. (Shown(job[r]))' = Shown(job[r])
      BY <1>3 DEF Shown
    <2> QED BY <1>2, <1>3, <1>4, <1>5, <1>6, <2>1, <2>2, <2>3 DEF ShowInv
  <1>8. FailureInv(r)'
    BY <1>2, <1>3, <1>6, <1>pc DEF FailureInv
  <1>9. CaseInv(r)'
    BY <1>2, <1>3, <1>pc DEF CaseInv
  <1>10. ContractWrite(job[r], job'[r])
    BY <1>3 DEF ContractWrite
  <1> QED BY <1>3, <1>7, <1>8, <1>9, <1>10 DEF Accounted

\* The pipeline fails a job that carries no failure, and classifies nothing else.
LEMMA BodyAccounted ==
    ASSUME TypeOK, VerdictInv, NEW r \in Runs, ShowInv(r), FailureInv(r), CaseInv(r),
           BodyStep(r), BodyMove(r)
    PROVE  Accounted(r)
  <1> USE DEF TypeOK
  <1> DEFINE j == job[r]
             k == job'[r]
  <1>j. j \in JobType
    OBVIOUS
  <1>1. pc[r] \in BodyPC
    BY DEF BodyStep
  <1>2. Kept(r)
    BY BodyVerdict
  <1>3. /\ Terminal(j) => j.cancelled
        /\ j.cancelled => j.status = "failed"
        /\ ~work[r].panicked
    BY <1>1 DEF VerdictInv, RunInv, BodyPC, UnwindPC
  <1>4. k.cancelled = j.cancelled
    BY DEF BodyStep, MovesOn, StartsUnwinding, Progressing, Ending
  <1>5. Terminal(j) => k = j
    BY <1>2, <1>3 DEF Kept
  <1>6. \/ k.failure = j.failure
        \/ k.status = "failed"
    <2>1. CASE Fails(r)
      <3>1. \E f : k = FailWith(j, "failed", f)
        BY <2>1 DEF Fails, Store
      <3> QED BY <1>j, <3>1, FailWithKeeps
    <2>2. CASE Announces(r) \/ BeginCases(r)
      <3>1. \E s \in Stages, done \in Nat : Store(r, SetStage(j, s, done))
        BY <2>2, ProgressType DEF Announces, BeginCases, Stages
      <3> QED BY <1>j, <3>1, WorkerWrites DEF Store
    <2>3. CASE ~(Fails(r) \/ Announces(r) \/ BeginCases(r))
      <3>1. k = j \/ k = AppendPartial(j) \/ k = SetTranscript(j) \/ k = Finish(j)
        BY <2>3 DEF BodyMove, Quiet, LeavesToCanceller, Panic, StartCase, FinishCase, CasePanics,
               EndBatch, AttachTranscript, Publish, Store, outside
      <3> QED BY <1>j, <3>1, WorkerWrites
    <2> QED BY <2>1, <2>2, <2>3
  <1>7. ContractWrite(j, k)
    <2>1. k.status = "failed" \/ k.status = "done" <=> Terminal(k)
      BY DEF Terminal, TerminalStatus
    <2> QED BY <1>4, <1>5, <1>6, <2>1 DEF ContractWrite
  <1>8. FailureInv(r)'
    <2>1. (Terminal(job[r]))' <=> Terminal(k)
      BY DEF Terminal
    <2>2. ~Terminal(k) => k.failure = "nil"
      <3>1. ~Terminal(k) => ~Terminal(j) /\ k.status # "failed"
        BY <1>5 DEF Terminal, TerminalStatus
      <3> QED BY <1>6, <3>1 DEF FailureInv
    <2>3. pc'[r] # "attach"
      BY DEF BodyStep, MovesOn, StartsUnwinding, BodyPC
    <2>4. work'[r].panicked => k = j
      BY <1>3 DEF BodyStep, MovesOn, StartsUnwinding
    <2> QED BY <1>3, <2>1, <2>2, <2>3, <2>4 DEF FailureInv
  <1> QED BY <1>7, <1>8, ShowBody, CaseBody DEF Accounted

\* The deferred calls: the post-mortem reclassifies only what the container's evidence
\* or the want of a class allows, and the recover call fails a job without a failure.
LEMMA UnwindAccounted ==
    ASSUME TypeOK, VerdictInv, NEW r \in Runs, ShowInv(r), FailureInv(r), CaseInv(r), Unwind(r)
    PROVE  Accounted(r)
  <1> USE DEF TypeOK
  <1> DEFINE j == job[r]
             k == job'[r]
             w == work[r]
             u == work'[r]
  <1>j. j \in JobType /\ w \in WorkType
    OBVIOUS
  <1>pc. /\ UnwindPC = {"stopTools", "closePhase", "postmortem", "attach", "stop", "release",
                        "recover", "removeRun", "unregister", "releaseSlot"}
         /\ PanicPC = UnwindPC \ {"removeRun", "unregister", "releaseSlot"}
         /\ (UnwindPC \cup {"exited"}) \cap (BodyPC \cup HandlerPC \cup LatePC \cup EarlyPC
                \cup {"created", "start", "building", "batch", "seeding", "cases"}) = {}
    BY DEF UnwindPC, PanicPC, BodyPC, HandlerPC, LatePC, EarlyPC
  <1>1. /\ pc[r] \in UnwindPC /\ pc'[r] \in UnwindPC \cup {"exited"} /\ chat' = chat
        /\ pc'[r] = "attach" => ReadForPostmortem(r)
        /\ pc'[r] \in PanicPC => pc[r] \in PanicPC
    BY <1>pc DEF Unwind, StopTools, ClosePhase, ReadForPostmortem, AttachDiagnostics,
           StopContainer, ReleaseImage, Recover, RemoveRun, UnregisterRunCancel, ReleaseSlot,
           outside, Go
  <1>2. RunInv(r) /\ Kept(r)
    BY UnwindVerdict DEF VerdictInv
  <1>3. /\ j.cancelled => j.status = "failed"
        /\ pc[r] = "attach" /\ w.seen.status = "failed" => j.status = "failed"
        /\ pc[r] = "attach" /\ w.seen.status = "failed" /\ ~j.cancelled => j.failure = w.seen.failure
        /\ w.panicked /\ pc[r] \in PanicPC /\ Terminal(j) => j.cancelled
        /\ ~Terminal(j) => j.failure = "nil"
    BY <1>2 DEF RunInv, FailureInv
  <1>4. /\ u.batch = w.batch /\ u.inflight = w.inflight /\ u.crashed = w.crashed
        /\ u.panicked = w.panicked
    <2>1. CASE work' = work
      BY <2>1
    <2>2. CASE work' # work
      <3>1. PICK v, e : work' = [work EXCEPT ![r].seen = v, ![r].evidence = e]
        BY <2>2 DEF Unwind, StopTools, ClosePhase, ReadForPostmortem, AttachDiagnostics,
               StopContainer, ReleaseImage, Recover, RemoveRun, UnregisterRunCancel, ReleaseSlot,
               outside
      <3>2. u = [w EXCEPT !.seen = v, !.evidence = e]
        BY <1>j, <3>1
      <3> QED BY <1>j, <3>2 DEF WorkType
    <2> QED BY <2>1, <2>2
  <1>5. ASSUME k.cancelled = j.cancelled, k = j \/ k.status = "failed",
               ~Terminal(k) => k.failure = "nil",
               pc'[r] = "attach" /\ u.seen.status = "failed" /\ ~k.cancelled
                  => k.failure = u.seen.failure,
               w.panicked /\ pc'[r] \in PanicPC /\ Terminal(k) => k.cancelled,
               ContractWrite(j, k)
        PROVE  Accounted(r)
    <2>1. (Terminal(job[r]))' <=> Terminal(k)
      BY DEF Terminal
    <2>2. FailureInv(r)'
      BY <1>4, <1>5, <2>1 DEF FailureInv
    <2>3. ~Terminal(k) => k = j
      BY <1>5 DEF Terminal, TerminalStatus
    <2>4. ShowInv(r)'
      BY <1>1, <1>pc, <2>1, <2>3 DEF ShowInv
    <2>5. k.status = "done" => k = j
      BY <1>5
    <2>6. CaseInv(r)'
      BY <1>1, <1>4, <1>pc, <2>5 DEF CaseInv, Total
    <2> QED BY <1>5, <2>2, <2>4, <2>6 DEF Accounted
  <1>same. ASSUME k = j, pc'[r] # "attach"
           PROVE  Accounted(r)
    BY <1>1, <1>3, <1>5, <1>same DEF ContractWrite
  <1>6. CASE ReadForPostmortem(r)
    <2>1. k = j /\ pc[r] = "postmortem"
      BY <1>6 DEF ReadForPostmortem, Go
    <2>2. u.seen = Verdict(j)
      <3>1. PICK e \in BOOLEAN :
               work' = [work EXCEPT ![r].seen = Verdict(job[r]), ![r].evidence = e]
        BY <1>6 DEF ReadForPostmortem
      <3> QED BY <3>1 DEF WorkType
    <2>3. u.seen.failure = j.failure
      BY <2>2 DEF Verdict
    <2> QED BY <1>1, <1>3, <1>5, <2>1, <2>3 DEF ContractWrite
  <1>7. CASE AttachDiagnostics(r)
    <2>1. pc[r] = "attach" /\ pc'[r] = "stop"
      BY <1>7 DEF AttachDiagnostics, Go
    <2>2. CASE w.seen.status # "failed"
      <3>1. k = j
        BY <1>7, <2>2 DEF AttachDiagnostics, Store
      <3> QED BY <1>same, <2>1, <3>1
    <2>3. CASE w.seen.status = "failed" /\ j.cancelled
      <3>1. k = j
        BY <1>j, <1>7, <2>3, FailWithKeeps DEF AttachDiagnostics, Store
      <3> QED BY <1>same, <2>1, <3>1
    <2>4. CASE w.seen.status = "failed" /\ ~j.cancelled
      <3> DEFINE e == IF w.evidence THEN "envelope" ELSE w.seen.error
                 f == PostmortemVerdict(r)
      <3>1. k = FailWith(j, e, f)
        BY <1>7, <2>4 DEF AttachDiagnostics, Store
      <3> HIDE DEF e, f
      <3>2. k.status = "failed" /\ k.failure = f /\ k.cancelled = j.cancelled
        BY <1>j, <2>4, <3>1, FailWithKeeps, WorkerWrites
      <3>3. j.status = "failed" /\ j.failure = w.seen.failure
        BY <1>3, <2>1, <2>4
      <3>4. f = "resource" \/ f = j.failure \/ j.failure = "nil"
        BY <3>3 DEF f, PostmortemVerdict
      <3>5. Terminal(j) /\ Terminal(k)
        BY <3>2, <3>3 DEF Terminal, TerminalStatus
      <3>6. ContractWrite(j, k)
        BY <2>4, <3>2, <3>3, <3>4, <3>5 DEF ContractWrite
      <3> QED BY <1>3, <1>5, <1>pc, <2>1, <3>2, <3>5, <3>6
    <2> QED BY <2>2, <2>3, <2>4
  <1>8. CASE Recover(r)
    <2>1. pc[r] = "recover" /\ pc'[r] = "removeRun"
      BY <1>8 DEF Recover, Go
    <2>2. CASE ~w.panicked \/ j.cancelled
      <3>1. k = j
        BY <1>j, <1>8, <2>2, FailWithKeeps DEF Recover, Store
      <3> QED BY <1>same, <2>1, <3>1
    <2>3. CASE w.panicked /\ ~j.cancelled
      <3>1. k.status = "failed" /\ k.cancelled = j.cancelled
        BY <1>j, <1>8, <2>3, FailWithKeeps DEF Recover, Store
      <3>2. ~Terminal(j)
        BY <1>3, <1>pc, <2>1, <2>3
      <3>3. Terminal(k) /\ "removeRun" \notin PanicPC
        BY <1>pc, <3>1 DEF Terminal, TerminalStatus
      <3>4. ContractWrite(j, k)
        BY <2>3, <3>1, <3>2 DEF ContractWrite
      <3> QED BY <1>5, <2>1, <3>1, <3>3, <3>4
    <2> QED BY <2>2, <2>3
  <1>9. CASE ~(ReadForPostmortem(r) \/ AttachDiagnostics(r) \/ Recover(r))
    <2>1. k = j
      BY <1>9 DEF Unwind, StopTools, ClosePhase, StopContainer, ReleaseImage, RemoveRun,
             UnregisterRunCancel, ReleaseSlot, outside
    <2> QED BY <1>1, <1>9, <1>same, <2>1
  <1> QED BY <1>6, <1>7, <1>8, <1>9

\* A canceller or a relay callback finishes a job only by cancelling it, and keeps its
\* scores, its report and, while it is active, its empty failure.
LEMMA OutsideAccounted ==
    ASSUME TypeOK, TypeOK', NEW r \in Runs, RunInv(r), FailureInv(r), CaseInv(r),
           OutsideWrite(job[r], job'[r]),
           job'[r].partial = job[r].partial, job'[r].report = job[r].report,
           ~Terminal(job'[r]) => job'[r].failure = job[r].failure,
           pc'[r] = pc[r], work'[r] = work[r]
    PROVE  FailureInv(r)' /\ CaseInv(r)' /\ ContractWrite(job[r], job'[r])
  <1> DEFINE j == job[r]
             k == job'[r]
  <1>1. /\ (Terminal(job[r]))' <=> Terminal(k)
        /\ \A i : i.status = "failed" \/ i.status = "done" <=> Terminal(i)
        /\ j.cancelled \in BOOLEAN /\ k.cancelled \in BOOLEAN
    BY DEF Terminal, TerminalStatus, TypeOK, JobType
  <1>2. /\ j.cancelled => Terminal(j)
        /\ Terminal(j) => k = j
        /\ ~Terminal(j) /\ Terminal(k) => k.cancelled /\ k.status = "failed"
        /\ ~Terminal(k) => ~Terminal(j) /\ ~k.cancelled
    BY <1>1 DEF RunInv, OutsideWrite
  <1>3. j.cancelled => k.cancelled
    BY <1>2
  <1>4. pc[r] = "attach" /\ work[r].seen.status = "failed" => k = j
    BY <1>1, <1>2 DEF RunInv
  <1>5. FailureInv(r)'
    <2>1. ~Terminal(k) => k.failure = "nil"
      BY <1>2 DEF FailureInv
    <2>2. work[r].panicked /\ pc[r] \in PanicPC /\ Terminal(k) => k.cancelled
      BY <1>2 DEF FailureInv
    <2> QED BY <1>1, <1>4, <2>1, <2>2 DEF FailureInv
  <1>6. CaseInv(r)'
    <2>1. k.status = "done" => k = j
      BY <1>1, <1>2
    <2> QED BY <1>3, <2>1 DEF CaseInv, Total
  <1>7. ContractWrite(j, k)
    <2>1. CASE Terminal(j)
      BY <1>2, <2>1 DEF ContractWrite
    <2>2. CASE ~Terminal(j) /\ Terminal(k)
      BY <1>2, <2>2 DEF ContractWrite
    <2>3. CASE ~Terminal(j) /\ ~Terminal(k)
      <3>1. ~j.cancelled /\ ~k.cancelled
        BY <1>2, <2>3
      <3>2. k.cancelled = FALSE /\ j.cancelled = FALSE
        BY <1>1, <3>1
      <3> QED BY <2>3, <3>2 DEF ContractWrite
    <2> QED BY <2>1, <2>2, <2>3
  <1> QED BY <1>5, <1>6, <1>7

\* Such a write also keeps what a poller is shown, the pause following the waiting calls.
LEMMA ShowOutside ==
    ASSUME NEW r, ShowInv(r), OutsideWrite(job[r], job'[r]), pc'[r] = pc[r], work'[r] = work[r],
           ~Terminal(job'[r]) /\ Shown(job[r]) \in Stages => Shown(job'[r]) = Shown(job[r]),
           ~Terminal(job'[r]) => (job'[r].status = Waiting <=> chat'[r].waiting > 0)
    PROVE  ShowInv(r)'
  <1>1. (Terminal(job[r]))' <=> Terminal(job'[r])
    BY DEF Terminal
  <1>2. ~Terminal(job'[r]) => ~Terminal(job[r])
    BY DEF OutsideWrite
  <1>3. /\ AnnouncedStage(r) = StageAt(pc[r], work[r].batch)
        /\ AnnouncedStage(r)' = StageAt(pc'[r], work'[r].batch)
        /\ (Shown(job[r]))' = Shown(job'[r])
    BY DEF AnnouncedStage, StageAt, Shown
  <1>4. AnnouncedStage(r) \in Stages
    BY <1>3, StageAtLocation
  <1> QED BY <1>1, <1>2, <1>3, <1>4 DEF ShowInv

\* A chat call pauses and resumes its run's job with its waiters, and a declined allowance
\* fails an active one.
LEMMA BrokerAccounted ==
    ASSUME TypeOK, VerdictInv, NEW r \in Runs, ShowInv(r), FailureInv(r), CaseInv(r), Broker(r)
    PROVE  Accounted(r)
  <1> USE DEF TypeOK
  <1> DEFINE j == job[r]
             k == job'[r]
  <1>j. j \in JobType /\ chat[r] \in ChatType
    OBVIOUS
  <1>c. /\ chat[r].open \in Int /\ chat[r].waiting \in Int
        /\ chat[r].waiting >= 0 /\ chat[r].waiting <= chat[r].open
    BY <1>j, RunLifecycleAssumption DEF ChatType
  <1>1. RunInv(r) /\ UNCHANGED <<pc, work>>
    BY DEF VerdictInv, Broker, BeginCall, BeginRelayWait, EndCall, AgentDeclined, AgentFailure,
           FailAgentRun, LookupAgentCancel, FireAgentCancel, LoseSession, worker
  <1>t. TypeOK'
    BY BrokerType
  <1> HIDE DEF TypeOK
  <1>2. j.cancelled => Terminal(j)
    BY <1>1 DEF RunInv, Terminal, TerminalStatus
  <1>3. ~Terminal(j) => (j.status = Waiting <=> chat[r].waiting > 0)
    BY DEF ShowInv
  <1>4. ASSUME OutsideWrite(j, k), k.partial = j.partial, k.report = j.report,
               ~Terminal(k) => k.failure = j.failure,
               ~Terminal(k) /\ Shown(j) \in Stages => Shown(k) = Shown(j),
               ~Terminal(k) => (k.status = Waiting <=> chat'[r].waiting > 0)
        PROVE  Accounted(r)
    BY <1>1, <1>4, <1>t, OutsideAccounted, ShowOutside DEF Accounted
  <1>same. ASSUME k = j, chat'[r].waiting > 0 <=> chat[r].waiting > 0
           PROVE  Accounted(r)
    BY <1>3, <1>4, <1>same DEF OutsideWrite
  <1>set. ASSUME NEW waiting \in BOOLEAN, k = SetRelayWaiting(j, waiting),
                 chat'[r].waiting > 0 <=> waiting
          PROVE  Accounted(r)
    <2>1. OutsideWrite(j, k) /\ k.failure = j.failure /\ k.partial = j.partial /\ k.report = j.report
      BY <1>j, <1>set, OutsideWrites, OutsideShows
    <2>2. ~Terminal(k) => ~Terminal(j) /\ ~j.cancelled
      BY <1>2, <2>1 DEF OutsideWrite
    <2>3. /\ ~Terminal(k) => (k.status = Waiting <=> waiting)
          /\ ~Terminal(k) /\ Shown(j) \in Stages => Shown(k) = Shown(j)
      BY <1>j, <1>set, <2>2, OutsideShows
    <2> QED BY <1>4, <1>set, <2>1, <2>3
  <1>5. CASE BeginCall(r)
    <2>1. chat'[r].waiting = chat[r].waiting /\ k = j
      BY <1>5, <1>j DEF BeginCall, ChatType, TypeOK
    <2> QED BY <1>same, <2>1
  <1>6. CASE BeginRelayWait(r)
    <2>1. chat'[r].waiting = chat[r].waiting + 1
      BY <1>6, <1>j DEF BeginRelayWait, ChatType, TypeOK
    <2>2. chat'[r].waiting > 0
      BY <1>c, <2>1
    <2>3. CASE chat[r].waiting = 0
      <3>1. k = SetRelayWaiting(j, TRUE)
        BY <1>6, <2>3 DEF BeginRelayWait, Store, TypeOK
      <3> QED BY <1>set, <2>2, <3>1
    <2>4. CASE chat[r].waiting # 0
      <3>1. k = j
        BY <1>6, <2>4 DEF BeginRelayWait, Store, TypeOK
      <3>2. chat[r].waiting > 0
        BY <1>c, <2>4
      <3> QED BY <1>same, <2>2, <3>1, <3>2
    <2> QED BY <2>3, <2>4
  <1>7. CASE EndCall(r)
    <2>1. CASE /\ chat[r].waiting < chat[r].open
               /\ chat' = [chat EXCEPT ![r].open = @ - 1]
               /\ job' = job
      <3>1. chat'[r].waiting = chat[r].waiting /\ k = j
        BY <1>j, <2>1 DEF ChatType, TypeOK
      <3> QED BY <1>same, <3>1
    <2>2. CASE /\ chat[r].waiting > 0
               /\ chat' = [chat EXCEPT ![r].open = @ - 1, ![r].waiting = @ - 1]
               /\ Store(r, IF chat[r].waiting = 1 THEN SetRelayWaiting(job[r], FALSE) ELSE job[r])
      <3>1. chat'[r].waiting = chat[r].waiting - 1
        BY <1>j, <2>2 DEF ChatType, TypeOK
      <3>2. CASE chat[r].waiting = 1
        <4>1. k = SetRelayWaiting(j, FALSE) /\ ~(chat'[r].waiting > 0)
          BY <2>2, <3>1, <3>2 DEF Store, TypeOK
        <4> QED BY <1>set, <4>1
      <3>3. CASE chat[r].waiting # 1
        <4>1. k = j
          BY <2>2, <3>3 DEF Store, TypeOK
        <4>2. chat'[r].waiting > 0
          BY <1>c, <2>2, <3>1, <3>3
        <4> QED BY <1>same, <2>2, <4>1, <4>2
      <3> QED BY <3>2, <3>3
    <2> QED BY <1>7, <2>1, <2>2 DEF EndCall
  <1>8. CASE AgentDeclined(r) \/ LookupAgentCancel(r) \/ FireAgentCancel(r) \/ LoseSession(r)
    BY <1>8, <1>same DEF AgentDeclined, LookupAgentCancel, FireAgentCancel, LoseSession
  <1>9. CASE FailAgentRun(r)
    <2>1. k = FailIfActive(j, "declined", "agent") /\ chat' = chat
      BY <1>9 DEF FailAgentRun, Store, TypeOK
    <2>2. CASE Terminal(j)
      BY <1>same, <2>1, <2>2 DEF FailIfActive
    <2>3. CASE ~Terminal(j)
      <3>1. OutsideWrite(j, k) /\ k.partial = j.partial /\ k.report = j.report
        <4>1. "declined" \in ErrorClass /\ "agent" \in FailureClass
          BY DEF ErrorClass, FailureClass
        <4>2. OutsideWrite(j, k)
          BY <1>j, <2>1, <4>1, OutsideWrites
        <4>3. k.partial = j.partial /\ k.report = j.report
          BY <1>j, <2>1 DEF FailIfActive, JobType
        <4> QED BY <4>2, <4>3
      <3>2. k.status = "failed"
        BY <1>j, <2>1, <2>3 DEF FailIfActive, JobType
      <3>3. Terminal(k)
        BY <3>2 DEF Terminal, TerminalStatus
      <3> QED BY <1>4, <3>1, <3>3
    <2> QED BY <2>2, <2>3
  <1> QED BY <1>5, <1>6, <1>7, <1>8, <1>9 DEF Broker, AgentFailure

\* A DELETE cancels an active job or writes nothing.
LEMMA DeleteAccounted ==
    ASSUME TypeOK, VerdictInv, NEW d \in Deleters, DeleteRead(d) \/ Delete(d),
           NEW q \in Runs, ShowInv(q), FailureInv(q), CaseInv(q)
    PROVE  Accounted(q)
  <1> DEFINE j == job[q]
             k == job'[q]
  <1>j. j \in JobType /\ RunInv(q)
    BY DEF TypeOK, VerdictInv
  <1>t. TypeOK'
    BY DeleteType
  <1>1. UNCHANGED <<pc, work, chat>>
    BY DeleteTouches
  <1>2. k = j \/ (~Terminal(j) /\ k = FailIfActive(j, "cancelled", "nil"))
    BY DEF DeleteRead, Delete, DeleteLookup, DeleteReread, DeleteTransition, DeleteFire, Store, TypeOK
  <1>3. ASSUME OutsideWrite(j, k), k.partial = j.partial, k.report = j.report,
               k = j \/ Terminal(k)
        PROVE  Accounted(q)
    <2>1. ~Terminal(k) => (k.status = Waiting <=> chat'[q].waiting > 0)
      BY <1>1, <1>3 DEF ShowInv
    <2> QED BY <1>1, <1>3, <1>j, <1>t, <2>1, OutsideAccounted, ShowOutside DEF Accounted
  <1>4. CASE k = j
    BY <1>3, <1>4, <1>j, OutsideWrites
  <1>5. CASE ~Terminal(j) /\ k = FailIfActive(j, "cancelled", "nil")
    <2>1. OutsideWrite(j, k) /\ k.partial = j.partial /\ k.report = j.report
      <3>1. "cancelled" \in ErrorClass /\ "nil" \in FailureClass
        BY DEF ErrorClass, FailureClass
      <3>2. OutsideWrite(j, k)
        BY <1>j, <1>5, <3>1, OutsideWrites
      <3>3. k.partial = j.partial /\ k.report = j.report
        BY <1>j, <1>5 DEF FailIfActive, JobType
      <3> QED BY <3>2, <3>3
    <2>2. k.status = "failed"
      BY <1>j, <1>5 DEF FailIfActive, JobType
    <2>3. Terminal(k)
      BY <2>2 DEF Terminal, TerminalStatus
    <2> QED BY <1>3, <2>1, <2>3
  <1> QED BY <1>2, <1>4, <1>5

-----------------------------------------------------------------------------
(* The invariant and its consequences.                                     *)

AccountInv == \A r \in Runs : ShowInv(r) /\ FailureInv(r) /\ CaseInv(r)

\* Every step gives every run what it is owed.
LEMMA AccountedStep ==
    ASSUME TypeOK, VerdictInv, AccountInv, Next
    PROVE  AccountInv' /\ \A q \in Runs : Accounted(q)
  <1>1. ASSUME NEW r \in Runs,
               Submit(r) \/ (BodyStep(r) /\ BodyMove(r)) \/ Unwind(r) \/ Broker(r)
        PROVE  \A q \in Runs : Accounted(q)
    <2>1. Accounted(r)
      BY <1>1, SubmitAccounted, BodyAccounted, UnwindAccounted, BrokerAccounted DEF AccountInv
    <2>2. ASSUME NEW q \in Runs, q # r PROVE Accounted(q)
      BY <1>1, <2>2, OthersUntouched, AccountedFrame DEF AccountInv
    <2> QED BY <2>1, <2>2
  <1>2. ASSUME NEW d \in Deleters, DeleteRead(d) \/ Delete(d)
        PROVE  \A q \in Runs : Accounted(q)
    BY <1>2, DeleteAccounted DEF AccountInv
  <1>3. \A q \in Runs : Accounted(q)
    BY <1>1, <1>2, NextMoves
  <1> QED BY <1>3 DEF Accounted, AccountInv

\* The account of every run holds in every reachable state.
LEMMA AccountsHold == Spec => []AccountInv
  <1>1. Init => AccountInv
    BY InitAccounted DEF AccountInv
  <1>2. TypeOK /\ VerdictInv /\ AccountInv /\ [Next]_vars => AccountInv'
    <2>1. CASE UNCHANGED vars
      BY <2>1 DEF vars, AccountInv, ShowInv, FailureInv, CaseInv, AnnouncedStage, Shown, Terminal,
                  Total
    <2>2. CASE Next
      BY <2>2, AccountedStep
    <2> QED BY <2>1, <2>2
  <1> QED BY <1>1, <1>2, TypeCorrect, VerdictInvariant, PTL DEF Spec

\* The stage a poller sees is the worker's, across overlapping relay pauses.
THEOREM StageIsCurrent == Spec => []ShownStageIsCurrent
  <1>1. TypeOK /\ AccountInv => ShownStageIsCurrent
    BY DEF TypeOK, AccountInv, ShowInv, Shown, ShownStageIsCurrent
  <1> QED BY <1>1, TypeCorrect, AccountsHold, PTL

\* An active run is paused exactly while some call waits, for any number of calls.
THEOREM PauseFollowsCalls == Spec => []WaitingIffRecovering
  <1>1. TypeOK /\ AccountInv => WaitingIffRecovering
    BY DEF TypeOK, AccountInv, ShowInv, WaitingIffRecovering
  <1> QED BY <1>1, TypeCorrect, AccountsHold, PTL

\* A published report accounts for every case of every batch, whatever their number and
\* their concurrency.
THEOREM ReportsAreWhole == Spec => []ReportIsWhole
  <1>1. TypeOK /\ AccountInv => ReportIsWhole
    BY DEF TypeOK, AccountInv, CaseInv, ReportIsWhole
  <1> QED BY <1>1, TypeCorrect, AccountsHold, PTL

\* A recorded classification changes only on the container's own resource evidence.
THEOREM ClassificationStands == Spec => ClassificationPreserved
  <1>1. ASSUME TypeOK, VerdictInv, AccountInv, Next, NEW r \in stored, job[r].failure # "nil",
               job'[r].failure # job[r].failure
        PROVE  job'[r].failure = "resource"
    <2>1. r \in Runs
      BY <1>1 DEF TypeOK
    <2>2. Accounted(r) /\ FailureInv(r)
      BY <1>1, <2>1, AccountedStep DEF AccountInv
    <2>3. Terminal(job[r])
      BY <1>1, <2>2 DEF FailureInv
    <2> QED BY <1>1, <2>2, <2>3 DEF Accounted, ContractWrite
  <1>2. TypeOK /\ VerdictInv /\ AccountInv /\ [Next]_vars =>
          [\A r \in stored :
              job[r].failure # "nil" /\ job'[r].failure # job[r].failure
                  => job'[r].failure = "resource"]_vars
    BY <1>1
  <1> QED BY <1>2, TypeCorrect, VerdictInvariant, AccountsHold, PTL
          DEF Spec, ClassificationPreserved

-----------------------------------------------------------------------------
(* The runs implement RunContract.                                         *)

\* The refinement mapping, by name.
Phase == [r \in Runs |-> PhaseOf(r)]
Cause == [r \in Runs |-> job[r].failure]
Sticky == {r \in Runs : job[r].cancelled}
ActiveRuns == {r \in Runs : Phase[r] = "active"}

\* A step writes the job of one run at most, and stores one run at most.
LEMMA OneJob ==
    ASSUME TypeOK, Next
    PROVE  \E r \in Runs : /\ \A q \in Runs \ {r} : job'[q] = job[q]
                           /\ stored' = stored \/ CreateJob(r)
  <1>1. ASSUME NEW r \in Runs, Submit(r) \/ BodyStep(r) \/ Unwind(r) \/ Broker(r)
        PROVE  /\ \A q \in Runs \ {r} : job'[q] = job[q]
               /\ stored' = stored \/ CreateJob(r)
    <2>1. \A q \in Runs \ {r} : job'[q] = job[q]
      BY <1>1, OthersUntouched DEF Untouched
    <2>2. stored' = stored \/ CreateJob(r)
      BY <1>1 DEF Submit, AcquireSlot, ClaimSession, StartWorker, BodyStep, Unwind, StopTools,
             ClosePhase, ReadForPostmortem, AttachDiagnostics, StopContainer, ReleaseImage, Recover,
             RemoveRun, UnregisterRunCancel, ReleaseSlot, outside, Broker, BeginCall,
             BeginRelayWait, EndCall, AgentDeclined, AgentFailure, FailAgentRun, LookupAgentCancel,
             FireAgentCancel, LoseSession, worker
    <2> QED BY <2>1, <2>2
  <1>2. ASSUME NEW d \in Deleters, DeleteRead(d) \/ Delete(d)
        PROVE  \E r \in Runs : (\A q \in Runs \ {r} : job'[q] = job[q]) /\ stored' = stored
    <2>1. del[d].run \in Runs
      BY DEF TypeOK, DelType
    <2>2. \A q \in Runs \ {del[d].run} : job'[q] = job[q]
      BY <1>2 DEF TypeOK, DeleteRead, Delete, DeleteLookup, DeleteReread, DeleteTransition,
             DeleteFire, Store
    <2>3. stored' = stored
      BY <1>2, DeleteTouches
    <2> QED BY <2>1, <2>2, <2>3
  <1> QED BY <1>1, <1>2, NextCases

\* A run active in the contract holds a token of the channel.
LEMMA ActiveHold ==
    ASSUME TypeOK, VerdictInv
    PROVE  ActiveRuns \subseteq Holders
  <1> SUFFICES ASSUME NEW r \in Runs, PhaseOf(r) = "active"
               PROVE  r \in Holders
    BY DEF ActiveRuns, Phase
  <1>1. r \in stored /\ ~Terminal(job[r])
    BY DEF PhaseOf, Terminal, TerminalStatus
  <1>2. pc[r] \in {"created"} \cup BodyPC \cup UnwindPC
    BY <1>1 DEF VerdictInv, RunInv, PanicPC
  <1> QED BY <1>2 DEF Holders, HoldingPC

\* A run is accepted below the bound on active runs: its own token is not theirs.
LEMMA AcceptedBelowBound ==
    ASSUME TypeOK, VerdictInv, SlotsMatchHolders, NEW r \in Runs, pc[r] = "claimed"
    PROVE  Phase[r] = "absent" /\ Cardinality(ActiveRuns) < RunSlots
  <1>1. r \notin stored
    BY DEF VerdictInv, RunInv, BodyPC, UnwindPC
  <1>2. Phase[r] = "absent"
    BY <1>1 DEF Phase, PhaseOf
  <1>3. r \in Holders
    BY DEF Holders, HoldingPC
  <1>4. ActiveRuns \subseteq Holders \ {r}
    BY <1>2, ActiveHold DEF ActiveRuns
  <1>5. IsFiniteSet(Holders)
    BY RunLifecycleAssumption, FS_Subset DEF Holders
  <1>6. /\ IsFiniteSet(Holders \ {r})
        /\ Cardinality(Holders \ {r}) = Cardinality(Holders) - 1
    BY <1>3, <1>5, FS_RemoveElement
  <1>7. /\ Cardinality(ActiveRuns) <= Cardinality(Holders \ {r})
        /\ Cardinality(ActiveRuns) \in Nat
    BY <1>4, <1>6, FS_Subset, FS_CardinalityType
  <1>8. Cardinality(Holders) <= RunSlots /\ Cardinality(Holders) \in Nat
    BY <1>5, FS_CardinalityType, RunLifecycleAssumption
       DEF SlotsMatchHolders, Holders, TypeOK
  <1> QED BY <1>2, <1>6, <1>7, <1>8, RunLifecycleAssumption

\* Storing a run whose job nobody wrote accepts it and leaves the others.
LEMMA CreateAccepts ==
    ASSUME TypeOK, VerdictInv, SlotsMatchHolders, NEW r \in Runs, CreateJob(r)
    PROVE  Contract!Accept(r)
  <1>1. Phase[r] = "absent" /\ Cardinality(ActiveRuns) < RunSlots
    BY AcceptedBelowBound DEF CreateJob, Go
  <1>2. r \notin stored /\ stored' = stored \cup {r}
    BY <1>1 DEF CreateJob, Phase, PhaseOf, Terminal, TerminalStatus
  <1>3. job[r] = NewJob
    BY <1>2 DEF VerdictInv, RunInv
  <1>4. job' = job
    BY <1>3 DEF CreateJob, Store, TypeOK
  <1>5. Phase' = [Phase EXCEPT ![r] = "active"]
    <2>1. PhaseOf(r)' = "active"
      <3>1. NewJob.status \notin TerminalStatus
        BY DEF NewJob, TerminalStatus
      <3>2. job'[r] = NewJob /\ r \in stored'
        BY <1>2, <1>3, <1>4
      <3> QED BY <3>1, <3>2 DEF PhaseOf, Terminal
    <2>2. ASSUME NEW q \in Runs, q # r PROVE PhaseOf(q)' = PhaseOf(q)
      BY <1>2, <1>4, <2>2 DEF PhaseOf, Terminal
    <2> QED BY <2>1, <2>2 DEF Phase
  <1>6. UNCHANGED <<Cause, Sticky>>
    BY <1>4 DEF Cause, Sticky
  <1>7. Contract!Active = ActiveRuns
    BY DEF Contract!Active, ActiveRuns, Phase
  <1>c. Contract!Cardinality(ActiveRuns) = Cardinality(ActiveRuns)
    BY Zenon DEF Contract!Cardinality, Cardinality
  <1>8. /\ Phase[r] = "absent" /\ Contract!Cardinality(Contract!Active) < RunSlots
        /\ Phase' = [Phase EXCEPT ![r] = "active"]
        /\ UNCHANGED <<Cause, Sticky>>
    BY <1>1, <1>5, <1>6, <1>7, <1>c
  <1> HIDE DEF Contract!Active
  <1> QED BY <1>8 DEF Contract!Accept, Phase, Cause, Sticky

\* A write to a stored job is a step of the contract or shows nothing.
LEMMA WriteShows ==
    ASSUME TypeOK, TypeOK', NEW r \in Runs, r \in stored, stored' = stored,
           ContractWrite(job[r], job'[r]), \A q \in Runs \ {r} : job'[q] = job[q]
    PROVE  [Contract!Next]_<<Phase, Cause, Sticky>>
  <1> DEFINE j == job[r]
             k == job'[r]
  <1>j. /\ j.failure \in FailureClass /\ k.failure \in FailureClass
        /\ j.cancelled \in BOOLEAN /\ k.cancelled \in BOOLEAN
        /\ Contract!Causes = FailureClass
    BY ZenonT(60) DEF TypeOK, JobType, FailureClass, Contract!Causes
  <1>1. /\ Phase[r] = IF Terminal(j) THEN j.status ELSE "active"
        /\ Phase' = [Phase EXCEPT ![r] = IF Terminal(k) THEN k.status ELSE "active"]
    <2>1. PhaseOf(r) = IF Terminal(j) THEN j.status ELSE "active"
      BY DEF PhaseOf
    <2>2. PhaseOf(r)' = IF Terminal(k) THEN k.status ELSE "active"
      BY DEF PhaseOf, Terminal
    <2>3. ASSUME NEW q \in Runs, q # r PROVE PhaseOf(q)' = PhaseOf(q)
      BY <2>3 DEF PhaseOf, Terminal
    <2> QED BY <2>1, <2>2, <2>3 DEF Phase
  <1>2. Cause[r] = j.failure /\ Cause' = [Cause EXCEPT ![r] = k.failure]
    BY DEF Cause
  <1>3. /\ r \in Sticky <=> j.cancelled
        /\ k.cancelled => Sticky' = Sticky \cup {r}
        /\ k.cancelled = j.cancelled => Sticky' = Sticky
    BY DEF Sticky
  <1>4. \A i : Terminal(i) <=> i.status \in {"done", "failed"}
    BY DEF Terminal, TerminalStatus
  <1>f. Phase = [Phase EXCEPT ![r] = Phase[r]] /\ Cause = [Cause EXCEPT ![r] = Cause[r]]
    BY DEF Phase, Cause
  <1> HIDE DEF j, k
  <1>5. CASE /\ k.failure = j.failure /\ k.cancelled = j.cancelled
             /\ Terminal(k) <=> Terminal(j)
             /\ Terminal(j) => k.status = j.status
    BY <1>1, <1>2, <1>3, <1>5, <1>f
  <1>6. CASE ~Terminal(j) /\ k.status = "done" /\ k.failure = j.failure /\ k.cancelled = j.cancelled
    <2>1. /\ Phase[r] = "active" /\ Phase' = [Phase EXCEPT ![r] = "done"]
          /\ UNCHANGED <<Cause, Sticky>>
      BY <1>1, <1>2, <1>3, <1>4, <1>6, <1>f
    <2>2. Contract!Succeed(r)
      BY <2>1 DEF Contract!Succeed, Phase, Cause, Sticky
    <2> QED BY <2>2 DEF Contract!Next
  <1>7. CASE ~Terminal(j) /\ k.status = "failed" /\ (j.cancelled => k.cancelled)
    <2>1. /\ Phase[r] = "active" /\ Phase' = [Phase EXCEPT ![r] = "failed"]
          /\ \E c \in Contract!Causes : Cause' = [Cause EXCEPT ![r] = c]
          /\ Sticky' = Sticky \/ Sticky' = Sticky \cup {r}
      BY <1>j, <1>1, <1>2, <1>3, <1>4, <1>7
    <2>2. Contract!Fail(r)
      BY <2>1 DEF Contract!Fail, Phase, Cause, Sticky
    <2> QED BY <2>2 DEF Contract!Next
  <1>8. CASE /\ j.status = "failed" /\ k.status = "failed"
             /\ ~j.cancelled /\ ~k.cancelled
             /\ j.failure = "nil" \/ k.failure = "resource"
    <2>1. k.cancelled = j.cancelled
      BY <1>j, <1>8
    <2>2. /\ Phase[r] = "failed" /\ r \notin Sticky /\ UNCHANGED <<Phase, Sticky>>
          /\ \E c \in Contract!Causes : /\ Cause[r] = "nil" \/ c = "resource"
                                        /\ Cause' = [Cause EXCEPT ![r] = c]
      BY <1>j, <1>1, <1>2, <1>3, <1>4, <1>8, <1>f, <2>1
    <2>3. Contract!Reclassify(r)
      BY <2>2 DEF Contract!Reclassify, Phase, Cause, Sticky
    <2> QED BY <2>3 DEF Contract!Next
  <1> QED BY <1>5, <1>6, <1>7, <1>8 DEF ContractWrite, j, k

\* Every step of the system is a step of the contract or shows nothing.
LEMMA ContractStep ==
    ASSUME TypeOK, TypeOK', VerdictInv, AccountInv, SlotsMatchHolders, [Next]_vars
    PROVE  [Contract!Next]_<<Phase, Cause, Sticky>>
  <1>1. CASE UNCHANGED vars
    BY <1>1 DEF vars, Phase, Cause, Sticky, PhaseOf, Terminal
  <1>2. CASE Next
    <2>1. PICK r \in Runs : /\ \A q \in Runs \ {r} : job'[q] = job[q]
                            /\ stored' = stored \/ CreateJob(r)
      BY <1>2, OneJob
    <2>2. CASE CreateJob(r)
      BY <2>2, CreateAccepts DEF Contract!Next
    <2>3. CASE stored' = stored /\ r \in stored
      <3>1. ContractWrite(job[r], job'[r])
        BY <1>2, AccountedStep DEF Accounted
      <3> QED BY <2>1, <2>3, <3>1, WriteShows
    <2>4. CASE stored' = stored /\ r \notin stored
      <3>1. job[r] = NewJob /\ job'[r] = NewJob
        BY <1>2, <2>4, VerdictStep DEF VerdictInv, RunInv
      <3>2. \A q \in Runs : job'[q] = job[q]
        BY <2>1, <3>1
      <3>3. \A q \in Runs : PhaseOf(q)' = PhaseOf(q)
        BY <2>4, <3>2 DEF PhaseOf, Terminal
      <3> QED BY <3>2, <3>3 DEF Phase, Cause, Sticky
    <2> QED BY <2>1, <2>2, <2>3, <2>4
  <1> QED BY <1>1, <1>2

\* What a poller sees of any number of runs is a behaviour of RunContract: no more runs
\* than slots are active, each ends once, and a sticky verdict is never amended.
THEOREM RunsKeepTheContract == Spec => ContractHolds
  <1>1. Init => Contract!Init
    <2> SUFFICES ASSUME Init PROVE Contract!Init
      OBVIOUS
    <2>1. /\ \A r \in Runs : PhaseOf(r) = "absent"
          /\ \A r \in Runs : job[r].failure = "nil" /\ ~job[r].cancelled
      BY DEF Init, PhaseOf, NewJob
    <2> QED BY <2>1 DEF Contract!Init
  <1>2. /\ TypeOK /\ TypeOK' /\ VerdictInv /\ AccountInv /\ SlotsMatchHolders /\ [Next]_vars
        => [Contract!Next]_<<Phase, Cause, Sticky>>
    BY ContractStep
  <1>3. /\ TypeOK /\ TypeOK' /\ VerdictInv /\ AccountInv /\ SlotsMatchHolders /\ [Next]_vars
        => [Contract!Next]_<<[r \in Runs |-> PhaseOf(r)], [r \in Runs |-> job[r].failure],
                             {r \in Runs : job[r].cancelled}>>
    BY <1>2 DEF Phase, Cause, Sticky
  <1> QED BY <1>1, <1>3, TypeCorrect, VerdictInvariant, AccountsHold, SlotsMatch, PTL
          DEF Spec, ContractHolds, Contract!Spec
=============================================================================
