---------------------------- MODULE RunLifecycle ----------------------------
(***************************************************************************)
(* One evaluation run from POST to the last deferred call of its worker:   *)
(* submitRunSize, runSizeJob, DELETE /v1/runs/{id}, and the two callbacks   *)
(* the inference broker makes into the job store while a harness runs       *)
(* (relayWait and terminalAgentFailure).                                    *)
(*                                                                         *)
(* Every store call is a step of its own, because the store's mutex is      *)
(* released between calls.  Calls that block (docker, HTTP) end in a step   *)
(* that chooses their outcome.  requestedBenchVersion admits version 8      *)
(* only, so the branches for older versions are unreachable and absent.     *)
(***************************************************************************)
EXTENDS Job, FiniteSets

CONSTANTS
    Runs,            \* run ids, one per accepted or refused request
    Deleters,        \* concurrent DELETE /v1/runs/{id} requests
    RunSlots,        \* capacity of the runSlots channel
    Requests,        \* the request shapes clients send
    Cases,           \* cases per batch (tool cases, then each memory wave)
    Batches,         \* 1 (tools) + the number of memory waves
    CaseConcurrency, \* activeCaseConcurrency()
    MaxCalls         \* bound on the chat calls in flight per run

\* A scored request names a ticket session and a screened image.
RequestShape ==
    {q \in [scored : BOOLEAN, sandboxed : BOOLEAN, ticketed : BOOLEAN] :
        q.scored => q.sandboxed /\ q.ticketed}

ASSUME RunLifecycleAssumption ==
    /\ IsFiniteSet(Runs) /\ Runs # {}
    /\ RunSlots \in Nat \ {0}
    /\ Cases \in Nat \ {0}
    /\ Batches \in Nat \ {0}
    /\ CaseConcurrency \in Nat \ {0}
    /\ MaxCalls \in Nat
    /\ Requests \subseteq RequestShape
    /\ Requests # {}

VARIABLES
    stored,     \* ids present in the job store
    job,        \* the stored jobs
    pc,         \* the next step of the request handler, then of the worker
    work,       \* the worker's local variables
    res,        \* what the worker holds outside the process's job store
    runSlots,   \* tokens in the runSlots channel
    runCancels, \* ids with a registered cancel function
    ctxDone,    \* runs whose context is cancelled
    session,    \* each run's broker session, as the worker meets it
    chat,       \* the harness's chat calls inside the broker's proxy
    notify,     \* progress of the terminalAgentFailure callback
    del         \* progress of the DELETE requests

vars == <<stored, job, pc, work, res, runSlots, runCancels, ctxDone, session,
          chat, notify, del>>

HandlerPC == {"idle", "slot", "claimed", "created", "rejected"}
BodyPC == {"start", "building", "generating", "starting", "binding", "health",
           "admission", "relayStart", "probe", "restart", "rebinding", "rehealth",
           "reprobe", "toolServer", "batch", "seeding", "cases", "endPhase",
           "relayResult", "scoring", "transcript"}
UnwindPC == {"stopTools", "closePhase", "postmortem", "attach", "stop", "release",
             "recover", "removeRun", "unregister", "releaseSlot"}

\* Control locations at which the run holds its token of the runSlots channel.
HoldingPC == {"slot", "claimed", "created"} \cup BodyPC \cup UnwindPC

Total == Cases * Batches

\* The part of a job the post-mortem works from.
Verdict(j) == [status |-> j.status, error |-> j.error, failure |-> j.failure]

HandlerCodes == {0, 200, 202, 404, 409}

Init ==
    /\ stored = {}
    /\ job = [r \in Runs |-> NewJob]
    /\ pc = [r \in Runs |-> "idle"]
    /\ work \in [Runs -> {[req |-> q, batch |-> 0, started |-> 0, inflight |-> 0,
                           crashed |-> 0, panicked |-> FALSE, seen |-> Verdict(NewJob),
                           evidence |-> FALSE] :
                              q \in Requests}]
    /\ res = [r \in Runs |-> [container |-> FALSE, image |-> FALSE,
                              tools |-> FALSE, phase |-> FALSE]]
    /\ runSlots = 0
    /\ runCancels = {}
    /\ ctxDone = {}
    /\ session = [r \in Runs |-> IF work[r].req.ticketed THEN "ready" ELSE "none"]
    /\ chat = [r \in Runs |-> [open |-> 0, waiting |-> 0]]
    /\ notify = [r \in Runs |-> "no"]
    /\ del = [d \in Deleters |-> [pc |-> "idle", run |-> CHOOSE r \in Runs : TRUE, code |-> 0]]

-----------------------------------------------------------------------------
(* Vocabulary of the actions.                                              *)

Req(r) == work[r].req

Go(r, from, to) == pc[r] = from /\ pc' = [pc EXCEPT ![r] = to]

Store(r, newJob) == job' = [job EXCEPT ![r] = newJob]

\* return after s.store.Fail / FailWith: the deferred calls come next.
Abort(r, from, failure) ==
    /\ Go(r, from, "stopTools")
    /\ Store(r, FailWith(job[r], "failed", failure))

\* failRelayUnavailableForContext: a cancelled context is left to its canceller.
AbortUnlessCancelled(r, from, failure) ==
    /\ Go(r, from, "stopTools")
    /\ Store(r, IF r \in ctxDone THEN job[r] ELSE FailWith(job[r], "failed", failure))

\* The variables the worker never writes.
outside == <<stored, runSlots, runCancels, ctxDone, session, chat, notify, del>>

-----------------------------------------------------------------------------
(* submitRunSize.                                                          *)

\* Mutant: an off-by-one in the capacity of the runSlots channel.
AcquireSlotOverCapacity(r) ==
    /\ runSlots <= RunSlots
    /\ Go(r, "idle", "slot")
    /\ runSlots' = runSlots + 1
    /\ UNCHANGED <<stored, job, work, res, runCancels, ctxDone, session, chat, notify, del>>

AcquireSlot(r) ==
    /\ \/ runSlots < RunSlots /\ Go(r, "idle", "slot") /\ runSlots' = runSlots + 1
       \/ runSlots >= RunSlots /\ Go(r, "idle", "rejected") /\ UNCHANGED runSlots
    /\ UNCHANGED <<stored, job, work, res, runCancels, ctxDone, session, chat, notify, del>>

\* Mutant: a refused claim forgets to give the slot back.
ClaimSessionKeepsSlot(r) ==
    /\ \/ /\ ~Req(r).ticketed
          /\ Go(r, "slot", "claimed")
          /\ UNCHANGED session
       \/ /\ session[r] = "ready"
          /\ Go(r, "slot", "claimed")
          /\ session' = [session EXCEPT ![r] = "claimed"]
       \/ /\ Req(r).ticketed
          /\ Go(r, "slot", "rejected")
          /\ UNCHANGED session
    /\ UNCHANGED <<stored, job, work, res, runSlots, runCancels, ctxDone, chat, notify, del>>

\* broker.claimRun; a refused claim gives the slot back (409).
ClaimSession(r) ==
    /\ \/ /\ ~Req(r).ticketed
          /\ Go(r, "slot", "claimed")
          /\ UNCHANGED <<runSlots, session>>
       \/ /\ session[r] = "ready"
          /\ Go(r, "slot", "claimed")
          /\ session' = [session EXCEPT ![r] = "claimed"]
          /\ UNCHANGED runSlots
       \/ /\ Req(r).ticketed
          /\ Go(r, "slot", "rejected")
          /\ runSlots > 0
          /\ runSlots' = runSlots - 1
          /\ UNCHANGED session
    /\ UNCHANGED <<stored, job, work, res, runCancels, ctxDone, chat, notify, del>>

CreateJob(r) ==
    /\ Go(r, "claimed", "created")
    /\ stored' = stored \cup {r}
    /\ Store(r, NewJob)
    /\ UNCHANGED <<work, res, runSlots, runCancels, ctxDone, session, chat, notify, del>>

\* registerRunCancel, then `go runSizeJob`.
StartWorker(r) ==
    /\ Go(r, "created", "start")
    /\ runCancels' = runCancels \cup {r}
    /\ UNCHANGED <<stored, job, work, res, runSlots, ctxDone, session, chat, notify, del>>

Submit(r) == AcquireSlot(r) \/ ClaimSession(r) \/ CreateJob(r) \/ StartWorker(r)

-----------------------------------------------------------------------------
(* runSizeJob, stages 1 and 2: build and generate.                         *)

BeginBuild(r) ==
    /\ IF Req(r).sandboxed
       THEN Go(r, "start", "building") /\ Store(r, SetStage(job[r], "building", 0))
       ELSE Go(r, "start", "generating") /\ Store(r, SetStage(job[r], "generating", 0))
    /\ UNCHANGED <<outside, work, res>>

EndBuild(r) ==
    /\ \/ /\ Go(r, "building", "generating")
          /\ res' = [res EXCEPT ![r].image = TRUE]
          /\ Store(r, SetStage(job[r], "generating", 0))
       \/ /\ \E failure \in {"nil", "infra"} : Abort(r, "building", failure)
          /\ UNCHANGED res
    /\ UNCHANGED <<outside, work>>

\* Generation and the dataset_sha256 pin.
Generate(r) ==
    /\ \/ Go(r, "generating", IF Req(r).sandboxed THEN "starting" ELSE "binding") /\ UNCHANGED job
       \/ Abort(r, "generating", "nil")
    /\ UNCHANGED <<outside, work, res>>

-----------------------------------------------------------------------------
(* Stage 3: the container, its source binding, the embedding phase and the *)
(* trusted relay probe.                                                    *)

\* sandbox.Run; on failure Run itself removes the container and the image.
RunContainer(r, from, to) ==
    /\ \/ Go(r, from, to) /\ res' = [res EXCEPT ![r].container = TRUE] /\ UNCHANGED job
       \/ /\ \E failure \in {"nil", "infra"} : Abort(r, from, failure)
          /\ res' = [res EXCEPT ![r].image = FALSE]
    /\ UNCHANGED <<outside, work>>

StartContainer(r) == RunContainer(r, "starting", "binding")

\* bindSource; an expired session refuses although it is still listed.
BindSource(r) ==
    /\ \/ ~Req(r).ticketed /\ Go(r, "binding", "health") /\ UNCHANGED <<job, session>>
       \/ /\ session[r] = "claimed"
          /\ Go(r, "binding", "health")
          /\ session' = [session EXCEPT ![r] = "bound"]
          /\ UNCHANGED job
       \/ Req(r).ticketed /\ Abort(r, "binding", "nil") /\ UNCHANGED session
    /\ UNCHANGED <<stored, work, res, runSlots, runCancels, ctxDone, chat, notify, del>>

WaitHealthy(r) ==
    /\ \/ Go(r, "health", "admission") /\ UNCHANGED job
       \/ Abort(r, "health", "nil")
    /\ UNCHANGED <<outside, work, res>>

\* Mutant: a denied embedding phase returns without failing the job.
AdmitEmbeddingSilent(r) ==
    /\ \/ /\ Req(r).ticketed => session[r] = "bound"
          /\ Go(r, "admission", IF Req(r).scored THEN "relayStart" ELSE "toolServer")
          /\ res' = [res EXCEPT ![r].phase = Req(r).ticketed]
       \/ Req(r).ticketed /\ Go(r, "admission", "stopTools") /\ UNCHANGED res
    /\ UNCHANGED <<outside, job, work>>

\* Mutant: admission waits for a session that may never come back.
AdmitEmbeddingWaits(r) ==
    /\ Req(r).ticketed => session[r] = "bound"
    /\ Go(r, "admission", IF Req(r).scored THEN "relayStart" ELSE "toolServer")
    /\ res' = [res EXCEPT ![r].phase = Req(r).ticketed]
    /\ UNCHANGED <<outside, job, work>>

\* beginMemoryPhase: one embedding phase for the ticketed lifetime.
AdmitEmbedding(r) ==
    /\ \/ /\ Req(r).ticketed => session[r] = "bound"
          /\ Go(r, "admission", IF Req(r).scored THEN "relayStart" ELSE "toolServer")
          /\ res' = [res EXCEPT ![r].phase = Req(r).ticketed]
          /\ UNCHANGED job
       \/ /\ Req(r).ticketed
          /\ AbortUnlessCancelled(r, "admission", "nil")
          /\ UNCHANGED res
    /\ UNCHANGED <<outside, work>>

\* trustedProbe, snapshot and requireTokenAccounting.
RelayRunStart(r) ==
    /\ \/ session[r] = "bound" /\ Go(r, "relayStart", "probe") /\ UNCHANGED job
       \/ AbortUnlessCancelled(r, "relayStart", "infra")
    /\ UNCHANGED <<outside, work, res>>

\* probeHarnessModelRoute; an unrouted harness is stopped for one restart, its
\* image kept (stopSandboxForRestart).
ProbeRoute(r) ==
    /\ \/ session[r] = "bound" /\ Go(r, "probe", "toolServer") /\ UNCHANGED <<job, res>>
       \/ /\ session[r] = "bound"
          /\ Go(r, "probe", "restart")
          /\ res' = [res EXCEPT ![r].container = FALSE]
          /\ UNCHANGED job
       \/ \E failure \in {"infra", "agent"} :
             AbortUnlessCancelled(r, "probe", failure) /\ UNCHANGED res
    /\ UNCHANGED <<outside, work>>

RestartContainer(r) == RunContainer(r, "restart", "rebinding")

ReplaceBoundSource(r) ==
    /\ \/ session[r] = "bound" /\ Go(r, "rebinding", "rehealth") /\ UNCHANGED job
       \/ Abort(r, "rebinding", "nil")
    /\ UNCHANGED <<outside, work, res>>

WaitHealthyAgain(r) ==
    /\ \/ Go(r, "rehealth", "reprobe") /\ UNCHANGED job
       \/ Abort(r, "rehealth", "nil")
    /\ UNCHANGED <<outside, work, res>>

\* A second zero-call probe is the agent's failure, cancelled or not.
ReprobeRoute(r) ==
    /\ \/ session[r] = "bound" /\ Go(r, "reprobe", "toolServer") /\ UNCHANGED job
       \/ session[r] = "bound" /\ Abort(r, "reprobe", "agent")
       \/ \E failure \in {"infra", "agent"} : AbortUnlessCancelled(r, "reprobe", failure)
    /\ UNCHANGED <<outside, work, res>>

StartToolServer(r) ==
    /\ \/ Go(r, "toolServer", "batch") /\ res' = [res EXCEPT ![r].tools = TRUE] /\ UNCHANGED job
       \/ Abort(r, "toolServer", "infra") /\ UNCHANGED res
    /\ UNCHANGED <<outside, work>>

-----------------------------------------------------------------------------
(* Stages 4 and 5: batch 0 is the tool cases, the others the memory waves. *)
(* Each batch is seeded (unless it has nothing to seed), then its cases run *)
(* under runBounded.  The secondary isolation graph is seeded just before   *)
(* wave 0, with the same effects, and shares its step.                      *)

Progress(r) == Cases * work[r].batch

BeginSeed(r) ==
    /\ Go(r, "batch", "seeding")
    /\ Store(r, SetStage(job[r], "seeding", Progress(r)))
    /\ UNCHANGED <<outside, work, res>>

SeedFails(r) ==
    /\ \E failure \in {"nil", "infra"} : Abort(r, "seeding", failure)
    /\ UNCHANGED <<outside, work, res>>

BeginCases(r) ==
    /\ Go(r, "seeding", "cases") \/ Go(r, "batch", "cases")
    /\ Store(r, SetStage(job[r], "running", Progress(r)))
    /\ work' = [work EXCEPT ![r].started = 0]
    /\ UNCHANGED <<outside, res>>

\* The select between ctx.Done and a free semaphore place may take either.
StartCase(r) ==
    /\ pc[r] = "cases"
    /\ work[r].started < Cases
    /\ work[r].inflight < CaseConcurrency
    /\ work' = [work EXCEPT ![r].started = @ + 1, ![r].inflight = @ + 1]
    /\ UNCHANGED <<outside, job, pc, res>>

FinishCase(r) ==
    /\ pc[r] = "cases"
    /\ work[r].inflight > 0
    /\ work' = [work EXCEPT ![r].inflight = @ - 1]
    /\ Store(r, AppendPartial(job[r]))
    /\ UNCHANGED <<outside, pc, res>>

\* A panic inside one case is recovered there and leaves a zero score.
CasePanics(r) ==
    /\ pc[r] = "cases"
    /\ work[r].inflight > 0
    /\ work' = [work EXCEPT ![r].inflight = @ - 1, ![r].crashed = @ + 1]
    /\ UNCHANGED <<outside, job, pc, res>>

\* Mutant: runBounded returns without waiting for the cases in flight.
BatchReturnedEarly(r) == work[r].started = Cases \/ r \in ctxDone

\* runBounded returns once nothing is in flight, having started every case or
\* seen the context end.
BatchReturned(r) ==
    /\ work[r].inflight = 0
    /\ work[r].started = Cases \/ r \in ctxDone

EndBatch(r) ==
    /\ BatchReturned(r)
    /\ IF r \in ctxDone
       THEN Go(r, "cases", "stopTools") /\ UNCHANGED work
       ELSE /\ Go(r, "cases", IF work[r].batch + 1 = Batches THEN "endPhase" ELSE "batch")
            /\ work' = [work EXCEPT ![r].batch = @ + 1]
    /\ UNCHANGED <<outside, job, res>>

-----------------------------------------------------------------------------
(* Stage 6: revoke the embedding phase, judge the relay, publish.          *)

EndEmbeddingPhase(r) ==
    /\ Go(r, "endPhase", "relayResult")
    /\ res' = [res EXCEPT ![r].phase = FALSE]
    /\ UNCHANGED <<outside, job, work>>

\* relayRunResult and requireCompleteV7Usage for a scored run.
RelayRunResult(r) ==
    /\ \/ /\ Req(r).scored => session[r] = "bound"
          /\ Go(r, "relayResult", "scoring")
          /\ Store(r, SetStage(job[r], "scoring", Progress(r)))
       \/ /\ Req(r).scored
          /\ \E failure \in {"infra", "agent"} :
                \/ AbortUnlessCancelled(r, "relayResult", failure)
                \/ session[r] = "bound" /\ Abort(r, "relayResult", failure)
    /\ UNCHANGED <<outside, work, res>>

\* SetTranscript is skipped when hashing fails.
AttachTranscript(r) ==
    /\ Go(r, "scoring", "transcript")
    /\ Store(r, SetTranscript(job[r])) \/ UNCHANGED job
    /\ UNCHANGED <<outside, work, res>>

Publish(r) ==
    /\ Go(r, "transcript", "stopTools")
    /\ Store(r, Finish(job[r]))
    /\ UNCHANGED <<outside, work, res>>

\* A panic in the worker's own goroutine starts the deferred calls.
Panic(r) ==
    /\ pc[r] \in BodyPC \ {"cases"}
    /\ pc' = [pc EXCEPT ![r] = "stopTools"]
    /\ work' = [work EXCEPT ![r].panicked = TRUE]
    /\ UNCHANGED <<outside, job, res>>

-----------------------------------------------------------------------------
(* The deferred calls, last registered first.                              *)

StopTools(r) ==
    /\ Go(r, "stopTools", "closePhase")
    /\ res' = [res EXCEPT ![r].tools = FALSE]
    /\ UNCHANGED <<outside, job, work>>

\* Mutant: the container is torn down only after a failed run.
ClosePhaseOnFailure(r) ==
    /\ Go(r, "closePhase", IF res[r].container /\ Terminal(job[r]) /\ ~job[r].report
                           THEN "postmortem" ELSE "release")
    /\ res' = [res EXCEPT ![r].phase = FALSE]
    /\ UNCHANGED <<outside, job, work>>

ClosePhase(r) ==
    /\ Go(r, "closePhase", IF res[r].container THEN "postmortem" ELSE "release")
    /\ res' = [res EXCEPT ![r].phase = FALSE]
    /\ UNCHANGED <<outside, job, work>>

\* finishSandboxRun reads the job and, if it failed, the container's diagnostics
\* (evidence: OOM or a full tmpfs), then writes from what it read.
ReadForPostmortem(r) ==
    /\ Go(r, "postmortem", "attach")
    /\ \E evidence \in BOOLEAN :
          /\ evidence => job[r].status = "failed"
          /\ work' = [work EXCEPT ![r].seen = Verdict(job[r]), ![r].evidence = evidence]
    /\ UNCHANGED <<outside, job, res>>

\* Mutant: the envelope overwrites the scored path's classification.
PostmortemVerdictAnew(r) == IF work[r].evidence THEN "resource" ELSE "runtime"

PostmortemVerdict(r) ==
    CASE work[r].evidence -> "resource"
      [] ~work[r].evidence /\ work[r].seen.failure # "nil" -> work[r].seen.failure
      [] OTHER -> "runtime"

AttachDiagnostics(r) ==
    /\ Go(r, "attach", "stop")
    /\ Store(r, IF work[r].seen.status # "failed"
                THEN job[r]
                ELSE FailWith(job[r], IF work[r].evidence THEN "envelope" ELSE work[r].seen.error,
                              PostmortemVerdict(r)))
    /\ UNCHANGED <<outside, work, res>>

\* sandbox.Stop removes the container, its network and its image.
StopContainer(r) ==
    /\ Go(r, "stop", "release")
    /\ res' = [res EXCEPT ![r].container = FALSE, ![r].image = FALSE]
    /\ UNCHANGED <<outside, job, work>>

ReleaseImage(r) ==
    /\ Go(r, "release", "recover")
    /\ res' = [res EXCEPT ![r].image = FALSE]
    /\ UNCHANGED <<outside, job, work>>

Recover(r) ==
    /\ Go(r, "recover", "removeRun")
    /\ Store(r, IF work[r].panicked THEN FailWith(job[r], "panic", "nil") ELSE job[r])
    /\ UNCHANGED <<outside, work, res>>

RemoveRun(r) ==
    /\ Go(r, "removeRun", "unregister")
    /\ session' = [session EXCEPT ![r] = IF @ = "none" THEN "none" ELSE "gone"]
    /\ UNCHANGED <<stored, job, work, res, runSlots, runCancels, ctxDone, chat, notify, del>>

UnregisterRunCancel(r) ==
    /\ Go(r, "unregister", "releaseSlot")
    /\ runCancels' = runCancels \ {r}
    /\ UNCHANGED <<stored, job, work, res, runSlots, ctxDone, session, chat, notify, del>>

\* Mutant: the worker exits without giving its slot back.
ReleaseSlotLost(r) ==
    /\ Go(r, "releaseSlot", "exited")
    /\ UNCHANGED <<stored, job, work, res, runSlots, runCancels, ctxDone, session, chat,
                   notify, del>>

ReleaseSlot(r) ==
    /\ Go(r, "releaseSlot", "exited")
    /\ runSlots > 0
    /\ runSlots' = runSlots - 1
    /\ UNCHANGED <<stored, job, work, res, runCancels, ctxDone, session, chat, notify, del>>

Unwind(r) ==
    \/ StopTools(r) \/ ClosePhase(r) \/ ReadForPostmortem(r) \/ AttachDiagnostics(r)
    \/ StopContainer(r) \/ ReleaseImage(r) \/ Recover(r) \/ RemoveRun(r)
    \/ UnregisterRunCancel(r) \/ ReleaseSlot(r)

Pipeline(r) ==
    \/ BeginBuild(r) \/ EndBuild(r) \/ Generate(r) \/ StartContainer(r) \/ BindSource(r)
    \/ WaitHealthy(r) \/ AdmitEmbedding(r) \/ RelayRunStart(r) \/ ProbeRoute(r)
    \/ RestartContainer(r) \/ ReplaceBoundSource(r) \/ WaitHealthyAgain(r) \/ ReprobeRoute(r)
    \/ StartToolServer(r) \/ BeginSeed(r) \/ SeedFails(r) \/ BeginCases(r) \/ StartCase(r)
    \/ FinishCase(r) \/ EndBatch(r) \/ EndEmbeddingPhase(r) \/ RelayRunResult(r)
    \/ AttachTranscript(r) \/ Publish(r)

Worker(r) == Pipeline(r) \/ Unwind(r)

-----------------------------------------------------------------------------
(* The broker's side of the run: chat calls of the harness, the relay-wait *)
(* callback under the session's mutex, the agent-failure callback outside   *)
(* it, and sessions removed by expiry or by the control plane.              *)

worker == <<pc, work, res, runSlots, runCancels, stored>>

\* Only a live harness calls, and only a bound session admits.
BeginCall(r) ==
    /\ session[r] = "bound"
    /\ Req(r).sandboxed => res[r].container
    /\ chat[r].open < MaxCalls
    /\ chat' = [chat EXCEPT ![r].open = @ + 1]
    /\ UNCHANGED <<worker, job, ctxDone, session, notify, del>>

\* beginRelayWait: the first waiter pauses the job.
BeginRelayWait(r) ==
    /\ chat[r].waiting < chat[r].open
    /\ chat' = [chat EXCEPT ![r].waiting = @ + 1]
    /\ Store(r, IF chat[r].waiting = 0 THEN SetRelayWaiting(job[r], TRUE) ELSE job[r])
    /\ UNCHANGED <<worker, ctxDone, session, notify, del>>

\* Mutant: a call returns without ending its wait.
EndCallStillWaiting(r) ==
    /\ chat[r].open > 0
    /\ chat' = [chat EXCEPT ![r].open = @ - 1]
    /\ UNCHANGED <<worker, job, ctxDone, session, notify, del>>

\* A call returns; one that waited ends its wait, and the last waiter resumes.
EndCall(r) ==
    \/ /\ chat[r].waiting < chat[r].open
       /\ chat' = [chat EXCEPT ![r].open = @ - 1]
       /\ UNCHANGED <<worker, job, ctxDone, session, notify, del>>
    \/ /\ chat[r].waiting > 0
       /\ chat' = [chat EXCEPT ![r].open = @ - 1, ![r].waiting = @ - 1]
       /\ Store(r, IF chat[r].waiting = 1 THEN SetRelayWaiting(job[r], FALSE) ELSE job[r])
       /\ UNCHANGED <<worker, ctxDone, session, notify, del>>

\* notifyTerminalAgentFailure marks the session once ...
AgentDeclined(r) ==
    /\ chat[r].open > 0
    /\ notify[r] = "no"
    /\ notify' = [notify EXCEPT ![r] = "declined"]
    /\ UNCHANGED <<worker, job, ctxDone, session, chat, del>>

\* ... and failAgentInferenceRun makes the verdict sticky, looks the cancel
\* function up and fires it.
FailAgentRun(r) ==
    /\ notify[r] = "declined"
    /\ notify' = [notify EXCEPT ![r] = IF Terminal(job[r]) THEN "over" ELSE "lookup"]
    /\ Store(r, FailIfActive(job[r], "declined", "agent"))
    /\ UNCHANGED <<worker, ctxDone, session, chat, del>>

\* Mutant: the verdict is recorded but the worker is not told.
LookupAgentCancelDropped(r) ==
    /\ notify[r] = "lookup"
    /\ notify' = [notify EXCEPT ![r] = "over"]
    /\ UNCHANGED <<worker, job, ctxDone, session, chat, del>>

LookupAgentCancel(r) ==
    /\ notify[r] = "lookup"
    /\ notify' = [notify EXCEPT ![r] = IF r \in runCancels THEN "fire" ELSE "over"]
    /\ UNCHANGED <<worker, job, ctxDone, session, chat, del>>

FireAgentCancel(r) ==
    /\ notify[r] = "fire"
    /\ notify' = [notify EXCEPT ![r] = "over"]
    /\ ctxDone' = ctxDone \cup {r}
    /\ UNCHANGED <<worker, job, session, chat, del>>

AgentFailure(r) == FailAgentRun(r) \/ LookupAgentCancel(r) \/ FireAgentCancel(r)

\* pruneExpired, or the control plane's DELETE of the session.
LoseSession(r) ==
    /\ session[r] \in {"ready", "claimed", "bound"}
    /\ session' = [session EXCEPT ![r] = "gone"]
    /\ UNCHANGED <<worker, job, ctxDone, chat, notify, del>>

-----------------------------------------------------------------------------
(* handleCancelRun: read, look the cancel function up, transition, fire.   *)

Reply(d, code) == del' = [del EXCEPT ![d].pc = "replied", ![d].code = code]
DeleteTo(d, to) == del' = [del EXCEPT ![d].pc = to]

DeleteRead(d) ==
    /\ del[d].pc = "idle"
    /\ \E r \in Runs :
          del' = [del EXCEPT ![d] =
                     IF r \notin stored THEN [pc |-> "replied", run |-> r, code |-> 404]
                     ELSE IF Terminal(job[r]) THEN [pc |-> "replied", run |-> r, code |-> 200]
                     ELSE [pc |-> "lookup", run |-> r, code |-> 0]]
    /\ UNCHANGED <<worker, job, ctxDone, session, chat, notify>>

DeleteLookup(d) ==
    /\ del[d].pc = "lookup"
    /\ DeleteTo(d, IF del[d].run \in runCancels THEN "transition" ELSE "reread")
    /\ UNCHANGED <<worker, job, ctxDone, session, chat, notify>>

\* Mutant: a missing cancel function is a conflict without a second look.
DeleteConflicts(d) ==
    /\ del[d].pc = "reread"
    /\ Reply(d, 409)
    /\ UNCHANGED <<worker, job, ctxDone, session, chat, notify>>

DeleteReread(d) ==
    /\ del[d].pc = "reread"
    /\ Reply(d, IF Terminal(job[del[d].run]) THEN 200 ELSE 409)
    /\ UNCHANGED <<worker, job, ctxDone, session, chat, notify>>

DeleteTransition(d) ==
    /\ del[d].pc = "transition"
    /\ IF Terminal(job[del[d].run])
       THEN Reply(d, 200) /\ UNCHANGED job
       ELSE /\ DeleteTo(d, "fire")
            /\ Store(del[d].run, FailIfActive(job[del[d].run], "cancelled", "nil"))
    /\ UNCHANGED <<worker, ctxDone, session, chat, notify>>

DeleteFire(d) ==
    /\ del[d].pc = "fire"
    /\ ctxDone' = ctxDone \cup {del[d].run}
    /\ Reply(d, 202)
    /\ UNCHANGED <<worker, job, session, chat, notify>>

Delete(d) ==
    \/ DeleteLookup(d) \/ DeleteReread(d) \/ DeleteTransition(d) \/ DeleteFire(d)

-----------------------------------------------------------------------------
Next ==
    \/ \E r \in Runs :
          \/ Submit(r) \/ Worker(r) \/ CasePanics(r) \/ Panic(r)
          \/ BeginCall(r) \/ BeginRelayWait(r) \/ EndCall(r)
          \/ AgentDeclined(r) \/ AgentFailure(r) \/ LoseSession(r)
    \/ \E d \in Deleters : DeleteRead(d) \/ Delete(d)

Spec == Init /\ [][Next]_vars

\* Every blocking call of a worker ends by a timeout or by its context, the
\* handlers and callbacks do not block, and a chat call has bounded attempts.
Fairness ==
    /\ \A r \in Runs : /\ WF_vars(Worker(r))
                       /\ WF_vars(ClaimSession(r) \/ CreateJob(r) \/ StartWorker(r))
                       /\ WF_vars(EndCall(r))
                       /\ WF_vars(AgentFailure(r))
    /\ \A d \in Deleters : WF_vars(Delete(d))

FairSpec == Spec /\ Fairness
-----------------------------------------------------------------------------
(* Correctness.                                                            *)

WorkType ==
    [req : RequestShape, batch : Nat, started : 0..Cases, inflight : 0..CaseConcurrency,
     crashed : Nat, panicked : BOOLEAN, evidence : BOOLEAN,
     seen : [status : Status, error : ErrorClass, failure : FailureClass]]

ResType == [container : BOOLEAN, image : BOOLEAN, tools : BOOLEAN, phase : BOOLEAN]

ChatType == {c \in [open : 0..MaxCalls, waiting : 0..MaxCalls] : c.waiting <= c.open}

DelType == [pc : {"idle", "lookup", "reread", "transition", "fire", "replied"},
            run : Runs, code : HandlerCodes]

TypeOK ==
    /\ stored \subseteq Runs
    /\ job \in [Runs -> JobType]
    /\ pc \in [Runs -> HandlerPC \cup BodyPC \cup UnwindPC \cup {"exited"}]
    /\ work \in [Runs -> WorkType]
    /\ res \in [Runs -> ResType]
    /\ runSlots \in 0..RunSlots
    /\ runCancels \subseteq Runs
    /\ ctxDone \subseteq Runs
    /\ session \in [Runs -> {"none", "ready", "claimed", "bound", "gone"}]
    /\ chat \in [Runs -> ChatType]
    /\ notify \in [Runs -> {"no", "declined", "lookup", "fire", "over"}]
    /\ del \in [Deleters -> DelType]

\* The runSlots channel holds one token per run between acquisition and the
\* worker's last deferred call: no path, refused claim included, loses or
\* returns a token twice.
SlotsMatchHolders == runSlots = Cardinality({r \in Runs : pc[r] \in HoldingPC})

\* A worker publishes a terminal state before it unregisters its cancel function,
\* whichever of its early returns it took: the silent returns on a cancelled
\* context rely on the canceller having failed the job first.
UnregisteredIsTerminal ==
    \A r \in stored : pc[r] # "created" /\ r \notin runCancels => Terminal(job[r])

\* Every way out of runSizeJob, the compatibility restart included, leaves no
\* container, image, tool route, embedding phase, session or cancel function.
ExitLeavesNothing ==
    \A r \in Runs : pc[r] = "exited" =>
        /\ res[r] = [container |-> FALSE, image |-> FALSE, tools |-> FALSE, phase |-> FALSE]
        /\ session[r] \in {"none", "gone"}
        /\ r \notin runCancels

\* The stage the worker has announced by the time it is at a control location.
AnnouncedStage(r) ==
    CASE pc[r] \in {"created", "start"} -> "queued"
      [] pc[r] = "building" -> "building"
      [] pc[r] = "seeding" -> "seeding"
      [] pc[r] \in {"cases", "endPhase", "relayResult"} -> "running"
      [] pc[r] \in {"scoring", "transcript"} -> "scoring"
      [] pc[r] = "batch" /\ work[r].batch > 0 -> "running"
      [] OTHER -> "generating"

\* Polling an active run shows the stage its worker is in, and a relay pause that
\* overlaps a stage change resumes into the new stage, not the old one.
ShownStageIsCurrent ==
    \A r \in stored : pc[r] \in BodyPC /\ ~Terminal(job[r]) =>
        AnnouncedStage(r) = IF job[r].status = Waiting THEN job[r].resumeStatus
                            ELSE job[r].status

\* An active run shows waiting_for_relay exactly while some chat call of its
\* harness sits in provider recovery, however many calls begin and end waits.
WaitingIffRecovering ==
    \A r \in stored : ~Terminal(job[r]) => (job[r].status = Waiting <=> chat[r].waiting > 0)

\* A report is published only from a whole run: every batch ended, nothing in
\* flight, and every case either appended its score or crashed to a zero.
ReportIsWhole ==
    \A r \in stored : job[r].status = "done" =>
        /\ job[r].report
        /\ work[r].batch = Batches
        /\ work[r].inflight = 0
        /\ job[r].partial + work[r].crashed = Total

\* A sticky verdict reaches the worker: once neither the agent-failure callback nor a
\* DELETE is about to fire the cancel function, the run's context is cancelled unless
\* the worker has already unregistered.  In particular neither canceller can meet a
\* run in the window before its cancel function is registered.
CancelReachesWorker ==
    \A r \in stored :
        /\ job[r].cancelled
        /\ notify[r] \notin {"lookup", "fire"}
        /\ \A d \in Deleters : del[d].run = r => del[d].pc # "fire"
        => r \in ctxDone \/ pc[r] \in {"releaseSlot", "exited"}

\* The first terminal verdict is final.  A done job and a cancelled job never
\* change again, whatever the worker, the broker's callbacks or another DELETE
\* still write; a failed job stays failed.
VerdictIsFinal ==
    [][\A r \in stored :
          /\ job[r].status = "done" \/ job[r].cancelled => job'[r] = job[r]
          /\ job[r].status = "failed" => job'[r].status = "failed"]_vars

\* finishSandboxRun keeps a classification the scored path recorded; only the
\* container's own resource evidence replaces it.
ClassificationPreserved ==
    [][\A r \in stored :
          job[r].failure # "nil" /\ job'[r].failure # job[r].failure
              => job'[r].failure = "resource"]_vars

\* DELETE answers 409 only in the window before the worker's cancel function is
\* registered: a finish that races the DELETE is an idempotent 200.
ConflictOnlyBeforeStart ==
    [][\A d \in Deleters :
          del'[d].code = 409 /\ del[d].code # 409
              => pc[del[d].run] \notin {"releaseSlot", "exited"}]_vars

\* What a poller sees of the runs is a behaviour of RunContract.
PhaseOf(r) ==
    CASE r \notin stored -> "absent"
      [] r \in stored /\ Terminal(job[r]) -> job[r].status
      [] OTHER -> "active"

Contract == INSTANCE RunContract WITH
    phase  <- [r \in Runs |-> PhaseOf(r)],
    cause  <- [r \in Runs |-> job[r].failure],
    sticky <- {r \in Runs : job[r].cancelled}

ContractHolds == Contract!Spec

\* "run has no transcript (not finished, failed, or pre-transcript)": a failed run
\* has none to serve.
FailedRunsHaveNoTranscript == \A r \in stored : job[r].status = "failed" => ~job[r].transcript

\* "Direct sandbox resource evidence (OOM, tmpfs exhaustion) still wins over a prior
\* verdict": once the post-mortem wrote, a classified failure it has evidence
\* against carries the resource class.
ResourceEvidenceWins ==
    \A r \in stored :
        pc[r] = "stop" /\ work[r].evidence /\ work[r].seen.failure # "nil"
            => job[r].failure = "resource"

\* Every accepted run comes to its end.
AcceptedRunsEnd == \A r \in Runs : pc[r] = "created" ~> pc[r] = "exited"

\* A full server has a free slot again: no run keeps the service busy forever.
SlotsComeBack == runSlots = RunSlots ~> runSlots < RunSlots
=============================================================================
