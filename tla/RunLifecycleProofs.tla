------------------------- MODULE RunLifecycleProofs -------------------------
(***************************************************************************)
(* Proofs about RunLifecycle for every set of runs, slot capacity, number  *)
(* of cases and batches.                                                   *)
(***************************************************************************)
EXTENDS RunLifecycle, FiniteSetTheorems, TLAPS

-----------------------------------------------------------------------------
(* The inductive invariant.                                                *)

\* Deferred calls up to the one that turns a panic into a failure.
PanicPC == {"stopTools", "closePhase", "postmortem", "attach", "stop", "release", "recover"}

\* What the steps of one run rely on: a callback only reaches a stored job, a
\* cancelled job is failed, an unfinished stage can only find its job finished by a
\* canceller, and past the recover call the job is finished.
RunInv(r) ==
    /\ r \in stored <=> pc[r] \in {"created", "exited"} \cup BodyPC \cup UnwindPC
    /\ r \notin stored => job[r] = NewJob
    /\ chat[r].open > 0 \/ session[r] = "bound" \/ notify[r] # "no" => r \in stored
    /\ pc[r] \in BodyPC \cup (UnwindPC \ {"releaseSlot"}) => r \in runCancels
    /\ job[r].cancelled => job[r].status = "failed"
    /\ pc[r] \in {"created"} \cup BodyPC /\ Terminal(job[r]) => job[r].cancelled
    /\ r \in ctxDone \/ notify[r] \in {"lookup", "fire"} => job[r].cancelled
    /\ pc[r] \in UnwindPC \cup {"exited"} =>
          Terminal(job[r]) \/ (work[r].panicked /\ pc[r] \in PanicPC)
    /\ work[r].panicked => job[r].status # "done" /\ pc[r] \in UnwindPC \cup {"exited"}
    /\ pc[r] = "attach" /\ work[r].seen.status = "failed" => job[r].status = "failed"

DeleteInv(d) ==
    /\ del[d].pc \in {"lookup", "reread", "transition", "fire"} => del[d].run \in stored
    /\ del[d].pc = "fire" => job[del[d].run].cancelled

\* The inductive invariant behind UnregisteredIsTerminal and VerdictIsFinal: who may
\* have finished a job by the time its worker, its cancel function and the two
\* cancellers are at a given point.
VerdictInv == (\A r \in Runs : RunInv(r)) /\ (\A d \in Deleters : DeleteInv(d))

-----------------------------------------------------------------------------
(* The store's operators: what each returns is a job, and none touches a   *)
(* cancelled job.                                                          *)

USE DEF Unless

\* The counters of progress stay natural numbers.
LEMMA NatStep == \A n \in Nat : n + 1 \in Nat
  OBVIOUS

\* Every store operation turns a job into a job.
LEMMA JobOpsType ==
    ASSUME NEW j \in JobType
    PROVE  /\ NewJob \in JobType
           /\ \A s \in Stages, d \in Nat : SetStage(j, s, d) \in JobType
           /\ SetRelayWaiting(j, TRUE) \in JobType
           /\ SetRelayWaiting(j, FALSE) \in JobType
           /\ AppendPartial(j) \in JobType
           /\ \A e \in ErrorClass, f \in FailureClass :
                 FailWith(j, e, f) \in JobType /\ FailIfActive(j, e, f) \in JobType
           /\ SetTranscript(j) \in JobType
           /\ Finish(j) \in JobType
           /\ Verdict(j) \in [status : Status, error : ErrorClass, failure : FailureClass]
  <1> USE DEF JobType, Status, TerminalStatus
  <1>1. NewJob \in JobType
    BY DEF NewJob, Stages, ErrorClass, FailureClass
  <1>2. ASSUME NEW s \in Stages, NEW d \in Nat
        PROVE  SetStage(j, s, d) \in JobType
    BY ZenonT(60) DEF SetStage
  <1>3. SetRelayWaiting(j, TRUE) \in JobType
    BY ZenonT(60) DEF SetRelayWaiting, PauseForRelay
  <1>4. SetRelayWaiting(j, FALSE) \in JobType
    <2> DEFINE status == IF j.resumeStatus = "" THEN "running" ELSE j.resumeStatus
               stage  == IF j.resumeStage = "" THEN status ELSE j.resumeStage
    <2>1. "running" \in Stages
      BY DEF Stages
    <2>2. status \in Status /\ stage \in Stages \cup {"", Waiting}
      BY <2>1
    <2>3. SetRelayWaiting(j, FALSE) =
             Unless(j, IF j.status # Waiting THEN j
                       ELSE [j EXCEPT !.status = status, !.stage = stage,
                                      !.resumeStatus = "", !.resumeStage = ""])
      BY DEF SetRelayWaiting, ResumeFromRelay
    <2> HIDE DEF status, stage
    <2> QED BY <2>2, <2>3, ZenonT(60)
  <1>5. AppendPartial(j) \in JobType
    <2>a. j.partial \in Nat
      OBVIOUS
    <2>1. j.partial + 1 \in Nat
      BY <2>a, NatStep, Zenon
    <2> DEFINE n == j.partial + 1
    <2>2. n \in Nat /\ AppendPartial(j) = Unless(j, [j EXCEPT !.partial = n, !.done = n])
      BY <2>1 DEF AppendPartial
    <2> HIDE DEF n
    <2> QED BY <2>2, ZenonT(60)
  <1>6. ASSUME NEW e \in ErrorClass, NEW f \in FailureClass
        PROVE  FailWith(j, e, f) \in JobType /\ FailIfActive(j, e, f) \in JobType
    BY ZenonT(60) DEF FailWith, FailIfActive, Terminal
  <1>7. SetTranscript(j) \in JobType /\ Finish(j) \in JobType
    BY ZenonT(60) DEF SetTranscript, Finish
  <1>8. Verdict(j) \in [status : Status, error : ErrorClass, failure : FailureClass]
    BY DEF Verdict
  <1> QED BY <1>1, <1>2, <1>3, <1>4, <1>5, <1>6, <1>7, <1>8

\* A write that leaves an active job active, and leaves a cancelled one alone.
Progressing(j, k) ==
    /\ k \in JobType
    /\ k.cancelled = j.cancelled
    /\ j.cancelled => k = j
    /\ Terminal(k) => Terminal(j)

\* A write that ends a job unless it was cancelled before.
Ending(j, k) ==
    /\ k \in JobType
    /\ k.cancelled = j.cancelled
    /\ j.cancelled => k = j
    /\ ~j.cancelled => Terminal(k)

\* The stage and progress writes, and the relay's pause and resume, progress.
LEMMA ProgressingWrites ==
    ASSUME NEW j \in JobType
    PROVE  /\ Progressing(j, j)
           /\ \A s \in Stages, d \in Nat : Progressing(j, SetStage(j, s, d))
           /\ Progressing(j, AppendPartial(j))
           /\ Progressing(j, SetTranscript(j))
  <1> USE JobOpsType DEF Progressing, Terminal
  <1>1. Progressing(j, j)
    OBVIOUS
  <1>2. ASSUME NEW s \in Stages, NEW d \in Nat
        PROVE  Progressing(j, SetStage(j, s, d))
    <2>1. SetStage(j, s, d) \in JobType
      OBVIOUS
    <2>2. s \notin TerminalStatus /\ Waiting \notin TerminalStatus
      BY DEF Stages, TerminalStatus, Waiting
    <2> QED BY <2>1, <2>2 DEF SetStage, JobType
  <1>3. Progressing(j, AppendPartial(j))
    BY DEF AppendPartial, JobType
  <1>4. Progressing(j, SetTranscript(j))
    BY ZenonT(60) DEF SetTranscript, JobType
  <1> QED BY <1>1, <1>2, <1>3, <1>4

\* The pause and the resume leave every finished job alone.
LEMMA RelayWrites ==
    ASSUME NEW j \in JobType, NEW waiting \in BOOLEAN
    PROVE  /\ Progressing(j, SetRelayWaiting(j, waiting))
           /\ Terminal(j) => SetRelayWaiting(j, waiting) = j
  <1>1. SetRelayWaiting(j, waiting) \in JobType
    BY JobOpsType
  <1>2. CASE waiting = TRUE
    BY <1>1, <1>2, ZenonT(60) DEF Progressing, SetRelayWaiting, PauseForRelay, JobType, Terminal,
                      TerminalStatus, Waiting
  <1>3. CASE waiting = FALSE
    <2>1. j.resumeStatus \in Stages \cup {""}
      BY DEF JobType
    <2>2. j.resumeStatus # "" => j.resumeStatus \notin TerminalStatus
      BY <2>1 DEF Stages, TerminalStatus
    <2> DEFINE status == IF j.resumeStatus = "" THEN "running" ELSE j.resumeStatus
               stage  == IF j.resumeStage = "" THEN status ELSE j.resumeStage
               k == [j EXCEPT !.status = status, !.stage = stage,
                              !.resumeStatus = "", !.resumeStage = ""]
    <2>3. SetRelayWaiting(j, waiting) = Unless(j, IF j.status # Waiting THEN j ELSE k)
      BY <1>3 DEF SetRelayWaiting, ResumeFromRelay
    <2>4. status \notin TerminalStatus
      BY <2>2 DEF TerminalStatus
    <2>5. k.cancelled = j.cancelled /\ k.status = status
      BY DEF JobType
    <2>6. Waiting \notin TerminalStatus
      BY DEF Waiting, TerminalStatus
    <2> HIDE DEF status, stage, k
    <2> QED BY <1>1, <2>3, <2>4, <2>5, <2>6 DEF Progressing, Terminal
  <1> QED BY <1>2, <1>3

\* Failures and the finish end.
LEMMA EndingWrites ==
    ASSUME NEW j \in JobType
    PROVE  /\ \A e \in ErrorClass, f \in FailureClass : Ending(j, FailWith(j, e, f))
           /\ Ending(j, Finish(j))
  <1> USE JobOpsType DEF Ending, Terminal, TerminalStatus
  <1>1. ASSUME NEW e \in ErrorClass, NEW f \in FailureClass
        PROVE  Ending(j, FailWith(j, e, f))
    <2>1. FailWith(j, e, f) \in JobType
      OBVIOUS
    <2> QED BY <2>1 DEF FailWith, JobType
  <1>2. Ending(j, Finish(j))
    BY ZenonT(60) DEF Finish, JobType
  <1> QED BY <1>1, <1>2

-----------------------------------------------------------------------------
(* What any step of the pipeline does to its run, whatever the stage: it   *)
(* moves on with a progressing write, or it starts the deferred calls after *)
(* ending the job, after a panic, or because the context is cancelled.      *)

PCType == HandlerPC \cup BodyPC \cup UnwindPC \cup {"exited"}
SessionType == {"none", "ready", "claimed", "bound", "gone"}

MovesOn(r) ==
    /\ \E to \in BodyPC : pc' = [pc EXCEPT ![r] = to]
    /\ Progressing(job[r], job'[r])
    /\ work'[r].panicked = work[r].panicked

StartsUnwinding(r) ==
    /\ pc' = [pc EXCEPT ![r] = "stopTools"]
    /\ \/ Ending(job[r], job'[r]) /\ work'[r].panicked = work[r].panicked
       \/ job'[r] = job[r] /\ r \in ctxDone /\ work'[r].panicked = work[r].panicked
       \/ job'[r] = job[r] /\ work'[r].panicked

BodyStep(r) ==
    /\ pc[r] \in BodyPC
    /\ MovesOn(r) \/ StartsUnwinding(r)
    /\ \E j \in JobType : job' = [job EXCEPT ![r] = j]
    /\ \E w \in WorkType : work' = [work EXCEPT ![r] = w]
    /\ \E h \in ResType : res' = [res EXCEPT ![r] = h]
    /\ \E c \in SessionType : session' = [session EXCEPT ![r] = c]
    /\ UNCHANGED <<stored, runSlots, runCancels, ctxDone, chat, notify, del>>

\* Progress counters are natural numbers.
LEMMA ProgressType ==
    ASSUME TypeOK, NEW r \in Runs
    PROVE  Progress(r) \in Nat
  <1>1. \A a, b \in Nat : a * b \in Nat
    OBVIOUS
  <1>2. Cases \in Nat /\ work[r].batch \in Nat
    BY RunLifecycleAssumption DEF TypeOK, WorkType
  <1> QED BY <1>1, <1>2, Zenon DEF Progress

\* A step that moves on with a progressing write of the job and nothing else.
LEMMA AdvanceShape ==
    ASSUME TypeOK, NEW r \in Runs, NEW to \in BodyPC, NEW j, Progressing(job[r], j),
           pc[r] \in BodyPC, pc' = [pc EXCEPT ![r] = to], Store(r, j),
           NEW h \in ResType, res' = [res EXCEPT ![r] = h],
           NEW c \in SessionType, session' = [session EXCEPT ![r] = c],
           UNCHANGED <<work, stored, runSlots, runCancels, ctxDone, chat, notify, del>>
    PROVE  BodyStep(r)
  <1>1. job'[r] = j /\ j \in JobType /\ job' = [job EXCEPT ![r] = j]
    BY DEF TypeOK, Store, Progressing
  <1>2. work[r] \in WorkType /\ work' = [work EXCEPT ![r] = work[r]]
    BY DEF TypeOK
  <1>3. MovesOn(r)
    BY <1>1 DEF MovesOn
  <1> QED BY <1>1, <1>2, <1>3 DEF BodyStep

\* A step that ends the job, or leaves it to its canceller, and unwinds.
LEMMA AbortShape ==
    ASSUME TypeOK, NEW r \in Runs, NEW j,
           Ending(job[r], j) \/ (r \in ctxDone /\ j = job[r]),
           pc[r] \in BodyPC, pc' = [pc EXCEPT ![r] = "stopTools"], Store(r, j),
           NEW h \in ResType, res' = [res EXCEPT ![r] = h],
           NEW c \in SessionType, session' = [session EXCEPT ![r] = c],
           UNCHANGED <<work, stored, runSlots, runCancels, ctxDone, chat, notify, del>>
    PROVE  BodyStep(r)
  <1>1. job'[r] = j /\ j \in JobType /\ job' = [job EXCEPT ![r] = j]
    BY DEF TypeOK, Store, Ending
  <1>2. work[r] \in WorkType /\ work' = [work EXCEPT ![r] = work[r]]
    BY DEF TypeOK
  <1>3. StartsUnwinding(r)
    BY <1>1 DEF StartsUnwinding
  <1> QED BY <1>1, <1>2, <1>3 DEF BodyStep

\* Every pipeline step has that shape.
LEMMA PipelineShape ==
    ASSUME TypeOK, NEW r \in Runs, Pipeline(r) \/ CasePanics(r) \/ Panic(r)
    PROVE  BodyStep(r)
  <1> DEFINE j == job[r]
  <1>j. j \in JobType
    BY DEF TypeOK
  <1>same. /\ job = [job EXCEPT ![r] = j]
           /\ work = [work EXCEPT ![r] = work[r]] /\ work[r] \in WorkType
           /\ res = [res EXCEPT ![r] = res[r]] /\ res[r] \in ResType
           /\ session = [session EXCEPT ![r] = session[r]] /\ session[r] \in SessionType
    BY DEF TypeOK, SessionType
  <1>res. /\ \A b \in BOOLEAN : /\ [res[r] EXCEPT !.image = b] \in ResType
                               /\ [res[r] EXCEPT !.container = b] \in ResType
                               /\ [res[r] EXCEPT !.phase = b] \in ResType
                               /\ [res[r] EXCEPT !.tools = b] \in ResType
          /\ \A b \in BOOLEAN :
                /\ [res EXCEPT ![r].image = b] = [res EXCEPT ![r] = [res[r] EXCEPT !.image = b]]
                /\ [res EXCEPT ![r].container = b]
                      = [res EXCEPT ![r] = [res[r] EXCEPT !.container = b]]
                /\ [res EXCEPT ![r].phase = b] = [res EXCEPT ![r] = [res[r] EXCEPT !.phase = b]]
                /\ [res EXCEPT ![r].tools = b] = [res EXCEPT ![r] = [res[r] EXCEPT !.tools = b]]
    BY <1>same DEF ResType
  <1>1. ASSUME NEW from \in BodyPC, NEW f \in FailureClass,
               Abort(r, from, f) \/ AbortUnlessCancelled(r, from, f),
               NEW h \in ResType, res' = [res EXCEPT ![r] = h],
               NEW c \in SessionType, session' = [session EXCEPT ![r] = c],
               UNCHANGED <<work, stored, runSlots, runCancels, ctxDone, chat, notify, del>>
        PROVE  BodyStep(r)
    <2>1. Ending(j, FailWith(j, "failed", f))
      BY <1>j, EndingWrites DEF ErrorClass
    <2>2. CASE Abort(r, from, f)
      BY <1>1, <2>1, <2>2, AbortShape DEF Abort, Go
    <2>3. CASE AbortUnlessCancelled(r, from, f)
      BY <1>1, <2>1, <2>3, AbortShape DEF AbortUnlessCancelled, Go
    <2> QED BY <1>1, <2>2, <2>3
  <1>2. ASSUME NEW from \in BodyPC, NEW to \in BodyPC, Go(r, from, to),
               NEW k, Progressing(j, k), Store(r, k),
               NEW h \in ResType, res' = [res EXCEPT ![r] = h],
               NEW c \in SessionType, session' = [session EXCEPT ![r] = c],
               UNCHANGED <<work, stored, runSlots, runCancels, ctxDone, chat, notify, del>>
        PROVE  BodyStep(r)
    BY <1>2, AdvanceShape DEF Go
  <1>3. /\ Progressing(j, j)
        /\ \A d \in Nat, stage \in Stages : Progressing(j, SetStage(j, stage, d))
        /\ Progressing(j, AppendPartial(j)) /\ Progressing(j, SetTranscript(j))
        /\ job' = job => Store(r, j)
    BY <1>j, <1>same, ProgressingWrites DEF Store
  <1>4. /\ BodyPC = {"start", "building", "generating", "starting", "binding", "health",
           "admission", "relayStart", "probe", "restart", "rebinding", "rehealth",
           "reprobe", "toolServer", "batch", "seeding", "cases", "endPhase",
           "relayResult", "scoring", "transcript"}
        /\ {"building", "generating", "seeding", "running", "scoring"} \subseteq Stages
        /\ {"nil", "infra", "agent"} \subseteq FailureClass
        /\ "bound" \in SessionType
        /\ Progress(r) \in Nat /\ 0 \in Nat
        /\ Req(r).ticketed \in BOOLEAN
    BY ProgressType
       DEF BodyPC, Stages, FailureClass, SessionType, TypeOK, WorkType, RequestShape, Req
  <1> HIDE DEF j
  <1>5. CASE BeginBuild(r)
    BY <1>5, <1>1, <1>2, <1>3, <1>4, <1>same, SMTT(60) DEF BeginBuild, outside, j
  <1>6. CASE EndBuild(r)
    BY <1>6, <1>1, <1>2, <1>3, <1>4, <1>same, <1>res, ZenonT(60) DEF EndBuild, outside, j
  <1>7. CASE Generate(r)
    BY <1>7, <1>1, <1>2, <1>3, <1>4, <1>same DEF Generate, outside, j
  <1>8. CASE StartContainer(r)
    BY <1>8, <1>1, <1>2, <1>3, <1>4, <1>same, <1>res, ZenonT(60)
       DEF StartContainer, RunContainer, outside, j
  <1>9. CASE BindSource(r)
    BY <1>9, <1>1, <1>2, <1>3, <1>4, <1>same DEF BindSource, outside, j
  <1>10. CASE WaitHealthy(r)
    BY <1>10, <1>1, <1>2, <1>3, <1>4, <1>same, SMTT(60) DEF WaitHealthy, outside, j
  <1>11. CASE AdmitEmbedding(r)
    BY <1>11, <1>1, <1>2, <1>3, <1>4, <1>same, <1>res, ZenonT(60) DEF AdmitEmbedding, outside, j
  <1>12. CASE RelayRunStart(r)
    BY <1>12, <1>1, <1>2, <1>3, <1>4, <1>same DEF RelayRunStart, outside, j
  <1>13. CASE ProbeRoute(r)
    BY <1>13, <1>1, <1>2, <1>3, <1>4, <1>same, <1>res, ZenonT(60) DEF ProbeRoute, outside, j
  <1>14. CASE RestartContainer(r)
    BY <1>14, <1>1, <1>2, <1>3, <1>4, <1>same, <1>res, ZenonT(60)
       DEF RestartContainer, RunContainer, outside, j
  <1>15. CASE ReplaceBoundSource(r)
    BY <1>15, <1>1, <1>2, <1>3, <1>4, <1>same, SMTT(60) DEF ReplaceBoundSource, outside, j
  <1>16. CASE WaitHealthyAgain(r)
    BY <1>16, <1>1, <1>2, <1>3, <1>4, <1>same, SMTT(60) DEF WaitHealthyAgain, outside, j
  <1>17. CASE ReprobeRoute(r)
    BY <1>17, <1>1, <1>2, <1>3, <1>4, <1>same, SMTT(60) DEF ReprobeRoute, outside, j
  <1>18. CASE StartToolServer(r)
    BY <1>18, <1>1, <1>2, <1>3, <1>4, <1>same, <1>res DEF StartToolServer, outside, j
  <1>19. CASE BeginSeed(r)
    BY <1>19, <1>1, <1>2, <1>3, <1>4, <1>same DEF BeginSeed, outside, j
  <1>20. CASE SeedFails(r)
    BY <1>20, <1>1, <1>2, <1>3, <1>4, <1>same, SMTT(60) DEF SeedFails, outside, j
  <1>21. CASE EndEmbeddingPhase(r)
    BY <1>21, <1>1, <1>2, <1>3, <1>4, <1>same, <1>res DEF EndEmbeddingPhase, outside, j
  <1>22. CASE RelayRunResult(r)
    BY <1>22, <1>1, <1>2, <1>3, <1>4, <1>same, SMTT(60) DEF RelayRunResult, outside, j
  <1>23. CASE AttachTranscript(r)
    BY <1>23, <1>1, <1>2, <1>3, <1>4, <1>same DEF AttachTranscript, outside, j
  <1>24. CASE Publish(r)
    BY <1>24, <1>j, <1>4, <1>same, EndingWrites, AbortShape DEF Publish, Go, outside, j
  <1>25. CASE StartCase(r)
    <2> DEFINE w == [work[r] EXCEPT !.started = @ + 1, !.inflight = @ + 1]
    <2> DEFINE m == work[r].started + 1
               n == work[r].inflight + 1
    <2>a. m \in 0..Cases /\ n \in 0..CaseConcurrency
      BY <1>25, <1>same, RunLifecycleAssumption DEF StartCase, WorkType
    <2>b. w = [work[r] EXCEPT !.started = m, !.inflight = n]
      OBVIOUS
    <2> HIDE DEF m, n
    <2>1. w \in WorkType /\ w.panicked = work[r].panicked
      BY <2>a, <2>b, <1>same DEF WorkType
    <2>2. /\ work' = [work EXCEPT ![r] = w] /\ work'[r] = w
          /\ pc[r] \in BodyPC /\ pc' = [pc EXCEPT ![r] = "cases"]
          /\ job' = [job EXCEPT ![r] = j] /\ job'[r] = j
          /\ UNCHANGED <<res, session, stored, runSlots, runCancels, ctxDone, chat, notify, del>>
      BY <1>25, <1>same, <1>4 DEF StartCase, TypeOK, outside, Store, Go, j, WorkType
    <2> HIDE DEF w
    <2> QED BY <2>1, <2>2, <1>j, <1>3, <1>4, <1>same
           DEF BodyStep, MovesOn, StartsUnwinding, Progressing, j
  <1>26. CASE FinishCase(r)
    <2> DEFINE w == [work[r] EXCEPT !.inflight = @ - 1]
    <2>1. w \in WorkType /\ w.panicked = work[r].panicked
      BY <1>26, <1>same, NatStep, RunLifecycleAssumption DEF FinishCase, WorkType
    <2>2. /\ work' = [work EXCEPT ![r] = w] /\ work'[r] = w
          /\ pc[r] \in BodyPC /\ pc' = [pc EXCEPT ![r] = "cases"]
          /\ job' = [job EXCEPT ![r] = AppendPartial(j)] /\ job'[r] = AppendPartial(j)
          /\ UNCHANGED <<res, session, stored, runSlots, runCancels, ctxDone, chat, notify, del>>
      BY <1>26, <1>same, <1>4 DEF FinishCase, TypeOK, outside, Store, Go, j, WorkType
    <2> HIDE DEF w
    <2> QED BY <2>1, <2>2, <1>j, <1>3, <1>4, <1>same
           DEF BodyStep, MovesOn, StartsUnwinding, Progressing, j
  <1>27. CASE CasePanics(r)
    <2> DEFINE w == [work[r] EXCEPT !.inflight = @ - 1, !.crashed = @ + 1]
    <2> DEFINE m == work[r].crashed + 1
               n == work[r].inflight - 1
    <2>a. m \in Nat /\ n \in 0..CaseConcurrency
      BY <1>27, <1>same, RunLifecycleAssumption DEF CasePanics, WorkType
    <2>b. w = [work[r] EXCEPT !.inflight = n, !.crashed = m]
      OBVIOUS
    <2> HIDE DEF m, n
    <2>1. w \in WorkType /\ w.panicked = work[r].panicked
      BY <2>a, <2>b, <1>same DEF WorkType
    <2>2. /\ work' = [work EXCEPT ![r] = w] /\ work'[r] = w
          /\ pc[r] \in BodyPC /\ pc' = [pc EXCEPT ![r] = "cases"]
          /\ job' = [job EXCEPT ![r] = j] /\ job'[r] = j
          /\ UNCHANGED <<res, session, stored, runSlots, runCancels, ctxDone, chat, notify, del>>
      BY <1>27, <1>same, <1>4 DEF CasePanics, TypeOK, outside, Store, Go, j, WorkType
    <2> HIDE DEF w
    <2> QED BY <2>1, <2>2, <1>j, <1>3, <1>4, <1>same
           DEF BodyStep, MovesOn, StartsUnwinding, Progressing, j
  <1>28. CASE BeginCases(r)
    <2> DEFINE w == [work[r] EXCEPT !.started = 0]
    <2>1. w \in WorkType /\ w.panicked = work[r].panicked
      BY <1>28, <1>same, NatStep, RunLifecycleAssumption DEF BeginCases, WorkType
    <2>2. /\ work' = [work EXCEPT ![r] = w] /\ work'[r] = w
          /\ pc[r] \in BodyPC /\ pc' = [pc EXCEPT ![r] = "cases"]
          /\ job' = [job EXCEPT ![r] = SetStage(j, "running", Progress(r))]
          /\ job'[r] = SetStage(j, "running", Progress(r))
          /\ UNCHANGED <<res, session, stored, runSlots, runCancels, ctxDone, chat, notify, del>>
      BY <1>28, <1>same, <1>4 DEF BeginCases, TypeOK, outside, Store, Go, j, WorkType
    <2> HIDE DEF w
    <2> QED BY <2>1, <2>2, <1>j, <1>3, <1>4, <1>same, ZenonT(60)
           DEF BodyStep, MovesOn, StartsUnwinding, Progressing, j
  <1>29. CASE Panic(r)
    <2> DEFINE w == [work[r] EXCEPT !.panicked = TRUE]
    <2>1. w \in WorkType /\ w.panicked = TRUE
      BY <1>29, <1>same, NatStep, RunLifecycleAssumption DEF Panic, WorkType
    <2>2. /\ work' = [work EXCEPT ![r] = w] /\ work'[r] = w
          /\ pc[r] \in BodyPC /\ pc' = [pc EXCEPT ![r] = "stopTools"]
          /\ job' = [job EXCEPT ![r] = j] /\ job'[r] = j
          /\ UNCHANGED <<res, session, stored, runSlots, runCancels, ctxDone, chat, notify, del>>
      BY <1>29, <1>same, <1>4 DEF Panic, TypeOK, outside, Store, Go, j, WorkType
    <2> HIDE DEF w
    <2> QED BY <2>1, <2>2, <1>j, <1>3, <1>4, <1>same
           DEF BodyStep, MovesOn, StartsUnwinding, Progressing, j
  <1>30. CASE EndBatch(r)
    <2>1. CASE r \in ctxDone
      BY <1>30, <2>1, <1>j, <1>4, <1>same, AbortShape
         DEF EndBatch, BatchReturned, Go, outside, Store, j
    <2>2. CASE r \notin ctxDone
      <3> DEFINE n == work[r].batch + 1
                 w == [work[r] EXCEPT !.batch = n]
      <3>1. n \in Nat
        BY <1>same, NatStep, Zenon DEF WorkType
      <3>2. work' = [work EXCEPT ![r] = w] /\ work'[r] = w
        BY <1>30, <2>2, <1>same DEF EndBatch, TypeOK
      <3>3. \E to \in {"endPhase", "batch"} : pc[r] = "cases" /\ pc' = [pc EXCEPT ![r] = to]
        BY <1>30, <2>2 DEF EndBatch, Go
      <3>4. UNCHANGED <<job, res, session, stored, runSlots, runCancels, ctxDone, chat,
                        notify, del>>
        BY <1>30 DEF EndBatch, outside
      <3> HIDE DEF n
      <3>5. w \in WorkType /\ w.panicked = work[r].panicked
        BY <3>1, <1>same DEF WorkType
      <3> HIDE DEF w
      <3> QED BY <3>2, <3>3, <3>4, <3>5, <1>j, <1>3, <1>4, <1>same DEF BodyStep, MovesOn, j
    <2> QED BY <2>1, <2>2
  <1> QED BY <1>5, <1>6, <1>7, <1>8, <1>9, <1>10, <1>11, <1>12, <1>13, <1>14, <1>15, <1>16,
              <1>17, <1>18, <1>19, <1>20, <1>21, <1>22, <1>23, <1>24, <1>25, <1>26, <1>27,
              <1>28, <1>29, <1>30 DEF Pipeline

-----------------------------------------------------------------------------
(* Types.                                                                  *)

\* The initial states are typed.
LEMMA InitType == Init => TypeOK
  <1> SUFFICES ASSUME Init PROVE TypeOK
    OBVIOUS
  <1> USE RunLifecycleAssumption
  <1>1. NewJob \in JobType /\ Verdict(NewJob) \in [status : Status, error : ErrorClass,
                                                   failure : FailureClass]
    <2>1. NewJob \in JobType
      BY DEF NewJob, JobType, Status, Stages, TerminalStatus, ErrorClass, FailureClass
    <2> QED BY <2>1, JobOpsType
  <1>2. job \in [Runs -> JobType]
    BY <1>1 DEF Init
  <1>3. work \in [Runs -> WorkType]
    <2>1. ASSUME NEW q \in Requests
          PROVE  [req |-> q, batch |-> 0, started |-> 0, inflight |-> 0, crashed |-> 0,
                  panicked |-> FALSE, seen |-> Verdict(NewJob), evidence |-> FALSE] \in WorkType
      <3>1. 0 \in 0..Cases /\ 0 \in 0..CaseConcurrency /\ q \in RequestShape
        OBVIOUS
      <3> QED BY <3>1, <1>1 DEF WorkType
    <2> QED BY <2>1 DEF Init
  <1>4. /\ pc \in [Runs -> HandlerPC \cup BodyPC \cup UnwindPC \cup {"exited"}]
        /\ res \in [Runs -> ResType]
        /\ session \in [Runs -> {"none", "ready", "claimed", "bound", "gone"}]
        /\ notify \in [Runs -> {"no", "declined", "lookup", "fire", "over"}]
    BY DEF Init, HandlerPC, ResType
  <1>5. chat \in [Runs -> ChatType]
    BY DEF Init, ChatType
  <1>6. del \in [Deleters -> DelType]
    <2>1. (CHOOSE r \in Runs : TRUE) \in Runs
      OBVIOUS
    <2> QED BY <2>1 DEF Init, DelType, HandlerCodes
  <1>7. stored \subseteq Runs /\ runSlots \in 0..RunSlots /\ runCancels \subseteq Runs /\ ctxDone \subseteq Runs
    BY DEF Init
  <1> QED BY <1>2, <1>3, <1>4, <1>5, <1>6, <1>7 DEF TypeOK

\* Submission keeps the types: the channel takes a token only below its capacity.
LEMMA SubmitType == ASSUME TypeOK, NEW r \in Runs, Submit(r) PROVE TypeOK'
  <1> USE RunLifecycleAssumption DEF TypeOK
  <1>1. {"slot", "rejected", "claimed", "created"} \subseteq HandlerPC /\ "start" \in BodyPC
    BY DEF HandlerPC, BodyPC
  <1>2. CASE AcquireSlot(r)
    BY <1>1, <1>2 DEF AcquireSlot, Go
  <1>3. CASE ClaimSession(r)
    BY <1>1, <1>3 DEF ClaimSession, Go
  <1>4. CASE CreateJob(r)
    <2>1. NewJob \in JobType
      BY JobOpsType
    <2> QED BY <1>1, <1>4, <2>1 DEF CreateJob, Go, Store
  <1>5. CASE StartWorker(r)
    BY <1>1, <1>5 DEF StartWorker, Go
  <1> QED BY <1>2, <1>3, <1>4, <1>5 DEF Submit

\* A step of the pipeline keeps the types, whatever it writes to the job.
LEMMA BodyType == ASSUME TypeOK, NEW r \in Runs, BodyStep(r) PROVE TypeOK'
  <1>1. pc' \in [Runs -> HandlerPC \cup BodyPC \cup UnwindPC \cup {"exited"}]
    <2>1. "stopTools" \in UnwindPC
      BY DEF UnwindPC
    <2> QED BY <2>1 DEF TypeOK, BodyStep, MovesOn, StartsUnwinding
  <1>2. /\ job' \in [Runs -> JobType]
        /\ work' \in [Runs -> WorkType]
        /\ res' \in [Runs -> ResType]
        /\ session' \in [Runs -> SessionType]
    BY DEF TypeOK, BodyStep, SessionType
  <1> QED BY <1>1, <1>2 DEF TypeOK, BodyStep, SessionType

\* A deferred call keeps the types.
LEMMA UnwindType == ASSUME TypeOK, NEW r \in Runs, Unwind(r) PROVE TypeOK'
  <1> USE DEF TypeOK
  <1>1. {"closePhase", "postmortem", "attach", "stop", "release", "recover", "removeRun",
         "unregister", "releaseSlot"} \subseteq UnwindPC
    BY DEF UnwindPC
  <1>2. CASE StopTools(r)
    BY <1>1, <1>2, ZenonT(60) DEF StopTools, Go, outside, ResType
  <1>3. CASE ClosePhase(r)
    BY <1>1, <1>3, ZenonT(60) DEF ClosePhase, Go, outside, ResType
  <1>4. CASE ReadForPostmortem(r)
    <2>1. Verdict(job[r]) \in [status : Status, error : ErrorClass, failure : FailureClass]
      BY JobOpsType
    <2> DEFINE v == Verdict(job[r])
    <2>2. PICK e \in BOOLEAN : work' = [work EXCEPT ![r].seen = v, ![r].evidence = e]
      BY <1>4 DEF ReadForPostmortem
    <2> HIDE DEF v
    <2> DEFINE w == [work[r] EXCEPT !.seen = v, !.evidence = e]
    <2>a. work[r] \in WorkType /\ v \in [status : Status, error : ErrorClass, failure : FailureClass]
      BY <2>1 DEF v
    <2>b. w \in WorkType
      BY <2>a DEF WorkType
    <2>c. work' = [work EXCEPT ![r] = w]
      BY <2>2, <2>a DEF WorkType
    <2>3. work' \in [Runs -> WorkType]
      BY <2>b, <2>c
    <2> QED BY <1>1, <1>4, <2>3 DEF ReadForPostmortem, Go, outside
  <1>5. CASE AttachDiagnostics(r)
    <2>1. PostmortemVerdict(r) \in FailureClass
      BY DEF PostmortemVerdict, WorkType, FailureClass
    <2>2. work[r].seen.error \in ErrorClass /\ "envelope" \in ErrorClass
      BY DEF WorkType, ErrorClass
    <2>3. \E k \in JobType : Store(r, k)
      BY <1>5, <2>1, <2>2, JobOpsType DEF AttachDiagnostics
    <2> QED BY <1>1, <1>5, <2>3 DEF AttachDiagnostics, Go, outside, Store
  <1>6. CASE StopContainer(r)
    BY <1>1, <1>6, ZenonT(60) DEF StopContainer, Go, outside, ResType
  <1>7. CASE ReleaseImage(r)
    BY <1>1, <1>7, ZenonT(60) DEF ReleaseImage, Go, outside, ResType
  <1>8. CASE Recover(r)
    <2>1. "panic" \in ErrorClass /\ "nil" \in FailureClass
      BY DEF ErrorClass, FailureClass
    <2>2. \E k \in JobType : Store(r, k)
      BY <1>8, <2>1, JobOpsType DEF Recover
    <2> QED BY <1>1, <1>8, <2>2 DEF Recover, Go, outside, Store
  <1>9. CASE RemoveRun(r)
    BY <1>1, <1>9 DEF RemoveRun, Go
  <1>10. CASE UnregisterRunCancel(r)
    BY <1>1, <1>10 DEF UnregisterRunCancel, Go
  <1>11. CASE ReleaseSlot(r)
    BY <1>1, <1>11, RunLifecycleAssumption DEF ReleaseSlot, Go
  <1> QED BY <1>2, <1>3, <1>4, <1>5, <1>6, <1>7, <1>8, <1>9, <1>10, <1>11 DEF Unwind

Broker(r) ==
    BeginCall(r) \/ BeginRelayWait(r) \/ EndCall(r) \/ AgentDeclined(r) \/ AgentFailure(r)
        \/ LoseSession(r)

\* A chat call, a callback and a lost session keep the types: no more waiters than calls.
LEMMA BrokerType == ASSUME TypeOK, NEW r \in Runs, Broker(r) PROVE TypeOK'
  <1> USE RunLifecycleAssumption DEF TypeOK, worker
  <1>1. /\ SetRelayWaiting(job[r], TRUE) \in JobType
        /\ SetRelayWaiting(job[r], FALSE) \in JobType
        /\ FailIfActive(job[r], "declined", "agent") \in JobType
    BY JobOpsType DEF ErrorClass, FailureClass
  <1>2. chat[r].open \in 0..MaxCalls /\ chat[r].waiting \in 0..MaxCalls
        /\ chat[r].waiting <= chat[r].open
    BY DEF ChatType
  <1>3. ASSUME NEW o \in 0..MaxCalls, NEW w \in 0..MaxCalls, w <= o,
               chat' = [chat EXCEPT ![r] = [open |-> o, waiting |-> w]]
        PROVE  chat' \in [Runs -> ChatType]
    BY <1>3 DEF ChatType
  <1>4. ASSUME NEW o \in Int
        PROVE  /\ [chat EXCEPT ![r].open = o]
                      = [chat EXCEPT ![r] = [open |-> o, waiting |-> chat[r].waiting]]
               /\ [chat EXCEPT ![r].waiting = o]
                      = [chat EXCEPT ![r] = [open |-> chat[r].open, waiting |-> o]]
    <2>1. chat[r] \in [open : 0..MaxCalls, waiting : 0..MaxCalls]
      BY DEF ChatType
    <2>2. /\ [chat[r] EXCEPT !.open = o] = [open |-> o, waiting |-> chat[r].waiting]
          /\ [chat[r] EXCEPT !.waiting = o] = [open |-> chat[r].open, waiting |-> o]
      BY ONLY <2>1
    <2> QED BY <2>2
  <1>5. CASE BeginCall(r)
    <2> DEFINE o == chat[r].open + 1
    <2>a. o \in Int /\ chat' = [chat EXCEPT ![r].open = o]
      BY <1>2, <1>5 DEF BeginCall
    <2>2. o \in 0..MaxCalls /\ chat[r].waiting <= o
      BY <1>2, <1>5 DEF BeginCall
    <2> HIDE DEF o
    <2>1. chat' = [chat EXCEPT ![r] = [open |-> o, waiting |-> chat[r].waiting]]
      BY <1>4, <2>a
    <2> QED BY <1>2, <1>3, <1>5, <2>1, <2>2 DEF BeginCall
  <1>6. CASE BeginRelayWait(r)
    <2> DEFINE w == chat[r].waiting + 1
    <2>a. w \in Int /\ chat' = [chat EXCEPT ![r].waiting = w]
      BY <1>2, <1>6 DEF BeginRelayWait
    <2>2. w \in 0..MaxCalls /\ w <= chat[r].open
      BY <1>2, <1>6 DEF BeginRelayWait
    <2> HIDE DEF w
    <2>1. chat' = [chat EXCEPT ![r] = [open |-> chat[r].open, waiting |-> w]]
      BY <1>4, <2>a
    <2>3. chat' \in [Runs -> ChatType]
      BY <1>2, <1>3, <2>1, <2>2
    <2>4. \E k \in JobType : Store(r, k)
      BY <1>1, <1>6 DEF BeginRelayWait
    <2> QED BY <1>6, <2>3, <2>4, ZenonT(60) DEF BeginRelayWait, Store
  <1>7. CASE EndCall(r)
    <2>1. CASE /\ chat[r].waiting < chat[r].open
               /\ chat' = [chat EXCEPT ![r].open = @ - 1]
               /\ UNCHANGED <<worker, job, ctxDone, session, notify, del>>
      <3> DEFINE o == chat[r].open - 1
      <3>a. o \in Int /\ chat' = [chat EXCEPT ![r].open = o]
        BY <1>2, <2>1
      <3>2. o \in 0..MaxCalls /\ chat[r].waiting <= o
        BY <1>2, <2>1
      <3> HIDE DEF o
      <3>1. chat' = [chat EXCEPT ![r] = [open |-> o, waiting |-> chat[r].waiting]]
        BY <1>4, <3>a
      <3> QED BY <1>2, <1>3, <2>1, <3>1, <3>2
    <2>2. CASE /\ chat[r].waiting > 0
               /\ chat' = [chat EXCEPT ![r].open = @ - 1, ![r].waiting = @ - 1]
               /\ Store(r, IF chat[r].waiting = 1 THEN SetRelayWaiting(job[r], FALSE) ELSE job[r])
               /\ UNCHANGED <<worker, ctxDone, session, notify, del>>
      <3> DEFINE o == chat[r].open - 1
                 w == chat[r].waiting - 1
      <3>1. chat' = [chat EXCEPT ![r] = [open |-> o, waiting |-> w]]
        BY <2>2 DEF ChatType
      <3>2. o \in 0..MaxCalls /\ w \in 0..MaxCalls /\ w <= o
        BY <1>2, <2>2
      <3> HIDE DEF o, w
      <3>3. chat' \in [Runs -> ChatType]
        BY <1>3, <3>1, <3>2
      <3>4. \E k \in JobType : Store(r, k)
        BY <1>1, <2>2
      <3> QED BY <2>2, <3>3, <3>4, ZenonT(60) DEF Store
    <2> QED BY <1>7, <2>1, <2>2 DEF EndCall
  <1>8. CASE AgentDeclined(r)
    BY <1>8 DEF AgentDeclined
  <1>9. CASE AgentFailure(r)
    BY <1>1, <1>9 DEF AgentFailure, FailAgentRun, LookupAgentCancel, FireAgentCancel, Store
  <1>10. CASE LoseSession(r)
    BY <1>10 DEF LoseSession
  <1> QED BY <1>5, <1>6, <1>7, <1>8, <1>9, <1>10 DEF Broker

\* A DELETE request keeps the types.
LEMMA DeleteType ==
    ASSUME TypeOK, NEW d \in Deleters, DeleteRead(d) \/ Delete(d)
    PROVE  TypeOK'
  <1> USE DEF TypeOK, worker
  <1>1. del[d].run \in Runs
    BY DEF DelType
  <1>2. FailIfActive(job[del[d].run], "cancelled", "nil") \in JobType
    BY <1>1, JobOpsType DEF ErrorClass, FailureClass
  <1>3. ASSUME NEW p \in {"idle", "lookup", "reread", "transition", "fire", "replied"},
               NEW c \in HandlerCodes, del' = [del EXCEPT ![d].pc = p, ![d].code = c]
               \/ del' = [del EXCEPT ![d].pc = p]
        PROVE  del' \in [Deleters -> DelType]
    BY <1>3 DEF DelType
  <1>4. {0, 200, 202, 404, 409} = HandlerCodes
    BY DEF HandlerCodes
  <1>5. CASE DeleteRead(d)
    <2>1. PICK q \in Runs : del' = [del EXCEPT ![d] =
              IF q \notin stored THEN [pc |-> "replied", run |-> q, code |-> 404]
              ELSE IF Terminal(job[q]) THEN [pc |-> "replied", run |-> q, code |-> 200]
              ELSE [pc |-> "lookup", run |-> q, code |-> 0]]
      BY <1>5 DEF DeleteRead
    <2>2. \A p \in {"replied", "lookup"}, c \in HandlerCodes :
              [pc |-> p, run |-> q, code |-> c] \in DelType
      BY DEF DelType
    <2>3. del' \in [Deleters -> DelType]
      BY <1>4, <2>1, <2>2
    <2> QED BY <1>5, <2>3 DEF DeleteRead
  <1>6. CASE DeleteLookup(d)
    BY <1>3, <1>4, <1>6, ZenonT(60) DEF DeleteLookup, DeleteTo
  <1>7. CASE DeleteReread(d)
    <2> DEFINE c == IF Terminal(job[del[d].run]) THEN 200 ELSE 409
    <2>1. c \in HandlerCodes
      BY <1>4
    <2>2. del' = [del EXCEPT ![d].pc = "replied", ![d].code = c]
      BY <1>7 DEF DeleteReread, Reply
    <2> HIDE DEF c
    <2> QED BY <1>3, <1>7, <2>1, <2>2 DEF DeleteReread
  <1>8. CASE DeleteTransition(d)
    BY <1>1, <1>2, <1>3, <1>4, <1>8, SMTT(60) DEF DeleteTransition, DeleteTo, Reply, Store
  <1>9. CASE DeleteFire(d)
    BY <1>1, <1>3, <1>4, <1>9, ZenonT(60) DEF DeleteFire, Reply
  <1> QED BY <1>5, <1>6, <1>7, <1>8, <1>9 DEF Delete

\* A step of the system is a submission, a step of a run's pipeline, one of its
\* deferred calls, a broker step, or a step of a DELETE.
LEMMA NextCases ==
    ASSUME TypeOK, Next
    PROVE  \/ \E r \in Runs : Submit(r) \/ BodyStep(r) \/ Unwind(r) \/ Broker(r)
           \/ \E d \in Deleters : DeleteRead(d) \/ Delete(d)
  BY PipelineShape DEF Next, Worker, Broker

\* Every variable keeps its type: the counters of the slots channel, of the case
\* semaphore and of the relay waiters never leave their bounds.
THEOREM TypeCorrect == Spec => []TypeOK
  <1>1. TypeOK /\ [Next]_vars => TypeOK'
    <2>1. CASE UNCHANGED vars
      BY <2>1 DEF vars, TypeOK
    <2>2. CASE Next
      BY <2>2, NextCases, SubmitType, BodyType, UnwindType, BrokerType, DeleteType
    <2> QED BY <2>1, <2>2
  <1> QED BY InitType, <1>1, PTL DEF Spec

-----------------------------------------------------------------------------
(* The verdict.                                                            *)

\* What a step keeps of every job, read from the step's unprimed side.
Kept(q) ==
    /\ job[q].status = "done" \/ job[q].cancelled => job'[q] = job[q]
    /\ job[q].status = "failed" => job'[q].status = "failed"

\* A run none of whose variables moves keeps its invariant.
LEMMA RunFrame ==
    ASSUME NEW q, RunInv(q), job'[q] = job[q], pc'[q] = pc[q], work'[q] = work[q],
           chat'[q].open = chat[q].open, session'[q] = session[q], notify'[q] = notify[q],
           q \in stored' <=> q \in stored, q \in runCancels' <=> q \in runCancels,
           q \in ctxDone' <=> q \in ctxDone
    PROVE  RunInv(q)'
  BY DEF RunInv, NewJob

\* A DELETE that does not move keeps its invariant, cancelled jobs being kept.
LEMMA DeleteFrame ==
    ASSUME TypeOK, NEW d \in Deleters, DeleteInv(d), del'[d] = del[d], stored \subseteq stored',
           \A q \in Runs : Kept(q)
    PROVE  DeleteInv(d)'
  <1>1. del[d].run \in Runs
    BY DEF TypeOK, DelType
  <1> QED BY <1>1 DEF DeleteInv, Kept

\* The invariant holds before any request: nothing is stored, nobody has cancelled.
LEMMA InitVerdict == Init => VerdictInv
  <1> SUFFICES ASSUME Init PROVE VerdictInv
    OBVIOUS
  <1>1. ASSUME NEW r \in Runs PROVE RunInv(r)
    <2>1. /\ pc[r] = "idle" /\ job[r] = NewJob /\ chat[r].open = 0 /\ notify[r] = "no"
          /\ session[r] \in {"ready", "none"} /\ stored = {} /\ ctxDone = {}
      BY DEF Init
    <2>2. ~work[r].panicked
      <3>1. PICK q \in Requests :
              work[r] = [req |-> q, batch |-> 0, started |-> 0, inflight |-> 0,
                         crashed |-> 0, panicked |-> FALSE, seen |-> Verdict(NewJob),
                         evidence |-> FALSE]
        BY DEF Init
      <3> QED BY <3>1
    <2>3. "idle" \notin {"created", "exited"} \cup BodyPC \cup UnwindPC
      BY DEF BodyPC, UnwindPC
    <2>4. ~NewJob.cancelled
      BY DEF NewJob
    <2> QED BY <2>1, <2>2, <2>3, <2>4 DEF RunInv
  <1>2. ASSUME NEW d \in Deleters PROVE DeleteInv(d)
    BY DEF Init, DeleteInv
  <1> QED BY <1>1, <1>2 DEF VerdictInv

\* Submission stores a fresh job and registers its cancel function before the worker starts.
LEMMA SubmitVerdict ==
    ASSUME TypeOK, VerdictInv, NEW r \in Runs, Submit(r)
    PROVE  /\ \A q \in Runs : RunInv(q)'
           /\ \A q \in Runs : Kept(q)
           /\ stored \subseteq stored' /\ del' = del
  <1> USE DEF TypeOK
  <1>1. ASSUME NEW q \in Runs PROVE RunInv(q)
    BY DEF VerdictInv
  <1>pc. /\ {"idle", "slot", "claimed", "rejected"} \cap
               ({"created", "exited"} \cup BodyPC \cup UnwindPC) = {}
         /\ "start" \in BodyPC /\ "start" \notin UnwindPC /\ "created" \notin BodyPC \cup UnwindPC
    BY DEF BodyPC, UnwindPC
  <1>job. ~Terminal(NewJob) /\ ~NewJob.cancelled
    BY DEF NewJob, Terminal, TerminalStatus
  <1>2. CASE AcquireSlot(r) \/ ClaimSession(r)
    <2>1. /\ UNCHANGED <<stored, job, work, runCancels, ctxDone, chat, notify, del>>
          /\ pc[r] \in {"idle", "slot"} /\ pc'[r] \in {"slot", "claimed", "rejected"}
          /\ session'[r] = "bound" => session[r] = "bound"
          /\ \A q \in Runs : q # r => pc'[q] = pc[q] /\ session'[q] = session[q]
      BY <1>2 DEF AcquireSlot, ClaimSession, Go
    <2>2. RunInv(r)'
      BY <1>1, <1>pc, <2>1 DEF RunInv
    <2>3. ASSUME NEW q \in Runs, q # r PROVE RunInv(q)'
      BY <1>1, <2>1, <2>3, RunFrame
    <2> QED BY <2>1, <2>2, <2>3 DEF Kept
  <1>3. CASE CreateJob(r)
    <2>1. /\ UNCHANGED <<work, runCancels, ctxDone, chat, notify, session, del>>
          /\ pc[r] = "claimed" /\ pc' = [pc EXCEPT ![r] = "created"]
          /\ stored' = stored \cup {r} /\ job' = [job EXCEPT ![r] = NewJob]
      BY <1>3 DEF CreateJob, Go, Store
    <2>2. r \notin stored /\ job[r] = NewJob /\ job' = job
      BY <1>1, <1>pc, <2>1 DEF RunInv
    <2>3. RunInv(r)'
      BY <1>1, <1>pc, <1>job, <2>1, <2>2 DEF RunInv
    <2>4. ASSUME NEW q \in Runs, q # r PROVE RunInv(q)'
      BY <1>1, <2>1, <2>2, <2>4, RunFrame
    <2> QED BY <2>1, <2>2, <2>3, <2>4 DEF Kept
  <1>4. CASE StartWorker(r)
    <2>1. /\ UNCHANGED <<stored, job, work, ctxDone, chat, notify, session, del>>
          /\ pc[r] = "created" /\ pc' = [pc EXCEPT ![r] = "start"]
          /\ runCancels' = runCancels \cup {r}
      BY <1>4 DEF StartWorker, Go
    <2>2. RunInv(r)'
      BY <1>1, <1>pc, <2>1 DEF RunInv
    <2>3. ASSUME NEW q \in Runs, q # r PROVE RunInv(q)'
      BY <1>1, <2>1, <2>3, RunFrame
    <2> QED BY <2>1, <2>2, <2>3 DEF Kept
  <1> QED BY <1>2, <1>3, <1>4 DEF Submit

\* The pipeline leaves finished jobs alone and unwinds only with the job finished, cancelled
\* or about to be failed by the recover call.
LEMMA BodyVerdict ==
    ASSUME TypeOK, VerdictInv, NEW r \in Runs, BodyStep(r)
    PROVE  /\ \A q \in Runs : RunInv(q)'
           /\ \A q \in Runs : Kept(q)
           /\ stored \subseteq stored' /\ del' = del
  <1> USE DEF TypeOK
  <1>1. ASSUME NEW q \in Runs PROVE RunInv(q)
    BY DEF VerdictInv
  <1>2. /\ pc[r] \in BodyPC
        /\ UNCHANGED <<stored, runCancels, ctxDone, chat, notify, del>>
        /\ \A q \in Runs : q # r => /\ pc'[q] = pc[q] /\ session'[q] = session[q]
                                   /\ job'[q] = job[q] /\ work'[q] = work[q]
    BY DEF BodyStep, MovesOn, StartsUnwinding
  <1>3. /\ "stopTools" \in UnwindPC /\ "stopTools" # "releaseSlot" /\ "stopTools" \in PanicPC
        /\ "stopTools" # "attach" /\ BodyPC \cap (UnwindPC \cup {"exited", "attach"}) = {}
        /\ "stopTools" \notin BodyPC /\ "created" \notin BodyPC \cup UnwindPC
    BY DEF BodyPC, UnwindPC, PanicPC
  <1>4. /\ r \in stored /\ r \in runCancels /\ ~work[r].panicked
        /\ Terminal(job[r]) => job[r].cancelled
        /\ job[r].cancelled => job[r].status = "failed"
        /\ r \in ctxDone \/ notify[r] \in {"lookup", "fire"} => job[r].cancelled
    BY <1>1, <1>2, <1>3 DEF RunInv
  <1>5. Kept(r) /\ (job'[r].cancelled <=> job[r].cancelled)
    BY <1>2, <1>4 DEF Kept, BodyStep, MovesOn, StartsUnwinding, Progressing, Ending, Terminal,
                      TerminalStatus
  <1>6. RunInv(r)'
    <2>1. CASE MovesOn(r)
      <3>1. PICK to \in BodyPC : pc' = [pc EXCEPT ![r] = to]
        BY <2>1 DEF MovesOn
      <3>2. pc'[r] \in BodyPC /\ work'[r].panicked = work[r].panicked
            /\ (Terminal(job'[r]) => Terminal(job[r])) /\ (job[r].cancelled => job'[r] = job[r])
        BY <2>1, <3>1 DEF MovesOn, Progressing
      <3>3. Terminal(job[r])' <=> Terminal(job'[r])
        BY DEF Terminal
      <3> QED BY <1>2, <1>3, <1>4, <1>5, <3>2, <3>3 DEF RunInv
    <2>2. CASE StartsUnwinding(r)
      <3>1. pc'[r] = "stopTools"
        BY <2>2 DEF StartsUnwinding
      <3>2. Terminal(job'[r]) \/ work'[r].panicked
        BY <1>4, <2>2 DEF StartsUnwinding, Ending, Terminal, TerminalStatus
      <3>3. work'[r].panicked => job'[r].status # "done"
        BY <1>4, <2>2 DEF StartsUnwinding, Terminal, TerminalStatus
      <3>4. Terminal(job[r])' <=> Terminal(job'[r])
        BY DEF Terminal
      <3>5. job[r].cancelled => job'[r] = job[r]
        BY <1>5 DEF Kept
      <3> QED BY <1>2, <1>3, <1>4, <1>5, <3>1, <3>2, <3>3, <3>4, <3>5 DEF RunInv
    <2> QED BY <2>1, <2>2 DEF BodyStep
  <1>7. ASSUME NEW q \in Runs, q # r PROVE RunInv(q)' /\ Kept(q)
    BY <1>1, <1>2, <1>7, RunFrame DEF Kept
  <1> QED BY <1>2, <1>5, <1>6, <1>7

\* A failure leaves a cancelled job alone and fails any other.
LEMMA FailWithKeeps ==
    ASSUME NEW j \in JobType, NEW e, NEW f
    PROVE  /\ FailWith(j, e, f).cancelled = j.cancelled
           /\ j.cancelled => FailWith(j, e, f) = j
           /\ ~j.cancelled => FailWith(j, e, f).status = "failed"
  BY DEF FailWith, JobType

\* The deferred calls: only the post-mortem and the recover call write the job, the
\* one a failed job and the other a job that is not done.
LEMMA UnwindVerdict ==
    ASSUME TypeOK, VerdictInv, NEW r \in Runs, Unwind(r)
    PROVE  /\ \A q \in Runs : RunInv(q)'
           /\ \A q \in Runs : Kept(q)
           /\ stored \subseteq stored' /\ del' = del
  <1> USE DEF TypeOK
  <1>1. ASSUME NEW q \in Runs PROVE RunInv(q)
    BY DEF VerdictInv
  <1>2. /\ UNCHANGED <<stored, ctxDone, chat, notify, del>>
        /\ \A q \in Runs : q # r => /\ pc'[q] = pc[q] /\ session'[q] = session[q]
                                   /\ job'[q] = job[q] /\ work'[q] = work[q]
                                   /\ (q \in runCancels' <=> q \in runCancels)
    BY DEF Unwind, StopTools, ClosePhase, ReadForPostmortem, AttachDiagnostics, StopContainer,
           ReleaseImage, Recover, RemoveRun, UnregisterRunCancel, ReleaseSlot, outside, Go, Store
  <1>3. ASSUME NEW q \in Runs, q # r PROVE RunInv(q)' /\ Kept(q)
    BY <1>1, <1>2, <1>3, RunFrame DEF Kept
  <1>4. /\ UnwindPC = {"stopTools", "closePhase", "postmortem", "attach", "stop", "release",
                       "recover", "removeRun", "unregister", "releaseSlot"}
        /\ PanicPC = UnwindPC \ {"removeRun", "unregister", "releaseSlot"}
        /\ BodyPC \cap (UnwindPC \cup {"exited"}) = {}
    BY DEF UnwindPC, PanicPC, BodyPC
  <1>5. pc[r] \in UnwindPC /\ pc'[r] \in UnwindPC \cup {"exited"}
    BY <1>4 DEF Unwind, StopTools, ClosePhase, ReadForPostmortem, AttachDiagnostics,
           StopContainer, ReleaseImage, Recover, RemoveRun, UnregisterRunCancel, ReleaseSlot, Go
  <1>6. /\ r \in stored /\ (pc[r] # "releaseSlot" => r \in runCancels)
        /\ job[r].cancelled => job[r].status = "failed"
        /\ r \in ctxDone \/ notify[r] \in {"lookup", "fire"} => job[r].cancelled
        /\ Terminal(job[r]) \/ (work[r].panicked /\ pc[r] \in PanicPC)
        /\ work[r].panicked => job[r].status # "done"
        /\ pc[r] = "attach" /\ work[r].seen.status = "failed" => job[r].status = "failed"
    BY <1>1, <1>4, <1>5 DEF RunInv
  <1>7. ASSUME job'[r] = job[r], work'[r] = work[r], pc'[r] # "attach",
               pc[r] \in PanicPC => pc'[r] \in PanicPC,
               pc'[r] # "releaseSlot" => r \in runCancels' \/ pc'[r] = "exited"
        PROVE  RunInv(r)' /\ Kept(r)
    <2>1. Terminal(job[r])' <=> Terminal(job[r])
      BY <1>7 DEF Terminal
    <2>2. session'[r] = "bound" => r \in stored'
      BY <1>2, <1>6
    <2> QED BY <1>2, <1>4, <1>5, <1>6, <1>7, <2>1, <2>2 DEF RunInv, Kept
  <1>8. ASSUME StopTools(r) \/ ClosePhase(r) \/ StopContainer(r) \/ ReleaseImage(r)
         PROVE  RunInv(r)' /\ Kept(r)
    BY <1>4, <1>6, <1>7, <1>8
       DEF StopTools, ClosePhase, StopContainer, ReleaseImage, Go, outside
  <1>9. ASSUME ReadForPostmortem(r)
         PROVE  RunInv(r)' /\ Kept(r)
    <2>1. /\ pc[r] = "postmortem" /\ pc'[r] = "attach" /\ job' = job /\ runCancels' = runCancels
          /\ work'[r].panicked = work[r].panicked
      BY <1>9 DEF ReadForPostmortem, Go, outside, WorkType
    <2>2. work'[r].seen.status = "failed" => job[r].status = "failed"
      <3>1. PICK e \in BOOLEAN :
               work' = [work EXCEPT ![r].seen = Verdict(job[r]), ![r].evidence = e]
        BY <1>9 DEF ReadForPostmortem
      <3>2. work'[r].seen = Verdict(job[r])
        BY <3>1 DEF WorkType
      <3> QED BY <3>2 DEF Verdict
    <2>3. Terminal(job[r])' <=> Terminal(job[r])
      BY <2>1 DEF Terminal
    <2> QED BY <1>2, <1>4, <1>5, <1>6, <2>1, <2>2, <2>3 DEF RunInv, Kept
  <1>10. ASSUME AttachDiagnostics(r)
         PROVE  RunInv(r)' /\ Kept(r)
    <2>1. pc[r] = "attach" /\ pc'[r] = "stop" /\ UNCHANGED <<work, runCancels>>
      BY <1>10 DEF AttachDiagnostics, Go, outside
    <2>2. \/ job'[r] = job[r]
          \/ /\ job[r].status = "failed"
             /\ job'[r].status = "failed" /\ job'[r].cancelled = job[r].cancelled
             /\ job[r].cancelled => job'[r] = job[r]
      BY <1>6, <1>10, <2>1, FailWithKeeps DEF AttachDiagnostics, Store
    <2>3. Terminal(job[r]) => Terminal(job[r])'
      BY <2>2 DEF Terminal, TerminalStatus
    <2> QED BY <1>2, <1>4, <1>5, <1>6, <2>1, <2>2, <2>3 DEF RunInv, Kept
  <1>11. ASSUME Recover(r)
         PROVE  RunInv(r)' /\ Kept(r)
    <2>1. pc[r] = "recover" /\ pc'[r] = "removeRun" /\ UNCHANGED <<work, runCancels>>
      BY <1>11 DEF Recover, Go, outside
    <2>2. \/ ~work[r].panicked /\ job'[r] = job[r]
          \/ /\ work[r].panicked /\ job'[r].cancelled = job[r].cancelled
             /\ job'[r].status = "failed" \/ (job[r].cancelled /\ job'[r] = job[r])
             /\ job[r].cancelled => job'[r] = job[r]
      BY <1>11, FailWithKeeps DEF Recover, Store
    <2>3. job'[r].status = "failed" \/ (~work[r].panicked /\ job'[r] = job[r])
      BY <1>6, <2>2
    <2>4. Terminal(job[r])'
      BY <1>6, <2>3 DEF Terminal, TerminalStatus
    <2> QED BY <1>2, <1>4, <1>5, <1>6, <2>1, <2>2, <2>3, <2>4 DEF RunInv, Kept
  <1>12. ASSUME RemoveRun(r) \/ UnregisterRunCancel(r) \/ ReleaseSlot(r)
         PROVE  RunInv(r)' /\ Kept(r)
    BY <1>4, <1>6, <1>7, <1>12 DEF RemoveRun, UnregisterRunCancel, ReleaseSlot, Go
  <1>13. RunInv(r)' /\ Kept(r)
    BY <1>8, <1>9, <1>10, <1>11, <1>12 DEF Unwind
  <1> QED BY <1>2, <1>3, <1>13

\* What a write by the broker or by a DELETE may do to a job: leave a finished one
\* alone, and finish another only by cancelling it.
OutsideWrite(j, k) ==
    /\ Terminal(j) => k = j
    /\ Terminal(k) /\ ~Terminal(j) => k.cancelled
    /\ k.cancelled => k = j \/ k.status = "failed"

\* What the broker and DELETE write to a job finishes it only as a canceller.
LEMMA OutsideWrites ==
    ASSUME NEW j \in JobType
    PROVE  /\ OutsideWrite(j, j)
           /\ \A waiting \in BOOLEAN : /\ OutsideWrite(j, SetRelayWaiting(j, waiting))
                                      /\ SetRelayWaiting(j, waiting).cancelled = j.cancelled
           /\ \A e \in ErrorClass, f \in FailureClass :
                 /\ OutsideWrite(j, FailIfActive(j, e, f))
                 /\ ~Terminal(j) => FailIfActive(j, e, f).cancelled
  <1>1. OutsideWrite(j, j)
    BY DEF OutsideWrite
  <1>2. ASSUME NEW waiting \in BOOLEAN
        PROVE  /\ OutsideWrite(j, SetRelayWaiting(j, waiting))
               /\ SetRelayWaiting(j, waiting).cancelled = j.cancelled
    BY RelayWrites DEF OutsideWrite, Progressing
  <1>3. ASSUME NEW e \in ErrorClass, NEW f \in FailureClass
        PROVE  /\ OutsideWrite(j, FailIfActive(j, e, f))
               /\ ~Terminal(j) => FailIfActive(j, e, f).cancelled
    <2>1. CASE Terminal(j)
      BY <2>1, <1>1 DEF FailIfActive
    <2>2. CASE ~Terminal(j)
      BY <2>2 DEF FailIfActive, OutsideWrite, JobType
    <2> QED BY <2>1, <2>2
  <1> QED BY <1>1, <1>2, <1>3

\* Such a write keeps the invariant of a stored run whose worker does not move.
LEMMA OutsideFrame ==
    ASSUME NEW r, r \in stored, RunInv(r), OutsideWrite(job[r], job'[r]),
           UNCHANGED <<stored, pc, work, runCancels>>,
           r \in ctxDone' => job'[r].cancelled,
           notify'[r] \in {"lookup", "fire"} => job'[r].cancelled
    PROVE  RunInv(r)' /\ Kept(r)
  <1>1. /\ Terminal(job[r])' <=> Terminal(job'[r])
        /\ \A k : k.status = "failed" \/ k.status = "done" <=> Terminal(k)
    BY DEF Terminal, TerminalStatus
  <1>2. "attach" \notin {"created"} \cup BodyPC
    BY DEF BodyPC
  <1>3. job[r].cancelled => job[r].status = "failed"
    BY DEF RunInv
  <1>4. Kept(r)
    BY <1>1, <1>3 DEF OutsideWrite, Kept
  <1>5. job'[r].cancelled => job'[r].status = "failed"
    BY <1>3 DEF OutsideWrite
  <1>6. Terminal(job[r]) => Terminal(job'[r])
    BY <1>1 DEF OutsideWrite
  <1>7. Terminal(job'[r]) => job'[r] = job[r] \/ job'[r].cancelled
    BY DEF OutsideWrite
  <1>8. job'[r].status = "done" => job[r].status = "done"
    BY <1>1, <1>5, <1>7
  <1>9. job[r].status = "failed" => job'[r].status = "failed"
    BY <1>4 DEF Kept
  <1> QED BY <1>1, <1>4, <1>5, <1>6, <1>7, <1>8, <1>9 DEF RunInv

\* A chat call, a relay pause and the agent-failure callback keep the invariant.
LEMMA BrokerVerdict ==
    ASSUME TypeOK, VerdictInv, NEW r \in Runs, Broker(r)
    PROVE  /\ \A q \in Runs : RunInv(q)'
           /\ \A q \in Runs : Kept(q)
           /\ stored \subseteq stored' /\ del' = del
  <1> USE DEF TypeOK
  <1>1. ASSUME NEW q \in Runs PROVE RunInv(q)
    BY DEF VerdictInv
  <1>2. job[r] \in JobType
    OBVIOUS
  <1>3. /\ UNCHANGED <<stored, pc, work, runCancels, del>>
        /\ \A q \in Runs : q # r => /\ job'[q] = job[q] /\ chat'[q] = chat[q]
                                   /\ session'[q] = session[q] /\ notify'[q] = notify[q]
                                   /\ (q \in ctxDone' <=> q \in ctxDone)
    BY ZenonT(60) DEF Broker, BeginCall, BeginRelayWait, EndCall, AgentDeclined, AgentFailure, FailAgentRun,
           LookupAgentCancel, FireAgentCancel, LoseSession, worker, Store
  <1>4. ASSUME NEW q \in Runs, q # r PROVE RunInv(q)' /\ Kept(q)
    BY <1>1, <1>3, <1>4, RunFrame DEF Kept
  <1>5. chat[r].open \in Nat /\ chat[r].waiting \in Nat
    BY RunLifecycleAssumption DEF ChatType
  <1>6. /\ chat[r].open > 0 \/ session[r] = "bound" \/ notify[r] # "no" => r \in stored
        /\ r \in ctxDone \/ notify[r] \in {"lookup", "fire"} => job[r].cancelled
    BY <1>1 DEF RunInv
  <1>7. ASSUME BeginCall(r) PROVE RunInv(r)' /\ Kept(r)
    BY <1>1, <1>2, <1>3, <1>6, <1>7, OutsideWrites, OutsideFrame DEF BeginCall
  <1>8. ASSUME BeginRelayWait(r) \/ EndCall(r) PROVE RunInv(r)' /\ Kept(r)
    <2>1. chat[r].waiting <= chat[r].open
      BY DEF ChatType
    <2>2. r \in stored
      <3>1. chat[r].waiting < chat[r].open \/ chat[r].waiting > 0
        BY <1>8 DEF BeginRelayWait, EndCall
      <3>2. \A o, w \in Nat : w <= o /\ (w < o \/ w > 0) => o > 0
        OBVIOUS
      <3> QED BY <1>5, <1>6, <2>1, <3>1, <3>2
    <2>3. \/ job' = job
          \/ \E waiting \in BOOLEAN : Store(r, SetRelayWaiting(job[r], waiting))
          \/ Store(r, job[r])
      BY <1>8 DEF BeginRelayWait, EndCall
    <2>4. OutsideWrite(job[r], job'[r]) /\ (job[r].cancelled => job'[r].cancelled)
      BY <1>2, <2>3, OutsideWrites DEF Store
    <2>5. UNCHANGED <<ctxDone, notify>>
      BY <1>8 DEF BeginRelayWait, EndCall
    <2> QED BY <1>1, <1>3, <1>6, <2>2, <2>4, <2>5, OutsideFrame
  <1>9. ASSUME AgentDeclined(r) PROVE RunInv(r)' /\ Kept(r)
    <2>1. r \in stored /\ UNCHANGED <<job, ctxDone>> /\ notify'[r] = "declined"
      BY <1>6, <1>9 DEF AgentDeclined
    <2> QED BY <1>1, <1>2, <1>3, <1>6, <2>1, OutsideWrites, OutsideFrame
  <1>10. ASSUME FailAgentRun(r) PROVE RunInv(r)' /\ Kept(r)
    <2> DEFINE k == FailIfActive(job[r], "declined", "agent")
    <2>1. /\ r \in stored /\ ctxDone' = ctxDone /\ job'[r] = k
          /\ notify'[r] \in {"lookup", "fire"} => ~Terminal(job[r])
      BY <1>6, <1>10 DEF FailAgentRun, Store
    <2>2. OutsideWrite(job[r], k) /\ (~Terminal(job[r]) => k.cancelled)
      BY <1>2, OutsideWrites DEF ErrorClass, FailureClass
    <2>3. job[r].cancelled => Terminal(job[r])
      BY <1>1 DEF RunInv, Terminal, TerminalStatus
    <2> HIDE DEF k
    <2>4. job[r].cancelled => job'[r].cancelled
      BY <2>1, <2>2, <2>3 DEF OutsideWrite
    <2> QED BY <1>1, <1>3, <1>6, <2>1, <2>2, <2>4, OutsideFrame
  <1>11. ASSUME LookupAgentCancel(r) \/ FireAgentCancel(r) PROVE RunInv(r)' /\ Kept(r)
    <2>1. /\ notify[r] \in {"lookup", "fire"} /\ job' = job
          /\ r \in ctxDone' => r \in ctxDone \/ notify[r] = "fire"
      BY <1>11 DEF LookupAgentCancel, FireAgentCancel
    <2> QED BY <1>1, <1>2, <1>3, <1>6, <2>1, OutsideWrites, OutsideFrame
  <1>12. ASSUME LoseSession(r) PROVE RunInv(r)' /\ Kept(r)
    <2>1. UNCHANGED <<job, ctxDone, chat, notify>> /\ session'[r] = "gone"
      BY <1>12 DEF LoseSession
    <2>2. Terminal(job[r])' <=> Terminal(job[r])
      BY <2>1 DEF Terminal
    <2> QED BY <1>1, <1>3, <2>1, <2>2 DEF RunInv, Kept
  <1> QED BY <1>3, <1>4, <1>7, <1>8, <1>9, <1>10, <1>11, <1>12 DEF Broker, AgentFailure

\* A DELETE keeps the invariant: it fires a cancel function only for a job it failed.
LEMMA DeleteVerdict ==
    ASSUME TypeOK, VerdictInv, NEW d \in Deleters, DeleteRead(d) \/ Delete(d)
    PROVE  VerdictInv' /\ \A q \in Runs : Kept(q)
  <1> USE DEF TypeOK
  <1>r. PICK r \in Runs : r = del[d].run
    BY DEF DelType
  <1>1. del[d] \in DelType
    OBVIOUS
  <1>2. /\ \A q \in Runs : RunInv(q)
        /\ \A e \in Deleters : DeleteInv(e)
    BY DEF VerdictInv
  <1>3. /\ UNCHANGED <<stored, pc, work, runCancels, chat, session, notify>>
        /\ \A e \in Deleters : e # d => del'[e] = del[e]
    BY DEF DeleteRead, Delete, DeleteLookup, DeleteReread, DeleteTransition, DeleteFire, worker,
           Reply, DeleteTo
  <1>4. job[r] \in JobType
    OBVIOUS
  <1>5. ASSUME UNCHANGED <<job, ctxDone>>
        PROVE  \A q \in Runs : RunInv(q)' /\ Kept(q)
    BY <1>2, <1>3, <1>5, RunFrame DEF Kept
  <1>6. ASSUME \A q \in Runs : Kept(q)
        PROVE  \A e \in Deleters : e # d => DeleteInv(e)'
    BY <1>2, <1>3, <1>6, DeleteFrame
  <1>7. ASSUME DeleteRead(d) \/ DeleteLookup(d) \/ DeleteReread(d)
        PROVE  DeleteInv(d)' /\ UNCHANGED <<job, ctxDone>>
    <2>1. UNCHANGED <<job, ctxDone, stored>>
      BY <1>7 DEF DeleteRead, DeleteLookup, DeleteReread, worker
    <2>2. /\ del'[d].pc # "fire"
          /\ del'[d].pc \in {"lookup", "reread", "transition"} => del'[d].run \in stored
      <3>1. CASE DeleteRead(d)
        <4>1. PICK q \in Runs : del'[d] =
                  IF q \notin stored THEN [pc |-> "replied", run |-> q, code |-> 404]
                  ELSE IF Terminal(job[q]) THEN [pc |-> "replied", run |-> q, code |-> 200]
                  ELSE [pc |-> "lookup", run |-> q, code |-> 0]
          BY <3>1 DEF DeleteRead
        <4> QED BY <4>1
      <3>2. CASE DeleteLookup(d)
        <4>1. del'[d].pc \in {"transition", "reread"} /\ del'[d].run = del[d].run
          BY <3>2 DEF DeleteLookup, DeleteTo, DelType
        <4> QED BY <3>2, <4>1, <1>2 DEF DeleteLookup, DeleteInv
      <3>3. CASE DeleteReread(d)
        <4>1. del'[d].pc = "replied"
          BY <3>3 DEF DeleteReread, Reply, DelType
        <4> QED BY <4>1
      <3> QED BY <1>7, <3>1, <3>2, <3>3
    <2> QED BY <2>1, <2>2 DEF DeleteInv
  <1>8. ASSUME DeleteTransition(d)
        PROVE  (\A q \in Runs : RunInv(q)' /\ Kept(q)) /\ DeleteInv(d)'
    <2>1. r \in stored /\ RunInv(r) /\ ctxDone' = ctxDone
      BY <1>r, <1>1, <1>2, <1>8 DEF DeleteTransition, DeleteInv
    <2>2. CASE Terminal(job[r])
      <3>1. job' = job /\ del'[d].pc = "replied"
        BY <1>r, <1>8, <1>1, <2>2 DEF DeleteTransition, Reply, DelType
      <3> QED BY <1>5, <2>1, <3>1 DEF DeleteInv
    <2>3. CASE ~Terminal(job[r])
      <3> DEFINE k == FailIfActive(job[r], "cancelled", "nil")
      <3>1. job' = [job EXCEPT ![r] = k] /\ del' = [del EXCEPT ![d].pc = "fire"]
        BY <1>r, <1>8, <2>3 DEF DeleteTransition, DeleteTo, Store
      <3>2. OutsideWrite(job[r], k) /\ k.cancelled
        BY <1>4, <2>3, OutsideWrites DEF ErrorClass, FailureClass
      <3> HIDE DEF k
      <3>3. job'[r] = k /\ \A q \in Runs : q # r => job'[q] = job[q]
        BY <1>r, <1>1, <3>1
      <3>4. RunInv(r)' /\ Kept(r)
        BY <1>3, <2>1, <3>2, <3>3, OutsideFrame
      <3>5. ASSUME NEW q \in Runs, q # r PROVE RunInv(q)' /\ Kept(q)
        BY <1>2, <1>3, <2>1, <3>3, <3>5, RunFrame DEF Kept
      <3>6. del'[d].run = r /\ del'[d].pc = "fire"
        BY <1>r, <1>1, <3>1 DEF DelType
      <3> QED BY <1>3, <2>1, <3>2, <3>3, <3>4, <3>5, <3>6 DEF DeleteInv
    <2> QED BY <2>2, <2>3
  <1>9. ASSUME DeleteFire(d)
        PROVE  (\A q \in Runs : RunInv(q)' /\ Kept(q)) /\ DeleteInv(d)'
    <2>1. /\ r \in stored /\ job[r].cancelled /\ job' = job /\ ctxDone' = ctxDone \cup {r}
          /\ del'[d].pc = "replied"
      BY <1>r, <1>1, <1>2, <1>9, SMTT(60) DEF DeleteFire, DeleteInv, Reply, DelType
    <2>2. RunInv(r)' /\ Kept(r)
      BY <1>r, <1>1, <1>2, <1>3, <1>4, <2>1, OutsideWrites, OutsideFrame DEF RunInv
    <2>3. ASSUME NEW q \in Runs, q # r PROVE RunInv(q)' /\ Kept(q)
      BY <1>2, <1>3, <2>1, <2>3, RunFrame DEF Kept
    <2> QED BY <2>1, <2>2, <2>3 DEF DeleteInv
  <1> QED BY <1>5, <1>6, <1>7, <1>8, <1>9 DEF Delete, VerdictInv

\* The invariant and the step property, for every step of the system.
LEMMA VerdictStep ==
    ASSUME TypeOK, VerdictInv, Next
    PROVE  VerdictInv' /\ \A q \in Runs : Kept(q)
  <1>1. ASSUME stored \subseteq stored', del' = del, \A q \in Runs : RunInv(q)' /\ Kept(q)
        PROVE  VerdictInv'
    BY <1>1, DeleteFrame DEF VerdictInv
  <1> QED BY <1>1, NextCases, SubmitVerdict, BodyVerdict, UnwindVerdict, BrokerVerdict,
             DeleteVerdict

\* The inductive invariant holds in every reachable state.
THEOREM VerdictInvariant == Spec => []VerdictInv
  <1>1. TypeOK /\ VerdictInv /\ [Next]_vars => VerdictInv'
    <2>1. CASE UNCHANGED vars
      BY <2>1 DEF vars, VerdictInv, RunInv, DeleteInv, Terminal
    <2>2. CASE Next
      BY <2>2, VerdictStep
    <2> QED BY <2>1, <2>2
  <1> QED BY InitVerdict, <1>1, TypeCorrect, PTL DEF Spec

\* A worker that has unregistered its cancel function left a terminal job: whichever
\* early return runSizeJob took, a poller does not wait forever.
THEOREM UnregisteredRunsAreTerminal == Spec => []UnregisteredIsTerminal
  <1>1. TypeOK /\ VerdictInv => UnregisteredIsTerminal
    BY DEF TypeOK, VerdictInv, RunInv, UnregisteredIsTerminal, BodyPC, UnwindPC, PanicPC
  <1> QED BY <1>1, TypeCorrect, VerdictInvariant, PTL

\* The first terminal verdict is final for any number of runs and DELETE requests.
THEOREM VerdictsAreFinal == Spec => VerdictIsFinal
  <1>1. TypeOK /\ VerdictInv /\ [Next]_vars =>
          [\A r \in stored :
             /\ job[r].status = "done" \/ job[r].cancelled => job'[r] = job[r]
             /\ job[r].status = "failed" => job'[r].status = "failed"]_vars
    BY VerdictStep DEF TypeOK, Kept
  <1> QED BY <1>1, TypeCorrect, VerdictInvariant, PTL DEF Spec, VerdictIsFinal

-----------------------------------------------------------------------------
(* The slots.                                                              *)

Holders == {q \in Runs : pc[q] \in HoldingPC}

\* A step that keeps the tokens in the channel keeps the set of holders, one that
\* takes a token adds a holder and one that returns a token removes one.
LEMMA HoldersStep ==
    ASSUME TypeOK, [Next]_vars
    PROVE  \/ runSlots' = runSlots /\ Holders' = Holders
           \/ \E r \in Runs \ Holders : runSlots' = runSlots + 1 /\ Holders' = Holders \cup {r}
           \/ \E r \in Holders : runSlots' = runSlots - 1 /\ Holders' = Holders \ {r}
  <1> USE DEF TypeOK
  <1>1. ASSUME NEW r \in Runs, NEW to, pc' = [pc EXCEPT ![r] = to]
        PROVE  /\ pc[r] \in HoldingPC /\ to \in HoldingPC => Holders' = Holders
               /\ pc[r] \notin HoldingPC /\ to \notin HoldingPC => Holders' = Holders
               /\ to \in HoldingPC => Holders' = Holders \cup {r}
               /\ to \notin HoldingPC => Holders' = Holders \ {r}
    BY <1>1 DEF Holders
  <1>2. /\ {"idle", "rejected", "exited"} \cap HoldingPC = {}
        /\ {"slot", "claimed", "created", "start"} \subseteq HoldingPC
        /\ BodyPC \subseteq HoldingPC /\ UnwindPC \subseteq HoldingPC
    BY DEF HoldingPC, BodyPC, UnwindPC
  <1>3. CASE UNCHANGED vars
    BY <1>3 DEF vars, Holders
  <1>4. ASSUME NEW r \in Runs, Submit(r)
        PROVE  \/ runSlots' = runSlots /\ Holders' = Holders
               \/ r \notin Holders /\ runSlots' = runSlots + 1 /\ Holders' = Holders \cup {r}
               \/ r \in Holders /\ runSlots' = runSlots - 1 /\ Holders' = Holders \ {r}
    BY <1>1, <1>2, <1>4 DEF Submit, AcquireSlot, ClaimSession, CreateJob, StartWorker, Go, Holders
  <1>5. ASSUME NEW r \in Runs, BodyStep(r)
        PROVE  runSlots' = runSlots /\ Holders' = Holders
    <2>1. \E to \in BodyPC \cup UnwindPC : pc' = [pc EXCEPT ![r] = to]
      BY <1>5 DEF BodyStep, MovesOn, StartsUnwinding, UnwindPC
    <2> QED BY <1>1, <1>2, <1>5, <2>1 DEF BodyStep
  <1>6. ASSUME NEW r \in Runs, Unwind(r)
        PROVE  \/ runSlots' = runSlots /\ Holders' = Holders
               \/ r \in Holders /\ runSlots' = runSlots - 1 /\ Holders' = Holders \ {r}
    <2>1. CASE ReleaseSlot(r)
      BY <1>1, <1>2, <2>1 DEF ReleaseSlot, Go, Holders, HoldingPC, UnwindPC
    <2>2. CASE ~ReleaseSlot(r)
      <3>1. /\ runSlots' = runSlots /\ pc[r] \in UnwindPC
            /\ \E to \in UnwindPC : pc' = [pc EXCEPT ![r] = to]
        BY <1>6, <2>2 DEF Unwind, StopTools, ClosePhase, ReadForPostmortem, AttachDiagnostics,
              StopContainer, ReleaseImage, Recover, RemoveRun, UnregisterRunCancel, outside, Go,
              UnwindPC
      <3> QED BY <1>1, <1>2, <3>1
    <2> QED BY <2>1, <2>2
  <1>7. ASSUME NEW r \in Runs, Broker(r)
        PROVE  runSlots' = runSlots /\ Holders' = Holders
    BY <1>7 DEF Broker, BeginCall, BeginRelayWait, EndCall, AgentDeclined, AgentFailure,
           FailAgentRun, LookupAgentCancel, FireAgentCancel, LoseSession, worker, Holders
  <1>8. ASSUME NEW d \in Deleters, DeleteRead(d) \/ Delete(d)
        PROVE  runSlots' = runSlots /\ Holders' = Holders
    BY <1>8 DEF DeleteRead, Delete, DeleteLookup, DeleteReread, DeleteTransition, DeleteFire,
           worker, Holders
  <1> QED BY <1>3, <1>4, <1>5, <1>6, <1>7, <1>8, NextCases DEF Holders

\* The runSlots channel holds exactly one token per run that holds a slot, for any
\* number of runs and any capacity: no path loses or returns a token twice.
THEOREM SlotsMatch == Spec => []SlotsMatchHolders
  <1>1. IsFiniteSet(Holders)
    BY RunLifecycleAssumption, FS_Subset DEF Holders
  <1>2. Init => SlotsMatchHolders
    <2>1. Init => Holders = {}
      BY DEF Init, Holders, HoldingPC, BodyPC, UnwindPC
    <2> QED BY <2>1, FS_EmptySet DEF Init, SlotsMatchHolders, Holders
  <1>3. TypeOK /\ SlotsMatchHolders /\ [Next]_vars => SlotsMatchHolders'
    <2> SUFFICES ASSUME TypeOK, SlotsMatchHolders, [Next]_vars
                 PROVE  runSlots' = Cardinality(Holders')
      BY DEF SlotsMatchHolders, Holders
    <2>1. runSlots = Cardinality(Holders) /\ runSlots \in Nat
      BY RunLifecycleAssumption DEF SlotsMatchHolders, Holders, TypeOK
    <2>2. ASSUME NEW r \in Runs \ Holders
          PROVE  Cardinality(Holders \cup {r}) = Cardinality(Holders) + 1
      BY <1>1, FS_AddElement
    <2>3. ASSUME NEW r \in Holders
          PROVE  Cardinality(Holders \ {r}) = Cardinality(Holders) - 1
      BY <1>1, FS_RemoveElement
    <2> QED BY <2>1, <2>2, <2>3, HoldersStep
  <1> QED BY <1>2, <1>3, TypeCorrect, PTL DEF Spec
=============================================================================
