----------------------------- MODULE CaseRuns ------------------------------
(***************************************************************************)
(* The evaluation of one run: the tool loop and the memory waves of        *)
(* runSizeJob, runBounded's workers, the retries of internal/runner, the   *)
(* tool endpoint that records what the harness really called, and the      *)
(* report and transcript made of it.  The worker's stages, the job store   *)
(* and the relay are in RunLifecycle; here the run is alone.               *)
(*                                                                         *)
(* A dataset is [cases, tools, memory, waves, iso, prerequisites]: the     *)
(* cases by id, the ids of the tool and of the memory cases in order, the  *)
(* memory pairs of each seeding wave, those of the secondary graph, and    *)
(* the prerequisite pairs of the tool cases as a sequence.  A memory case  *)
(* carries the wave it runs after (`after`) and the pairs its answer needs *)
(* (`needs`).  Each case lists the answers and self-reports its harness    *)
(* may give, the calls it may make and the ways its attempts may fail:     *)
(* these are the inputs.                                                   *)
(***************************************************************************)
EXTENDS Scoring

CONSTANTS
  Runs,              \* the runs there may be: [dataset, version, scope, usage]
  Baselines,         \* the reviewed token baselines
  CaseConcurrency,   \* DITTOBENCH_V8_CASE_CONCURRENCY
  RunAttempts,       \* DITTOBENCH_RUN_ATTEMPTS
  MaxCalls           \* bound: tool calls recorded in a run

ASSUME CaseRunsAssumption ==
  /\ CaseConcurrency \in Nat \ {0} /\ RunAttempts \in Nat \ {0} /\ MaxCalls \in Nat
  /\ \A r \in Runs : r.version \in Nat /\ r.scope \in {"practice", "scored"}

(* Token counts are unsigned. *)
ASSUME TokenAssumption ==
  (\A r \in Runs : r.usage.total \in Nat) /\ (\A b \in Baselines : b.total \in Nat)

(* A suite lists its cases by kind, and asks none before the wave that     *)
(* brings the last of what its answer needs: the generator's RunAfterWave, *)
(* on which runSizeJob's "all their evidence is now seeded" relies.  A     *)
(* tool case expects a list of calls; what a harness reports is a list.    *)
ASSUME DatasetAssumption ==
  \A r \in Runs : LET d == r.dataset IN
    /\ d.tools \in Seq(DOMAIN d.cases) /\ d.memory \in Seq(DOMAIN d.cases)
    /\ IsList(d.waves)
    /\ \A c \in DOMAIN d.cases : \A reported \in d.cases[c].mayReport : IsList(reported)
    /\ \A c \in DOMAIN d.cases :
         IF d.cases[c].kind = "tool"
         THEN c \in ToSet(d.tools) \ ToSet(d.memory) /\ ToolCaseTyped(d.cases[c])
         ELSE /\ c \in ToSet(d.memory) \ ToSet(d.tools) /\ d.cases[c].after \in Int
              /\ d.cases[c].needs \subseteq
                   d.iso \cup (UNION {d.waves[w] : w \in {v \in DOMAIN d.waves : v <= d.cases[c].after}})
                     \cup (IF r.version >= 8 THEN ToSet(d.prerequisites) ELSE {})

VARIABLES
  run,         \* dataset, version, scope of the request, token usage: fixed
  pc,          \* where the worker is
  batch,       \* 0 for the tool cases, w for the cases of wave w
  seeded,      \* the memory pairs posted to the harness's /seed
  cancelled,   \* the run's context is done
  served,      \* the tool route is registered and reachable
  launched,    \* how many cases of the batch runBounded has started
  work,        \* per case: its worker, context, attempts and response
  calls,       \* toolexec: the calls recorded per case
  results,     \* per case: its slot of toolResults / waveResults
  transcript,  \* per case: its slot of toolTranscripts / waveTranscripts
  perCase,     \* the case scores folded into the report so far
  report       \* the finished report, or NoReport

vars == <<run, pc, batch, seeded, cancelled, served, launched, work, calls,
          results, transcript, perCase, report>>
worker == <<pc, batch, seeded, launched, perCase, report>>

NoResponse == [calls |-> <<>>, says |-> {}]
Blank == [kind |-> "", response |-> NoResponse, observed |-> <<>>, attempts |-> <<>>,
          outcome |-> "", timedOut |-> FALSE, cancelled |-> FALSE]
NoReport == [scores |-> "none"]
Idle == [at |-> "queued", ctx |-> "alive", attempts |-> <<>>, outcome |-> "", response |-> NoResponse]

Case(c) == run.dataset.cases[c]
CaseIds == DOMAIN run.dataset.cases
IsTool(c) == Case(c).kind = "tool"
Waves == run.dataset.waves

WaveOfFromZero(c) == Most(1, Least(Case(c).after - 1, Len(Waves)))

(* casesByWave clamps the wave a case runs after into the waves there are. *)
WaveOf(c) == Most(1, Least(Case(c).after, Len(Waves)))
InWave(w) == {i \in DOMAIN run.dataset.memory : WaveOf(run.dataset.memory[i]) = w}
Nth(S, k) == CHOOSE i \in S : Cardinality({j \in S : j <= i}) = k
Batch(b) == IF b = 0 THEN run.dataset.tools
            ELSE [k \in 1 .. Cardinality(InWave(b)) |-> run.dataset.memory[Nth(InWave(b), k)]]
Current == Batch(batch)

Running(c) == work[c].at \notin {"queued", "graded", "panicked"}
Delivered(c) == work[c].outcome = "success"

-----------------------------------------------------------------------------
(* Every pair a memory case needs is seeded by some wave. *)
Prerequisites == ToSet(run.dataset.prerequisites)
EvidenceAvailable ==
  LET available == Prerequisites \cup run.dataset.iso \cup UNION ToSet(Waves)
  IN \A c \in ToSet(run.dataset.memory) : Case(c).needs \subseteq available

(* Generation has produced the dataset; the harness is healthy. *)
Init ==
  /\ run \in Runs
  /\ run.version >= 8 => EvidenceAvailable
  /\ pc = "endpoint" /\ batch = 0 /\ launched = 0
  /\ seeded = {} /\ cancelled = FALSE /\ served = FALSE
  /\ work = [c \in CaseIds |-> Idle]
  /\ calls = [c \in CaseIds |-> <<>>]
  /\ results = [c \in CaseIds |-> ZeroScore]
  /\ transcript = [c \in CaseIds |-> Blank]
  /\ perCase = <<>> /\ report = NoReport

Stop == pc' = "stopped" /\ served' = FALSE

(* startToolServer: "hidden" is a remote harness that cannot reach us. *)
StartToolServer ==
  /\ pc = "endpoint"
  /\ \E reach \in {"served", "hidden", "broken"} :
       IF reach = "broken" \/ (reach = "hidden" /\ run.scope = "scored")
       THEN Stop
       ELSE pc' = "prerequisites" /\ served' = (reach = "served")
  /\ UNCHANGED <<run, batch, seeded, cancelled, launched, work, calls, results,
                 transcript, perCase, report>>

(* SeedForVersion: pairs reach the harness, or the run is over. *)
Post(pairs, next) ==
  \/ /\ ~cancelled \/ pairs = {}
     /\ seeded' = seeded \cup pairs
     /\ pc' = next
     /\ UNCHANGED served
  \/ /\ pairs # {}
     /\ Stop
     /\ UNCHANGED seeded
Seed(at, pairs, next) ==
  /\ pc = at
  /\ Post(pairs, next)
  /\ UNCHANGED <<run, batch, cancelled, launched, work, calls, results, transcript,
                 perCase, report>>

(* toolPrerequisiteWave refuses a pair named twice. *)
SeedPrerequisites ==
  /\ \/ run.version < 8
     \/ Len(run.dataset.prerequisites) = Cardinality(Prerequisites)
  /\ Seed("prerequisites", IF run.version >= 8 THEN Prerequisites ELSE {}, "cases")
RefusePrerequisites ==
  /\ pc = "prerequisites" /\ run.version >= 8
  /\ Len(run.dataset.prerequisites) # Cardinality(Prerequisites)
  /\ Stop
  /\ UNCHANGED <<run, batch, seeded, cancelled, launched, work, calls, results, transcript,
                 perCase, report>>
SeedSecondary == Seed("secondary", run.dataset.iso, IF Waves = <<>> THEN "score" ELSE "wave")
SeedWave == Seed("wave", Waves[batch], "cases")

-----------------------------------------------------------------------------
(* runBounded: cases start in order, at most CaseConcurrency at a time *)

StartCase ==
  /\ pc = "cases" /\ launched < Len(Current)
  /\ Cardinality({c \in CaseIds : Running(c)}) < CaseConcurrency
  /\ LET c == Current[launched + 1] IN
     work' = [work EXCEPT ![c].at = "attempt",
                          ![c].ctx = IF cancelled THEN "cancelled" ELSE "alive"]
  /\ launched' = launched + 1
  /\ UNCHANGED <<run, pc, batch, seeded, cancelled, served, calls, results, transcript,
                 perCase, report>>

Attempt(c, outcome, at) ==
  work' = [work EXCEPT ![c].attempts = Append(@, outcome), ![c].outcome = outcome, ![c].at = at]
Elsewhere == UNCHANGED <<run, cancelled, served, calls, results, transcript>> /\ UNCHANGED worker

(* runAttempt returns a decoded 2xx response. *)
Answer(c) ==
  /\ work[c].at = "attempt"
  /\ \E says \in Case(c).mayAnswer, reported \in Case(c).mayReport \cup {calls[c]} :
       work' = [work EXCEPT ![c].attempts = Append(@, "success"), ![c].outcome = "success",
                            ![c].response = [calls |-> reported, says |-> says],
                            ![c].at = "returned"]
  /\ Elsewhere

(* A 4xx other than 429, or a 2xx that does not decode. *)
Reject(c) ==
  /\ work[c].at = "attempt"
  /\ \E outcome \in {"client_error", "invalid_response"} \cap Case(c).mayFail : Attempt(c, outcome, "returned")
  /\ Elsewhere

(* 429 and 5xx are transient; a broken connection is while the context lives. *)
Transient == {"connection_error", "rate_limited"}
Fault(c) ==
  /\ work[c].at = "attempt"
  /\ \E outcome \in Transient \cap Case(c).mayFail :
       /\ outcome = "connection_error" => work[c].ctx = "alive"
       /\ Attempt(c, outcome, IF Len(work[c].attempts) + 1 < RunAttempts THEN "backoff" ELSE "returned")
  /\ Elsewhere

CutOutcome(c) == IF work[c].ctx = "expired" THEN "timeout" ELSE "cancelled"
CutOnCancel(c) ==
  /\ work[c].at = "attempt" /\ work[c].ctx = "cancelled"
  /\ Attempt(c, CutOutcome(c), "returned")
  /\ Elsewhere

Cut(c) ==
  /\ work[c].at = "attempt" /\ work[c].ctx # "alive"
  /\ Attempt(c, CutOutcome(c), "returned")
  /\ Elsewhere

Retry(c) ==
  /\ work[c].at = "backoff" /\ work[c].ctx = "alive"
  /\ work' = [work EXCEPT ![c].at = "attempt"]
  /\ Elsewhere

AbandonBackoff(c) ==
  /\ work[c].at = "backoff" /\ work[c].ctx # "alive"
  /\ work' = [work EXCEPT ![c].at = "returned", ![c].outcome = CutOutcome(c)]
  /\ Elsewhere

(* The per-case deadline of runOneWithTelemetry. *)
DeadlinePasses(c) ==
  /\ work[c].at \in {"attempt", "backoff"} /\ work[c].ctx = "alive"
  /\ work' = [work EXCEPT ![c].ctx = "expired"]
  /\ Elsewhere

(* handleTool hands a call to toolexec, which records it under its case.   *)
(* The harness knows a case from its first attempt on, and may call late.  *)
ToolCall(c) ==
  /\ served /\ work[c].at # "queued"
  /\ MapThenSumSet(LAMBDA d : Len(calls[d]), CaseIds) < MaxCalls
  /\ \E call \in Case(c).mayCall : calls' = [calls EXCEPT ![c] = Append(@, call)]
  /\ UNCHANGED <<run, cancelled, served, work, results, transcript>> /\ UNCHANGED worker

(* The closure reads the recorded calls once, and keeps what it will grade. *)
Record(c) ==
  /\ work[c].at = "returned"
  /\ LET observed == calls[c]
         response == IF Delivered(c) THEN work[c].response ELSE NoResponse
     IN transcript' = [transcript EXCEPT ![c] =
          [kind |-> Case(c).kind,
           response |-> IF IsTool(c) THEN response ELSE WithObservedTrajectory(response, observed),
           observed |-> observed, attempts |-> work[c].attempts, outcome |-> work[c].outcome,
           timedOut |-> ~Delivered(c) /\ work[c].ctx = "expired",
           cancelled |-> ~Delivered(c) /\ work[c].ctx = "cancelled"]]
  /\ work' = [work EXCEPT ![c].at = "recorded"]
  /\ UNCHANGED <<run, cancelled, served, calls, results>> /\ UNCHANGED worker

(* The score of a case from its dataset entry and its transcript entry. *)
GradeEntry(c, entry) ==
  IF IsTool(c)
  THEN GradeToolCase(Case(c), entry.response, entry.outcome = "success", entry.observed,
                     run.scope, run.version)
  ELSE GradeMemoryCase(Case(c), entry.response, entry.outcome = "success", entry.observed)

GradeLate(c) ==
  /\ work[c].at = "recorded"
  /\ results' = [results EXCEPT ![c] = GradeEntry(c, [transcript[c] EXCEPT !.observed = calls[c]])]
  /\ work' = [work EXCEPT ![c].at = "graded"]
  /\ UNCHANGED <<run, cancelled, served, calls, transcript>> /\ UNCHANGED worker

Grade(c) ==
  /\ work[c].at = "recorded"
  /\ results' = [results EXCEPT ![c] = GradeEntry(c, transcript[c])]
  /\ work' = [work EXCEPT ![c].at = "graded"]
  /\ UNCHANGED <<run, cancelled, served, calls, transcript>> /\ UNCHANGED worker

(* runBounded recovers a panicking worker: its slots stay as they are. *)
CasePanics(c) ==
  /\ work[c].at \in {"returned", "recorded"} /\ "panic" \in Case(c).mayFail
  /\ work' = [work EXCEPT ![c].at = "panicked"]
  /\ Elsewhere

CaseStep(c) ==
  \/ Answer(c) \/ Reject(c) \/ Fault(c) \/ Cut(c) \/ Retry(c) \/ AbandonBackoff(c)
  \/ DeadlinePasses(c) \/ Record(c) \/ Grade(c) \/ CasePanics(c)

(* DELETE, a decline of the agent's allowance, or the run's own deadline. *)
Cancel ==
  /\ pc \notin {"done", "stopped"} /\ ~cancelled
  /\ cancelled' = TRUE
  /\ work' = [c \in CaseIds |-> IF work[c].ctx = "alive" /\ Running(c)
                                THEN [work[c] EXCEPT !.ctx = "cancelled"] ELSE work[c]]
  /\ UNCHANGED <<run, served, calls, results, transcript>> /\ UNCHANGED worker

-----------------------------------------------------------------------------
(* The batch is over: every started case has returned, and all have been   *)
(* started unless the context is done.                                     *)
BatchReturned ==
  /\ \A c \in CaseIds : ~Running(c)
  /\ launched = Len(Current) \/ cancelled

EndBatch ==
  /\ pc = "cases" /\ BatchReturned
  /\ IF cancelled
     THEN Stop /\ UNCHANGED <<batch, launched, perCase>>
     ELSE /\ perCase' = perCase \o [i \in DOMAIN Current |-> results[Current[i]]]
          /\ batch' = batch + 1 /\ launched' = 0
          /\ pc' = IF batch = 0 THEN "secondary"
                   ELSE IF batch < Len(Waves) THEN "wave" ELSE "score"
          /\ UNCHANGED served
  /\ UNCHANGED <<run, seeded, cancelled, work, calls, results, transcript, report>>

ExecutionSummary(entries) ==
  LET Matching(P(_)) == Cardinality({c \in DOMAIN entries : P(entries[c])})
  IN [cases |-> Cardinality(DOMAIN entries),
      succeeded |-> Matching(LAMBDA e : e.outcome = "success"),
      timedOut |-> Matching(LAMBDA e : e.timedOut),
      cancelled |-> Matching(LAMBDA e : e.cancelled),
      retried |-> Matching(LAMBDA e : Len(e.attempts) > 1),
      attempts |-> MapThenSumSet(LAMBDA c : Len(entries[c].attempts), DOMAIN entries)]

(* The report of a sequence of case scores and the transcripts beside it. *)
Details(rows, entries) ==
  [observed |-> Cardinality({i \in DOMAIN rows : rows[i].kind = "tool" /\ rows[i].observed}),
   capped |-> Cardinality({i \in DOMAIN rows : /\ rows[i].kind = "tool" /\ ~rows[i].observed
                                               /\ Observable(Case(rows[i].case))}),
   injections |-> Cardinality({i \in DOMAIN rows : rows[i].injection}),
   efficiency |-> ToolEfficiencyFactor(rows, run.version),
   consistency |-> MetamorphicConsistency(rows),
   robustness |-> TransformRobustness(rows),
   auditPairs |-> AuditPairs(rows),
   execution |-> ExecutionSummary(entries)]

Report(rows, entries) ==
  LET scored == ApplyTokenContract(Aggregate(rows, run.version), run.version, "full",
                                   run.usage, Baselines)
  IN [scores |-> scored, details |-> Details(rows, entries)]

(* Scoring, transcript and Finish; the deferred call unregisters the route. *)
Publish ==
  /\ pc = "score"
  /\ report' = Report(perCase, transcript)
  /\ pc' = "done" /\ served' = FALSE
  /\ UNCHANGED <<run, batch, seeded, cancelled, launched, work, calls, results,
                 transcript, perCase>>

Finished == pc \in {"done", "stopped"} /\ UNCHANGED vars

WorkerStep == StartToolServer \/ SeedPrerequisites \/ RefusePrerequisites \/ SeedSecondary \/ SeedWave
              \/ StartCase \/ EndBatch \/ Publish
Next == WorkerStep \/ Cancel \/ Finished
        \/ \E c \in CaseIds : CaseStep(c) \/ ToolCall(c)

(* The worker and the case goroutines run; the deadlines pass; nothing is  *)
(* asked of the harness.                                                   *)
Fairness ==
  /\ WF_vars(WorkerStep)
  /\ \A c \in UNION {DOMAIN r.dataset.cases : r \in Runs} :
       WF_vars(c \in CaseIds /\ (Cut(c) \/ Retry(c) \/ AbandonBackoff(c)
                                 \/ DeadlinePasses(c) \/ Record(c) \/ Grade(c)))
Spec == Init /\ [][Next]_vars /\ Fairness

-----------------------------------------------------------------------------
(* Properties *)

(* What is published can be graded again from the dataset and the          *)
(* transcript alone, whatever order the cases ended in and whatever the    *)
(* harness called after its answer was read (transcript.go: "everything a  *)
(* third party needs to re-run the public grader").  A case whose worker   *)
(* panicked has no grade to reproduce.                                     *)
CaseOrder ==
  LET Before[b \in 0 .. Len(Waves) + 1] == IF b = 0 THEN <<>> ELSE Before[b - 1] \o Batch(b - 1)
  IN Before[Len(Waves) + 1]
ReportFromTranscripts ==
  report # NoReport /\ (\A c \in CaseIds : work[c].at # "panicked") =>
    report = Report([i \in DOMAIN CaseOrder |-> GradeEntry(CaseOrder[i], transcript[CaseOrder[i]])],
                    transcript)

(* A case the harness never answered says nothing about its robustness:    *)
(* the group metrics that weigh on the composite are the same had it been  *)
(* answered right (main.go: "a timeout is never read as phrasing           *)
(* brittleness or a failed audit pair").                                   *)
HadBeenRight(rows) ==
  [i \in DOMAIN rows |-> IF rows[i].undelivered THEN [rows[i] EXCEPT !.correct = TRUE] ELSE rows[i]]
UndeliveredIsNeutral ==
  MetamorphicConsistency(perCase) = MetamorphicConsistency(HadBeenRight(perCase))
  /\ AuditPairs(perCase) = AuditPairs(HadBeenRight(perCase))

(* What a harness says of its own calls never earns it anything where the  *)
(* endpoint can check it: once a call of the case was observed, or when    *)
(* the endpoint serves all the tools expected.  The score is at most that  *)
(* of the same answer without a self-report, or the ceiling of unobserved  *)
(* cases.  Elsewhere, where a retrieval tool is expected and no call was   *)
(* observed, the harness is taken at its word.                             *)
SelfReportOnlyCosts ==
  \A c \in CaseIds : IsTool(c) /\ work[c].at = "graded" =>
    LET entry == transcript[c]
        silent == [entry EXCEPT !.response.calls = <<>>]
        checkable == entry.observed # <<>> \/ ToSet(Names(Case(c).expected)) \cap MemoryTools = {}
        ceiling == IF entry.observed = <<>> THEN UnobservedCeiling(run.scope, run.version) ELSE 0
    IN checkable => results[c].score <= Most(GradeEntry(c, silent).score, ceiling)

(* A reference for the trajectory score.  Full marks mean that the calls   *)
(* are the expected ones, each once, in order unless the case is           *)
(* unordered, every required argument right and no forbidden one present.  *)
(* Such calls have full marks where each tool is expected once, within the *)
(* budget of calls: orderCredit knows a tool by its first call, and        *)
(* argCorrectness pairs the calls of one tool by position.                 *)
Meets(call, spec) ==
  /\ call.name = spec.name
  /\ \A key \in DOMAIN spec.required : Carries(call, key) /\ ArgValueEqual(call.args[key], spec.required[key])
  /\ spec.forbidden \cap DOMAIN call.args = {}
Exact(c, s) ==
  LET expected == Case(c).expected IN
  /\ Len(s) = Len(expected)
  /\ \E p \in [DOMAIN s -> DOMAIN s] :
       /\ \A i, j \in DOMAIN s : p[i] = p[j] => i = j
       /\ \A i \in DOMAIN s : Meets(s[p[i]], expected[i])
       /\ Case(c).unordered \/ \A i \in DOMAIN s : p[i] = i
PlainTrajectory(c) ==
  /\ IsTool(c) /\ Observable(Case(c))
  /\ ~Case(c).fuzzy /\ ~Case(c).allowExtra /\ ~Case(c).usage
Attainable(c) ==
  LET expected == Case(c).expected IN
  IsInjective(Names(expected)) /\ Case(c).maxCalls \notin 1 .. (Len(expected) - 1)
FullMarksAreEarned ==
  \A c \in CaseIds : (PlainTrajectory(c) /\ calls[c] # <<>>) =>
    LET cs == GradeToolCase(Case(c), NoResponse, TRUE, calls[c], run.scope, run.version)
    IN /\ cs.score = One => Exact(c, calls[c])
       /\ Exact(c, calls[c]) /\ Attainable(c) => cs.score = One

(* No penalty pays, and together they take no more than is written of them *)
(* (scorer.go: boundedGateFloor "is the deepest the BOUNDED factors can    *)
(* drop the composite in combination", the leak penalty is "applied AT     *)
(* MOST ONCE per run", convSanityFloor is "the deepest the conversational- *)
(* sanity factor can drop the composite"): a published gate is at most one *)
(* and at least the floors of the penalties the run gave occasion for, and *)
(* the composite is at most the better mean.                               *)
LeastGate(rows) ==
  LET Tier(happened, floor) == IF happened THEN floor ELSE One
      leaked == \E i \in DOMAIN rows : rows[i].leak
      talked == \E i \in DOMAIN rows : rows[i].category \in ConversationalSlices
      audited == \E i \in DOMAIN rows : rows[i].half # ""
  IN CASE run.version >= 7 -> Scaled(Product3(V7.bounded, Tier(leaked, V7.leak), Tier(talked, V7.sanity)),
                                     Tier(audited, One - V7.audit))
       [] run.version \in 5 .. 6 ->
            Product3(Scaled(Legacy.bounded, Tier(leaked, LegacyCanaryLeak)), Tier(talked, LegacySanity),
                     Tier(audited /\ AuditEnforced, One - LegacyAudit.maxPenalty))
       [] run.version \in 3 .. 4 -> Scaled(Legacy.bounded, Tier(leaked, LegacyCanaryLeak))
       [] OTHER -> One
PenaltiesAreBounded ==
  report # NoReport =>
    LET scores == report.scores
        better == Most(scores.toolMean, scores.memoryMean)
        half == (scores.toolMean + scores.memoryMean) \div 2
    IN /\ scores.toolMean \in 0 .. One /\ scores.memoryMean \in 0 .. One
       /\ scores.gate \in LeastGate(perCase) .. One
       /\ scores.composite \in Scaled(Scaled(half, scores.gate), 900) .. better

(* No question is asked before the evidence for it is in the harness, and  *)
(* none of a later wave while one of an earlier wave is unanswered.        *)
EvidenceBeforeQuestion ==
  \A c \in CaseIds : ~IsTool(c) /\ work[c].at # "queued" =>
    /\ Case(c).needs \subseteq seeded
    /\ \A d \in CaseIds : (IsTool(d) \/ WaveOf(d) < WaveOf(c)) =>
         work[d].at \in {"graded", "panicked"}

(* The evaluation ends even when the harness never answers. *)
RunsEnd == <>(pc \in {"done", "stopped"})
=============================================================================
