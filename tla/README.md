# TLA+ models of dittobench-api

dittobench-api is the evaluation service of a benchmark: a platform submits a
harness (a git URL, a screened image or a running endpoint), the service builds
and starts it, feeds it tool and memory cases, scores the answers and publishes a
report.  While a harness runs, its model and embedding calls go through an
inference broker inside the same process, which spends a ticket the platform
issued for exactly that run.  This directory holds TLA+ models of the service: the
parts where goroutines, callbacks, timeouts, docker and teardown meet, and the pure
functions they feed (archive checks, scoring).  With them are the TLC configurations
that check them, and TLAPS proofs that every checked property but the four about
liveness holds for every value of the constants.

## 1. Inventory of the system

| Part | Code | State | Operations | Interacts with |
|---|---|---|---|---|
| Job store | `internal/store/store.go` | map of jobs under one mutex; a job has status, progress, error and failure class, report, transcript, the private `cancelled`, `resumeStatus`, `resumeStage` | Create, SetStage, SetRelayWaiting, AppendPartial, Fail/FailWith, FailIfActive/CancelIfActive, SetTranscript, Finish, Get | written by workers, DELETE and two broker callbacks; read by pollers |
| Run pipeline | `cmd/dittobench-api/main.go` (`submitRunSize`, `runSizeJob`, `runBounded`, `finishSandboxRun`) | `runSlots` channel, `runCancels` map, one goroutine and one context per run, a bounded pool of case goroutines | submit, build, generate, start, bind, health, embedding phase, relay probe, route probe and one restart, tool server, seed, cases, accounting, scoring, publish, nine deferred calls | store, sandbox, broker, runner, scorer |
| Control handlers | `main.go` (`handleSubmit`, `handleScoreRequest`, `handleCancelRun`, `handleGetRun`, `handleGetTranscript`) | none of their own | POST, DELETE, GET | store, `runCancels`, pipeline |
| Broker: sessions | `inference_broker.go` (`prepare` .. `destroyBrokerSession`, `sessionForSource`) | table of sessions under `b.mu`, each session under its own `mu`: secret, bearer, expiry, run, source address, in-flight count | prepare, activate, claimRun, bindSource, replaceBoundSource, removeRun, DELETE, pruneExpired | platform (control plane), pipeline, harness calls |
| Broker: chat lane | `inference_broker.go` (`handleChat`, `proxy`), `openrouter_shim.go` | per-session counters, registered cancel functions, recovery waiters | admit, retry, wait for recovery, count, decline | upstream platform, store (relay pause, agent failure) |
| Broker: embedding lane | `inference_broker.go` (`beginEmbeddingPhase`, `endEmbeddingPhase`, `handleEmbedding`, `forwardPlatformEmbeddingWithRetry`) | phase flags, in-flight calls with their cancel functions, budgets | open, close and revoke, admit, retry | pipeline, upstream platform |
| Broker: tool routes | `registerTool`, `handleTool` | table of routes, slots per route | register, unregister, serve | pipeline, harness |
| Relay preflight | `relay_preflight.go` | none: pairs of counter snapshots | start, result, classification of a failure as the agent's or the infrastructure's | broker counters, pipeline |
| Sandbox | `internal/sandbox` | docker containers, networks, images and references; one mutex over the load of screened images | Build (source tarball, screened image), Run, Stop, Release, Diagnostics, CleanupStale | pipeline, docker |
| Case evaluation | `main.go` (`runSizeJob` from the tool server on), `transcript.go` | slices of results and transcripts with one slot per case, the calls `toolexec` recorded | seed, run a bounded pool of cases, grade, report, transcript | runner, tool routes, scorer |
| Case runner | `internal/runner` | none: HTTP with bounded retries | Health, Seed, RunCase | harness |
| Rate limiter | `internal/ratelimit` | windows per client under a mutex | Allow | submit handler |
| Scorer, efficiency | `internal/scorer`, `internal/efficiency` | none: pure functions | score, aggregate, token contract | pipeline |
| The rest | `control_auth.go`, `version.go`, `sample.go`, `transcript.go`, `internal/{astfp,llm,netguard,release,providercert,refharness}`, the other commands, `integrations`, `scripts` | none the service depends on | | |

What is hard: a job has four kinds of concurrent writers that take the store's
mutex one call at a time; the worker has about thirty early returns and nine
deferred calls, one of which classifies the failure from a copy of the job read
earlier; the broker looks sessions up under one lock and works on them under
another, so a session may be destroyed in between; addresses of containers are
reused; a cancellation travels through a map that the worker empties on its way
out; and everything that blocks does so on docker, on a harness or on the
platform.  The service persists nothing: a crash of the process loses the store and
the sessions.  What survives it is on the docker host, and the start-up removes the
containers and networks of an earlier process.  Runs share that host: the same
submission may be scored twice at once, and its image reference is the screener's,
not the run's.  A harness keeps calling tools while its answers are read, retried,
timed out and graded.

What makes each part correct:

* store and pipeline: the first terminal verdict is final; a run ends; what is
  acquired is released on every path; what a poller sees is the stage the worker
  is in; a report is published only from a complete run; a classification the
  scored path recorded survives the teardown;
* sessions: a ticket is claimed once, by one run, and never comes back; a
  destroyed session has no credentials, whoever still holds a pointer; a
  session's in-flight count is the calls in flight; a claimed session ends with
  its run; a call is served by the session of the run that made it;
* sandbox: a run gets the image that was signed for its submission, whatever another
  run loads or releases; an honest submission builds on either image store of docker;
  the host is left as it was found, and a restart cleans up;
* case evaluation and scorer: the report can be computed again from the transcript; a
  question is asked after its evidence was seeded; what a harness says of itself earns
  nothing; full marks are for the expected trajectory only; penalties add up to no more
  than is written of them; an unanswered case says nothing about robustness; a run ends;
* chat and embedding lanes: every call lands in exactly one counter, attempts and
  budgets are bounded, revocation drains, and a run is charged to the agent only
  for what the agent did.

The hazards in this code, each at its line and with the property that covers it,
are the `hazards` of `PROJECT.json`.

## 2. Modules

| Module | What it is |
|---|---|
| `Job` | the store's operations as operators from a job to a job |
| `RunLifecycle` | a run from POST to its last deferred call, DELETE, and the callbacks of the broker |
| `RunContract` | what a poller may rely on; `RunLifecycle` implements it |
| `RunLifecycleProofs` | theorems about `RunLifecycle`: types, verdicts, slots |
| `RunOutcomeProofs` | theorems about `RunLifecycle`: resources, cancellation, stages, reports, failure classes, `RunContract`; extends `RunLifecycleProofs` |
| `BrokerSessions` | the broker's table of sessions, the platform, the workers as far as they use it, and the calls routed to it |
| `TicketContract` | what a ticket session promises; `BrokerSessions` implements it |
| `BrokerSessionsProofs` | the theorems about `BrokerSessions` |
| `RelayPreflight` | the counters of a session and what `relay_preflight.go` concludes from two snapshots of them |
| `InferenceLanes` | the chat and the embedding calls of one session, the phase, and the worker that takes the snapshots; extends `RelayPreflight` |
| `InferenceLanesProofs` | theorems about `InferenceLanes`: types, bounds, progress, the phase |
| `LaneAccountingProofs` | theorems about `InferenceLanes`: counters, snapshots, verdicts; extends `InferenceLanesProofs` |
| `Scoring` | how one case and one run are scored, as operators |
| `CaseRuns` | the evaluation of one run: seeding, workers, attempts, recorded calls, grading, report; extends `Scoring` |
| `ScoringProofs` | lemmas about the operators of `Scoring` |
| `CaseRunsProofs` | the theorems about `CaseRuns`; extends `ScoringProofs` |
| `ImageArchive` | what is checked of a screened image's archive and of a source tarball, as operators |
| `SandboxHost` | the docker host under several runs, and the clean-up after a crash; extends `ImageArchive` |
| `SandboxHostProofs` | the theorems about `SandboxHost` |
| `MCRunLifecycle`, `MCBrokerSessions`, `MCInferenceLanes`, `MCCaseRuns`, `MCSandboxHost` | constants for TLC |

How they fit: `RunLifecycle` has the run with the broker as a set of callbacks,
`BrokerSessions` the table of sessions with runs and calls reduced to what touches
it, `InferenceLanes` one session with its calls in full and the worker reduced to
what touches its counters and its phase.  What one module leaves to another is a
free choice there: the end of the accounting is a choice of `RelayRunResult`, and
`InferenceLanes` computes it from the counters.  Likewise a build, a start or a case of
`RunLifecycle` succeeds or fails freely; `SandboxHost` has the docker commands behind
the first two, and `CaseRuns` what happens inside the cases.

### RunLifecycle

One step is one critical section of the store, the cancel map, a channel or a
session, or the end of one blocking call with its outcome chosen freely.  `pc`
is the worker's place in `runSizeJob`; `work` holds its local variables (batch,
cases started and in flight, the copy `finishSandboxRun` took); `res` what it holds
outside the store (container, image, tool route, embedding phase).  The control
locations of the deferred calls (`UnwindPC`) follow Go's order, last registered
first.  An early return is `Abort` (FailWith, then unwind), or
`AbortUnlessCancelled` where the code leaves a cancelled context to its canceller.
`requestedBenchVersion` admits version 8 only, so the branches for older versions
are unreachable and absent: there is no global memory slot and no relay-wide lock.
A batch is the tool cases (batch 0) or one memory wave; the isolation graph seeded
before wave 0 shares that wave's seeding step, which has the same effects.

Data left out: the contents of cases, reports and transcripts; `Progress.Total`;
timestamps; the codes and diagnostics of a failure beyond its class (who is
charged, and whether it may be retried).

### BrokerSessions

`table` is `b.sessions`; `sess` holds the sessions themselves, so that a step may
work on one that is no longer in the table; `doomed` are those removed and not
destroyed yet.  `LookupSession`, `LookupActivation` and `Route` read the table,
and the steps after them touch one session.  `sweep` holds what a `pruneExpired`
collected and has not removed.  `clock` abstracts time to what the code
compares: prepared within two minutes or longer ago, active until the expiry or
past it.  Credentials are present or absent.  An activation presents the secret
that prepare returned.  A direct harness has the loopback address; a container
gets any address no live container has, which is what docker does once a network
has been removed.  The worker is reduced to the operations that touch the broker,
in their order.

### InferenceLanes

`call` is what a handler holds: its place `pc`, its context, `attempt` and the
capacity waits of its loop, and what it remembers of the platform's last answer.
Status and body are two fields because `proxy` assigns them at two points
(`Truncated`).  `n` are the counters, `phase` and `lane` the embedding phase and its
admission, `run` the worker.  A step is one critical section of `session.mu` or one
delivery or sleep with its outcome; `client.Do`, the platform's choice of an answer and
the reading of the body are one step, because nothing shared changes between them.
`Interrupted` is a sleep that returns the context's error.  `CancelAll` is what
`endEmbeddingPhase` and `destroyBrokerSession` do under the lock; `PhaseEnded` is the
end of the wait after it.  A chat call that was admitted and has not registered its
cancel function is not cancelled by `Remove`, as in the code.  The fields `deliveries`,
`whole`, `admitted` and `settled` exist only for the properties.

`RelayPreflight` is free of state: `relayVerdict(start, end)` is the class
`relayRunResult` and `requireCompleteV7Usage` arrive at, `"scored"` where neither
refuses.  A removed session cannot be read, hence the verdict `"unavailable"`.

Left out: token and latency sums and the ledgers no conclusion reads
(`upstreamAttempts`, `recoveryWaits`, `embeddingRetries`); a metered answer is taken
to have a positive prompt count; the budgets of inputs and bytes, which refuse like the
one of requests; the local embedding lane before benchmark 7 and the legacy gateway,
which version 8 cannot reach; the retries of `forwardPlatformEmbedding` inside the
trusted probe (there are none); the width of the chat lane, which is in
`BrokerSessions`.  Recovery waits as a pause of the job are in `RunLifecycle`.

### CaseRuns and Scoring

`CaseRuns` begins after generation.  A dataset is an input: its cases, waves and
prerequisite pairs, and for each case the answers, self-reports, calls and failures its
harness may produce.  `work` is a case's goroutine in `runBounded` (`at`, its context,
its attempts and their last outcome), `calls` what `toolexec` has recorded under its id,
`results` and `transcript` the slots the closure fills, `perCase` and `report` what the
worker makes of them.  An attempt that ends, a backoff that ends, the reading of the
recorded calls (`Record`), the grade (`Grade`) and a tool call are steps of their own,
so that a call may fall between any two.  Contexts expire or are cancelled at any point.
`Batch` lists the cases of a wave by their rank in the suite, as the code's appends do.

`Scoring` has scores in thousandths where the code has floats rounded to six places;
every constant is a multiple of one thousandth, quotients are rounded down.  A tool
call is a name and arguments whose values are a datum with or without prose around it;
a text is the set of data it mentions.  `Modulus` is the width of the token counters, so
that the wrap-around `ValidUsage` guards against happens in a small instance.

Left out: latencies, standard errors, the per-category table, `CalibrationBrier`; the
catalog's content (`Observable`, the bait tools and the verdict on an answer come from
the dataset package and are external).

### SandboxHost and ImageArchive

`ImageArchive` translates the two validators.  SHA-256 is a free constructor, so a
digest determines its content; a content is a record of what a decoder reads of it.
`ValidateDockerSaveArchive` returns whether the archive is accepted, whether it carries
the reference, and the ids docker may give the image (`ClassicStoreIds` and the manifest
and index ids of a containerd store).  `LoadedId` is external: the id the daemon does give.

In `SandboxHost`, `tags`, `images`, `containers` and `networks` are the host; `pc`, `ctx`,
`prior` and `todo` are the runs; `judged` is what the validator says of a run's archive,
which depends on nothing that changes (`Judge`).  Each docker command is a step with three outcomes:
done, refused, or done although the context ended (`Works`, `Refused`, `CutAfterwards`).
`RemoveTag` is `docker image rm` by reference: the last reference takes the image along,
unless a container uses it.  A teardown is a sequence of removals whose errors are
ignored, as `Stop` and `Release` do.  `disturbed` and `blamed` exist only for the
properties.  A crash keeps the host and loses the rest; then `CleanupStale` runs, and
runs again or gives up according to `AllowScreenedImages`.

Left out: the clone and `docker build` of a git source, isolation flags, container logs
and their redaction, resource diagnostics (a choice of `RunLifecycle`).

## 3. Runs

| Run | Instance | Question |
|---|---|---|
| `run_lifecycle` | 1 run, scored or direct, 2 batches of 1 case, 2 chat calls, 1 DELETE | do verdict, stage, relay pause, report, resources and contract agree in every interleaving of worker, callbacks and DELETE |
| `run_slots` | 2 runs, 1 slot, with or without ticket, 2 cases in flight, no call and no DELETE, fair | are slots neither lost nor doubled, does every accepted run end, does a full service free a slot |
| `run_transcript`, `run_evidence` | as `run_lifecycle` | two statements of the sources that do not hold (section 6) |
| `broker_sessions` | 2 sessions, 1 direct and 1 sandboxed run, 2 addresses, 1 call | do stale pointers, restarts, sweeps and destruction respect the ticket's contract |
| `broker_calls` | 2 sessions, 1 run, 2 calls, 1 place, fair | is the in-flight count exact, does a claimed session end |
| `lanes` | 2 calls of any lane, 2 chat attempts, 2 embedding attempts, 1 capacity wait, lane of width 1, budget 1 | are deliveries bounded, outcomes booked once, the phase drained, and is the verdict justified by what happened between the snapshots |
| `case_runs` | 1 run, out of 20 pairs of dataset and version, up to 4 cases and 2 waves, 2 workers, 2 attempts, 3 recorded calls, fair | does the report follow from the transcript, who gains from self-reports and unanswered cases, what has full marks, how much do penalties take, when is a question asked, does the run end |
| `sandbox` | 2 runs, 6 pairs of 11 submissions, 3 hosts, 1 fault, 1 crash | does a run get its own image, do honest sources build, is the host left as found |
| `lanes_timeout`, `lanes_stale_body` | the same | two statements of the sources that do not hold (section 6) |
| `broker_misroute` | 2 sessions, 2 runs, 1 address | is a call served by its own session (section 6) |

Bounds.  A run has all its states with one case per batch, because cases of a batch
are symmetric and only their number in flight and the number started are
compared; two batches distinguish the first, the next and the last; two calls are
needed for first and last waiter to differ (one call more only repeats the middle
case); one DELETE meets every state of a run, and a second one meets a job that
is already final, which the one DELETE also does after the agent's decline.  Two
runs and one slot make a full server.  In the broker two sessions and two runs
give the two contenders every race of the code has; a third adds an identical
contender.  `MaxCalls`, `Cases`, `Batches` and `MaxSessions` are the only bounds;
`MaxSessions` is `b.maxSessions`, the others bound what a request and a harness ask
for.  In the lanes, one fast and one recovery attempt, two embedding attempts and one
wait reach every branch of both loops, and a wait before and after a retry; a second
call gives every interleaving of two writers of a counter, two candidates for one
place of the lane, and a mixture of an agent's and a platform's denial.  These are
constants of the code with smaller values; the theorems hold for all values.

In `case_runs` there is one dataset per kind of tool case (ordered, unordered, fuzzy,
result usage, abstention, memory routing, a retrieval tool beside a served one, retried,
failing, one tool expected twice), under the contract versions that treat it differently;
a dataset with a phrasing pair, an audit pair and cases outside the waves; one with a tool
case, a canary, a greeting and a case of the second graph; and one (`Wasteful`) in which
every style penalty may be due at once, so that the floor of their product is reached.  Three calls are one more than the longest expected trajectory, two
workers and two attempts are the least for which cases and retries overlap.  Larger
datasets add cases that do not interact, except in the metrics; the audit factor, which
needs four pairs, is therefore not reached by these instances.

In `sandbox` the pairs of submissions meet in every way the code tells apart: the same
submission twice, one reference with two images, one image under two references, and
each kind of refused archive beside another one; the hosts are the two image stores,
with and without an image the operator had tagged.  The limits of the archives are
small enough that one source is exactly at a limit and one past it.  One fault and one
crash reach every failure path: after a fault (which may also be the end of a context,
and then every later command of the run is refused) a run only removes what it has, and
a removal that is refused is excused by `blamed`.

Deadlock checking is off in the runs about `RunLifecycle`, `BrokerSessions` and
`InferenceLanes` because those models do stop: a run exits, a session is destroyed, a
call is done.  `CaseRuns` and `SandboxHost` mark their ends (`Finished`), and there
deadlock is checked.

Fairness.  A worker's blocking calls end by their own timeouts (docker commands,
health, runner and client timeouts) or by the run's context, so `Worker(r)` is
weakly fair as a whole; which outcome a step chooses, and whether a case panics, is
not.  A request that has taken a slot runs on to the start of its worker.
Callbacks and DELETE handlers do not block once begun.  A chat call has bounded
attempts, hence `EndCall`.  `run_slots` checks liveness without calls and DELETE: what
they can do to a run is to end it, which `CancelReachesWorker` and
`UnregisteredIsTerminal` cover as invariants of `run_lifecycle`.  In `CaseRuns` the worker
is fair, and of a case the steps that are its goroutine's own or its deadline's: answers
and tool calls need never come.  Nothing is assumed about the platform, the harness or
clients: prepare, activate, DELETE, calls and declines need never come.  In the
broker, removals collected by a sweep and destructions run to their end, because
both are straight-line code in a handler.  The lanes assume no fairness: instead of a
liveness property, `EveryStepIsProgress` gives every handler a rank that each of its
steps decreases, so that handlers end, and with them the wait of `endEmbeddingPhase`,
as soon as deliveries and sleeps do, which their clients' and contexts' timeouts
ensure.

## 4. What is checked

* `VerdictIsFinal`, `ContractHolds`: the first terminal verdict stands
  although the worker, two callbacks and a DELETE write under separate
  acquisitions of the mutex.
* `UnregisteredIsTerminal`, `AcceptedRunsEnd`: no early return, the silent ones on a
  cancelled context included, leaves a job active for ever.
* `ConflictOnlyBeforeStart`, `CancelReachesWorker`: DELETE and the agent's decline find
  the cancel function or a finished job.
* `ShownStageIsCurrent`, `WaitingIffRecovering`: stage changes and recovery waits of
  several calls compose.
* `ReportIsWhole`, `ClassificationPreserved`, `ExitLeavesNothing`, `SlotsMatchHolders`,
  `SlotsComeBack`.
* `TicketHolds`, `DestroyedIsPowerless`, `RemovedRunsHoldNoSession`,
  `SourceFollowsContainer`, `InFlightCountsCalls`, `ClaimedSessionsEnd`.

* `DeliveriesBounded`, `EveryStepIsProgress`: fast attempts, recovery attempts and capacity
  waits (which repeat their attempt by decrementing the loop variable) cannot multiply
  into more reservations than the constants add up to, nor go on for ever.
* `CallsBookedOnce`: success, failure, denial, cancellation and rejection are exclusive
  and complete, whichever of hang-up, deadline, revocation and answer comes first.
* `ChargesAreJustified`, `ScoredRunsAreWhole`: what the worker concludes from the difference
  of two snapshots is true of the calls that were admitted and settled between them,
  although calls of the run are in flight at both.
* `LaneDrained`: no place of the embedding lane is lost or used twice, and after the end of
  the phase nobody is inside.
* `NoFalseRestart`: a subset counter and its total are never seen apart.
* `ReportFromTranscripts`: the published scores, metrics and execution summary are those of
  the grader applied to the transcript, in whatever order the cases ended and whatever
  was called after an answer was read.
* `UndeliveredIsNeutral`, `SelfReportOnlyCosts`: the metrics that weigh on the composite are
  the same had an unanswered case been answered right; and where the endpoint can check a
  self-report (a call of the case was observed, or no retrieval tool is expected), a tool case
  never scores more than without it, beyond the ceiling of unobserved cases.
* `FullMarksAreEarned`: a reference definition of a right trajectory, by a permutation of
  the calls, against names, arguments, order and extra calls as the scorer weighs them.
  Full marks imply it for every case; the converse is stated for cases that expect each
  tool once and allow as many calls as they expect (`Attainable`; section 6 says why).
* `PenaltiesAreBounded`: the clamped quotients, floors and products of the contract versions
  combine to a gate that is at most one and at least the floors of those penalties the run
  gave occasion for, and the token contract takes at most a tenth of what the gate leaves.
* `EvidenceBeforeQuestion`, `RunsEnd`: waves and questions alternate; a run ends although
  the harness never answers.
* `BuildGetsItsOwnImage`: from the end of Build to the removal, a run's reference and its
  container have the signed configuration, although another run loads, retags, restores
  and removes on the same host.
* `HonestSourcesBuild`: neither image store, nor an archive with or without its reference, nor
  another run makes an honest submission fail, unless a command failed.
* `HostLeftAsFound`, `RestartCleans`: every failure path of Build, Run and the restart gives
  back what it took; a crash leaves containers and networks only until the next start.

Each property of a passing run has a mutant in the module of the code it is
about: an operator that differs from the mapped definition by one plausible
mistake and under which TLC finds the property violated.

## 5. What is proved

Every safety property, action property and refinement the passing runs check is a
theorem: it holds for every value of the constants their modules' assumptions admit.  Each inductive invariant was first checked by TLC on the
instances of section 3: 577,114 and 5,137,174 distinct states for the two instances of the
broker, 2,772,947 for the lanes, 1,957,347 for a run's life, 472,598 for the cases, 204,404
for the sandbox.  (Conjuncts that only say a value is in some `Seq(S)` for an unnamed `S`
were checked in the form of a list's domain.)

### The run's pipeline

`RunLifecycleProofs` and `RunOutcomeProofs` hold for every finite set of runs, any slot
capacity, any number of cases, batches and calls, and any set of DELETE requests
(`RunLifecycleAssumption` is the only assumption):

* `TypeCorrect`: `Spec => []TypeOK`.  The pipeline's two dozen actions share one shape
  (`BodyStep`, lemma `PipelineShape`): the worker moves within the body with a write
  that keeps the job going, or unwinds with one that ends it or leaves it to its
  canceller.  The other lemmas work from that shape.
* `VerdictInvariant`: `Spec => []VerdictInv`.  This is the inductive strengthening.
  `UnregisteredIsTerminal` is not inductive: that the job is terminal past `recover`
  rests on every silent return having been preceded by a canceller, so the invariant
  says that a cancelled context implies a cancelled job (`r \in ctxDone =>
  job[r].cancelled`), that a job found terminal in the body is a cancelled one, that
  an unwinding worker has a terminal job or is panicking, and, for the post-mortem, that
  a copy which read `failed` still describes a failed job.
* `UnregisteredRunsAreTerminal` and `VerdictsAreFinal` follow from it; the latter from
  `Kept`, a property of every step proved together with the invariant.
* `SlotsMatch`: the tokens in the channel are the cardinality of the set of holders,
  by the three cases a step can be (neither, a holder more, a holder fewer).
* `ExitIsClean`, from `ResourceInv`: for each resource, the places of the worker at which it
  may be held; the deferred calls are ordered, so past its release it is free.
* `CancellationArrives` and `ConflictsAreEarly`, from `CancelInv`: a sticky verdict has
  reached the context, or somebody is about to fire the cancel function (a DELETE past its
  store call, a notification), or the worker has unregistered.
* `StageIsCurrent` and `PauseFollowsCalls`, from `ShowInv`: the stage shown, or saved by a
  pause, is the one the worker announced last, also when it moves on during a pause; and
  the pause is on exactly while the count of waiting calls is positive.
* `ReportsAreWhole`, from `CaseInv`: the cases appended, crashed and in flight are those of
  the batches behind the worker and those it started, until somebody cancels.
* `ClassificationStands`, from `FailureInv`: the copy the post-mortem took agrees with the
  job in the failure it decides by.
* `RunsKeepTheContract`: `RunContract` is implemented.  Its phases are those of the jobs;
  that no step ends a run twice or amends a sticky verdict is proved from `VerdictInv` and
  `AccountInv`, that no more runs than slots are active from `SlotsMatch`.

### The sessions of the broker

`BrokerSessionsProofs` holds for any sets of sessions, runs, calls and addresses, any capacity
and any limit per source.  `IInv` adds to the types what the table, the list of the doomed
and the credentials say of each other (`SessionInv`), that a run and the session it
claimed name each other for good (`ClaimInv`), that no container sits at the loopback
address, and that a routed call keeps its one session.  From it: `TypeCorrect`,
`DestroyedStaysPowerless`, `CountersAreExact`, `RunsLeaveNoSession`,
`SourceIsTheContainer`, and the refinement `TicketsHold`, in which what the sessions hold is
mapped to the phases of a ticket.

`StraysNeedAReusedAddress` says how far the disagreement `CallServedByOwnSession` of section 6
goes: a call is routed to another run's session only while the owner is not serving cases or
after the caller's container was stopped, or between direct harnesses, which share one
address.  It follows from `IInv` and `PlaceInv` (containers do not share an address).  TLC
agrees on two sandboxed runs, two addresses and one call (19,290,838 distinct states, up to
symmetry), and finds a violation when the restart keeps the old source; that instance takes
longer than the runs of section 3 and is not one of them.

### The lanes

`InferenceLanesProofs` and `LaneAccountingProofs` hold for any finite set of calls and any
values of the limits (`InferenceLanesAssumption`):

* `TypeCorrect`, which includes that the embedding budget is never exceeded.
* `DeliveriesAreBounded` and `HandlersProgress`.  Both rest on the lemma `CallSteps`: whatever
  the system does, each call stays as it is, is admitted, has its context end, or makes a
  step of the loop (`HandlerStep`).  The inductive invariant `LoopInv` adds to the bounds
  of attempts and waits that a delivery is paid for by one of them: before a delivery there
  is one less than after it.  From the bounds, the rank of a call is a natural number.
* `NeverRestarted`, from `SnapshotInv`: the denials that are new since the start snapshot are
  at least as many as the new declines of the agent, because both are booked together
  (`CountersStep`).
* `LaneIsDrained`, from `DrainInv`: while the worker waits, whoever is inside the lane is
  among those it waits for, because the phase is closed in the step that collects them.
* `EveryCallIsBookedOnce`: `TallyInv` makes each counter the cardinality of the set of calls
  with its outcome, and the sums of the counters are sums over disjoint sets.
* `ScoredIsWhole` and `ChargesAreSound`: `SpanInv` says that between the snapshots each counter
  has grown by the number of calls marked since the first one.  A difference of counters
  that is zero or positive is therefore a statement about a set of calls, and the verdict,
  which looks at differences only, is one too (`VerdictInv`).

### The sandbox

`SandboxHostProofs` holds for any set of runs, any catalogue, either image store and any
number of faults and crashes.  `IInv` has a part for each thing that is shared or handed on:
the lock of the load (`MutexInv`), the teardowns, the start-up after a crash, the image of a
run, what a run holds, and the references (`ScreenerInv`: between loads they are the
operator's, and during one its run remembers what to put back).  From it: `RestartIsClean`,
`HostIsLeftAsFound`, `BuildsOwnTheirImage` and, by following an honest run's build step by
step, `HonestRunsBuild`.  Besides `SandboxHostAssumption` two facts about the inputs are
assumed: `SignedAssumption`, that a chain of digests which was accepted ends in an image
configuration, as the screener has run it (digests are free constructors, so what is
behind a signed digest cannot be replaced); and `HonestAssumption`, that the
submissions called honest are as the platform stores them (`AsStored`).  They are conditions
on what is submitted, and TLC evaluates them on the instance's catalogue.

### Cases and scoring

`CaseRunsProofs` holds for any suite, any number of cases and waves, any concurrency and number
of attempts, every version and scope:

* `EvidenceComesFirst`, from `SeedInv` and `OrderInv`: the waves behind the worker have been
  posted, the batches behind it have ended, and nobody of a later batch has started.  The
  batches divide the suite (`BatchesDivide`), because a rank in a finite set is a bijection.
* `SilenceIsNeutral`: an undelivered row enters neither metric, for any sequence of rows.
* `ReportsCanBeRegraded`, from three invariants: a graded case has the score its transcript
  entry gives it (`GradeInv`), the rows are the results in the order of the batches
  (`FoldInv`), and the report was made of what is still there (`PublishInv`).
* `SelfReportsCostOnly`, from `EntryInv` (the parts of an answer and of a transcript entry) and
  the lemma `SelfReportsNeverPay`.

* `FullMarksMeanExact`: every factor of a full score is one.  Then the counts of names agree,
  each expectation has as many right arguments as it requires, and no call is left over; the
  indices of the matched calls are therefore a permutation that `Exact` asks for, and in an
  ordered case order credit makes it the identity (an increasing list of `m` indices out of
  `m` is the identity, `RisingIsIdentity` by descent).  Conversely an injection of a finite set
  into itself is onto, so where every tool is expected once the exact trajectory leaves the
  pairing no choice.
* `PenaltiesStayBounded`, from `ScoredInv`: every result kept is a score between 0 and 1, hence
  so are the rows of a report.  The rest is about `Scoring` alone (`ContractIsBetween`).

`ScoringProofs` holds what the last three need of the scorer, for any calls, any expectations
and any rows:

* sums are folds over finite sets; that they are natural numbers, can be taken summand by
  summand and are bounded by their number of summands is proved from the definition of the
  fold by a least counterexample;
* every ingredient of a trajectory's score is a natural number and those that are factors are
  at most one; composition is monotone, mismatch and cap only take away; hence the score
  with a self-report is at most that without it (`SelfReportsNeverPay`);
* weighing (`Scaled`) is monotone and a mean of scores is a score, so each factor of the gate
  lies between its own floor and one, a factor for which the run gave no occasion is one, and
  floors multiply as the factors do (`GateIsBetween`); the composite follows from the gate
  and the means (`AggregateIsBetween`), the token contract from that.

`CaseRunsAssumption` gives the ranges of the constants, and `TokenAssumption` says that token
totals are natural numbers (they are `uint64`).  `DatasetAssumption` says what the code
takes from the generator: the suite lists its cases by kind, expected calls, waves and
self-reports are lists, and a case runs after the wave that brings the last of its evidence
(the generator's `RunAfterWave`).  The last is what makes the comment "all their evidence is
now seeded" (main.go:1520) a claim about seeding, clamping and batching, and those are what
`EvidenceComesFirst` is about.  `CaseOrder`, by which the property `ReportFromTranscripts` lists
the cases, is a recursive function, and the proof that it is the worker's order is by the
least batch on which they would differ.

### Only model-checked

* Liveness under fairness, which is out of the prover's reach: `AcceptedRunsEnd`,
  `SlotsComeBack`, `ClaimedSessionsEnd`, `RunsEnd`.
* The recursive functions of the models (`CaseOrder`, the folds over rows and calls) are
  reasoned about at the places where they are used; what they compute for every input is
  not stated on its own, because induction over data is out of reach as well.

## 6. Disagreements between code and text

* `FailedRunsHaveNoTranscript`: the transcript is attached before the job finishes, so
  a cancellation in between leaves a failed run whose transcript is served, contrary to
  the handler's message.
* `ResourceEvidenceWins`: after a sticky verdict the post-mortem's write is dropped, so
  memory or tmpfs evidence does not win over it, contrary to the comment.
* `CallServedByOwnSession`: an address is free for the next container before the session
  bound to it is removed or moved, nothing forbids two active sessions with one source,
  and the lookup returns any match.  `StraysNeedAReusedAddress` (section 5) bounds the window.
* `RejectionsAreRefusals`: a 408 is transient inside the retry loop of `proxy` and a rejection
  of the harness's request after it, so a platform that times out on every attempt is
  charged to the harness.
* `SuccessesAreWhole`: the status of a truncated answer replaces the previous one and its body
  does not, so an error body may be booked and answered as a success.

Some weaknesses that no run states as a disagreement, because no text of the repository
says otherwise or because the run that would show it is left out:

* `TransformRobustness` (scorer.go:531) counts pairs with an undelivered side; only the
  metrics that weigh on the composite skip them, so `UndeliveredIsNeutral` is about those.
* A memory case whose worker panics keeps the zero value of its slot, whose kind is empty:
  `Aggregate` counts it among the tool cases.  `ReportFromTranscripts` excludes panics.
* A case that expects a retrieval tool, alone or beside others, is credited for
  self-reported calls as long as none was observed (`Observable` asks that every expected
  tool be served), so `SelfReportOnlyCosts` excludes it.
* An ordered case that expects one tool twice never has order credit (`orderCredit` keeps
  one first position per name).  In an unordered one the pairing of calls and expectations by
  position can miss a permutation that fits, and with a limit of calls below the number
  expected the exact trajectory is charged for extra calls.  `Attainable` excludes these from
  the converse in `FullMarksAreEarned`; the dataset `Twice` has an unordered one.
* `validateV8EvidenceAvailability` looks at all waves together, not at their order;
  `EvidenceBeforeQuestion` therefore also depends on datasets in which a case runs after
  the wave of its last evidence.
* Calls of an abandoned attempt stay recorded, so a retry that repeats them has extra calls.
* A load that fails because its context ended restores the reference under that same
  context, so not at all; a network created after the deadline is nobody's; a failed
  inspection reads as "no prior tag"; `CleanupStale` removes no images.  `HostLeftAsFound`
  excludes runs in which one of the first three happened (`blamed`).

## 7. Not modelled, and the plan

Not modelled: dataset generation and answer grading (another repository's package),
signatures, request validation, logging and encoding, the build of git sources; the rate
limiter and the other code with no state that two steps could get wrong; offline tools,
stand-alone proxies and integrations, which run outside the service.  In `BrokerSessions`
a destroyed session does not wait for embedding calls; that wait does nothing afterwards
and nobody waits for it in turn.

What is left, in this order:

1. The repair of `CallServedByOwnSession`: with the window known (`StraysNeedAReusedAddress`),
   what `bindSource` and the teardown would have to do to close it.
2. The build of git sources in `SandboxHost`, and the legacy branches of the broker once a
   version other than 8 can be requested.
