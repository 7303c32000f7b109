-------------------------------- MODULE Job --------------------------------
(***************************************************************************)
(* The mutations internal/store/store.go applies to one Job under the      *)
(* store's mutex, as operators from the job before to the job after.       *)
(*                                                                         *)
(* Data kept: the status, the progress label and counter, how many case    *)
(* scores were appended, the error's and the failure's class, whether a    *)
(* report and a transcript are attached, and the three private fields.     *)
(* Progress.Total, timestamps, seed and run size are not kept: nothing in  *)
(* the store reads them.                                                   *)
(***************************************************************************)
EXTENDS Naturals

\* The stages a worker announces, in the order of the pipeline.
Stages == {"queued", "building", "generating", "seeding", "running", "scoring"}
Waiting == "waiting_for_relay"
TerminalStatus == {"done", "failed"}
Status == Stages \cup {Waiting} \cup TerminalStatus

\* Failure classes. "nil": no classifier. "infra": validator_infrastructure,
\* retryable, from the scored path. "agent": sandbox_failure, not retryable, from
\* the scored path. "runtime": the sandbox_runtime default of the post-mortem.
\* "resource": validator_infrastructure, from OOM or tmpfs evidence.
FailureClass == {"nil", "infra", "agent", "runtime", "resource"}

\* Error message classes: none, a worker's failure, the resource-envelope
\* message, the panic message, the client's cancellation, the spent allowance.
ErrorClass == {"", "failed", "envelope", "panic", "cancelled", "declined"}

NewJob == [status |-> "queued", stage |-> "", done |-> 0, partial |-> 0,
           error |-> "", failure |-> "nil", report |-> FALSE, transcript |-> FALSE,
           resumeStatus |-> "", resumeStage |-> "", cancelled |-> FALSE]

Terminal(j) == j.status \in TerminalStatus

\* Every write below is dropped once the job was cancelled.
Unless(j, written) == IF j.cancelled THEN j ELSE written

\* Mutant: a stage change overwrites a relay pause.
SetStageOverPause(j, status, done) ==
    Unless(j, [j EXCEPT !.status = status, !.stage = status, !.done = done])

\* Mutant: a stage change during a relay pause is forgotten.
SetStageForgotten(j, status, done) ==
    Unless(j, IF j.status = Waiting
              THEN [j EXCEPT !.done = done]
              ELSE [j EXCEPT !.status = status, !.stage = status, !.done = done])

SetStage(j, status, done) ==
    Unless(j, IF j.status = Waiting
              THEN [j EXCEPT !.resumeStatus = status, !.resumeStage = status, !.done = done]
              ELSE [j EXCEPT !.status = status, !.stage = status, !.done = done])

\* Mutant: a late relay pause is not refused on a finished job.
PauseFinished(j) ==
    Unless(j, IF j.status = Waiting
              THEN j
              ELSE [j EXCEPT !.resumeStatus = "running", !.resumeStage = j.stage,
                             !.status = Waiting, !.stage = Waiting])

PauseForRelay(j) ==
    Unless(j, IF j.status \in TerminalStatus \cup {Waiting}
              THEN j
              ELSE [j EXCEPT !.resumeStatus = j.status, !.resumeStage = j.stage,
                             !.status = Waiting, !.stage = Waiting])

ResumeFromRelay(j) ==
    LET status == IF j.resumeStatus = "" THEN "running" ELSE j.resumeStatus
        stage  == IF j.resumeStage = "" THEN status ELSE j.resumeStage
    IN  Unless(j, IF j.status # Waiting
                  THEN j
                  ELSE [j EXCEPT !.status = status, !.stage = stage,
                                 !.resumeStatus = "", !.resumeStage = ""])

SetRelayWaiting(j, waiting) == IF waiting THEN PauseForRelay(j) ELSE ResumeFromRelay(j)

AppendPartial(j) ==
    Unless(j, [j EXCEPT !.partial = j.partial + 1, !.done = j.partial + 1])

FailWith(j, error, failure) ==
    Unless(j, [j EXCEPT !.status = "failed", !.error = error, !.failure = failure])

\* FailIfActive, and CancelIfActive with no classifier. The caller learns from
\* Terminal(j) whether this call made the transition.
FailIfActive(j, error, failure) ==
    IF Terminal(j)
    THEN j
    ELSE [j EXCEPT !.cancelled = TRUE, !.status = "failed",
                   !.error = error, !.failure = failure]

SetTranscript(j) == Unless(j, [j EXCEPT !.transcript = TRUE])

\* Mutant: a finish that raced a cancellation still publishes.
FinishCancelled(j) == [j EXCEPT !.status = "done", !.report = TRUE]

Finish(j) == Unless(j, [j EXCEPT !.status = "done", !.report = TRUE])

JobType ==
    [status : Status, stage : Stages \cup {"", Waiting}, done : Nat, partial : Nat,
     error : ErrorClass, failure : FailureClass, report : BOOLEAN, transcript : BOOLEAN,
     resumeStatus : Stages \cup {""}, resumeStage : Stages \cup {"", Waiting},
     cancelled : BOOLEAN]
=============================================================================
