--------------------------- MODULE InferenceLanes ---------------------------
(***************************************************************************)
(* The two inference lanes of one broker session while a scored run uses    *)
(* them: proxy (chat completions) and handleEmbedding with its retry loop.  *)
(* Both write the session's counters; the worker opens the embedding phase, *)
(* snapshots the counters, closes the phase, snapshots again and concludes  *)
(* from the difference who is charged (module RelayPreflight).              *)
(*                                                                         *)
(* A step is one critical section of session.mu, or the end of one blocking *)
(* call (a delivery to the platform, a sleep) with its outcome chosen       *)
(* freely.  Admission of chat calls by source and their limit are in        *)
(* BrokerSessions; the effects on the job store in RunLifecycle.            *)
(***************************************************************************)
EXTENDS RelayPreflight, FiniteSets

CONSTANTS
    Calls,                    \* requests the harness (or the trusted probe) makes
    ChatFastMaxAttempts,      \* ticketChatFastMaxAttempts
    RecoveryMaxAttempts,      \* ticketRecoveryMaxAttempts
    TransientMaxAttempts,     \* ticketTransientMaxAttempts, the embedding lane's
    ChatCapacityMaxWaits,     \* platformChatCapacityMaxWaits
    EmbeddingCapacityMaxWaits,\* platformEmbeddingCapacityMaxWaits
    EmbeddingLane,            \* embeddingLaneLocked()
    EmbeddingSessionRequests  \* embeddingSessionRequests

ASSUME InferenceLanesAssumption ==
    /\ IsFiniteSet(Calls)
    /\ ChatFastMaxAttempts \in Nat \ {0}
    /\ RecoveryMaxAttempts \in Nat
    /\ TransientMaxAttempts \in Nat \ {0}
    /\ ChatCapacityMaxWaits \in Nat
    /\ EmbeddingCapacityMaxWaits \in Nat
    /\ EmbeddingLane \in Nat \ {0}
    /\ EmbeddingSessionRequests \in Nat

ChatMaxAttempts == ChatFastMaxAttempts + RecoveryMaxAttempts

VARIABLES
    call,     \* the calls and the local variables of their handlers
    n,        \* the session's counters
    session,  \* "active", "expired" (still listed) or "removed"
    phase,    \* the embedding phase
    lane,     \* embeddingInFlight and embeddingRequests
    notified, \* terminalAgentFailureNotified
    run       \* the worker: place, snapshot, calls it waits for, conclusion

vars == <<call, n, session, phase, lane, notified, run>>

\* What the broker remembers of the platform's last answer to a call.
\*   timeout: 408        denied: 429         rejected: any other 4xx
\*   failed: a 5xx or a 3xx    full: 503 with Retry-After, on the embedding lane
Status == {"none", "ok", "timeout", "denied", "rejected", "full", "failed"}

\*   metered: with a usage block     agent: a code of declineFaultFor
Body == {"empty", "plain", "metered", "agent"}

Outcomes == {"none", "success", "gap", "served", "refused", "cancelled", "rejection",
             "agentDenial", "platformDenial", "exhausted", "failure"}

NewCall(l) ==
    [lane |-> l, pc |-> "idle", ctx |-> "live", attempt |-> 1, waits |-> 0,
     deliveries |-> 0, status |-> "none", body |-> "empty",
     whole |-> TRUE,         \* status and body come from the same answer
     admitted |-> FALSE,     \* a chat call admitted between the two snapshots
     outcome |-> "none",
     settled |-> FALSE]      \* the outcome was booked between the two snapshots

NewRun == [pc |-> "opening", measured |-> FALSE, start |-> NoCounts,
           pending |-> {}, verdict |-> "none"]

Init ==
    /\ call \in [Calls -> {NewCall(l) : l \in {"chat", "embedding"}}]
    /\ n = NoCounts
    /\ session = "active"
    /\ phase = "unopened"
    /\ lane = [inFlight |-> 0, requests |-> 0]
    /\ notified = FALSE
    /\ run = NewRun

-----------------------------------------------------------------------------
(* Vocabulary of the actions.                                              *)

At(c, l, p) == call[c].lane = l /\ call[c].pc = p

Become(c, r) == call' = [call EXCEPT ![c] = r]

Move(c, p) == Become(c, [call[c] EXCEPT !.pc = p])

InHandler(c) == call[c].pc \notin {"idle", "done"}

\* The handler still reads its context.
Listening(c) == InHandler(c) /\ call[c].pc \notin {"notifying", "leaving"}

\* The embedding calls registered in session.embeddingCalls, and the chat calls
\* registered in session.cancels.
EmbeddingCalls == {c \in Calls : call[c].lane = "embedding" /\ InHandler(c)}
Cancels == {c \in Calls : call[c].lane = "chat" /\ InHandler(c) /\ call[c].pc # "admitted"}

Measuring == run.measured /\ run.verdict = "none"

\* A cancelled context stays cancelled and does not expire, and vice versa.
CancelAll(C) ==
    call' = [c \in Calls |->
        IF c \in C /\ Listening(c) /\ call[c].ctx = "live" THEN [call[c] EXCEPT !.ctx = "canceled"] ELSE call[c]]

\* The end of a handler's loop: of its local variables only the last answer is
\* kept, for the properties, until it leaves.
Settled(r, o, p) ==
    [NewCall(r.lane) EXCEPT !.pc = p, !.admitted = r.admitted, !.outcome = o,
                            !.settled = Measuring, !.status = r.status, !.whole = r.whole]

others == <<session, phase, lane, notified, run>>

-----------------------------------------------------------------------------
(* proxy: one chat completion.                                             *)

AdmitChat(c) ==
    /\ At(c, "chat", "idle")
    /\ session = "active"
    /\ Become(c, [call[c] EXCEPT !.pc = "admitted", !.admitted = Measuring])
    /\ n' = Count(n, {"requests"})
    /\ UNCHANGED others

\* The credentials were copied under the previous acquisition of the lock.
RegisterCancel(c) ==
    /\ At(c, "chat", "admitted")
    /\ Become(c, [call[c] EXCEPT !.pc = "sent", !.deliveries = @ + 1])
    /\ UNCHANGED <<n, others>>

DeliverAgain(c) ==
    /\ At(c, "chat", "sleeping")
    /\ Become(c, [call[c] EXCEPT !.pc = "sent", !.deliveries = @ + 1])
    /\ UNCHANGED <<n, others>>

\* The head of the retry loop after a delivery that left r behind: the sleep of
\* the next attempt, or the end of the loop.
NextAttempt(c, r) ==
    /\ IF r.attempt < ChatMaxAttempts
       THEN Become(c, [r EXCEPT !.attempt = @ + 1, !.pc = "sleeping"])
       ELSE Become(c, [r EXCEPT !.pc = "settling"])
    /\ UNCHANGED <<n, others>>

\* endRelayWait # nil: the call has announced a recovery wait.
Recovering(r) == r.attempt > ChatFastMaxAttempts

TransportFails(c) ==
    /\ At(c, "chat", "sent")
    /\ \/ call[c].ctx # "live" /\ Move(c, "settling") /\ UNCHANGED <<n, others>>
       \/ call[c].ctx = "live" /\ NextAttempt(c, call[c])

\* The status is taken before the body is known to be whole.
Truncated(c) ==
    /\ At(c, "chat", "sent")
    /\ \E s \in {"ok", "timeout", "denied", "rejected", "failed"} :
          NextAttempt(c, [call[c] EXCEPT !.status = s, !.whole = FALSE])

Answer(r, s, b) == [r EXCEPT !.status = s, !.body = b, !.whole = TRUE]

\* Mutant: the waits for a full lane are not counted.
AtCapacityForever(c) ==
    /\ At(c, "chat", "sent")
    /\ Become(c, [Answer(call[c], "failed", "plain") EXCEPT !.pc = "sleeping"])
    /\ UNCHANGED <<n, others>>

\* Backpressure repeats the same attempt after a pause, a bounded number of times.
AtCapacity(c) ==
    /\ At(c, "chat", "sent")
    /\ LET r == Answer(call[c], "failed", "plain") IN
       \/ /\ r.waits < ChatCapacityMaxWaits
          /\ Become(c, [r EXCEPT !.waits = @ + 1, !.pc = "sleeping"])
          /\ UNCHANGED n
       \/ /\ r.waits >= ChatCapacityMaxWaits
          /\ Become(c, [r EXCEPT !.pc = "settling"])
          /\ n' = Count(n, {"capacityExhaustions"})
    /\ UNCHANGED others

TransientAnswer(c) ==
    /\ At(c, "chat", "sent")
    /\ \E s \in {"timeout", "failed"} : NextAttempt(c, Answer(call[c], s, "plain"))

\* Answers that end the loop; the last one is a redirect.
FinalAnswers ==
    {<<"ok", "metered">>, <<"ok", "plain">>, <<"ok", "empty">>, <<"denied", "agent">>,
     <<"denied", "plain">>, <<"rejected", "plain">>, <<"failed", "plain">>}

FinalAnswer(c) ==
    /\ At(c, "chat", "sent")
    /\ \E a \in FinalAnswers : Become(c, [Answer(call[c], a[1], a[2]) EXCEPT !.pc = "settling"])
    /\ UNCHANGED <<n, others>>

\* brokerSleep returns the context's error.
Interrupted(c) ==
    /\ call[c].pc \in {"sleeping", "backoff", "pausing"}
    /\ call[c].ctx # "live"
    /\ Move(c, "settling")
    /\ UNCHANGED <<n, others>>

Denial(body) == IF body = "agent" THEN "agentDenial" ELSE "platformDenial"

ChatOutcome(r) ==
    CASE r.ctx # "live"                                    -> "cancelled"
      [] r.ctx = "live" /\ r.status \in {"rejected", "timeout"} -> "rejection"
      [] r.ctx = "live" /\ r.status = "denied"             -> Denial(r.body)
      [] r.ctx = "live" /\ r.status = "ok" /\ r.body # "empty" ->
            IF r.body = "metered" THEN "success" ELSE "gap"
      [] OTHER                                             -> "failure"

\* The counters an outcome increments.
Booking ==
    [cancelled      |-> {"callerCancels"},
     rejection      |-> {"usageUnavailable", "agentRequestRejections"},
     agentDenial    |-> {"grantDenials", "grantAgentDeclines"},
     platformDenial |-> {"grantDenials"},
     exhausted      |-> {"capacityExhaustions", "failures"},
     failure        |-> {"failures"},
     success        |-> {"successes", "usageAvailable"},
     gap            |-> {"successes", "usageUnavailable"}]

AfterSettling(o) == IF o = "agentDenial" THEN "notifying" ELSE "leaving"

\* Mutant: a cancelled call falls through to the branch of its last status.
SettleChatTwice(c) ==
    /\ At(c, "chat", "settling")
    /\ LET o == ChatOutcome(call[c]) IN
          /\ Become(c, Settled(call[c], o, AfterSettling(o)))
          /\ n' = Count(n, Booking[o] \cup (IF o = "cancelled" /\ call[c].status # "ok"
                                            THEN {"failures"} ELSE {}))
    /\ UNCHANGED others

SettleChat(c) ==
    /\ At(c, "chat", "settling")
    /\ LET o == ChatOutcome(call[c])
           exhausted == o = "failure" /\ Recovering(call[c]) IN
          /\ Become(c, Settled(call[c], o, AfterSettling(o)))
          /\ n' = Count(n, Booking[o] \cup (IF exhausted THEN {"recoveryExhaustions"} ELSE {}))
    /\ UNCHANGED others

Chat(c) ==
    \/ RegisterCancel(c) \/ DeliverAgain(c) \/ TransportFails(c) \/ Truncated(c)
    \/ AtCapacity(c) \/ TransientAnswer(c) \/ FinalAnswer(c) \/ SettleChat(c)

-----------------------------------------------------------------------------
(* handleEmbedding and forwardPlatformEmbeddingWithRetry.                  *)

\* Mutant: the phase is not checked when a call is registered.
AdmitEmbeddingAlways(c) ==
    /\ At(c, "embedding", "idle")
    /\ session = "active"
    /\ phase # "unopened"
    /\ lane.inFlight < EmbeddingLane
    /\ Move(c, "admitted")
    /\ lane' = [lane EXCEPT !.inFlight = @ + 1]
    /\ UNCHANGED <<n, session, phase, notified, run>>

AdmitEmbedding(c) ==
    /\ At(c, "embedding", "idle")
    /\ session = "active"
    /\ phase = "open"
    /\ lane.inFlight < EmbeddingLane
    /\ Move(c, "admitted")
    /\ lane' = [lane EXCEPT !.inFlight = @ + 1]
    /\ UNCHANGED <<n, session, phase, notified, run>>

\* Mutant: the request budget is compared after the fact.
ChargeEmbeddingLate(c) ==
    /\ At(c, "embedding", "admitted")
    /\ phase = "open"
    /\ lane.requests <= EmbeddingSessionRequests
    /\ Move(c, "ready")
    /\ lane' = [lane EXCEPT !.requests = @ + 1]
    /\ UNCHANGED <<n, session, phase, notified, run>>

\* A malformed or oversized payload, a phase closed meanwhile or a spent budget
\* refuses the call; the budgets of inputs and bytes refuse the same way.
ChargeEmbedding(c) ==
    /\ At(c, "embedding", "admitted")
    /\ \/ /\ phase = "open"
          /\ lane.requests < EmbeddingSessionRequests
          /\ Move(c, "ready")
          /\ lane' = [lane EXCEPT !.requests = @ + 1]
       \/ /\ Become(c, Settled(call[c], "refused", "leaving"))
          /\ UNCHANGED lane
    /\ UNCHANGED <<n, session, phase, notified, run>>

\* forwardPlatformEmbedding up to the request; an inactive session is an error.
DeliverEmbedding(c) ==
    /\ At(c, "embedding", "ready") \/ At(c, "embedding", "backoff") \/ At(c, "embedding", "pausing")
    /\ IF session = "active"
       THEN Become(c, [call[c] EXCEPT !.pc = "sent", !.deliveries = @ + 1])
       ELSE Become(c, [Answer(call[c], "failed", "plain") EXCEPT !.pc = "settling"])
    /\ UNCHANGED <<n, others>>

EmbeddingServed(c) ==
    /\ At(c, "embedding", "sent")
    /\ Become(c, Settled(call[c], "served", "leaving"))
    /\ UNCHANGED <<n, others>>

EmbeddingAtCapacity(c) ==
    /\ At(c, "embedding", "sent")
    /\ LET r == Answer(call[c], "full", "plain") IN
          IF r.waits < EmbeddingCapacityMaxWaits /\ r.ctx = "live"
          THEN Become(c, [r EXCEPT !.waits = @ + 1, !.pc = "pausing"])
          ELSE Become(c, [r EXCEPT !.pc = "settling"])
    /\ UNCHANGED <<n, others>>

\* Mutant: one attempt more than the constant allows.
EmbeddingTransientExtra(c) ==
    /\ At(c, "embedding", "sent")
    /\ LET r == Answer(call[c], "failed", "plain") IN
          IF r.attempt <= TransientMaxAttempts /\ r.ctx = "live"
          THEN Become(c, [r EXCEPT !.attempt = @ + 1, !.pc = "backoff"])
          ELSE Become(c, [r EXCEPT !.pc = "settling"])
    /\ UNCHANGED <<n, others>>

\* platformEmbeddingTransient: no answer, a truncated one, or a plain 5xx.
EmbeddingTransient(c) ==
    /\ At(c, "embedding", "sent")
    /\ LET r == Answer(call[c], "failed", "plain") IN
          IF r.attempt < TransientMaxAttempts /\ r.ctx = "live"
          THEN Become(c, [r EXCEPT !.attempt = @ + 1, !.pc = "backoff"])
          ELSE Become(c, [r EXCEPT !.pc = "settling"])
    /\ UNCHANGED <<n, others>>

\* A denied grant, or an answer the broker does not accept.
EmbeddingFails(c) ==
    /\ At(c, "embedding", "sent")
    /\ \E a \in {<<"denied", "agent">>, <<"denied", "plain">>, <<"failed", "plain">>} :
          Become(c, [Answer(call[c], a[1], a[2]) EXCEPT !.pc = "settling"])
    /\ UNCHANGED <<n, others>>

EmbeddingOutcome(r) ==
    CASE r.ctx = "canceled"                          -> "cancelled"
      [] r.ctx # "canceled" /\ r.status = "denied"   -> Denial(r.body)
      [] r.ctx # "canceled" /\ r.status = "full"     -> "exhausted"
      [] OTHER                                       -> "failure"

SettleEmbedding(c) ==
    /\ At(c, "embedding", "settling")
    /\ LET o == EmbeddingOutcome(call[c]) IN
          /\ Become(c, Settled(call[c], o, AfterSettling(o)))
          /\ n' = Count(n, Booking[o])
    /\ UNCHANGED others

Embedding(c) ==
    \/ ChargeEmbedding(c) \/ DeliverEmbedding(c) \/ EmbeddingServed(c) \/ EmbeddingAtCapacity(c)
    \/ EmbeddingTransient(c) \/ EmbeddingFails(c) \/ SettleEmbedding(c)

-----------------------------------------------------------------------------
(* Both lanes: the callback, the deferred calls, and contexts that end.    *)

\* Mutant: the callback counts the decline that caused it once more.
NotifyCounts(c) ==
    /\ call[c].pc = "notifying"
    /\ notified' = TRUE
    /\ Move(c, "leaving")
    /\ n' = Count(n, {"grantAgentDeclines"})
    /\ UNCHANGED <<session, phase, lane, run>>

\* notifyTerminalAgentFailure; RunLifecycle has what it does to the job.
Notify(c) ==
    /\ call[c].pc = "notifying"
    /\ notified' = TRUE
    /\ Move(c, "leaving")
    /\ UNCHANGED <<n, session, phase, lane, run>>

\* The deferred calls.
Leave(c) ==
    /\ call[c].pc = "leaving"
    /\ Become(c, [NewCall(call[c].lane) EXCEPT
                    !.pc = "done", !.admitted = call[c].admitted,
                    !.outcome = call[c].outcome, !.settled = call[c].settled])
    /\ lane' = IF call[c].lane = "embedding" THEN [lane EXCEPT !.inFlight = @ - 1] ELSE lane
    /\ UNCHANGED <<n, session, phase, notified, run>>

\* The harness hangs up.
HangUp(c) ==
    /\ Listening(c)
    /\ call[c].ctx = "live"
    /\ Become(c, [call[c] EXCEPT !.ctx = "canceled"])
    /\ UNCHANGED <<n, others>>

\* The 65 seconds of an embedding call pass.
DeadlinePasses(c) ==
    /\ call[c].lane = "embedding"
    /\ Listening(c)
    /\ call[c].ctx = "live"
    /\ Become(c, [call[c] EXCEPT !.ctx = "expired"])
    /\ UNCHANGED <<n, others>>

-----------------------------------------------------------------------------
(* The worker, and the ends a session can meet.                            *)

BeginEmbeddingPhase ==
    /\ run.pc = "opening"
    /\ session = "active"
    /\ phase = "unopened"
    /\ phase' = "open"
    /\ run' = [run EXCEPT !.pc = "running"]
    /\ UNCHANGED <<call, n, session, lane, notified>>

\* The snapshot of relayRunStart.  The trusted probe before it is a chat call
\* like the others; a run without it is not scored.
TakeStart ==
    /\ run.pc = "running"
    /\ ~run.measured
    /\ session # "removed"
    /\ run' = [run EXCEPT !.measured = TRUE, !.start = n]
    /\ UNCHANGED <<call, n, session, phase, lane, notified>>

\* Mutant: the calls in flight are cancelled but not waited for.
EndPhaseNoWait ==
    /\ run.pc = "running"
    /\ phase' = "closed"
    /\ CancelAll(EmbeddingCalls)
    /\ run' = [run EXCEPT !.pc = "closing"]
    /\ UNCHANGED <<n, session, lane, notified>>

\* endEmbeddingPhase revokes under the lock; a session no longer listed is left
\* to whoever removed it.
EndPhase ==
    /\ run.pc = "running"
    /\ IF session # "removed"
       THEN /\ phase' = "closed"
            /\ CancelAll(EmbeddingCalls)
            /\ run' = [run EXCEPT !.pc = "closing", !.pending = EmbeddingCalls]
       ELSE /\ run' = [run EXCEPT !.pc = "closing"]
            /\ UNCHANGED <<call, phase>>
    /\ UNCHANGED <<n, session, lane, notified>>

PhaseEnded ==
    /\ run.pc = "closing"
    /\ \A c \in run.pending : call[c].pc = "done"
    /\ run' = [run EXCEPT !.pc = "closed", !.pending = {}]
    /\ UNCHANGED <<call, n, session, phase, lane, notified>>

\* relayRunResult and requireCompleteV7Usage: one snapshot, then arithmetic.
TakeEnd ==
    /\ run.pc = "closed"
    /\ run.measured
    /\ run' = [run EXCEPT !.pc = "judged", !.start = NoCounts,
                          !.verdict = IF session = "removed" THEN "unavailable"
                                      ELSE relayVerdict(run.start, n)]
    /\ UNCHANGED <<call, n, session, phase, lane, notified>>

Expire ==
    /\ session = "active"
    /\ session' = "expired"
    /\ UNCHANGED <<call, n, phase, lane, notified, run>>

\* removeRun, DELETE or a sweep: destroyBrokerSession cancels what is registered.
\* It also waits for the embedding calls, and does nothing after that wait.  The
\* table loses the session a moment earlier (BrokerSessions); nothing is concluded
\* from the counters of a session that is no longer listed.
Remove ==
    /\ session # "removed"
    /\ session' = "removed"
    /\ phase' = IF phase = "open" THEN "closed" ELSE phase
    /\ CancelAll(EmbeddingCalls \cup Cancels)
    /\ UNCHANGED <<n, lane, notified, run>>

-----------------------------------------------------------------------------

Handler(c) == Chat(c) \/ Embedding(c) \/ Interrupted(c) \/ Notify(c) \/ Leave(c)

Client(c) == AdmitChat(c) \/ AdmitEmbedding(c) \/ HangUp(c) \/ DeadlinePasses(c)

Worker == BeginEmbeddingPhase \/ TakeStart \/ EndPhase \/ PhaseEnded \/ TakeEnd

Next ==
    \/ \E c \in Calls : Handler(c) \/ Client(c)
    \/ Worker \/ Expire \/ Remove

Spec == Init /\ [][Next]_vars

-----------------------------------------------------------------------------
(* Properties.                                                             *)

CallPCs == {"idle", "admitted", "ready", "sent", "sleeping", "backoff", "pausing",
            "settling", "notifying", "leaving", "done"}

CallType ==
    [lane : {"chat", "embedding"}, pc : CallPCs, ctx : {"live", "canceled", "expired"},
     attempt : Nat \ {0}, waits : Nat, deliveries : Nat, status : Status, body : Body,
     whole : BOOLEAN, admitted : BOOLEAN, outcome : Outcomes, settled : BOOLEAN]

RunType ==
    [pc : {"opening", "running", "closing", "closed", "judged"}, measured : BOOLEAN,
     start : [Counters -> Nat], pending : SUBSET Calls, verdict : Verdicts \cup {"none"}]

\* The types of the variables: budgets are never exceeded.
TypeOK ==
    /\ call \in [Calls -> CallType]
    /\ n \in [Counters -> Nat]
    /\ session \in {"active", "expired", "removed"}
    /\ phase \in {"unopened", "open", "closed"}
    /\ lane \in [inFlight : Int, requests : 0..EmbeddingSessionRequests]
    /\ notified \in BOOLEAN
    /\ run \in RunType

MaxDeliveries(l) ==
    IF l = "chat" THEN ChatMaxAttempts + ChatCapacityMaxWaits
                  ELSE TransientMaxAttempts + EmbeddingCapacityMaxWaits

\* The interplay of fast attempts, recovery attempts and capacity waits (a wait
\* repeats its attempt) keeps the deliveries of one call, each of which costs the
\* grant a reservation, within attempts plus waits.
DeliveriesBounded == \A c \in Calls : call[c].deliveries <= MaxDeliveries(call[c].lane)

Number(P(_)) == Cardinality({c \in Calls : P(call[c])})

\* The counters account for the calls: every settled call is in exactly one of
\* the five outcome counters, every chat call admitted is a request, and usage is
\* missing or present once per success or rejection.  (proxy, handleEmbedding)
CallsBookedOnce ==
    LET booked(r) == r.outcome \notin {"none", "served", "refused"}
        chatted(r) == r.lane = "chat" /\ r.pc # "idle" IN
    /\ n["successes"] + n["failures"] + n["grantDenials"] + n["callerCancels"]
         + n["agentRequestRejections"] = Number(booked)
    /\ n["requests"] = Number(chatted)
    /\ n["usageAvailable"] + n["usageUnavailable"]
         = n["successes"] + n["agentRequestRejections"]

\* The calls settled between the two snapshots with an outcome in O.
During(O) == {c \in Calls : call[c].outcome \in O /\ call[c].settled}

\* A run is charged to the harness by its final accounting only for what the
\* harness did between the snapshots, whatever was in flight at either of them:
\* declines of its own allowance and no other denial; or rejected requests and
\* nothing of the platform's; or no chat call at all.  (relayDegradedSince,
\* requireCompleteV7Usage, unusedV8ChatLane)
ChargesAreJustified ==
    /\ run.verdict = "declined" =>
          /\ During({"platformDenial"}) = {}
          /\ \/ During({"agentDenial"}) # {}
             \/ /\ During({"rejection"}) # {}
                /\ During({"gap", "failure", "exhausted"}) = {}
    /\ run.verdict = "modelUnused" =>
          \A c \in Calls : call[c].lane = "chat" => ~call[c].admitted /\ ~call[c].settled

\* A run is scored only if some chat call succeeded and no call of either lane
\* that ended between the snapshots was lost to the platform, to the grant or to
\* missing usage; and no embedding call is still undecided.
ScoredRunsAreWhole ==
    run.verdict = "scored" =>
        /\ During({"success"}) # {}
        /\ During(Outcomes) = During({"success", "served", "refused", "cancelled"})
        /\ EmbeddingCalls = {}

\* The in-flight count is the number of handlers inside the lane, never above its
\* width, and once endEmbeddingPhase has returned for a session that is still
\* listed nobody is inside.
LaneDrained ==
    /\ lane.inFlight = Cardinality(EmbeddingCalls)
    /\ lane.inFlight <= EmbeddingLane
    /\ run.pc = "closed" /\ session # "removed" => EmbeddingCalls = {}

\* relayRestarted's guards, the one on the subset counter included, never mistake
\* the interleaved updates of one live session for a restart.
NoFalseRestart == run.verdict # "restarted"

\* What a call may still do: deliveries first, then the way through its handler.
DeliveriesLeft(r) == MaxDeliveries(r.lane) - (r.attempt - 1) - r.waits

Place(p) ==
    CASE p = "admitted"                          -> 7
      [] p = "ready"                             -> 6
      [] p \in {"sleeping", "backoff", "pausing"} -> 5
      [] p = "sent"                              -> 4
      [] p = "settling"                          -> 3
      [] p = "notifying"                         -> 2
      [] p = "leaving"                           -> 1
      [] OTHER                                   -> 0

Rank(r) ==
    IF r.pc \in {"notifying", "leaving", "done"} THEN Place(r.pc)
    ELSE 8 * DeliveriesLeft(r) + Place(r.pc)

\* Every step of a call that was let in uses up a natural number: no order of fast
\* attempts, recovery attempts, capacity waits, hang-ups and removals keeps a
\* handler, and the wait of endEmbeddingPhase for it, in the retry loop for ever.
EveryStepIsProgress ==
    [][\A c \in Calls : call[c].pc # "idle" /\ call'[c] # call[c] =>
          \/ call[c].ctx = "live" /\ call'[c] = [call[c] EXCEPT !.ctx = call'[c].ctx]
          \/ Rank(call'[c]) \in Nat /\ Rank(call'[c]) < Rank(call[c])]_vars

\* Claimed, and not so: a call booked as the harness's rejected request was
\* refused before any reservation, not timed out (408) on every attempt.
RejectionsAreRefusals ==
    \A c \in Calls : call[c].pc = "leaving" /\ call[c].outcome = "rejection"
                        => call[c].status = "rejected"

\* Claimed, and not so: a call booked as a success answers with the body of the
\* successful answer.
SuccessesAreWhole ==
    \A c \in Calls : call[c].pc = "leaving" /\ call[c].outcome \in {"success", "gap"}
                        => call[c].whole
=============================================================================
