------------------------ MODULE InferenceLanesProofs ------------------------
(***************************************************************************)
(* Theorems about InferenceLanes, for any number of calls and any limits.   *)
(***************************************************************************)
EXTENDS InferenceLanes, FiniteSetTheorems, TLAPS

-----------------------------------------------------------------------------
(* Operators.                                                              *)

\* Counting keeps the type of the counters, whatever is counted.
LEMMA CountType ==
    ASSUME NEW m \in [Counters -> Nat], NEW K
    PROVE  Count(m, K) \in [Counters -> Nat]
  BY DEF Count

\* A new call is a call in the place "idle".
LEMMA NewCallType ==
    ASSUME NEW l \in {"chat", "embedding"}
    PROVE  NewCall(l) \in CallType
  BY DEF NewCall, CallType, CallPCs, Status, Body, Outcomes

\* The loop of a handler ends in a well-typed record.
LEMMA SettledType ==
    ASSUME NEW r \in CallType, NEW o \in Outcomes, NEW p \in CallPCs, run \in RunType
    PROVE  Settled(r, o, p) \in CallType
  BY NewCallType, ZenonT(60) DEF Settled, NewCall, CallType, Measuring, RunType

\* An answer updates status, body and whole.
LEMMA AnswerType ==
    ASSUME NEW r \in CallType, NEW s \in Status, NEW b \in Body
    PROVE  Answer(r, s, b) \in CallType
  BY DEF Answer, CallType

\* The final accounting always reaches one of the verdicts.
LEMMA VerdictType ==
    ASSUME NEW s \in [Counters -> Nat], NEW e \in [Counters -> Nat]
    PROVE  relayVerdict(s, e) \in Verdicts
  BY DEF relayVerdict, relayDegradedSince, DenialVerdict, requireCompleteV7Usage, Verdicts

\* The loop counters of a call only grow.
LEMMA LoopType ==
    ASSUME NEW r \in CallType, NEW p \in CallPCs
    PROVE  /\ [r EXCEPT !.pc = p] \in CallType
           /\ [r EXCEPT !.attempt = @ + 1, !.pc = p] \in CallType
           /\ [r EXCEPT !.waits = @ + 1, !.pc = p] \in CallType
           /\ [r EXCEPT !.pc = p, !.deliveries = @ + 1] \in CallType
<1>1. r.attempt \in Nat \ {0} /\ r.waits \in Nat /\ r.deliveries \in Nat
  BY DEF CallType
<1>2. r.attempt + 1 \in Nat \ {0} /\ r.waits + 1 \in Nat /\ r.deliveries + 1 \in Nat
  BY <1>1
<1>3. [r EXCEPT !.pc = p] \in CallType
  BY DEF CallType
<1>4. [r EXCEPT !.attempt = r.attempt + 1, !.pc = p] \in CallType
  BY <1>2 DEF CallType
<1>5. [r EXCEPT !.waits = r.waits + 1, !.pc = p] \in CallType
  BY <1>2 DEF CallType
<1>6. [r EXCEPT !.pc = p, !.deliveries = r.deliveries + 1] \in CallType
  BY <1>2 DEF CallType
<1> QED BY <1>3, <1>4, <1>5, <1>6

-----------------------------------------------------------------------------
(* Types.                                                                  *)

\* A step that replaces one call by a well-typed one keeps the calls well typed.
LEMMA BecomeType ==
    ASSUME call \in [Calls -> CallType], NEW c \in Calls, NEW r \in CallType, Become(c, r)
    PROVE  call' \in [Calls -> CallType]
  BY DEF Become

\* Cancelling contexts keeps the calls well typed.
LEMMA CancelAllType ==
    ASSUME call \in [Calls -> CallType], NEW C, CancelAll(C)
    PROVE  call' \in [Calls -> CallType]
  BY DEF CancelAll, CallType

\* What a delivery of the chat lane leaves behind is well typed.
LEMMA NextAttemptType ==
    ASSUME TypeOK, NEW c \in Calls, NEW r \in CallType, NextAttempt(c, r)
    PROVE  TypeOK'
<1>1. CASE r.attempt < ChatMaxAttempts
  <2>1. [r EXCEPT !.attempt = @ + 1, !.pc = "sleeping"] \in CallType
    BY LoopType DEF CallPCs
  <2> QED BY <1>1, <2>1, BecomeType DEF NextAttempt, TypeOK, others
<1>2. CASE ~(r.attempt < ChatMaxAttempts)
  <2>1. [r EXCEPT !.pc = "settling"] \in CallType
    BY LoopType DEF CallPCs
  <2> QED BY <1>2, <2>1, BecomeType DEF NextAttempt, TypeOK, others
<1> QED BY <1>1, <1>2

\* The outcome of a call, and the place it goes to, are among those declared.
LEMMA OutcomeType ==
    ASSUME NEW r \in CallType
    PROVE  /\ ChatOutcome(r) \in Outcomes \ {"none", "served", "refused", "exhausted"}
           /\ EmbeddingOutcome(r) \in {"cancelled", "agentDenial", "platformDenial", "exhausted", "failure"}
           /\ \A o : AfterSettling(o) \in {"notifying", "leaving"}
  BY DEF ChatOutcome, EmbeddingOutcome, Denial, Outcomes, AfterSettling

\* A step of a chat handler keeps the types.
LEMMA ChatType ==
    ASSUME TypeOK, NEW c \in Calls, Chat(c)
    PROVE  TypeOK'
<1> DEFINE r == call[c]
<1>r. r \in CallType
  BY DEF TypeOK
<1>1. CASE RegisterCancel(c) \/ DeliverAgain(c)
  <2>1. [r EXCEPT !.pc = "sent", !.deliveries = @ + 1] \in CallType
    BY <1>r, LoopType DEF CallPCs
  <2> QED BY <1>1, <2>1, BecomeType DEF RegisterCancel, DeliverAgain, TypeOK, others
<1>2. CASE TransportFails(c)
  <2>1. [r EXCEPT !.pc = "settling"] \in CallType
    BY <1>r, LoopType DEF CallPCs
  <2>2. CASE call[c].ctx # "live"
    BY <1>2, <2>1, <2>2, BecomeType DEF TransportFails, Move, TypeOK, others
  <2>3. CASE call[c].ctx = "live"
    BY <1>2, <1>r, <2>3, NextAttemptType DEF TransportFails
  <2> QED BY <2>2, <2>3
<1>3. CASE Truncated(c)
  <2>1. PICK s \in {"ok", "timeout", "denied", "rejected", "failed"} :
           NextAttempt(c, [r EXCEPT !.status = s, !.whole = FALSE])
    BY <1>3 DEF Truncated
  <2>2. [r EXCEPT !.status = s, !.whole = FALSE] \in CallType
    BY <1>r DEF CallType, Status
  <2> QED BY <2>1, <2>2, NextAttemptType
<1>4. CASE AtCapacity(c)
  <2> DEFINE a == Answer(r, "failed", "plain")
  <2>1. a \in CallType
    BY <1>r, AnswerType DEF Status, Body
  <2>2. /\ [a EXCEPT !.waits = @ + 1, !.pc = "sleeping"] \in CallType
        /\ [a EXCEPT !.pc = "settling"] \in CallType
    BY <2>1, LoopType DEF CallPCs
  <2>3. n' \in [Counters -> Nat]
    BY <1>4, CountType DEF AtCapacity, TypeOK
  <2>4. call' \in [Calls -> CallType]
    BY <1>4, <2>2, BecomeType DEF AtCapacity, TypeOK
  <2> QED BY <1>4, <2>3, <2>4 DEF AtCapacity, TypeOK, others
<1>5. CASE TransientAnswer(c)
  <2>1. PICK s \in {"timeout", "failed"} : NextAttempt(c, Answer(r, s, "plain"))
    BY <1>5 DEF TransientAnswer
  <2>2. Answer(r, s, "plain") \in CallType
    BY <1>r, AnswerType DEF Status, Body
  <2> QED BY <2>1, <2>2, NextAttemptType
<1>6. CASE FinalAnswer(c)
  <2>1. PICK a \in FinalAnswers : Become(c, [Answer(r, a[1], a[2]) EXCEPT !.pc = "settling"])
    BY <1>6 DEF FinalAnswer
  <2>2. a[1] \in Status /\ a[2] \in Body
    BY DEF FinalAnswers, Status, Body
  <2>3. [Answer(r, a[1], a[2]) EXCEPT !.pc = "settling"] \in CallType
    BY <1>r, <2>2, AnswerType DEF CallType, CallPCs
  <2> QED BY <1>6, <2>1, <2>3, BecomeType DEF FinalAnswer, TypeOK, others
<1>7. CASE SettleChat(c)
  <2> DEFINE o == ChatOutcome(r)
  <2>1. Settled(r, o, AfterSettling(o)) \in CallType
    BY <1>r, OutcomeType, SettledType DEF TypeOK, CallPCs
  <2>2. call' \in [Calls -> CallType]
    BY <1>7, <2>1, BecomeType DEF SettleChat, TypeOK
  <2>3. n' \in [Counters -> Nat]
    BY <1>7, CountType DEF SettleChat, TypeOK
  <2> QED BY <1>7, <2>2, <2>3 DEF SettleChat, TypeOK, others
<1> QED BY <1>1, <1>2, <1>3, <1>4, <1>5, <1>6, <1>7 DEF Chat

\* A step of an embedding handler keeps the types.
LEMMA EmbeddingType ==
    ASSUME TypeOK, NEW c \in Calls, Embedding(c), EmbeddingSessionRequests \in Nat
    PROVE  TypeOK'
<1> DEFINE r == call[c]
<1>r. r \in CallType
  BY DEF TypeOK
<1>f. Answer(r, "failed", "plain") \in CallType
  BY <1>r, AnswerType DEF Status, Body
<1>1. CASE ChargeEmbedding(c)
  <2>1. [r EXCEPT !.pc = "ready"] \in CallType
    BY <1>r, LoopType DEF CallPCs
  <2>2. Settled(r, "refused", "leaving") \in CallType
    BY <1>r, SettledType DEF TypeOK, CallPCs, Outcomes
  <2>3. call' \in [Calls -> CallType]
    BY <1>1, <2>1, <2>2, BecomeType DEF ChargeEmbedding, Move, TypeOK
  <2>4. lane' \in [inFlight : Int, requests : 0..EmbeddingSessionRequests]
    BY <1>1 DEF ChargeEmbedding, TypeOK
  <2> QED BY <1>1, <2>3, <2>4 DEF ChargeEmbedding, TypeOK
<1>2. CASE DeliverEmbedding(c)
  <2>1. /\ [r EXCEPT !.pc = "sent", !.deliveries = @ + 1] \in CallType
        /\ [Answer(r, "failed", "plain") EXCEPT !.pc = "settling"] \in CallType
    BY <1>r, <1>f, LoopType DEF CallPCs
  <2>2. call' \in [Calls -> CallType]
    BY <1>2, <2>1, BecomeType DEF DeliverEmbedding, TypeOK
  <2> QED BY <1>2, <2>2 DEF DeliverEmbedding, TypeOK, others
<1>3. CASE EmbeddingServed(c)
  <2>1. Settled(r, "served", "leaving") \in CallType
    BY <1>r, SettledType DEF TypeOK, CallPCs, Outcomes
  <2> QED BY <1>3, <2>1, BecomeType DEF EmbeddingServed, TypeOK, others
<1>4. CASE EmbeddingAtCapacity(c)
  <2> DEFINE a == Answer(r, "full", "plain")
  <2>1. a \in CallType
    BY <1>r, AnswerType DEF Status, Body
  <2>2. /\ [a EXCEPT !.waits = @ + 1, !.pc = "pausing"] \in CallType
        /\ [a EXCEPT !.pc = "settling"] \in CallType
    BY <2>1, LoopType DEF CallPCs
  <2>3. call' \in [Calls -> CallType]
    BY <1>4, <2>2, BecomeType DEF EmbeddingAtCapacity, TypeOK
  <2> QED BY <1>4, <2>3 DEF EmbeddingAtCapacity, TypeOK, others
<1>5. CASE EmbeddingTransient(c)
  <2> DEFINE a == Answer(r, "failed", "plain")
  <2>2. /\ [a EXCEPT !.attempt = @ + 1, !.pc = "backoff"] \in CallType
        /\ [a EXCEPT !.pc = "settling"] \in CallType
    BY <1>f, LoopType DEF CallPCs
  <2>3. call' \in [Calls -> CallType]
    BY <1>5, <2>2, BecomeType DEF EmbeddingTransient, TypeOK
  <2> QED BY <1>5, <2>3 DEF EmbeddingTransient, TypeOK, others
<1>6. CASE EmbeddingFails(c)
  <2>1. PICK a \in {<<"denied", "agent">>, <<"denied", "plain">>, <<"failed", "plain">>} :
           Become(c, [Answer(r, a[1], a[2]) EXCEPT !.pc = "settling"])
    BY <1>6 DEF EmbeddingFails
  <2>2. a[1] \in Status /\ a[2] \in Body
    BY DEF Status, Body
  <2>3. [Answer(r, a[1], a[2]) EXCEPT !.pc = "settling"] \in CallType
    BY <1>r, <2>2, AnswerType DEF CallType, CallPCs
  <2> QED BY <1>6, <2>1, <2>3, BecomeType DEF EmbeddingFails, TypeOK, others
<1>7. CASE SettleEmbedding(c)
  <2> DEFINE o == EmbeddingOutcome(r)
  <2>1. Settled(r, o, AfterSettling(o)) \in CallType
    BY <1>r, OutcomeType, SettledType DEF TypeOK, CallPCs, Outcomes
  <2>2. call' \in [Calls -> CallType]
    BY <1>7, <2>1, BecomeType DEF SettleEmbedding, TypeOK
  <2>3. n' \in [Counters -> Nat]
    BY <1>7, CountType DEF SettleEmbedding, TypeOK
  <2> QED BY <1>7, <2>2, <2>3 DEF SettleEmbedding, TypeOK, others
<1> QED BY <1>1, <1>2, <1>3, <1>4, <1>5, <1>6, <1>7 DEF Embedding

\* The steps of both lanes and of their clients keep the types.
LEMMA CallStepType ==
    ASSUME TypeOK, NEW c \in Calls, EmbeddingSessionRequests \in Nat,
           Handler(c) \/ Client(c)
    PROVE  TypeOK'
<1> DEFINE r == call[c]
<1>r. r \in CallType
  BY DEF TypeOK
<1>1. CASE Chat(c)
  BY <1>1, ChatType
<1>2. CASE Embedding(c)
  BY <1>2, EmbeddingType
<1>3. CASE Interrupted(c)
  <2>1. [r EXCEPT !.pc = "settling"] \in CallType
    BY <1>r, LoopType DEF CallPCs
  <2> QED BY <1>3, <2>1, BecomeType DEF Interrupted, Move, TypeOK, others
<1>4. CASE Notify(c)
  <2>1. [r EXCEPT !.pc = "leaving"] \in CallType
    BY <1>r, LoopType DEF CallPCs
  <2> QED BY <1>4, <2>1, BecomeType DEF Notify, Move, TypeOK
<1>5. CASE Leave(c)
  <2> DEFINE q == [NewCall(r.lane) EXCEPT !.pc = "done", !.admitted = r.admitted,
                                          !.outcome = r.outcome, !.settled = r.settled]
  <2>1. q \in CallType
    BY <1>r, NewCallType, ZenonT(60) DEF CallType, CallPCs
  <2>2. call' \in [Calls -> CallType]
    BY <1>5, <2>1, BecomeType DEF Leave, TypeOK
  <2>3. lane' \in [inFlight : Int, requests : 0..EmbeddingSessionRequests]
    BY <1>5 DEF Leave, TypeOK
  <2> QED BY <1>5, <2>2, <2>3 DEF Leave, TypeOK
<1>6. CASE AdmitChat(c)
  <2>1. [r EXCEPT !.pc = "admitted", !.admitted = Measuring] \in CallType
    BY <1>r DEF TypeOK, CallType, CallPCs, Measuring, RunType
  <2>2. n' \in [Counters -> Nat]
    BY <1>6, CountType DEF AdmitChat, TypeOK
  <2> QED BY <1>6, <2>1, <2>2, BecomeType DEF AdmitChat, TypeOK, others
<1>7. CASE AdmitEmbedding(c)
  <2>1. [r EXCEPT !.pc = "admitted"] \in CallType
    BY <1>r, LoopType DEF CallPCs
  <2>2. lane' \in [inFlight : Int, requests : 0..EmbeddingSessionRequests]
    BY <1>7 DEF AdmitEmbedding, TypeOK
  <2> QED BY <1>7, <2>1, <2>2, BecomeType DEF AdmitEmbedding, Move, TypeOK
<1>8. CASE HangUp(c) \/ DeadlinePasses(c)
  <2>1. \A x \in {"canceled", "expired"} : [r EXCEPT !.ctx = x] \in CallType
    BY <1>r DEF CallType
  <2> QED BY <1>8, <2>1, BecomeType DEF HangUp, DeadlinePasses, TypeOK, others
<1> QED BY <1>1, <1>2, <1>3, <1>4, <1>5, <1>6, <1>7, <1>8 DEF Handler, Client

\* The steps of the worker and the ends of the session keep the types.
LEMMA WorkerType ==
    ASSUME TypeOK, Worker \/ Expire \/ Remove
    PROVE  TypeOK'
<1>1. CASE BeginEmbeddingPhase
  BY <1>1 DEF BeginEmbeddingPhase, TypeOK, RunType
<1>2. CASE TakeStart
  BY <1>2 DEF TakeStart, TypeOK, RunType
<1>3. CASE EndPhase
  <2>1. call' \in [Calls -> CallType]
    BY <1>3, CancelAllType DEF EndPhase, TypeOK
  <2>p. EmbeddingCalls \in SUBSET Calls
    BY DEF EmbeddingCalls
  <2>q. \/ run' = [run EXCEPT !.pc = "closing", !.pending = EmbeddingCalls]
        \/ run' = [run EXCEPT !.pc = "closing"]
    BY <1>3 DEF EndPhase
  <2>2. run' \in RunType
    BY <2>p, <2>q, ZenonT(60) DEF TypeOK, RunType
  <2>3. phase' \in {"unopened", "open", "closed"}
    BY <1>3 DEF EndPhase, TypeOK
  <2> QED BY <1>3, <2>1, <2>2, <2>3 DEF EndPhase, TypeOK
<1>4. CASE PhaseEnded
  BY <1>4 DEF PhaseEnded, TypeOK, RunType
<1>5. CASE TakeEnd
  <2>1. relayVerdict(run.start, n) \in Verdicts
    BY VerdictType DEF TypeOK, RunType
  <2>2. "unavailable" \in Verdicts
    BY DEF Verdicts
  <2>3. NoCounts \in [Counters -> Nat]
    BY DEF NoCounts
  <2> DEFINE v == IF session = "removed" THEN "unavailable" ELSE relayVerdict(run.start, n)
  <2>v. v \in Verdicts
    BY <2>1, <2>2
  <2>r. run' = [run EXCEPT !.pc = "judged", !.start = NoCounts, !.verdict = v]
    BY <1>5 DEF TakeEnd
  <2> HIDE DEF v
  <2>4. run' \in RunType
    BY <2>v, <2>r, <2>3 DEF TypeOK, RunType
  <2> QED BY <1>5, <2>4 DEF TakeEnd, TypeOK
<1>6. CASE Expire
  BY <1>6 DEF Expire, TypeOK
<1>7. CASE Remove
  <2>1. call' \in [Calls -> CallType]
    BY <1>7, CancelAllType DEF Remove, TypeOK
  <2> QED BY <1>7, <2>1 DEF Remove, TypeOK
<1> QED BY <1>1, <1>2, <1>3, <1>4, <1>5, <1>6, <1>7 DEF Worker

\* Every step keeps the types.
LEMMA TypeStep ==
    ASSUME TypeOK, [Next]_vars, EmbeddingSessionRequests \in Nat
    PROVE  TypeOK'
<1>1. CASE Next
  BY <1>1, CallStepType, WorkerType DEF Next
<1>2. CASE UNCHANGED vars
  BY <1>2 DEF vars, TypeOK
<1> QED BY <1>1, <1>2

\* Reachable states are well typed; in particular the embedding budget of a
\* session is never exceeded, however many calls compete for it.
THEOREM TypeCorrect == Spec => []TypeOK
<1>0. EmbeddingSessionRequests \in Nat
  BY InferenceLanesAssumption
<1>1. Init => TypeOK
  <2> SUFFICES ASSUME Init PROVE TypeOK
    OBVIOUS
  <2>1. call \in [Calls -> CallType]
    BY NewCallType DEF Init
  <2>2. run \in RunType
    BY DEF Init, NewRun, RunType, NoCounts
  <2>3. n \in [Counters -> Nat]
    BY DEF Init, NoCounts
  <2>4. lane \in [inFlight : Int, requests : 0..EmbeddingSessionRequests]
    BY <1>0 DEF Init
  <2> QED BY <2>1, <2>2, <2>3, <2>4 DEF Init, TypeOK
<1>2. TypeOK /\ [Next]_vars => TypeOK'
  BY <1>0, TypeStep
<1> QED BY <1>1, <1>2, PTL DEF Spec

-----------------------------------------------------------------------------
(* The retry loops.                                                        *)

MaxAttempts(l) == IF l = "chat" THEN ChatMaxAttempts ELSE TransientMaxAttempts
MaxWaits(l) == IF l = "chat" THEN ChatCapacityMaxWaits ELSE EmbeddingCapacityMaxWaits

Asleep == {"sleeping", "backoff", "pausing"}

\* The loop variables at their initial values.
Fresh(q) == q.attempt = 1 /\ q.waits = 0 /\ q.deliveries = 0

SameLoop(r, q) == q.attempt = r.attempt /\ q.waits = r.waits /\ q.deliveries = r.deliveries

\* What one step of a handler may do to the loop variables of its call.
HandlerStep(r, q) ==
    \/ r.pc \in {"admitted", "ready"} \cup Asleep /\ q.pc = "sent"
          /\ q.deliveries = r.deliveries + 1 /\ q.attempt = r.attempt /\ q.waits = r.waits
    \/ r.pc = "admitted" /\ q.pc = "ready" /\ SameLoop(r, q)
    \/ r.pc = "sent" /\ q.pc \in Asleep /\ q.deliveries = r.deliveries
          /\ r.attempt < MaxAttempts(r.lane) /\ q.attempt = r.attempt + 1 /\ q.waits = r.waits
    \/ r.pc = "sent" /\ q.pc \in Asleep /\ q.deliveries = r.deliveries
          /\ r.waits < MaxWaits(r.lane) /\ q.waits = r.waits + 1 /\ q.attempt = r.attempt
    \/ r.pc \in {"ready", "sent"} \cup Asleep /\ q.pc = "settling" /\ SameLoop(r, q)
    \/ r.pc \in {"admitted", "sent", "settling"} /\ q.pc \in {"notifying", "leaving"} /\ Fresh(q)
    \/ r.pc = "notifying" /\ q.pc = "leaving" /\ SameLoop(r, q)
    \/ r.pc = "leaving" /\ q.pc = "done" /\ Fresh(q)

\* A replacement of call[c] seen from outside.
LEMMA BecomeGives ==
    ASSUME TypeOK, NEW c \in Calls, NEW q, Become(c, q)
    PROVE  call'[c] = q /\ \A d \in Calls \ {c} : call'[d] = call[d]
  BY DEF Become, TypeOK

\* A settled call starts its loop variables over.
LEMMA SettledFresh ==
    ASSUME NEW r \in CallType, NEW o, NEW p
    PROVE  Settled(r, o, p).lane = r.lane /\ Settled(r, o, p).pc = p /\ Fresh(Settled(r, o, p))
  BY DEF Settled, NewCall, Fresh

\* An answer leaves lane, place, context and loop variables alone.
LEMMA AnswerSame ==
    ASSUME NEW r \in CallType, NEW s, NEW b
    PROVE  LET a == Answer(r, s, b) IN
           /\ a.lane = r.lane /\ a.pc = r.pc /\ a.ctx = r.ctx /\ SameLoop(r, a)
  BY DEF Answer, CallType, SameLoop

\* The head of the chat loop repeats with one attempt more, or stops.
LEMMA NextAttemptStep ==
    ASSUME TypeOK, NEW c \in Calls, NEW r \in CallType, NextAttempt(c, r),
           call[c].lane = "chat", call[c].pc = "sent", r.lane = "chat", SameLoop(call[c], r)
    PROVE  HandlerStep(call[c], call'[c]) /\ call'[c].lane = call[c].lane
<1>1. CASE r.attempt < ChatMaxAttempts
  <2>1. call'[c] = [r EXCEPT !.attempt = r.attempt + 1, !.pc = "sleeping"]
    BY <1>1, BecomeGives DEF NextAttempt
  <2>2. /\ call'[c].attempt = r.attempt + 1 /\ call'[c].waits = r.waits
        /\ call'[c].deliveries = r.deliveries /\ call'[c].pc = "sleeping"
        /\ call'[c].lane = r.lane
    BY <2>1 DEF CallType
  <2> QED BY <1>1, <2>2 DEF HandlerStep, SameLoop, MaxAttempts, Asleep
<1>2. CASE ~(r.attempt < ChatMaxAttempts)
  <2>1. call'[c] = [r EXCEPT !.pc = "settling"]
    BY <1>2, BecomeGives DEF NextAttempt
  <2>2. call'[c].pc = "settling" /\ SameLoop(r, call'[c]) /\ call'[c].lane = r.lane
    BY <2>1 DEF CallType, SameLoop
  <2> QED BY <2>2 DEF HandlerStep, SameLoop
<1> QED BY <1>1, <1>2

\* Every step of a chat handler is a step of the loop.
LEMMA ChatStep ==
    ASSUME TypeOK, NEW c \in Calls, Chat(c)
    PROVE  HandlerStep(call[c], call'[c]) /\ call'[c].lane = call[c].lane
<1> DEFINE r == call[c]
<1>r. r \in CallType
  BY DEF TypeOK
<1>1. CASE RegisterCancel(c) \/ DeliverAgain(c)
  <2>1. call'[c] = [r EXCEPT !.pc = "sent", !.deliveries = r.deliveries + 1]
    BY <1>1, BecomeGives DEF RegisterCancel, DeliverAgain
  <2>2. /\ call'[c].attempt = r.attempt /\ call'[c].waits = r.waits
        /\ call'[c].deliveries = r.deliveries + 1 /\ call'[c].pc = "sent"
        /\ call'[c].lane = r.lane
    BY <1>r, <2>1 DEF CallType
  <2> QED BY <1>1, <2>2 DEF RegisterCancel, DeliverAgain, At, HandlerStep, Asleep
<1>2. CASE TransportFails(c)
  <2>1. r.lane = "chat" /\ r.pc = "sent"
    BY <1>2 DEF TransportFails, At
  <2>2. CASE r.ctx # "live"
    <3>1. call'[c] = [r EXCEPT !.pc = "settling"]
      BY <1>2, <2>2, BecomeGives DEF TransportFails, Move
    <3>2. call'[c].pc = "settling" /\ SameLoop(r, call'[c]) /\ call'[c].lane = r.lane
      BY <1>r, <3>1 DEF CallType, SameLoop
    <3> QED BY <2>1, <3>2 DEF HandlerStep
  <2>3. CASE r.ctx = "live"
    <3>1. NextAttempt(c, r) /\ SameLoop(r, r)
      BY <1>2, <2>3 DEF TransportFails, SameLoop
    <3> QED BY <1>r, <2>1, <3>1, NextAttemptStep
  <2> QED BY <2>2, <2>3
<1>3. CASE Truncated(c)
  <2>1. PICK s \in {"ok", "timeout", "denied", "rejected", "failed"} :
           NextAttempt(c, [r EXCEPT !.status = s, !.whole = FALSE])
    BY <1>3 DEF Truncated
  <2> DEFINE q == [r EXCEPT !.status = s, !.whole = FALSE]
  <2>2. q \in CallType /\ q.lane = r.lane /\ SameLoop(r, q)
    BY <1>r DEF CallType, Status, SameLoop
  <2>3. r.lane = "chat" /\ r.pc = "sent"
    BY <1>3 DEF Truncated, At
  <2> QED BY <2>1, <2>2, <2>3, NextAttemptStep
<1>4. CASE AtCapacity(c)
  <2> DEFINE a == Answer(r, "failed", "plain")
  <2>1. /\ a \in CallType /\ a.lane = r.lane /\ SameLoop(r, a)
        /\ r.lane = "chat" /\ r.pc = "sent"
    BY <1>r, <1>4, AnswerType, AnswerSame DEF Status, Body, AtCapacity, At
  <2>2. \/ /\ a.waits < ChatCapacityMaxWaits
           /\ call'[c] = [a EXCEPT !.waits = a.waits + 1, !.pc = "sleeping"]
        \/ call'[c] = [a EXCEPT !.pc = "settling"]
    BY <1>4, BecomeGives DEF AtCapacity
  <2> HIDE DEF a
  <2>3. CASE call'[c] = [a EXCEPT !.pc = "settling"]
    <3>1. call'[c].pc = "settling" /\ SameLoop(a, call'[c]) /\ call'[c].lane = a.lane
      BY <2>1, <2>3 DEF CallType, SameLoop
    <3> QED BY <2>1, <3>1 DEF HandlerStep, SameLoop
  <2>4. CASE /\ a.waits < ChatCapacityMaxWaits
             /\ call'[c] = [a EXCEPT !.waits = a.waits + 1, !.pc = "sleeping"]
    <3>1. /\ call'[c].attempt = a.attempt /\ call'[c].waits = a.waits + 1
          /\ call'[c].deliveries = a.deliveries /\ call'[c].pc = "sleeping"
          /\ call'[c].lane = a.lane
      BY <2>1, <2>4 DEF CallType
    <3> QED BY <2>1, <2>4, <3>1 DEF HandlerStep, SameLoop, MaxWaits, Asleep
  <2> QED BY <2>2, <2>3, <2>4
<1>5. CASE TransientAnswer(c)
  <2>1. PICK s \in {"timeout", "failed"} : NextAttempt(c, Answer(r, s, "plain"))
    BY <1>5 DEF TransientAnswer
  <2>2. Answer(r, s, "plain") \in CallType
    BY <1>r, AnswerType DEF Status, Body
  <2>3. Answer(r, s, "plain").lane = r.lane /\ SameLoop(r, Answer(r, s, "plain"))
    BY <1>r, AnswerSame
  <2>4. r.lane = "chat" /\ r.pc = "sent"
    BY <1>5 DEF TransientAnswer, At
  <2> QED BY <2>1, <2>2, <2>3, <2>4, NextAttemptStep
<1>6. CASE FinalAnswer(c)
  <2>1. PICK a \in FinalAnswers : Become(c, [Answer(r, a[1], a[2]) EXCEPT !.pc = "settling"])
    BY <1>6 DEF FinalAnswer
  <2> DEFINE q == Answer(r, a[1], a[2])
  <2>2. a[1] \in Status /\ a[2] \in Body
    BY DEF FinalAnswers, Status, Body
  <2>3. q \in CallType /\ q.lane = r.lane /\ SameLoop(r, q)
    BY <1>r, <2>2, AnswerType, AnswerSame
  <2>4. call'[c] = [q EXCEPT !.pc = "settling"]
    BY <2>1, BecomeGives
  <2> HIDE DEF q
  <2>5. call'[c].pc = "settling" /\ SameLoop(q, call'[c]) /\ call'[c].lane = q.lane
    BY <2>3, <2>4 DEF CallType, SameLoop
  <2>6. r.pc = "sent"
    BY <1>6 DEF FinalAnswer, At
  <2> QED BY <2>3, <2>5, <2>6 DEF HandlerStep, SameLoop
<1>7. CASE SettleChat(c)
  <2> DEFINE o == ChatOutcome(r)
  <2>1. call'[c] = Settled(r, o, AfterSettling(o)) /\ r.pc = "settling"
    BY <1>7, BecomeGives DEF SettleChat, At
  <2>2. AfterSettling(o) \in {"notifying", "leaving"}
    BY <1>r, OutcomeType
  <2> HIDE DEF o
  <2> QED BY <1>r, <2>1, <2>2, SettledFresh DEF HandlerStep
<1> QED BY <1>1, <1>2, <1>3, <1>4, <1>5, <1>6, <1>7 DEF Chat

\* Every step of an embedding handler is a step of the loop.
LEMMA EmbeddingStep ==
    ASSUME TypeOK, NEW c \in Calls, Embedding(c)
    PROVE  HandlerStep(call[c], call'[c]) /\ call'[c].lane = call[c].lane
<1> DEFINE r == call[c]
<1>r. r \in CallType
  BY DEF TypeOK
<1>1. CASE ChargeEmbedding(c)
  <2>1. r.pc = "admitted" /\ r.lane = "embedding"
    BY <1>1 DEF ChargeEmbedding, At
  <2>2. CASE call'[c] = [r EXCEPT !.pc = "ready"]
    <3>1. call'[c].pc = "ready" /\ SameLoop(r, call'[c]) /\ call'[c].lane = r.lane
      BY <1>r, <2>2 DEF CallType, SameLoop
    <3> QED BY <2>1, <3>1 DEF HandlerStep
  <2>3. CASE call'[c] = Settled(r, "refused", "leaving")
    BY <1>r, <2>1, <2>3, SettledFresh DEF HandlerStep
  <2> QED BY <1>1, <2>2, <2>3, BecomeGives DEF ChargeEmbedding, Move
<1>2. CASE DeliverEmbedding(c)
  <2> DEFINE a == Answer(r, "failed", "plain")
  <2>1. r.pc \in {"ready", "backoff", "pausing"}
    BY <1>2 DEF DeliverEmbedding, At
  <2>2. a \in CallType /\ a.lane = r.lane /\ SameLoop(r, a)
    BY <1>r, AnswerType, AnswerSame DEF Status, Body
  <2>3. \/ call'[c] = [r EXCEPT !.pc = "sent", !.deliveries = r.deliveries + 1]
        \/ call'[c] = [a EXCEPT !.pc = "settling"]
    BY <1>2, BecomeGives DEF DeliverEmbedding
  <2> HIDE DEF a
  <2>4. CASE call'[c] = [r EXCEPT !.pc = "sent", !.deliveries = r.deliveries + 1]
    <3>1. /\ call'[c].attempt = r.attempt /\ call'[c].waits = r.waits
          /\ call'[c].deliveries = r.deliveries + 1 /\ call'[c].pc = "sent"
          /\ call'[c].lane = r.lane
      BY <1>r, <2>4 DEF CallType
    <3> QED BY <2>1, <3>1 DEF HandlerStep, Asleep
  <2>5. CASE call'[c] = [a EXCEPT !.pc = "settling"]
    <3>1. call'[c].pc = "settling" /\ SameLoop(a, call'[c]) /\ call'[c].lane = a.lane
      BY <2>2, <2>5 DEF CallType, SameLoop
    <3> QED BY <2>1, <2>2, <3>1 DEF HandlerStep, SameLoop, Asleep
  <2> QED BY <2>3, <2>4, <2>5
<1>3. CASE EmbeddingServed(c)
  <2>1. call'[c] = Settled(r, "served", "leaving") /\ r.pc = "sent"
    BY <1>3, BecomeGives DEF EmbeddingServed, At
  <2> QED BY <1>r, <2>1, SettledFresh DEF HandlerStep
<1>4. CASE EmbeddingAtCapacity(c)
  <2> DEFINE a == Answer(r, "full", "plain")
  <2>1. /\ a \in CallType /\ a.lane = r.lane /\ SameLoop(r, a)
        /\ r.lane = "embedding" /\ r.pc = "sent"
    BY <1>r, <1>4, AnswerType, AnswerSame DEF Status, Body, EmbeddingAtCapacity, At
  <2>2. \/ /\ a.waits < EmbeddingCapacityMaxWaits
           /\ call'[c] = [a EXCEPT !.waits = a.waits + 1, !.pc = "pausing"]
        \/ call'[c] = [a EXCEPT !.pc = "settling"]
    BY <1>4, BecomeGives DEF EmbeddingAtCapacity
  <2> HIDE DEF a
  <2>3. CASE call'[c] = [a EXCEPT !.pc = "settling"]
    <3>1. call'[c].pc = "settling" /\ SameLoop(a, call'[c]) /\ call'[c].lane = a.lane
      BY <2>1, <2>3 DEF CallType, SameLoop
    <3> QED BY <2>1, <3>1 DEF HandlerStep, SameLoop
  <2>4. CASE /\ a.waits < EmbeddingCapacityMaxWaits
             /\ call'[c] = [a EXCEPT !.waits = a.waits + 1, !.pc = "pausing"]
    <3>1. /\ call'[c].attempt = a.attempt /\ call'[c].waits = a.waits + 1
          /\ call'[c].deliveries = a.deliveries /\ call'[c].pc = "pausing"
          /\ call'[c].lane = a.lane
      BY <2>1, <2>4 DEF CallType
    <3> QED BY <2>1, <2>4, <3>1 DEF HandlerStep, SameLoop, MaxWaits, Asleep
  <2> QED BY <2>2, <2>3, <2>4
<1>5. CASE EmbeddingTransient(c)
  <2> DEFINE a == Answer(r, "failed", "plain")
  <2>1. /\ a \in CallType /\ a.lane = r.lane /\ SameLoop(r, a)
        /\ r.lane = "embedding" /\ r.pc = "sent"
    BY <1>r, <1>5, AnswerType, AnswerSame DEF Status, Body, EmbeddingTransient, At
  <2>2. \/ /\ a.attempt < TransientMaxAttempts
           /\ call'[c] = [a EXCEPT !.attempt = a.attempt + 1, !.pc = "backoff"]
        \/ call'[c] = [a EXCEPT !.pc = "settling"]
    BY <1>5, BecomeGives DEF EmbeddingTransient
  <2> HIDE DEF a
  <2>3. CASE call'[c] = [a EXCEPT !.pc = "settling"]
    <3>1. call'[c].pc = "settling" /\ SameLoop(a, call'[c]) /\ call'[c].lane = a.lane
      BY <2>1, <2>3 DEF CallType, SameLoop
    <3> QED BY <2>1, <3>1 DEF HandlerStep, SameLoop
  <2>4. CASE /\ a.attempt < TransientMaxAttempts
             /\ call'[c] = [a EXCEPT !.attempt = a.attempt + 1, !.pc = "backoff"]
    <3>1. /\ call'[c].attempt = a.attempt + 1 /\ call'[c].waits = a.waits
          /\ call'[c].deliveries = a.deliveries /\ call'[c].pc = "backoff"
          /\ call'[c].lane = a.lane
      BY <2>1, <2>4 DEF CallType
    <3> QED BY <2>1, <2>4, <3>1 DEF HandlerStep, SameLoop, MaxAttempts, Asleep
  <2> QED BY <2>2, <2>3, <2>4
<1>6. CASE EmbeddingFails(c)
  <2>1. PICK a \in {<<"denied", "agent">>, <<"denied", "plain">>, <<"failed", "plain">>} :
           Become(c, [Answer(r, a[1], a[2]) EXCEPT !.pc = "settling"])
    BY <1>6 DEF EmbeddingFails
  <2> DEFINE q == Answer(r, a[1], a[2])
  <2>2. a[1] \in Status /\ a[2] \in Body
    BY DEF Status, Body
  <2>3. q \in CallType /\ q.lane = r.lane /\ SameLoop(r, q)
    BY <1>r, <2>2, AnswerType, AnswerSame
  <2>4. call'[c] = [q EXCEPT !.pc = "settling"]
    BY <2>1, BecomeGives
  <2> HIDE DEF q
  <2>5. call'[c].pc = "settling" /\ SameLoop(q, call'[c]) /\ call'[c].lane = q.lane
    BY <2>3, <2>4 DEF CallType, SameLoop
  <2>6. r.pc = "sent"
    BY <1>6 DEF EmbeddingFails, At
  <2> QED BY <2>3, <2>5, <2>6 DEF HandlerStep, SameLoop
<1>7. CASE SettleEmbedding(c)
  <2> DEFINE o == EmbeddingOutcome(r)
  <2>1. call'[c] = Settled(r, o, AfterSettling(o)) /\ r.pc = "settling"
    BY <1>7, BecomeGives DEF SettleEmbedding, At
  <2>2. AfterSettling(o) \in {"notifying", "leaving"}
    BY <1>r, OutcomeType
  <2> HIDE DEF o
  <2> QED BY <1>r, <2>1, <2>2, SettledFresh DEF HandlerStep
<1> QED BY <1>1, <1>2, <1>3, <1>4, <1>5, <1>6, <1>7 DEF Embedding

\* Every step of a handler is a step of the loop, and of that call only.
LEMMA HandlerSteps ==
    ASSUME TypeOK, NEW c \in Calls, Handler(c)
    PROVE  /\ HandlerStep(call[c], call'[c]) /\ call'[c].lane = call[c].lane
           /\ \A d \in Calls \ {c} : call'[d] = call[d]
<1> DEFINE r == call[c]
<1>r. r \in CallType
  BY DEF TypeOK
<1>1. CASE Chat(c)
  <2>1. \E q : Become(c, q)
    BY <1>1 DEF Chat, RegisterCancel, DeliverAgain, TransportFails, Truncated, AtCapacity,
                TransientAnswer, FinalAnswer, SettleChat, NextAttempt, Move
  <2> QED BY <1>1, <2>1, ChatStep, BecomeGives
<1>2. CASE Embedding(c)
  <2>1. \E q : Become(c, q)
    BY <1>2 DEF Embedding, ChargeEmbedding, DeliverEmbedding, EmbeddingServed,
                EmbeddingAtCapacity, EmbeddingTransient, EmbeddingFails, SettleEmbedding, Move
  <2> QED BY <1>2, <2>1, EmbeddingStep, BecomeGives
<1>3. CASE Interrupted(c)
  <2>1. Become(c, [r EXCEPT !.pc = "settling"]) /\ r.pc \in Asleep
    BY <1>3 DEF Interrupted, Move, Asleep
  <2>2. call'[c] = [r EXCEPT !.pc = "settling"]
    BY <2>1, BecomeGives
  <2>3. call'[c].pc = "settling" /\ SameLoop(r, call'[c]) /\ call'[c].lane = r.lane
    BY <1>r, <2>2 DEF CallType, SameLoop
  <2> QED BY <2>1, <2>3, BecomeGives DEF HandlerStep
<1>4. CASE Notify(c)
  <2>1. Become(c, [r EXCEPT !.pc = "leaving"]) /\ r.pc = "notifying"
    BY <1>4 DEF Notify, Move
  <2>2. call'[c] = [r EXCEPT !.pc = "leaving"]
    BY <2>1, BecomeGives
  <2>3. call'[c].pc = "leaving" /\ SameLoop(r, call'[c]) /\ call'[c].lane = r.lane
    BY <1>r, <2>2 DEF CallType, SameLoop
  <2> QED BY <2>1, <2>3, BecomeGives DEF HandlerStep
<1>5. CASE Leave(c)
  <2> DEFINE q == [NewCall(r.lane) EXCEPT !.pc = "done", !.admitted = r.admitted,
                                          !.outcome = r.outcome, !.settled = r.settled]
  <2>1. Become(c, q) /\ r.pc = "leaving"
    BY <1>5 DEF Leave
  <2>2. q.pc = "done" /\ q.lane = r.lane /\ Fresh(q)
    BY DEF NewCall, Fresh
  <2> HIDE DEF q
  <2> QED BY <2>1, <2>2, BecomeGives DEF HandlerStep
<1> QED BY <1>1, <1>2, <1>3, <1>4, <1>5 DEF Handler

Admission(r, q) == r.pc = "idle" /\ q.pc = "admitted" /\ SameLoop(r, q)

ContextEnds(r, q) == r.ctx = "live" /\ q = [r EXCEPT !.ctx = q.ctx]

\* What one step of the system may do to one call.
CallStep(r, q) ==
    /\ q.lane = r.lane
    /\ q = r \/ HandlerStep(r, q) \/ Admission(r, q) \/ ContextEnds(r, q)

\* Cancelling contexts ends contexts and nothing else.
LEMMA CancelAllStep ==
    ASSUME TypeOK, NEW C, CancelAll(C), NEW c \in Calls
    PROVE  CallStep(call[c], call'[c])
<1>r. call[c] \in CallType
  BY DEF TypeOK
<1>1. CASE c \in C /\ Listening(c) /\ call[c].ctx = "live"
  <2>1. call'[c] = [call[c] EXCEPT !.ctx = "canceled"]
    BY <1>1 DEF CancelAll
  <2>2. call'[c].ctx = "canceled" /\ call'[c].lane = call[c].lane
    BY <1>r, <2>1 DEF CallType
  <2> QED BY <1>1, <2>1, <2>2 DEF CallStep, ContextEnds
<1>2. CASE ~(c \in C /\ Listening(c) /\ call[c].ctx = "live")
  BY <1>2 DEF CancelAll, CallStep
<1> QED BY <1>1, <1>2

\* Every step of the system is, for each call, one of those.
LEMMA CallSteps ==
    ASSUME TypeOK, [Next]_vars, NEW d \in Calls
    PROVE  CallStep(call[d], call'[d])
<1>1. CASE \E c \in Calls : Handler(c)
  BY <1>1, HandlerSteps DEF CallStep
<1>2. ASSUME NEW c \in Calls, Client(c) PROVE CallStep(call[d], call'[d])
  <2> DEFINE r == call[c]
  <2>r. r \in CallType
    BY DEF TypeOK
  <2>1. CASE AdmitChat(c) \/ AdmitEmbedding(c)
    <3>1. /\ r.pc = "idle"
          /\ \/ Become(c, [r EXCEPT !.pc = "admitted", !.admitted = Measuring])
             \/ Become(c, [r EXCEPT !.pc = "admitted"])
      BY <2>1 DEF AdmitChat, AdmitEmbedding, At, Move
    <3>2. /\ \/ call'[c] = [r EXCEPT !.pc = "admitted", !.admitted = Measuring]
             \/ call'[c] = [r EXCEPT !.pc = "admitted"]
          /\ \A e \in Calls \ {c} : call'[e] = call[e]
      BY <3>1, BecomeGives
    <3>3. call'[c].pc = "admitted" /\ SameLoop(r, call'[c]) /\ call'[c].lane = r.lane
      BY <2>r, <3>2 DEF CallType, SameLoop
    <3> QED BY <3>1, <3>2, <3>3 DEF CallStep, Admission
  <2>2. CASE HangUp(c) \/ DeadlinePasses(c)
    <3>1. /\ r.ctx = "live"
          /\ \E x \in {"canceled", "expired"} : Become(c, [r EXCEPT !.ctx = x])
      BY <2>2 DEF HangUp, DeadlinePasses
    <3>2. PICK x \in {"canceled", "expired"} : Become(c, [r EXCEPT !.ctx = x])
      BY <3>1
    <3>3. call'[c] = [r EXCEPT !.ctx = x] /\ \A e \in Calls \ {c} : call'[e] = call[e]
      BY <3>2, BecomeGives
    <3>4. call'[c].ctx = x /\ call'[c].lane = r.lane
      BY <2>r, <3>3 DEF CallType
    <3> QED BY <3>1, <3>3, <3>4 DEF CallStep, ContextEnds
  <2> QED BY <1>2, <2>1, <2>2 DEF Client
<1>3. CASE Worker \/ Expire
  <2>1. CASE EndPhase /\ session # "removed"
    BY <2>1, CancelAllStep DEF EndPhase
  <2>2. CASE ~(EndPhase /\ session # "removed")
    <3>1. UNCHANGED call
      BY <1>3, <2>2 DEF Worker, BeginEmbeddingPhase, TakeStart, EndPhase, PhaseEnded,
                        TakeEnd, Expire
    <3> QED BY <3>1 DEF CallStep
  <2> QED BY <2>1, <2>2
<1>4. CASE Remove
  BY <1>4, CancelAllStep DEF Remove
<1>5. CASE UNCHANGED vars
  BY <1>5 DEF vars, CallStep
<1> QED BY <1>1, <1>2, <1>3, <1>4, <1>5 DEF Next

\* The loop variables stay within the limits, and a delivery is paid for by an
\* attempt or by a wait: before it there is one less than afterwards.
LoopBounds(r) ==
    /\ r.attempt <= MaxAttempts(r.lane)
    /\ r.waits <= MaxWaits(r.lane)
    /\ r.deliveries <= r.attempt + r.waits
    /\ r.pc \notin {"sent", "settling"} => r.deliveries <= r.attempt - 1 + r.waits

LoopInv == \A c \in Calls : LoopBounds(call[c])

\* The limits are numbers, and at least one attempt is allowed.
LEMMA Limits ==
    ASSUME NEW l
    PROVE  /\ MaxAttempts(l) \in Nat \ {0} /\ MaxWaits(l) \in Nat
           /\ MaxDeliveries(l) = MaxAttempts(l) + MaxWaits(l)
  BY InferenceLanesAssumption
     DEF MaxAttempts, MaxWaits, MaxDeliveries, ChatMaxAttempts

\* A step of a call keeps its bounds.
LEMMA BoundsStep ==
    ASSUME NEW r \in CallType, NEW q \in CallType, CallStep(r, q), LoopBounds(r)
    PROVE  LoopBounds(q)
<1>l. /\ q.lane = r.lane
      /\ MaxAttempts(r.lane) \in Nat \ {0} /\ MaxWaits(r.lane) \in Nat
  BY Limits DEF CallStep
<1>t. /\ r.attempt \in Nat \ {0} /\ r.waits \in Nat /\ r.deliveries \in Nat
      /\ q.attempt \in Nat \ {0} /\ q.waits \in Nat /\ q.deliveries \in Nat
  BY DEF CallType
<1>1. CASE HandlerStep(r, q)
  <2>1. CASE Fresh(q)
    BY <2>1, <1>l, <1>t DEF LoopBounds, Fresh
  <2>2. CASE q.pc = "sent"
    <3>1. /\ q.deliveries = r.deliveries + 1 /\ q.attempt = r.attempt /\ q.waits = r.waits
          /\ r.pc \notin {"sent", "settling"}
      BY <1>1, <2>2 DEF HandlerStep, Asleep
    <3> QED BY <2>2, <3>1, <1>l, <1>t DEF LoopBounds
  <2>3. CASE q.pc \in Asleep
    <3>1. /\ q.deliveries = r.deliveries
          /\ \/ r.attempt < MaxAttempts(r.lane) /\ q.attempt = r.attempt + 1 /\ q.waits = r.waits
             \/ r.waits < MaxWaits(r.lane) /\ q.waits = r.waits + 1 /\ q.attempt = r.attempt
      BY <1>1, <2>3 DEF HandlerStep, Asleep
    <3> QED BY <3>1, <1>l, <1>t DEF LoopBounds
  <2>4. CASE SameLoop(r, q) /\ (q.pc = "settling" \/ r.pc \notin {"sent", "settling"})
    BY <2>4, <1>l, <1>t DEF LoopBounds, SameLoop
  <2> QED BY <1>1, <2>1, <2>2, <2>3, <2>4 DEF HandlerStep
<1>2. CASE Admission(r, q)
  BY <1>2, <1>l, <1>t DEF Admission, LoopBounds, SameLoop
<1>3. CASE ContextEnds(r, q)
  <2>1. q.pc = r.pc /\ SameLoop(r, q)
    BY <1>3 DEF ContextEnds, CallType, SameLoop
  <2> QED BY <2>1, <1>l, <1>t DEF LoopBounds, SameLoop
<1> QED BY <1>1, <1>2, <1>3 DEF CallStep

\* Reachable calls respect their bounds.
LEMMA LoopCorrect == Spec => [](TypeOK /\ LoopInv)
<1>1. Init => LoopInv
  <2> SUFFICES ASSUME Init, NEW c \in Calls PROVE LoopBounds(call[c])
    BY DEF LoopInv
  <2>1. PICK l \in {"chat", "embedding"} : call[c] = NewCall(l)
    BY DEF Init
  <2>2. /\ call[c].pc = "idle" /\ call[c].attempt = 1 /\ call[c].waits = 0
        /\ call[c].deliveries = 0
    BY <2>1 DEF NewCall
  <2>3. MaxAttempts(call[c].lane) \in Nat \ {0} /\ MaxWaits(call[c].lane) \in Nat
    BY Limits
  <2> QED BY <2>2, <2>3 DEF LoopBounds
<1>2. TypeOK /\ TypeOK' /\ LoopInv /\ [Next]_vars => LoopInv'
  <2> SUFFICES ASSUME TypeOK, TypeOK', LoopInv, [Next]_vars, NEW c \in Calls
               PROVE  LoopBounds(call'[c])
    BY DEF LoopInv, LoopBounds
  <2>1. call[c] \in CallType /\ call'[c] \in CallType
    BY DEF TypeOK
  <2> QED BY <2>1, CallSteps, BoundsStep DEF LoopInv
<1> QED BY <1>1, <1>2, TypeCorrect, PTL DEF Spec

\* No call is delivered more often than its attempts and waits allow, for all
\* limits and however many calls interleave.
THEOREM DeliveriesAreBounded == Spec => []DeliveriesBounded
<1>1. TypeOK /\ LoopInv => DeliveriesBounded
  <2> SUFFICES ASSUME TypeOK, LoopInv, NEW c \in Calls
               PROVE  call[c].deliveries <= MaxDeliveries(call[c].lane)
    BY DEF DeliveriesBounded
  <2>1. /\ call[c].attempt \in Nat /\ call[c].waits \in Nat /\ call[c].deliveries \in Nat
    BY DEF TypeOK, CallType
  <2>2. LoopBounds(call[c])
    BY DEF LoopInv
  <2> QED BY <2>1, <2>2, Limits DEF LoopBounds
<1> QED BY <1>1, LoopCorrect, PTL

\* A step of a handler uses up its rank.
LEMMA RankStep ==
    ASSUME NEW r \in CallType, NEW q \in CallType, LoopBounds(r), LoopBounds(q),
           HandlerStep(r, q), q.lane = r.lane
    PROVE  Rank(q) \in Nat /\ Rank(q) < Rank(r)
<1> DEFINE m == MaxDeliveries(r.lane)
<1>m. /\ MaxAttempts(r.lane) \in Nat /\ MaxWaits(r.lane) \in Nat
      /\ m = MaxAttempts(r.lane) + MaxWaits(r.lane)
  BY Limits
<1>t. /\ r.attempt \in Nat \ {0} /\ r.waits \in Nat
      /\ q.attempt \in Nat \ {0} /\ q.waits \in Nat
  BY DEF CallType
<1>b. /\ r.attempt <= MaxAttempts(r.lane) /\ r.waits <= MaxWaits(r.lane)
      /\ q.attempt <= MaxAttempts(r.lane) /\ q.waits <= MaxWaits(r.lane)
  BY DEF LoopBounds
<1> DEFINE dr == m - (r.attempt - 1) - r.waits
           dq == m - (q.attempt - 1) - q.waits
<1>d. /\ dr \in Nat \ {0} /\ dq \in Nat \ {0}
      /\ DeliveriesLeft(r) = dr /\ DeliveriesLeft(q) = dq
  BY <1>m, <1>t, <1>b DEF DeliveriesLeft
<1> DEFINE end == {"notifying", "leaving", "done"}
<1>p. Place(r.pc) \in 0..7 /\ Place(q.pc) \in 0..7
  BY DEF Place
<1>1. CASE q.pc \in end /\ r.pc \in end
  BY <1>1 DEF HandlerStep, Rank, Place, Asleep
<1>2. CASE q.pc \in end /\ r.pc \notin end
  <2>1. Rank(q) = Place(q.pc) /\ Rank(r) = 8 * dr + Place(r.pc)
    BY <1>2, <1>d DEF Rank
  <2> HIDE DEF dr
  <2> QED BY <2>1, <1>d, <1>p
<1>3. CASE q.pc \notin end
  <2>0. r.pc \notin end
    BY <1>3 DEF HandlerStep, Asleep
  <2>1. Rank(q) = 8 * dq + Place(q.pc) /\ Rank(r) = 8 * dr + Place(r.pc)
    BY <1>3, <2>0, <1>d DEF Rank
  <2>2. CASE SameLoop(r, q) \/ (q.attempt = r.attempt /\ q.waits = r.waits)
    <3>1. dq = dr
      BY <2>2 DEF SameLoop
    <3>2. \/ r.pc \in {"admitted", "ready", "sleeping", "backoff", "pausing"} /\ q.pc = "sent"
          \/ r.pc = "admitted" /\ q.pc = "ready"
          \/ r.pc \in {"ready", "sent", "sleeping", "backoff", "pausing"} /\ q.pc = "settling"
      BY <1>3, <1>t, <2>2 DEF HandlerStep, Asleep, SameLoop
    <3>3. Place(q.pc) < Place(r.pc)
      BY <3>2 DEF Place
    <3> HIDE DEF dr, dq
    <3> QED BY <2>1, <3>1, <3>3, <1>d, <1>p
  <2>3. CASE ~(SameLoop(r, q) \/ (q.attempt = r.attempt /\ q.waits = r.waits))
    <3>1. r.pc = "sent" /\ q.pc \in Asleep /\ dq = dr - 1
      BY <1>3, <1>t, <1>m, <2>3 DEF HandlerStep, SameLoop
    <3>2. Place(q.pc) = 5 /\ Place(r.pc) = 4
      BY <3>1 DEF Place, Asleep
    <3> HIDE DEF dr, dq
    <3> QED BY <2>1, <3>1, <3>2, <1>d
  <2> QED BY <2>2, <2>3
<1> QED BY <1>1, <1>2, <1>3

\* Every step of a call uses up a natural number, for all limits: the retry loops
\* terminate, and with them the wait of endEmbeddingPhase.
THEOREM HandlersProgress == Spec => EveryStepIsProgress
<1> DEFINE Progress ==
      \A c \in Calls : call[c].pc # "idle" /\ call'[c] # call[c] =>
          \/ call[c].ctx = "live" /\ call'[c] = [call[c] EXCEPT !.ctx = call'[c].ctx]
          \/ Rank(call'[c]) \in Nat /\ Rank(call'[c]) < Rank(call[c])
<1>1. TypeOK /\ LoopInv /\ (TypeOK /\ LoopInv)' /\ [Next]_vars => [Progress]_vars
  <2> SUFFICES ASSUME TypeOK, LoopInv, TypeOK', LoopInv', [Next]_vars, NEW c \in Calls,
                      call[c].pc # "idle", call'[c] # call[c]
               PROVE  \/ call[c].ctx = "live" /\ call'[c] = [call[c] EXCEPT !.ctx = call'[c].ctx]
                      \/ Rank(call'[c]) \in Nat /\ Rank(call'[c]) < Rank(call[c])
    OBVIOUS
  <2>1. call[c] \in CallType /\ call'[c] \in CallType
    BY DEF TypeOK
  <2>2. LoopBounds(call[c]) /\ LoopBounds(call'[c])
    BY DEF LoopInv, LoopBounds
  <2>3. CallStep(call[c], call'[c])
    BY CallSteps
  <2> QED BY <2>1, <2>2, <2>3, RankStep DEF CallStep, Admission, ContextEnds
<1> HIDE DEF Progress
<1>2. Spec => [][Progress]_vars
  BY <1>1, LoopCorrect, PTL DEF Spec
<1> QED BY <1>2 DEF Progress, EveryStepIsProgress

-----------------------------------------------------------------------------
(* The snapshots.                                                          *)

\* Two snapshots of one session: no counter falls, and of the denials at least as
\* many are new as of their subset.
Grown(s, e) ==
    /\ \A k \in Counters : s[k] <= e[k]
    /\ e["grantAgentDeclines"] - s["grantAgentDeclines"] <= e["grantDenials"] - s["grantDenials"]

SnapshotInv ==
    /\ n["grantAgentDeclines"] <= n["grantDenials"]
    /\ Grown(run.start, n)
    /\ run.verdict # "restarted"

\* What is booked together: a decline of the agent only with a denial.
Coherent(K) == "grantAgentDeclines" \in K => "grantDenials" \in K

\* The counters change only by coherent bookings.
LEMMA CountersStep ==
    ASSUME TypeOK, [Next]_vars
    PROVE  n' = n \/ \E K : Coherent(K) /\ n' = Count(n, K)
<1>1. ASSUME NEW c \in Calls, SettleChat(c) PROVE \E K : Coherent(K) /\ n' = Count(n, K)
  <2> DEFINE o == ChatOutcome(call[c])
  <2>1. o \in {"cancelled", "rejection", "agentDenial", "platformDenial", "failure",
               "success", "gap"}
    BY DEF ChatOutcome, Denial
  <2>2. PICK X \in {{}, {"recoveryExhaustions"}} : n' = Count(n, Booking[o] \cup X)
    BY <1>1 DEF SettleChat
  <2> HIDE DEF o
  <2>3. Coherent(Booking[o] \cup X)
    BY <2>1 DEF Booking, Coherent
  <2> QED BY <2>2, <2>3
<1>2. ASSUME NEW c \in Calls, SettleEmbedding(c) PROVE \E K : Coherent(K) /\ n' = Count(n, K)
  <2> DEFINE o == EmbeddingOutcome(call[c])
  <2>1. o \in {"cancelled", "agentDenial", "platformDenial", "exhausted", "failure"}
    BY DEF EmbeddingOutcome, Denial
  <2>2. n' = Count(n, Booking[o])
    BY <1>2 DEF SettleEmbedding
  <2> HIDE DEF o
  <2>3. Coherent(Booking[o])
    BY <2>1 DEF Booking, Coherent
  <2> QED BY <2>2, <2>3
<1>3. ASSUME NEW c \in Calls, AtCapacity(c) \/ AdmitChat(c)
      PROVE  n' = n \/ \E K : Coherent(K) /\ n' = Count(n, K)
  <2>1. n' = n \/ n' = Count(n, {"capacityExhaustions"}) \/ n' = Count(n, {"requests"})
    BY <1>3 DEF AtCapacity, AdmitChat
  <2>2. Coherent({"capacityExhaustions"}) /\ Coherent({"requests"})
    BY DEF Coherent
  <2> QED BY <2>1, <2>2
<1>4. ASSUME NEW c \in Calls, Handler(c) \/ Client(c),
             ~SettleChat(c), ~SettleEmbedding(c), ~AtCapacity(c), ~AdmitChat(c)
      PROVE  n' = n
  BY <1>4 DEF Handler, Client, Chat, Embedding, RegisterCancel, DeliverAgain, TransportFails,
       Truncated, TransientAnswer, FinalAnswer, NextAttempt, ChargeEmbedding, DeliverEmbedding,
       EmbeddingServed, EmbeddingAtCapacity, EmbeddingTransient, EmbeddingFails, Interrupted,
       Notify, Leave, AdmitEmbedding, HangUp, DeadlinePasses
<1>5. CASE Worker \/ Expire \/ Remove \/ UNCHANGED vars
  BY <1>5 DEF Worker, BeginEmbeddingPhase, TakeStart, EndPhase, PhaseEnded, TakeEnd,
       Expire, Remove, vars
<1> QED BY <1>1, <1>2, <1>3, <1>4, <1>5 DEF Next

\* A coherent booking keeps two snapshots in order.
LEMMA GrownCount ==
    ASSUME NEW s \in [Counters -> Nat], NEW m \in [Counters -> Nat], NEW K, Coherent(K),
           Grown(s, m), m["grantAgentDeclines"] <= m["grantDenials"]
    PROVE  /\ Grown(s, Count(m, K))
           /\ Count(m, K)["grantAgentDeclines"] <= Count(m, K)["grantDenials"]
<1>1. "grantAgentDeclines" \in Counters /\ "grantDenials" \in Counters
  BY DEF Counters, DeliveryCounters
<1>2. \A k \in Counters : /\ Count(m, K)[k] \in Nat /\ m[k] \in Nat /\ s[k] \in Nat
                          /\ Count(m, K)[k] = IF k \in K THEN m[k] + 1 ELSE m[k]
  BY DEF Count
<1>3. \A k \in Counters : s[k] <= Count(m, K)[k]
  BY <1>2 DEF Grown
<1> DEFINE a == "grantAgentDeclines"
           g == "grantDenials"
<1>4. /\ Count(m, K)[a] - s[a] <= Count(m, K)[g] - s[g]
      /\ Count(m, K)[a] <= Count(m, K)[g]
  <2>1. m[a] \in Nat /\ m[g] \in Nat /\ s[a] \in Nat /\ s[g] \in Nat
    BY <1>1, <1>2
  <2>2. m[a] - s[a] <= m[g] - s[g] /\ m[a] <= m[g]
    BY DEF Grown
  <2>3. CASE a \in K
    BY <1>1, <1>2, <2>1, <2>2, <2>3 DEF Coherent
  <2>4. CASE a \notin K
    BY <1>1, <1>2, <2>1, <2>2, <2>4
  <2> QED BY <2>3, <2>4
<1> QED BY <1>3, <1>4 DEF Grown

\* Snapshots in order are not taken for a restart.
LEMMA GrownVerdict ==
    ASSUME NEW s \in [Counters -> Nat], NEW e \in [Counters -> Nat], Grown(s, e)
    PROVE  relayVerdict(s, e) # "restarted"
<1>1. /\ "grantAgentDeclines" \in Counters /\ "grantDenials" \in Counters
      /\ DeliveryCounters \subseteq Counters /\ UsageCounters \subseteq Counters
  BY DEF Counters, DeliveryCounters
<1>2. \A k \in Counters : s[k] \in Nat /\ e[k] \in Nat /\ ~(e[k] < s[k])
  BY DEF Grown
<1>3. ~relayRestarted(s, e)
  BY <1>1, <1>2 DEF Grown, relayRestarted
<1>4. ~\E k \in UsageCounters : e[k] < s[k]
  BY <1>1, <1>2
<1>5. \A d : DenialVerdict(d) # "restarted" /\ requireCompleteV7Usage(d) # "restarted"
  BY DEF DenialVerdict, requireCompleteV7Usage
<1>6. relayDegradedSince(s, e) # "restarted"
  BY <1>3, <1>5 DEF relayDegradedSince
<1> QED BY <1>4, <1>5, <1>6 DEF relayVerdict

\* However the updates of a live session interleave with the two snapshots, its
\* counters are never taken for those of a restarted one.
THEOREM NeverRestarted == Spec => []NoFalseRestart
<1>1. Init => SnapshotInv
  BY DEF Init, SnapshotInv, Grown, NewRun, NoCounts, Counters, DeliveryCounters
<1>2. TypeOK /\ SnapshotInv /\ [Next]_vars => SnapshotInv'
  <2> SUFFICES ASSUME TypeOK, SnapshotInv, [Next]_vars PROVE SnapshotInv'
    OBVIOUS
  <2>t. n \in [Counters -> Nat] /\ run.start \in [Counters -> Nat] /\ run \in RunType
    BY DEF TypeOK, RunType
  <2>1. CASE TakeStart
    <3>1. n' = n /\ run' = [run EXCEPT !.measured = TRUE, !.start = n]
      BY <2>1 DEF TakeStart
    <3>2. run'.start = n /\ run'.verdict = run.verdict
      BY <2>t, <3>1 DEF RunType
    <3>3. Grown(n, n)
      BY <2>t DEF Grown, Counters, DeliveryCounters
    <3> QED BY <3>1, <3>2, <3>3 DEF SnapshotInv
  <2>2. CASE TakeEnd
    <3>1. relayVerdict(run.start, n) # "restarted"
      BY <2>t, GrownVerdict DEF SnapshotInv
    <3>2. n' = n /\ run'.start = NoCounts /\ run'.verdict # "restarted"
      BY <2>t, <2>2, <3>1 DEF TakeEnd, RunType
    <3>3. Grown(NoCounts, n)
      BY <2>t DEF SnapshotInv, Grown, NoCounts, Counters, DeliveryCounters
    <3> QED BY <3>2, <3>3 DEF SnapshotInv
  <2>3. CASE ~TakeStart /\ ~TakeEnd
    <3>1. run'.start = run.start /\ run'.verdict = run.verdict
      <4>1. CASE BeginEmbeddingPhase \/ EndPhase \/ PhaseEnded
        BY <2>t, <4>1 DEF BeginEmbeddingPhase, EndPhase, PhaseEnded, RunType
      <4>2. ASSUME NEW c \in Calls, Handler(c) \/ Client(c) PROVE run' = run
        BY <4>2 DEF Handler, Client, Chat, Embedding, RegisterCancel, DeliverAgain,
             TransportFails, Truncated, AtCapacity, TransientAnswer, FinalAnswer, SettleChat,
             NextAttempt, ChargeEmbedding, DeliverEmbedding, EmbeddingServed,
             EmbeddingAtCapacity, EmbeddingTransient, EmbeddingFails, SettleEmbedding,
             Interrupted, Notify, Leave, AdmitChat, AdmitEmbedding, HangUp, DeadlinePasses, others
      <4>3. CASE Expire \/ Remove \/ UNCHANGED vars
        BY <4>3 DEF Expire, Remove, vars
      <4> QED BY <2>3, <4>1, <4>2, <4>3 DEF Next, Worker
    <3>2. CASE n' = n
      BY <3>1, <3>2 DEF SnapshotInv
    <3>3. ASSUME NEW K, Coherent(K), n' = Count(n, K) PROVE SnapshotInv'
      BY <2>t, <3>1, <3>3, GrownCount DEF SnapshotInv
    <3> QED BY <3>2, <3>3, CountersStep
  <2> QED BY <2>1, <2>2, <2>3
<1>3. SnapshotInv => NoFalseRestart
  BY DEF SnapshotInv, NoFalseRestart
<1> QED BY <1>1, <1>2, <1>3, TypeCorrect, PTL DEF Spec

-----------------------------------------------------------------------------
(* The end of the embedding phase.                                         *)

\* Besides LaneDrained: once the phase is being closed nobody enters it, and whoever
\* is inside is waited for.
DrainInv ==
    /\ lane.inFlight = Cardinality(EmbeddingCalls)
    /\ lane.inFlight <= EmbeddingLane
    /\ run.pc \in {"closing", "closed"} /\ session # "removed" => phase = "closed"
    /\ run.pc = "closing" /\ session # "removed" => EmbeddingCalls \subseteq run.pending
    /\ run.pc = "closed" /\ session # "removed" => EmbeddingCalls = {}

\* The set of embedding handlers depends on lanes and places only.
LEMMA SameHandlers ==
    ASSUME \A c \in Calls : /\ call'[c].lane = call[c].lane
                            /\ call[c].lane = "embedding" =>
                                 (call'[c].pc \in {"idle", "done"} <=> call[c].pc \in {"idle", "done"})
    PROVE  EmbeddingCalls' = EmbeddingCalls
  BY DEF EmbeddingCalls, InHandler

\* Only admission and leaving change who is inside the lane.
LEMMA InsideStep ==
    ASSUME TypeOK, [Next]_vars
    PROVE  \/ \E c \in Calls : AdmitEmbedding(c)
           \/ \E c \in Calls : Leave(c) /\ call[c].lane = "embedding"
           \/ EmbeddingCalls' = EmbeddingCalls /\ lane'.inFlight = lane.inFlight
<1>1. ASSUME NEW c \in Calls,
             Chat(c) \/ Embedding(c) \/ Interrupted(c) \/ Notify(c)
      PROVE  EmbeddingCalls' = EmbeddingCalls /\ lane'.inFlight = lane.inFlight
  <2>1. call[c].pc \notin {"idle", "leaving", "done"}
    BY <1>1 DEF Chat, Embedding, RegisterCancel, DeliverAgain, TransportFails, Truncated,
         AtCapacity, TransientAnswer, FinalAnswer, SettleChat, ChargeEmbedding,
         DeliverEmbedding, EmbeddingServed, EmbeddingAtCapacity, EmbeddingTransient,
         EmbeddingFails, SettleEmbedding, Interrupted, Notify, At
  <2>2. HandlerStep(call[c], call'[c]) /\ call'[c].lane = call[c].lane
    BY <1>1, HandlerSteps DEF Handler
  <2>3. call'[c].pc \notin {"idle", "done"}
    BY <2>1, <2>2 DEF HandlerStep, Asleep
  <2>4. \A d \in Calls \ {c} : call'[d] = call[d]
    BY <1>1, HandlerSteps DEF Handler
  <2>5. EmbeddingCalls' = EmbeddingCalls
    BY <2>1, <2>2, <2>3, <2>4, SameHandlers
  <2>6. lane' = lane \/ lane' = [lane EXCEPT !.requests = @ + 1]
    BY <1>1 DEF Chat, Embedding, RegisterCancel, DeliverAgain, TransportFails, Truncated,
         AtCapacity, TransientAnswer, FinalAnswer, NextAttempt, SettleChat, ChargeEmbedding,
         DeliverEmbedding, EmbeddingServed, EmbeddingAtCapacity, EmbeddingTransient,
         EmbeddingFails, SettleEmbedding, Interrupted, Notify, others
  <2>7. lane'.inFlight = lane.inFlight
    BY <2>6 DEF TypeOK
  <2> QED BY <2>5, <2>7
<1>2. ASSUME NEW c \in Calls, Leave(c), call[c].lane # "embedding"
      PROVE  EmbeddingCalls' = EmbeddingCalls /\ lane' = lane
  <2>1. call'[c].lane = call[c].lane /\ \A d \in Calls \ {c} : call'[d] = call[d]
    BY <1>2, HandlerSteps DEF Handler
  <2> QED BY <1>2, <2>1, SameHandlers DEF Leave
<1>3. ASSUME NEW c \in Calls, AdmitChat(c)
      PROVE  EmbeddingCalls' = EmbeddingCalls /\ lane' = lane
  <2>1. Become(c, [call[c] EXCEPT !.pc = "admitted", !.admitted = Measuring])
    BY <1>3 DEF AdmitChat
  <2>2. /\ call[c].lane = "chat" /\ call'[c].lane = call[c].lane
        /\ \A d \in Calls \ {c} : call'[d] = call[d]
    <3>1. call[c].lane = "chat"
      BY <1>3 DEF AdmitChat, At
    <3>2. call'[c].lane = call[c].lane
      BY CallSteps DEF CallStep
    <3> QED BY <2>1, <3>1, <3>2, BecomeGives
  <2> QED BY <1>3, <2>2, SameHandlers DEF AdmitChat, others
<1>4. ASSUME NEW c \in Calls, HangUp(c) \/ DeadlinePasses(c)
      PROVE  EmbeddingCalls' = EmbeddingCalls /\ lane' = lane
  <2>1. PICK x \in {"canceled", "expired"} : Become(c, [call[c] EXCEPT !.ctx = x])
    BY <1>4 DEF HangUp, DeadlinePasses
  <2>2. /\ call'[c].pc = call[c].pc /\ call'[c].lane = call[c].lane
        /\ \A d \in Calls \ {c} : call'[d] = call[d]
    BY <2>1, BecomeGives DEF TypeOK, CallType
  <2> QED BY <1>4, <2>2, SameHandlers DEF HangUp, DeadlinePasses, others
<1>5. ASSUME NEW C, CancelAll(C)
      PROVE  EmbeddingCalls' = EmbeddingCalls
  <2>1. \A d \in Calls : call'[d].pc = call[d].pc /\ call'[d].lane = call[d].lane
    BY <1>5 DEF CancelAll, TypeOK, CallType
  <2> QED BY <2>1, SameHandlers
<1>6. CASE Worker \/ Expire \/ Remove \/ UNCHANGED vars
  <2>1. lane' = lane /\ (call' = call \/ \E C : CancelAll(C))
    BY <1>6 DEF Worker, BeginEmbeddingPhase, TakeStart, EndPhase, PhaseEnded, TakeEnd,
                Expire, Remove, vars
  <2>2. call' = call => EmbeddingCalls' = EmbeddingCalls
    BY DEF EmbeddingCalls, InHandler
  <2> QED BY <2>1, <2>2, <1>5
<1> QED BY <1>1, <1>2, <1>3, <1>4, <1>6 DEF Next, Handler, Client

\* Who is inside, as a finite set.
LEMMA InsideFinite == IsFiniteSet(EmbeddingCalls)
<1>1. EmbeddingCalls \subseteq Calls
  BY DEF EmbeddingCalls
<1> QED BY <1>1, InferenceLanesAssumption, FS_Subset

\* An admission adds one handler to the lane, a return removes one.
LEMMA InsideChange ==
    ASSUME TypeOK, NEW c \in Calls
    PROVE  /\ AdmitEmbedding(c) => EmbeddingCalls' = EmbeddingCalls \cup {c} /\ c \notin EmbeddingCalls
           /\ Leave(c) /\ call[c].lane = "embedding" =>
                 EmbeddingCalls' = EmbeddingCalls \ {c} /\ c \in EmbeddingCalls
<1>1. ASSUME AdmitEmbedding(c)
      PROVE  EmbeddingCalls' = EmbeddingCalls \cup {c} /\ c \notin EmbeddingCalls
  <2>1. /\ call[c].lane = "embedding" /\ call[c].pc = "idle"
        /\ Become(c, [call[c] EXCEPT !.pc = "admitted"])
    BY <1>1 DEF AdmitEmbedding, At, Move
  <2>2. /\ call'[c].lane = "embedding" /\ call'[c].pc = "admitted"
        /\ \A d \in Calls \ {c} : call'[d] = call[d]
    BY <2>1, BecomeGives DEF TypeOK, CallType
  <2> QED BY <2>1, <2>2 DEF EmbeddingCalls, InHandler
<1>2. ASSUME Leave(c), call[c].lane = "embedding"
      PROVE  EmbeddingCalls' = EmbeddingCalls \ {c} /\ c \in EmbeddingCalls
  <2>1. call[c].pc = "leaving"
    BY <1>2 DEF Leave
  <2>2. /\ HandlerStep(call[c], call'[c]) /\ call'[c].lane = call[c].lane
        /\ \A d \in Calls \ {c} : call'[d] = call[d]
    BY <1>2, HandlerSteps DEF Handler
  <2>3. call'[c].pc = "done"
    BY <2>1, <2>2 DEF HandlerStep, Asleep
  <2> QED BY <1>2, <2>1, <2>2, <2>3 DEF EmbeddingCalls, InHandler
<1> QED BY <1>1, <1>2

\* The lane's count, and its limit, through one step.
LEMMA InFlightStep ==
    ASSUME TypeOK, DrainInv, [Next]_vars
    PROVE  lane'.inFlight = Cardinality(EmbeddingCalls') /\ lane'.inFlight <= EmbeddingLane
<1>n. Cardinality(EmbeddingCalls) \in Nat /\ EmbeddingLane \in Nat
  BY InsideFinite, FS_CardinalityType, InferenceLanesAssumption
<1>1. ASSUME NEW c \in Calls, AdmitEmbedding(c)
      PROVE  lane'.inFlight = Cardinality(EmbeddingCalls') /\ lane'.inFlight <= EmbeddingLane
  <2>1. Cardinality(EmbeddingCalls') = Cardinality(EmbeddingCalls) + 1
    BY <1>1, InsideChange, InsideFinite, FS_AddElement
  <2>2. lane'.inFlight = lane.inFlight + 1 /\ lane.inFlight < EmbeddingLane
    BY <1>1 DEF AdmitEmbedding, TypeOK
  <2> QED BY <1>n, <2>1, <2>2 DEF DrainInv
<1>2. ASSUME NEW c \in Calls, Leave(c), call[c].lane = "embedding"
      PROVE  lane'.inFlight = Cardinality(EmbeddingCalls') /\ lane'.inFlight <= EmbeddingLane
  <2>1. Cardinality(EmbeddingCalls') = Cardinality(EmbeddingCalls) - 1
    BY <1>2, InsideChange, InsideFinite, FS_RemoveElement
  <2>2. lane'.inFlight = lane.inFlight - 1
    BY <1>2 DEF Leave, TypeOK
  <2> QED BY <1>n, <2>1, <2>2 DEF DrainInv
<1>3. ASSUME EmbeddingCalls' = EmbeddingCalls, lane'.inFlight = lane.inFlight
      PROVE  lane'.inFlight = Cardinality(EmbeddingCalls') /\ lane'.inFlight <= EmbeddingLane
  BY <1>3 DEF DrainInv
<1> QED BY <1>1, <1>2, <1>3, InsideStep

\* The wait of endEmbeddingPhase, through one step.
LEMMA ClosingStep ==
    ASSUME TypeOK, DrainInv, [Next]_vars, session' # "removed"
    PROVE  /\ run'.pc \in {"closing", "closed"} => phase' = "closed"
           /\ run'.pc = "closing" => EmbeddingCalls' \subseteq run'.pending
           /\ run'.pc = "closed" => EmbeddingCalls' = {}
<1>s. session # "removed" /\ ~Remove
  BY ZenonT(60) DEF Next, Handler, Client, Chat, Embedding, RegisterCancel, DeliverAgain,
     TransportFails, Truncated, AtCapacity, TransientAnswer, FinalAnswer, SettleChat,
     NextAttempt, ChargeEmbedding, DeliverEmbedding, EmbeddingServed, EmbeddingAtCapacity,
     EmbeddingTransient, EmbeddingFails, SettleEmbedding, Interrupted, Notify, Leave,
     AdmitChat, AdmitEmbedding, HangUp, DeadlinePasses, others, Worker, BeginEmbeddingPhase,
     TakeStart, EndPhase, PhaseEnded, TakeEnd, Expire, Remove, vars
<1>r. run \in RunType
  BY DEF TypeOK
<1>1. ASSUME NEW c \in Calls, Handler(c) \/ Client(c)
      PROVE  run' = run /\ phase' = phase
  BY <1>1 DEF Handler, Client, Chat, Embedding, RegisterCancel, DeliverAgain,
     TransportFails, Truncated, AtCapacity, TransientAnswer, FinalAnswer, SettleChat,
     NextAttempt, ChargeEmbedding, DeliverEmbedding, EmbeddingServed, EmbeddingAtCapacity,
     EmbeddingTransient, EmbeddingFails, SettleEmbedding, Interrupted, Notify, Leave,
     AdmitChat, AdmitEmbedding, HangUp, DeadlinePasses, others
<1>2. ASSUME NEW c \in Calls, AdmitEmbedding(c) PROVE run'.pc \notin {"closing", "closed"}
  BY <1>s, <1>1, <1>2 DEF AdmitEmbedding, DrainInv, Client
<1>3. ASSUME NEW c \in Calls, Handler(c) \/ Client(c)
      PROVE  run'.pc \in {"closing", "closed"} => EmbeddingCalls' \subseteq EmbeddingCalls
  <2>1. CASE AdmitEmbedding(c)
    BY <1>2, <2>1
  <2>2. CASE Leave(c) /\ call[c].lane = "embedding"
    BY <2>2, InsideChange
  <2>3. ASSUME NEW d \in Calls, Leave(d) /\ call[d].lane = "embedding"
        PROVE  EmbeddingCalls' \subseteq EmbeddingCalls
    BY <2>3, InsideChange
  <2> QED BY <1>2, <2>3, InsideStep
<1>4. CASE \E c \in Calls : Handler(c) \/ Client(c)
  BY <1>s, <1>1, <1>3, <1>4 DEF DrainInv
<1>5. CASE EndPhase
  <2>1. /\ phase' = "closed" /\ run' = [run EXCEPT !.pc = "closing", !.pending = EmbeddingCalls]
        /\ CancelAll(EmbeddingCalls)
    BY <1>s, <1>5 DEF EndPhase
  <2>2. EmbeddingCalls' = EmbeddingCalls
    <3>1. \A d \in Calls : call'[d].pc = call[d].pc /\ call'[d].lane = call[d].lane
      BY <2>1 DEF CancelAll, TypeOK, CallType
    <3> QED BY <3>1, SameHandlers
  <2>3. run'.pc = "closing" /\ run'.pending = EmbeddingCalls
    BY <1>r, <2>1 DEF RunType
  <2> QED BY <2>1, <2>2, <2>3
<1>6. CASE PhaseEnded
  <2>1. EmbeddingCalls = {}
    BY <1>s, <1>6 DEF PhaseEnded, DrainInv, EmbeddingCalls, InHandler
  <2>2. EmbeddingCalls' = EmbeddingCalls /\ phase' = phase /\ phase = "closed"
    BY <1>s, <1>6 DEF PhaseEnded, EmbeddingCalls, InHandler, DrainInv
  <2>3. run'.pc = "closed"
    BY <1>r, <1>6 DEF PhaseEnded, RunType
  <2> QED BY <2>1, <2>2, <2>3
<1>7. CASE BeginEmbeddingPhase \/ TakeEnd
  <2>1. run'.pc \in {"running", "judged"}
    BY <1>r, <1>7 DEF BeginEmbeddingPhase, TakeEnd, RunType
  <2> QED BY <2>1
<1>8. CASE TakeStart \/ Expire \/ UNCHANGED vars
  <2>1. /\ call' = call /\ phase' = phase
        /\ run' = run \/ run' = [run EXCEPT !.measured = TRUE, !.start = n]
    BY <1>8 DEF TakeStart, Expire, vars
  <2>2. run'.pc = run.pc /\ run'.pending = run.pending
    BY <1>r, <2>1 DEF RunType
  <2>3. EmbeddingCalls' = EmbeddingCalls
    BY <2>1 DEF EmbeddingCalls, InHandler
  <2> QED BY <1>s, <2>1, <2>2, <2>3 DEF DrainInv
<1> QED BY <1>s, <1>4, <1>5, <1>6, <1>7, <1>8 DEF Next, Worker

\* The wait of endEmbeddingPhase is an invariant.
LEMMA DrainCorrect == Spec => []DrainInv
<1>1. Init => DrainInv
  <2> SUFFICES ASSUME Init PROVE DrainInv
    OBVIOUS
  <2>1. \A c \in Calls : call[c].pc = "idle"
    BY DEF Init, NewCall
  <2>2. EmbeddingCalls = {}
    BY <2>1 DEF EmbeddingCalls, InHandler
  <2>3. Cardinality(EmbeddingCalls) = 0
    BY <2>2, FS_EmptySet
  <2> QED BY <2>2, <2>3, InferenceLanesAssumption DEF Init, NewRun, DrainInv
<1>2. TypeOK /\ DrainInv /\ [Next]_vars => DrainInv'
  BY InFlightStep, ClosingStep DEF DrainInv
<1> QED BY <1>1, <1>2, TypeCorrect, PTL DEF Spec

\* Never more embedding handlers than the lane is wide, and none once
\* endEmbeddingPhase has returned for a session that is still listed.
THEOREM LaneIsDrained == Spec => []LaneDrained
<1>1. DrainInv => LaneDrained
  BY DEF DrainInv, LaneDrained
<1> QED BY <1>1, DrainCorrect, PTL
=============================================================================
