------------------------ MODULE LaneAccountingProofs ------------------------
(***************************************************************************)
(* Theorems about the accounting of InferenceLanes: that the counters of a  *)
(* session are the number of calls of each kind, between the two snapshots  *)
(* of the worker as well, and that the final verdict, which is computed     *)
(* from the counters alone, is therefore right about the calls.             *)
(***************************************************************************)
EXTENDS InferenceLanesProofs

-----------------------------------------------------------------------------
(* Counters and the calls they count.                                      *)

\* The counters that only the end of a call increments.  (Of the other three,
\* requests counts admissions; the exhaustions overlap with failures.)
Tallied == Counters \ {"requests", "capacityExhaustions", "recoveryExhaustions"}

\* The outcomes a counter stands for.
Class(k) ==
    CASE k = "successes"              -> {"success", "gap"}
      [] k = "failures"               -> {"failure", "exhausted"}
      [] k = "grantDenials"           -> {"agentDenial", "platformDenial"}
      [] k = "grantAgentDeclines"     -> {"agentDenial"}
      [] k = "callerCancels"          -> {"cancelled"}
      [] k = "agentRequestRejections" -> {"rejection"}
      [] k = "usageAvailable"         -> {"success"}
      [] k = "usageUnavailable"       -> {"gap", "rejection"}

Booked(O) == {c \in Calls : call[c].outcome \in O}
Chatted == {c \in Calls : call[c].lane = "chat" /\ call[c].pc # "idle"}
Admitted == {c \in Calls : call[c].admitted}

\* The set K of counters is what a call with outcome o is booked under.
BooksFor(o, K) == "requests" \notin K /\ \A k \in Tallied : k \in K <=> o \in Class(k)

\* The tallied counters by name.
LEMMA TalliedNames ==
    /\ Tallied = {"successes", "failures", "grantDenials", "grantAgentDeclines", "callerCancels",
                  "agentRequestRejections", "usageAvailable", "usageUnavailable"}
    /\ Tallied \subseteq Counters /\ "requests" \in Counters
  BY DEF Tallied, Counters, DeliveryCounters, UsageCounters

\* No counter stands for calls without an outcome.
LEMMA ClassOutcomes ==
    ASSUME NEW k \in Tallied
    PROVE  "none" \notin Class(k)
  BY TalliedNames DEF Class

\* The table of bookings is the table of classes, read the other way.
LEMMA BookingClass ==
    ASSUME NEW o \in {"cancelled", "rejection", "agentDenial", "platformDenial", "exhausted",
                      "failure", "success", "gap"},
           NEW X \in {{}, {"recoveryExhaustions"}}
    PROVE  BooksFor(o, Booking[o] \cup X)
<1>1. /\ "requests" \notin Booking[o] \cup X
      /\ \A k \in Tallied : k \in Booking[o] \cup X <=> k \in Booking[o]
  BY TalliedNames DEF Booking
<1>2. ASSUME NEW k \in Tallied
      PROVE  k \in Booking[o] <=> o \in Class(k)
  <2>1. CASE o \in {"cancelled", "rejection"}
    BY <2>1, TalliedNames DEF Booking, Class
  <2>2. CASE o \in {"agentDenial", "platformDenial"}
    BY <2>2, TalliedNames DEF Booking, Class
  <2>3. CASE o \in {"exhausted", "failure"}
    BY <2>3, TalliedNames DEF Booking, Class
  <2>4. CASE o \in {"success", "gap"}
    BY <2>4, TalliedNames DEF Booking, Class
  <2> QED BY <2>1, <2>2, <2>3, <2>4
<1> QED BY <1>1, <1>2 DEF BooksFor

\* Served and refused embedding calls are booked nowhere.
LEMMA NotBooked ==
    ASSUME NEW o \in {"served", "refused"}
    PROVE  BooksFor(o, {})
  BY TalliedNames DEF BooksFor, Class

-----------------------------------------------------------------------------
(* What a step does to the marks of a call.                                *)

Ended == {"notifying", "leaving", "done"}

\* The marks the accounts are made from.
SameBooks(r, q) ==
    /\ q.lane = r.lane /\ q.outcome = r.outcome
    /\ q.settled = r.settled /\ q.admitted = r.admitted

\* A step that neither admits a chat call nor ends a loop.
Quiet(r, q) ==
    /\ SameBooks(r, q)
    /\ q.pc \notin Ended => r.pc \notin Ended
    /\ r.lane = "chat" => (q.pc = "idle" <=> r.pc = "idle")

\* The end of the loop of call c, with outcome o, booked under K.
Settles(c, o, K) ==
    /\ o \in Outcomes \ {"none"}
    /\ call[c].lane = "chat" => o \notin {"served", "refused"}
    /\ call[c].pc \in {"admitted", "sent", "settling"}
    /\ call'[c] = Settled(call[c], o, AfterSettling(o))
    /\ n' = Count(n, K)
    /\ BooksFor(o, K)

\* An answer leaves the marks alone.
LEMMA AnswerBooks ==
    ASSUME NEW r \in CallType, NEW s, NEW b
    PROVE  /\ SameBooks(r, Answer(r, s, b))
           /\ SameBooks(r, [r EXCEPT !.status = s, !.whole = FALSE])
  BY DEF Answer, SameBooks, CallType

\* The end of a loop sets the outcome, and marks it when the worker is measuring.
LEMMA SettledBooks ==
    ASSUME NEW r \in CallType, NEW o, NEW p
    PROVE  LET q == Settled(r, o, p) IN
           /\ q.lane = r.lane /\ q.admitted = r.admitted /\ q.pc = p
           /\ q.outcome = o /\ q.settled = Measuring
  BY DEF Settled, NewCall

\* Leaving drops the local variables and keeps the marks.
LEMMA DoneBooks ==
    ASSUME NEW r \in CallType
    PROVE  SameBooks(r, [NewCall(r.lane) EXCEPT !.pc = "done", !.admitted = r.admitted,
                                                !.outcome = r.outcome, !.settled = r.settled])
  BY DEF SameBooks, NewCall

\* The head of the chat loop.
LEMMA NextAttemptBooks ==
    ASSUME TypeOK, NEW c \in Calls, NEW r \in CallType, NextAttempt(c, r), SameBooks(call[c], r)
    PROVE  SameBooks(call[c], call'[c]) /\ n' = n
<1>1. \/ call'[c] = [r EXCEPT !.attempt = r.attempt + 1, !.pc = "sleeping"]
      \/ call'[c] = [r EXCEPT !.pc = "settling"]
  BY BecomeGives DEF NextAttempt
<1>2. SameBooks(r, call'[c])
  BY <1>1 DEF CallType, SameBooks
<1> QED BY <1>2 DEF SameBooks, NextAttempt

\* Counting nothing changes nothing.
LEMMA CountNothing ==
    ASSUME NEW m \in [Counters -> Nat]
    PROVE  Count(m, {}) = m
  BY DEF Count

\* A step of a chat handler leaves the marks alone, or ends the loop and books it.
LEMMA ChatBooks ==
    ASSUME TypeOK, NEW c \in Calls, Chat(c)
    PROVE  \/ /\ SameBooks(call[c], call'[c])
              /\ n' = n \/ n' = Count(n, {"capacityExhaustions"})
           \/ \E o, K : Settles(c, o, K)
<1> DEFINE r == call[c]
<1>r. r \in CallType
  BY DEF TypeOK
<1>1. CASE RegisterCancel(c) \/ DeliverAgain(c)
  <2>1. call'[c] = [r EXCEPT !.pc = "sent", !.deliveries = r.deliveries + 1] /\ n' = n
    BY <1>1, BecomeGives DEF RegisterCancel, DeliverAgain
  <2> QED BY <1>r, <2>1 DEF CallType, SameBooks
<1>2. CASE TransportFails(c)
  <2>1. CASE r.ctx # "live"
    <3>1. call'[c] = [r EXCEPT !.pc = "settling"] /\ n' = n
      BY <1>2, <2>1, BecomeGives DEF TransportFails, Move
    <3> QED BY <1>r, <3>1 DEF CallType, SameBooks
  <2>2. CASE r.ctx = "live"
    <3>1. NextAttempt(c, r) /\ SameBooks(r, r)
      BY <1>2, <2>2 DEF TransportFails, SameBooks
    <3> QED BY <1>r, <3>1, NextAttemptBooks
  <2> QED BY <2>1, <2>2
<1>3. CASE Truncated(c)
  <2>1. PICK s \in {"ok", "timeout", "denied", "rejected", "failed"} :
           NextAttempt(c, [r EXCEPT !.status = s, !.whole = FALSE])
    BY <1>3 DEF Truncated
  <2>2. [r EXCEPT !.status = s, !.whole = FALSE] \in CallType
    BY <1>r DEF CallType, Status
  <2>3. SameBooks(r, [r EXCEPT !.status = s, !.whole = FALSE])
    BY <1>r, AnswerBooks
  <2> QED BY <2>1, <2>2, <2>3, NextAttemptBooks
<1>4. CASE AtCapacity(c)
  <2> DEFINE a == Answer(r, "failed", "plain")
  <2>1. a \in CallType /\ SameBooks(r, a)
    BY <1>r, AnswerType, AnswerBooks DEF Status, Body
  <2>2. /\ \/ call'[c] = [a EXCEPT !.waits = a.waits + 1, !.pc = "sleeping"]
           \/ call'[c] = [a EXCEPT !.pc = "settling"]
        /\ n' = n \/ n' = Count(n, {"capacityExhaustions"})
    BY <1>4, BecomeGives DEF AtCapacity
  <2> HIDE DEF a
  <2>3. SameBooks(a, call'[c])
    BY <2>1, <2>2 DEF CallType, SameBooks
  <2> QED BY <2>1, <2>2, <2>3 DEF SameBooks
<1>5. CASE TransientAnswer(c)
  <2>1. PICK s \in {"timeout", "failed"} : NextAttempt(c, Answer(r, s, "plain"))
    BY <1>5 DEF TransientAnswer
  <2>2. Answer(r, s, "plain") \in CallType
    BY <1>r, AnswerType DEF Status, Body
  <2>3. SameBooks(r, Answer(r, s, "plain"))
    BY <1>r, AnswerBooks
  <2> QED BY <2>1, <2>2, <2>3, NextAttemptBooks
<1>6. CASE FinalAnswer(c)
  <2>1. PICK a \in FinalAnswers : Become(c, [Answer(r, a[1], a[2]) EXCEPT !.pc = "settling"])
    BY <1>6 DEF FinalAnswer
  <2> DEFINE q == Answer(r, a[1], a[2])
  <2>2. a[1] \in Status /\ a[2] \in Body
    BY DEF FinalAnswers, Status, Body
  <2>3. q \in CallType /\ SameBooks(r, q)
    BY <1>r, <2>2, AnswerType, AnswerBooks
  <2>4. call'[c] = [q EXCEPT !.pc = "settling"] /\ n' = n
    BY <1>6, <2>1, BecomeGives DEF FinalAnswer
  <2> HIDE DEF q
  <2>5. SameBooks(q, call'[c])
    BY <2>3, <2>4 DEF CallType, SameBooks
  <2> QED BY <2>3, <2>4, <2>5 DEF SameBooks
<1>7. CASE SettleChat(c)
  <2> DEFINE o == ChatOutcome(r)
  <2>1. o \in {"cancelled", "rejection", "agentDenial", "platformDenial", "failure",
               "success", "gap"}
    BY DEF ChatOutcome, Denial
  <2>2. PICK X \in {{}, {"recoveryExhaustions"}} : n' = Count(n, Booking[o] \cup X)
    BY <1>7 DEF SettleChat
  <2>3. call'[c] = Settled(r, o, AfterSettling(o)) /\ r.pc = "settling"
    BY <1>7, BecomeGives DEF SettleChat, At
  <2> HIDE DEF o
  <2>4. BooksFor(o, Booking[o] \cup X)
    BY <2>1, BookingClass
  <2>5. Settles(c, o, Booking[o] \cup X)
    BY <2>1, <2>2, <2>3, <2>4 DEF Settles, Outcomes
  <2> QED BY <2>5
<1> QED BY <1>1, <1>2, <1>3, <1>4, <1>5, <1>6, <1>7 DEF Chat

\* The same for a step of an embedding handler; a call that is served or refused
\* is booked nowhere.
LEMMA EmbeddingBooks ==
    ASSUME TypeOK, NEW c \in Calls, Embedding(c)
    PROVE  \/ SameBooks(call[c], call'[c]) /\ n' = n
           \/ \E o, K : Settles(c, o, K)
<1> DEFINE r == call[c]
<1>r. r \in CallType /\ n \in [Counters -> Nat]
  BY DEF TypeOK
<1>f. /\ Answer(r, "failed", "plain") \in CallType /\ Answer(r, "full", "plain") \in CallType
      /\ SameBooks(r, Answer(r, "failed", "plain")) /\ SameBooks(r, Answer(r, "full", "plain"))
  BY <1>r, AnswerType, AnswerBooks DEF Status, Body
<1>1. CASE ChargeEmbedding(c)
  <2>0. r.lane = "embedding" /\ r.pc = "admitted" /\ n' = n
    BY <1>1 DEF ChargeEmbedding, At
  <2>1. CASE call'[c] = [r EXCEPT !.pc = "ready"]
    BY <1>r, <2>0, <2>1 DEF CallType, SameBooks
  <2>2. CASE call'[c] = Settled(r, "refused", "leaving")
    <3>1. AfterSettling("refused") = "leaving" /\ n' = Count(n, {})
      BY <1>r, <2>0, CountNothing DEF AfterSettling
    <3>2. Settles(c, "refused", {})
      BY <2>0, <2>2, <3>1, NotBooked DEF Settles, Outcomes
    <3> QED BY <3>2
  <2> QED BY <1>1, <2>1, <2>2, BecomeGives DEF ChargeEmbedding, Move
<1>2. CASE DeliverEmbedding(c)
  <2> DEFINE a == Answer(r, "failed", "plain")
  <2>1. /\ \/ call'[c] = [r EXCEPT !.pc = "sent", !.deliveries = r.deliveries + 1]
           \/ call'[c] = [a EXCEPT !.pc = "settling"]
        /\ n' = n
    BY <1>2, BecomeGives DEF DeliverEmbedding
  <2> HIDE DEF a
  <2>2. SameBooks(r, call'[c]) \/ SameBooks(a, call'[c])
    BY <1>r, <1>f, <2>1, ZenonT(60) DEF a, CallType, SameBooks
  <2> QED BY <1>f, <2>1, <2>2 DEF SameBooks, a
<1>3. CASE EmbeddingServed(c)
  <2>1. /\ call'[c] = Settled(r, "served", "leaving") /\ n' = n
        /\ r.lane = "embedding" /\ r.pc = "sent"
    BY <1>3, BecomeGives DEF EmbeddingServed, At
  <2>2. AfterSettling("served") = "leaving" /\ n' = Count(n, {})
    BY <1>r, <2>1, CountNothing DEF AfterSettling
  <2>3. Settles(c, "served", {})
    BY <2>1, <2>2, NotBooked DEF Settles, Outcomes
  <2> QED BY <2>3
<1>4. CASE EmbeddingAtCapacity(c) \/ EmbeddingTransient(c)
  <2> DEFINE a == IF EmbeddingAtCapacity(c) THEN Answer(r, "full", "plain")
                                            ELSE Answer(r, "failed", "plain")
  <2>1. a \in CallType /\ SameBooks(r, a)
    BY <1>f
  <2>2. /\ \/ call'[c] = [a EXCEPT !.waits = a.waits + 1, !.pc = "pausing"]
           \/ call'[c] = [a EXCEPT !.attempt = a.attempt + 1, !.pc = "backoff"]
           \/ call'[c] = [a EXCEPT !.pc = "settling"]
        /\ n' = n
    BY <1>4, BecomeGives, ZenonT(60) DEF EmbeddingAtCapacity, EmbeddingTransient
  <2> HIDE DEF a
  <2>3. SameBooks(a, call'[c])
    BY <2>1, <2>2 DEF CallType, SameBooks
  <2> QED BY <2>1, <2>2, <2>3 DEF SameBooks
<1>6. CASE EmbeddingFails(c)
  <2>1. PICK a \in {<<"denied", "agent">>, <<"denied", "plain">>, <<"failed", "plain">>} :
           Become(c, [Answer(r, a[1], a[2]) EXCEPT !.pc = "settling"])
    BY <1>6 DEF EmbeddingFails
  <2> DEFINE q == Answer(r, a[1], a[2])
  <2>2. a[1] \in Status /\ a[2] \in Body
    BY DEF Status, Body
  <2>3. q \in CallType /\ SameBooks(r, q)
    BY <1>r, <2>2, AnswerType, AnswerBooks
  <2>4. call'[c] = [q EXCEPT !.pc = "settling"] /\ n' = n
    BY <1>6, <2>1, BecomeGives DEF EmbeddingFails
  <2> HIDE DEF q
  <2>5. SameBooks(q, call'[c])
    BY <2>3, <2>4 DEF CallType, SameBooks
  <2> QED BY <2>3, <2>4, <2>5 DEF SameBooks
<1>7. CASE SettleEmbedding(c)
  <2> DEFINE o == EmbeddingOutcome(r)
  <2>1. o \in {"cancelled", "agentDenial", "platformDenial", "exhausted", "failure"}
    BY DEF EmbeddingOutcome, Denial
  <2>2. n' = Count(n, Booking[o])
    BY <1>7 DEF SettleEmbedding
  <2>3. call'[c] = Settled(r, o, AfterSettling(o)) /\ r.pc = "settling"
    BY <1>7, BecomeGives DEF SettleEmbedding, At
  <2> HIDE DEF o
  <2>4. BooksFor(o, Booking[o])
    <3>1. BooksFor(o, Booking[o] \cup {})
      BY <2>1, BookingClass
    <3> QED BY <3>1 DEF BooksFor
  <2>5. Settles(c, o, Booking[o])
    BY <2>1, <2>2, <2>3, <2>4 DEF Settles, Outcomes
  <2> QED BY <2>5
<1> QED BY <1>1, <1>2, <1>3, <1>4, <1>6, <1>7 DEF Embedding


\* A handler's step leaves every mark in the system alone, or ends one loop.
LEMMA HandlerBooks ==
    ASSUME TypeOK, NEW c \in Calls, Handler(c)
    PROVE  /\ \/ SameBooks(call[c], call'[c]) /\ (n' = n \/ n' = Count(n, {"capacityExhaustions"}))
              \/ \E o, K : Settles(c, o, K)
           /\ \A d \in Calls \ {c} : call'[d] = call[d]
<1> DEFINE r == call[c]
<1>r. r \in CallType
  BY DEF TypeOK
<1>o. \A d \in Calls \ {c} : call'[d] = call[d]
  BY HandlerSteps
<1>1. CASE Chat(c)
  BY <1>o, <1>1, ChatBooks
<1>2. CASE Embedding(c)
  BY <1>o, <1>2, EmbeddingBooks
<1>3. CASE Interrupted(c) \/ Notify(c)
  <2>1. (call'[c] = [r EXCEPT !.pc = "settling"] \/ call'[c] = [r EXCEPT !.pc = "leaving"]) /\ n' = n
    BY <1>3, BecomeGives DEF Interrupted, Notify, Move
  <2>2. SameBooks(r, call'[c])
    BY <1>r, <2>1 DEF CallType, SameBooks
  <2> QED BY <1>o, <2>1, <2>2
<1>4. CASE Leave(c)
  <2>1. /\ call'[c] = [NewCall(r.lane) EXCEPT !.pc = "done", !.admitted = r.admitted,
                                              !.outcome = r.outcome, !.settled = r.settled]
        /\ n' = n
    BY <1>4, BecomeGives DEF Leave
  <2> QED BY <1>r, <1>o, <2>1, DoneBooks
<1> QED BY <1>1, <1>2, <1>3, <1>4 DEF Handler

\* The places of a handler's step: nobody comes back from the end of the loop, and
\* nobody becomes idle.
LEMMA HandlerPlaces ==
    ASSUME NEW r, NEW q, HandlerStep(r, q), SameBooks(r, q)
    PROVE  Quiet(r, q)
  BY DEF HandlerStep, Quiet, Ended, Asleep

\* A call as it was is quiet.
LEMMA QuietSame == ASSUME NEW r PROVE Quiet(r, r)
  BY DEF Quiet, SameBooks

\* Nor does the end of a context show in the accounts.
LEMMA QuietCancel ==
    ASSUME TypeOK, NEW C, CancelAll(C), NEW d \in Calls
    PROVE  Quiet(call[d], call'[d])
<1>1. call'[d] = call[d] \/ call'[d] = [call[d] EXCEPT !.ctx = "canceled"]
  BY DEF CancelAll
<1> QED BY <1>1 DEF TypeOK, CallType, Quiet, SameBooks

\* Chat call c is admitted.
Admits(c) ==
    /\ call[c].lane = "chat" /\ call[c].pc = "idle"
    /\ call'[c].lane = "chat" /\ call'[c].pc = "admitted" /\ call'[c].outcome = call[c].outcome
    /\ call'[c].settled = call[c].settled /\ call'[c].admitted = Measuring
    /\ n' = Count(n, {"requests"})

\* What the steps of the system do to the accounts: one call is admitted, one call
\* ends, or nothing happens to them; and only a step of the worker takes a snapshot.
LEMMA BookSteps ==
    ASSUME TypeOK, [Next]_vars
    PROVE  \/ /\ \A d \in Calls : Quiet(call[d], call'[d])
              /\ n' = n \/ n' = Count(n, {"capacityExhaustions"})
              /\ run' = run \/ (Worker /\ n' = n)
           \/ \E c \in Calls : /\ Admits(c) \/ \E o, K : Settles(c, o, K)
                               /\ \A d \in Calls \ {c} : call'[d] = call[d]
                               /\ run' = run
<1>1. ASSUME NEW c \in Calls, Handler(c) \/ Client(c) PROVE run' = run
  BY <1>1 DEF Handler, Client, Chat, Embedding, RegisterCancel, DeliverAgain,
     TransportFails, Truncated, AtCapacity, TransientAnswer, FinalAnswer, SettleChat,
     NextAttempt, ChargeEmbedding, DeliverEmbedding, EmbeddingServed, EmbeddingAtCapacity,
     EmbeddingTransient, EmbeddingFails, SettleEmbedding, Interrupted, Notify, Leave,
     AdmitChat, AdmitEmbedding, HangUp, DeadlinePasses, others
<1>2. ASSUME NEW c \in Calls, Handler(c), ~\E o, K : Settles(c, o, K)
      PROVE  /\ \A d \in Calls : Quiet(call[d], call'[d])
             /\ n' = n \/ n' = Count(n, {"capacityExhaustions"})
  <2>1. SameBooks(call[c], call'[c]) /\ (n' = n \/ n' = Count(n, {"capacityExhaustions"}))
    BY <1>2, HandlerBooks
  <2>2. Quiet(call[c], call'[c])
    BY <1>2, <2>1, HandlerSteps, HandlerPlaces
  <2>3. \A d \in Calls \ {c} : Quiet(call[d], call'[d])
    BY <1>2, HandlerSteps, QuietSame
  <2> QED BY <2>1, <2>2, <2>3
<1>3. ASSUME NEW c \in Calls, AdmitChat(c)
      PROVE  Admits(c) /\ \A d \in Calls \ {c} : call'[d] = call[d]
  <2>1. /\ call'[c] = [call[c] EXCEPT !.pc = "admitted", !.admitted = Measuring]
        /\ \A d \in Calls \ {c} : call'[d] = call[d]
    BY <1>3, BecomeGives DEF AdmitChat
  <2>2. call[c] \in CallType
    BY DEF TypeOK
  <2>3. call[c].lane = "chat" /\ call[c].pc = "idle" /\ n' = Count(n, {"requests"})
    BY <1>3 DEF AdmitChat, At
  <2>4. /\ call'[c].lane = "chat" /\ call'[c].pc = "admitted" /\ call'[c].outcome = call[c].outcome
        /\ call'[c].settled = call[c].settled /\ call'[c].admitted = Measuring
    BY <2>1, <2>2, <2>3 DEF CallType
  <2> QED BY <2>1, <2>3, <2>4 DEF Admits
<1>4. ASSUME NEW c \in Calls, AdmitEmbedding(c) \/ HangUp(c) \/ DeadlinePasses(c)
      PROVE  (\A d \in Calls : Quiet(call[d], call'[d])) /\ n' = n
  <2>1. /\ \/ call'[c] = [call[c] EXCEPT !.pc = "admitted"] /\ call[c].lane = "embedding"
              /\ call[c].pc = "idle"
           \/ call'[c] = [call[c] EXCEPT !.ctx = "canceled"]
           \/ call'[c] = [call[c] EXCEPT !.ctx = "expired"]
        /\ \A d \in Calls \ {c} : call'[d] = call[d]
        /\ n' = n
    BY <1>4, BecomeGives DEF AdmitEmbedding, HangUp, DeadlinePasses, At, Move
  <2>2. Quiet(call[c], call'[c])
    BY <2>1 DEF TypeOK, CallType, Quiet, SameBooks, Ended
  <2>3. \A d \in Calls \ {c} : Quiet(call[d], call'[d])
    BY <2>1, QuietSame
  <2> QED BY <2>1, <2>2, <2>3
<1>5. CASE Worker \/ Expire \/ Remove \/ UNCHANGED vars
  <2>1. /\ call' = call \/ \E C : CancelAll(C)
        /\ n' = n
        /\ run' = run \/ Worker
    BY <1>5 DEF Worker, BeginEmbeddingPhase, TakeStart, EndPhase, PhaseEnded, TakeEnd,
                Expire, Remove, vars
  <2>2. \A d \in Calls : Quiet(call[d], call'[d])
    BY <2>1, QuietSame, QuietCancel
  <2> QED BY <2>1, <2>2
<1>6. ASSUME NEW c \in Calls, Handler(c), \E o, K : Settles(c, o, K)
      PROVE  (\A d \in Calls \ {c} : call'[d] = call[d]) /\ run' = run
  BY <1>1, <1>6, HandlerSteps
<1>7. CASE \E c \in Calls : Handler(c)
  BY <1>1, <1>2, <1>6, <1>7
<1>8. CASE \E c \in Calls : Client(c)
  BY <1>1, <1>3, <1>4, <1>8 DEF Client
<1> QED BY <1>5, <1>7, <1>8 DEF Next

-----------------------------------------------------------------------------
(* The sets of calls the counters count.                                   *)

\* All of them are finite.
LEMMA FiniteBooks ==
    ASSUME NEW O
    PROVE  IsFiniteSet(Booked(O)) /\ IsFiniteSet(During(O))
           /\ IsFiniteSet(Chatted) /\ IsFiniteSet(Admitted)
<1>1. /\ Booked(O) \subseteq Calls /\ During(O) \subseteq Calls
      /\ Chatted \subseteq Calls /\ Admitted \subseteq Calls
  BY DEF Booked, During, Chatted, Admitted
<1> QED BY <1>1, InferenceLanesAssumption, FS_Subset

\* A call added, or not, to a set it is not in.
LEMMA OneMore ==
    ASSUME NEW S, IsFiniteSet(S), NEW x, x \notin S, NEW b \in BOOLEAN, NEW T,
           T = IF b THEN S \cup {x} ELSE S
    PROVE  Cardinality(T) = Cardinality(S) + (IF b THEN 1 ELSE 0)
<1>1. CASE b
  BY <1>1, FS_AddElement, FS_CardinalityType
<1>2. CASE ~b
  BY <1>2, FS_CardinalityType
<1> QED BY <1>1, <1>2

\* A quiet step changes none of them.
LEMMA QuietSets ==
    ASSUME \A d \in Calls : Quiet(call[d], call'[d]), NEW O
    PROVE  /\ Booked(O)' = Booked(O) /\ During(O)' = During(O)
           /\ Chatted' = Chatted /\ Admitted' = Admitted
  BY DEF Quiet, SameBooks, Booked, During, Chatted, Admitted

\* The marks of a call that is consistent: no outcome before the end of its loop,
\* none marked without one, and the embedding lane's own outcomes stay there.
MarkOK(r) ==
    /\ r.pc \notin Ended => r.outcome = "none"
    /\ r.outcome = "none" => ~r.settled
    /\ r.lane = "chat" => r.outcome \notin {"served", "refused"}
    /\ r.admitted => r.lane = "chat" /\ r.pc # "idle"

\* The end of a loop adds the call to the sets of its outcome, and during the
\* measurement to those of the measurement.
LEMMA SettleSets ==
    ASSUME TypeOK, NEW c \in Calls, NEW o, NEW K, Settles(c, o, K), MarkOK(call[c]),
           \A d \in Calls \ {c} : call'[d] = call[d], NEW O, "none" \notin O
    PROVE  /\ Booked(O)' = (IF o \in O THEN Booked(O) \cup {c} ELSE Booked(O))
           /\ During(O)' = (IF o \in O /\ Measuring THEN During(O) \cup {c} ELSE During(O))
           /\ c \notin Booked(O) /\ c \notin During(O)
           /\ Chatted' = Chatted /\ Admitted' = Admitted
<1>1. /\ call'[c].lane = call[c].lane /\ call'[c].admitted = call[c].admitted
      /\ call'[c].pc # "idle" /\ call'[c].outcome = o /\ call'[c].settled = Measuring
  BY SettledBooks DEF Settles, TypeOK, AfterSettling
<1>2. call[c].outcome = "none" /\ call[c].pc # "idle"
  BY DEF Settles, MarkOK, Ended
<1> QED BY <1>1, <1>2 DEF Booked, During, Chatted, Admitted

\* An admission adds the call to the chat calls, and during the measurement to the
\* calls admitted in it.
LEMMA AdmitSets ==
    ASSUME NEW c \in Calls, Admits(c), MarkOK(call[c]),
           \A d \in Calls \ {c} : call'[d] = call[d], NEW O
    PROVE  /\ Booked(O)' = Booked(O) /\ During(O)' = During(O)
           /\ Chatted' = Chatted \cup {c} /\ c \notin Chatted
           /\ Admitted' = (IF Measuring THEN Admitted \cup {c} ELSE Admitted)
           /\ c \notin Admitted
  BY DEF Admits, MarkOK, Booked, During, Chatted, Admitted

-----------------------------------------------------------------------------
(* The inductive invariant.                                                *)

MarksInv == \A c \in Calls : MarkOK(call[c])

\* Each counter is the number of calls it stands for.
TallyInv ==
    /\ \A k \in Tallied : n[k] = Cardinality(Booked(Class(k)))
    /\ n["requests"] = Cardinality(Chatted)

\* Between the snapshots each counter has grown by the calls marked meanwhile, and
\* before the first one none is marked.
SpanInv ==
    /\ run.pc # "judged" => run.verdict = "none"
    /\ ~run.measured => \A c \in Calls : ~call[c].settled /\ ~call[c].admitted
    /\ Measuring => \A k \in Tallied : n[k] = run.start[k] + Cardinality(During(Class(k)))
    /\ Measuring => n["requests"] = run.start["requests"] + Cardinality(Admitted)

\* The marks stay consistent.
LEMMA MarksStep ==
    ASSUME TypeOK, MarksInv, [Next]_vars
    PROVE  MarksInv'
<1> SUFFICES ASSUME NEW d \in Calls PROVE MarkOK(call'[d])
  BY DEF MarksInv
<1>0. MarkOK(call[d])
  BY DEF MarksInv
<1>1. CASE Quiet(call[d], call'[d])
  BY <1>0, <1>1 DEF Quiet, SameBooks, MarkOK
<1>2. CASE Admits(d)
  BY <1>0, <1>2 DEF Admits, MarkOK, Ended
<1>3. ASSUME NEW o, NEW K, Settles(d, o, K) PROVE MarkOK(call'[d])
  <2>1. /\ call'[d].lane = call[d].lane /\ call'[d].admitted = call[d].admitted
        /\ call'[d].pc \in {"notifying", "leaving"} /\ call'[d].outcome = o
    BY <1>3, SettledBooks DEF Settles, TypeOK, AfterSettling
  <2>2. o # "none" /\ (call[d].lane = "chat" => o \notin {"served", "refused"})
    BY <1>3 DEF Settles
  <2> QED BY <1>0, <2>1, <2>2 DEF MarkOK, Ended
<1>4. CASE call'[d] = call[d]
  BY <1>0, <1>4
<1> QED BY <1>1, <1>2, <1>3, <1>4, BookSteps

\* Booking and counting, for one counter.
LEMMA CountOne ==
    ASSUME TypeOK, NEW K, n' = Count(n, K), NEW k \in Counters
    PROVE  n'[k] = (IF k \in K THEN n[k] + 1 ELSE n[k]) /\ n[k] \in Nat
  BY DEF Count, TypeOK

\* A step that books nothing tallied and admits nobody keeps these counters.
LEMMA TalliedKept ==
    ASSUME TypeOK, n' = n \/ n' = Count(n, {"capacityExhaustions"}),
           NEW k \in Tallied \cup {"requests"}
    PROVE  n'[k] = n[k]
  BY CountOne, TalliedNames

\* The tallies stay exact.
LEMMA TallyStep ==
    ASSUME TypeOK, MarksInv, TallyInv, [Next]_vars
    PROVE  TallyInv'
<1>1. CASE /\ \A d \in Calls : Quiet(call[d], call'[d])
           /\ n' = n \/ n' = Count(n, {"capacityExhaustions"})
  <2>1. ASSUME NEW k \in Tallied PROVE n'[k] = Cardinality(Booked(Class(k))')
    <3>1. Booked(Class(k))' = Booked(Class(k))
      BY <1>1, QuietSets
    <3> QED BY <1>1, <3>1, TalliedKept DEF TallyInv
  <2>2. n'["requests"] = Cardinality(Chatted')
    BY <1>1, QuietSets, TalliedKept DEF TallyInv
  <2> QED BY <2>1, <2>2 DEF TallyInv
<1>2. ASSUME NEW c \in Calls, Admits(c), \A d \in Calls \ {c} : call'[d] = call[d]
      PROVE  TallyInv'
  <2>0. MarkOK(call[c]) /\ n' = Count(n, {"requests"})
    BY <1>2 DEF MarksInv, Admits
  <2>1. ASSUME NEW k \in Tallied PROVE n'[k] = Cardinality(Booked(Class(k))')
    <3>1. Booked(Class(k))' = Booked(Class(k))
      BY <1>2, <2>0, AdmitSets
    <3>2. n'[k] = n[k]
      BY <2>0, CountOne, TalliedNames
    <3> QED BY <3>1, <3>2 DEF TallyInv
  <2>2. Chatted' = Chatted \cup {c} /\ c \notin Chatted
    BY <1>2, <2>0, AdmitSets
  <2>3. Cardinality(Chatted') = Cardinality(Chatted) + 1
    BY <2>2, FiniteBooks, FS_AddElement
  <2>4. n'["requests"] = n["requests"] + 1
    BY <2>0, CountOne, TalliedNames
  <2> QED BY <2>1, <2>3, <2>4 DEF TallyInv
<1>3. ASSUME NEW c \in Calls, NEW o, NEW K, Settles(c, o, K),
             \A d \in Calls \ {c} : call'[d] = call[d]
      PROVE  TallyInv'
  <2>0. MarkOK(call[c]) /\ n' = Count(n, K) /\ BooksFor(o, K)
    BY <1>3 DEF MarksInv, Settles
  <2>1. ASSUME NEW k \in Tallied PROVE n'[k] = Cardinality(Booked(Class(k))')
    <3>1. /\ Booked(Class(k))' = (IF o \in Class(k) THEN Booked(Class(k)) \cup {c} ELSE Booked(Class(k)))
          /\ c \notin Booked(Class(k))
      BY <1>3, <2>0, ClassOutcomes, SettleSets
    <3>2. Cardinality(Booked(Class(k))') = Cardinality(Booked(Class(k))) + (IF o \in Class(k) THEN 1 ELSE 0)
      BY <3>1, FiniteBooks, OneMore, ZenonT(60)
    <3>3. n'[k] = n[k] + (IF o \in Class(k) THEN 1 ELSE 0)
      BY <2>0, CountOne, TalliedNames DEF BooksFor
    <3> QED BY <3>2, <3>3 DEF TallyInv
  <2>2. Chatted' = Chatted
    <3>1. "none" \notin {}
      OBVIOUS
    <3> QED BY <1>3, <2>0, <3>1, SettleSets
  <2>3. n'["requests"] = n["requests"]
    BY <2>0, CountOne, TalliedNames DEF BooksFor
  <2> QED BY <2>1, <2>2, <2>3 DEF TallyInv
<1> QED BY <1>1, <1>2, <1>3, BookSteps

\* What a step of the worker does to its own record.
LEMMA WorkerSpan ==
    ASSUME TypeOK, Worker
    PROVE  \/ TakeStart /\ run'.measured /\ run'.start = n /\ run'.verdict = run.verdict
                        /\ run'.pc = run.pc /\ ~run.measured
           \/ TakeEnd /\ run'.pc = "judged" /\ run'.verdict \in Verdicts /\ run'.measured
           \/ /\ run'.measured = run.measured /\ run'.start = run.start
              /\ run'.verdict = run.verdict /\ run.pc # "judged"
<1>r. run \in RunType
  BY DEF TypeOK
<1>1. CASE TakeStart
  BY <1>r, <1>1 DEF TakeStart, RunType
<1>2. CASE TakeEnd
  <2> DEFINE v == IF session = "removed" THEN "unavailable" ELSE relayVerdict(run.start, n)
  <2>1. v \in Verdicts
    <3>1. relayVerdict(run.start, n) \in Verdicts
      BY VerdictType DEF TypeOK, RunType
    <3>2. "unavailable" \in Verdicts
      BY DEF Verdicts
    <3> QED BY <3>1, <3>2
  <2>2. run' = [run EXCEPT !.pc = "judged", !.start = NoCounts, !.verdict = v] /\ run.measured
    BY <1>2 DEF TakeEnd
  <2> HIDE DEF v
  <2>3. run'.pc = "judged" /\ run'.verdict = v /\ run'.measured
    BY <1>r, <2>2 DEF RunType
  <2> QED BY <1>2, <2>1, <2>3
<1>3. CASE BeginEmbeddingPhase \/ EndPhase \/ PhaseEnded
  BY <1>r, <1>3 DEF BeginEmbeddingPhase, EndPhase, PhaseEnded, RunType
<1> QED BY <1>1, <1>2, <1>3 DEF Worker

\* The span stays exact when the accounts are quiet.
LEMMA SpanQuiet ==
    ASSUME TypeOK, SpanInv, \A d \in Calls : Quiet(call[d], call'[d]),
           n' = n \/ n' = Count(n, {"capacityExhaustions"}), run' = run \/ (Worker /\ n' = n)
    PROVE  SpanInv'
<1>n. \A k \in Tallied \cup {"requests"} : n'[k] = n[k] /\ n[k] \in Nat
  BY TalliedKept, TalliedNames DEF TypeOK
<1>s. /\ \A k \in Tallied : During(Class(k))' = During(Class(k))
      /\ Admitted' = Admitted
      /\ \A c \in Calls : call'[c].settled = call[c].settled /\ call'[c].admitted = call[c].admitted
  BY QuietSets DEF Quiet, SameBooks
<1>1. CASE /\ run'.measured = run.measured /\ run'.start = run.start /\ run'.verdict = run.verdict
           /\ run' = run \/ run.pc # "judged"
  <2>1. Measuring' = Measuring
    BY <1>1 DEF Measuring
  <2>2. run'.pc # "judged" => run'.verdict = "none"
    BY <1>1 DEF SpanInv
  <2> QED BY <1>1, <1>n, <1>s, <2>1, <2>2 DEF SpanInv
<1>2. CASE /\ run'.measured /\ run'.start = n /\ run'.verdict = run.verdict
           /\ run'.pc = run.pc /\ ~run.measured /\ n' = n
  <2>1. ASSUME NEW k \in Tallied PROVE Cardinality(During(Class(k))) = 0
    <3>1. During(Class(k)) = {}
      BY <1>2 DEF SpanInv, During
    <3> QED BY <3>1, FS_EmptySet
  <2>2. Cardinality(Admitted) = 0
    <3>1. Admitted = {}
      BY <1>2 DEF SpanInv, Admitted
    <3> QED BY <3>1, FS_EmptySet
  <2> QED BY <1>2, <1>n, <1>s, <2>1, <2>2 DEF SpanInv
<1>3. CASE run'.pc = "judged" /\ run'.verdict \in Verdicts /\ run'.measured
  <2>1. ~Measuring'
    BY <1>3 DEF Measuring, Verdicts
  <2> QED BY <1>3, <2>1 DEF SpanInv
<1> QED BY <1>1, <1>2, <1>3, WorkerSpan

\* The span stays exact when a chat call is admitted.
LEMMA SpanAdmits ==
    ASSUME TypeOK, MarksInv, SpanInv, NEW c \in Calls, Admits(c),
           \A d \in Calls \ {c} : call'[d] = call[d], run' = run
    PROVE  SpanInv'
<1>0. /\ MarkOK(call[c]) /\ n' = Count(n, {"requests"})
      /\ call'[c].settled = call[c].settled /\ call'[c].admitted = Measuring
  BY DEF MarksInv, Admits
<1>m. Measuring' = Measuring
  BY DEF Measuring
<1>1. ASSUME Measuring, NEW k \in Tallied
      PROVE  n'[k] = run'.start[k] + Cardinality(During(Class(k))')
  <2>1. During(Class(k))' = During(Class(k))
    BY <1>0, AdmitSets
  <2>2. n'[k] = n[k]
    BY <1>0, CountOne, TalliedNames
  <2> QED BY <1>1, <2>1, <2>2 DEF SpanInv
<1>2. ASSUME Measuring
      PROVE  n'["requests"] = run'.start["requests"] + Cardinality(Admitted')
  <2>1. Admitted' = Admitted \cup {c} /\ c \notin Admitted
    BY <1>0, <1>2, AdmitSets
  <2>2. Cardinality(Admitted') = Cardinality(Admitted) + 1 /\ Cardinality(Admitted) \in Nat
    BY <2>1, FiniteBooks, FS_AddElement, FS_CardinalityType
  <2>3. n'["requests"] = n["requests"] + 1 /\ run.start["requests"] \in Nat
    BY <1>0, CountOne, TalliedNames DEF TypeOK, RunType
  <2> QED BY <1>2, <2>2, <2>3 DEF SpanInv
<1>3. ~run'.measured => \A d \in Calls : ~call'[d].settled /\ ~call'[d].admitted
  BY <1>0 DEF SpanInv, Measuring
<1>4. run'.pc # "judged" => run'.verdict = "none"
  BY DEF SpanInv
<1> QED BY <1>m, <1>1, <1>2, <1>3, <1>4 DEF SpanInv

\* The span stays exact when a call ends.
LEMMA SpanSettles ==
    ASSUME TypeOK, MarksInv, SpanInv, NEW c \in Calls, NEW o, NEW K, Settles(c, o, K),
           \A d \in Calls \ {c} : call'[d] = call[d], run' = run
    PROVE  SpanInv'
<1>0. MarkOK(call[c]) /\ n' = Count(n, K) /\ BooksFor(o, K)
  BY DEF MarksInv, Settles
<1>m. Measuring' = Measuring
  BY DEF Measuring
<1>1. ASSUME Measuring, NEW k \in Tallied
      PROVE  n'[k] = run'.start[k] + Cardinality(During(Class(k))')
  <2>1. /\ During(Class(k))' = (IF o \in Class(k) THEN During(Class(k)) \cup {c} ELSE During(Class(k)))
        /\ c \notin During(Class(k))
    BY <1>0, <1>1, ClassOutcomes, SettleSets
  <2>2. /\ Cardinality(During(Class(k))') = Cardinality(During(Class(k))) + (IF o \in Class(k) THEN 1 ELSE 0)
        /\ Cardinality(During(Class(k))) \in Nat
    BY <2>1, FiniteBooks, OneMore, FS_CardinalityType, ZenonT(60)
  <2>3. n'[k] = n[k] + (IF o \in Class(k) THEN 1 ELSE 0) /\ run.start[k] \in Nat
    BY <1>0, CountOne, TalliedNames DEF BooksFor, TypeOK, RunType
  <2> QED BY <1>1, <2>2, <2>3 DEF SpanInv
<1>a. Admitted' = Admitted
  <2>1. "none" \notin {}
    OBVIOUS
  <2> QED BY <1>0, <2>1, SettleSets
<1>2. ASSUME Measuring
      PROVE  n'["requests"] = run'.start["requests"] + Cardinality(Admitted')
  BY <1>0, <1>2, <1>a, CountOne, TalliedNames DEF BooksFor, SpanInv
<1>3. ~run'.measured => \A d \in Calls : ~call'[d].settled /\ ~call'[d].admitted
  <2>1. call'[c].settled = Measuring /\ call'[c].admitted = call[c].admitted
    BY SettledBooks DEF Settles, TypeOK
  <2> QED BY <2>1 DEF SpanInv, Measuring
<1>4. run'.pc # "judged" => run'.verdict = "none"
  BY DEF SpanInv
<1> QED BY <1>m, <1>1, <1>2, <1>3, <1>4 DEF SpanInv

\* The span stays exact.
LEMMA SpanStep ==
    ASSUME TypeOK, MarksInv, SpanInv, [Next]_vars
    PROVE  SpanInv'
  BY BookSteps, SpanQuiet, SpanAdmits, SpanSettles

-----------------------------------------------------------------------------
(* What a verdict says of the two snapshots.                               *)

\* How much counter k has grown.
LEMMA Deltas ==
    ASSUME NEW s \in [Counters -> Nat], NEW e \in [Counters -> Nat], NEW k \in Counters
    PROVE  Delta(s, e)[k] = e[k] - s[k] /\ e[k] \in Nat /\ s[k] \in Nat
  BY DEF Delta

\* A sound run has neither denials nor failures between the snapshots.
LEMMA SoundMeans ==
    ASSUME NEW s \in [Counters -> Nat], NEW e \in [Counters -> Nat],
           relayDegradedSince(s, e) = "sound"
    PROVE  e["grantDenials"] = s["grantDenials"] /\ e["failures"] = s["failures"]
<1>1. {"grantDenials", "failures"} \subseteq DeliveryCounters \cap Counters
  BY DEF DeliveryCounters, Counters
<1> DEFINE d == Delta(s, e)
<1>2. ~relayRestarted(s, e) /\ ~(d["grantDenials"] > 0) /\ ~(d["failures"] > 0)
  BY DEF relayDegradedSince, DenialVerdict
<1>3. ~(e["grantDenials"] < s["grantDenials"]) /\ ~(e["failures"] < s["failures"])
  BY <1>1, <1>2 DEF relayRestarted
<1> HIDE DEF d
<1>4. /\ d["grantDenials"] = e["grantDenials"] - s["grantDenials"]
      /\ d["failures"] = e["failures"] - s["failures"]
      /\ \A k \in {"grantDenials", "failures"} : e[k] \in Nat /\ s[k] \in Nat
  BY <1>1, Deltas DEF d
<1> QED BY <1>2, <1>3, <1>4

\* A verdict that is not about the platform comes from the usage.
LEMMA UsageVerdict ==
    ASSUME NEW s \in [Counters -> Nat], NEW e \in [Counters -> Nat],
           NEW v \in {"scored", "modelUnused"}, relayVerdict(s, e) = v
    PROVE  relayDegradedSince(s, e) = "sound" /\ requireCompleteV7Usage(Delta(s, e)) = v
  BY DEF relayVerdict, relayDegradedSince, DenialVerdict

\* Scored: successes, each with its usage, and nothing without.
LEMMA ScoredMeans ==
    ASSUME NEW s \in [Counters -> Nat], NEW e \in [Counters -> Nat],
           relayVerdict(s, e) = "scored"
    PROVE  /\ e["grantDenials"] = s["grantDenials"] /\ e["failures"] = s["failures"]
           /\ e["usageUnavailable"] = s["usageUnavailable"]
           /\ e["usageAvailable"] > s["usageAvailable"]
<1> DEFINE d == Delta(s, e)
<1>1. relayDegradedSince(s, e) = "sound" /\ requireCompleteV7Usage(d) = "scored"
  BY UsageVerdict
<1>2. ValidUsage(d)
  BY <1>1 DEF requireCompleteV7Usage
<1>3. {"successes", "usageAvailable", "usageUnavailable"} \subseteq Counters
  BY DEF Counters, UsageCounters
<1>4. /\ d["usageUnavailable"] = 0 /\ d["successes"] > 0
      /\ d["successes"] = d["usageAvailable"]
  BY <1>2 DEF ValidUsage, CompleteUsage
<1> HIDE DEF d
<1>5. /\ d["usageUnavailable"] = e["usageUnavailable"] - s["usageUnavailable"]
      /\ d["usageAvailable"] = e["usageAvailable"] - s["usageAvailable"]
      /\ \A k \in {"usageUnavailable", "usageAvailable"} : e[k] \in Nat /\ s[k] \in Nat
  BY <1>3, Deltas DEF d
<1> QED BY <1>1, <1>4, <1>5, SoundMeans

\* The counters unusedV8ChatLane reads.
ChatCounters ==
    {"requests", "successes", "failures", "grantDenials", "callerCancels",
     "agentRequestRejections"}

\* Model unused: no counter of the chat lane has moved.
LEMMA UnusedMeans ==
    ASSUME NEW s \in [Counters -> Nat], NEW e \in [Counters -> Nat],
           relayVerdict(s, e) = "modelUnused"
    PROVE  \A k \in ChatCounters : e[k] = s[k]
<1> DEFINE d == Delta(s, e)
<1>1. requireCompleteV7Usage(d) = "modelUnused"
  BY UsageVerdict
<1>2. unusedV8ChatLane(d)
  BY <1>1 DEF requireCompleteV7Usage
<1>3. \A k \in ChatCounters : d[k] = 0 /\ k \in Counters
  BY <1>2 DEF unusedV8ChatLane, ChatCounters, Counters, DeliveryCounters, UsageCounters
<1> HIDE DEF d
<1> SUFFICES ASSUME NEW k \in ChatCounters PROVE e[k] = s[k]
  OBVIOUS
<1>4. d[k] = 0 /\ d[k] = e[k] - s[k] /\ e[k] \in Nat /\ s[k] \in Nat
  BY <1>3, Deltas DEF d
<1> QED BY <1>4

\* Declined: denials, all of them the agent's; or rejected requests, without a
\* denial, a failure or any other answer without usage.
LEMMA DeclinedMeans ==
    ASSUME NEW s \in [Counters -> Nat], NEW e \in [Counters -> Nat],
           relayVerdict(s, e) = "declined"
    PROVE  \/ /\ e["grantDenials"] > s["grantDenials"]
              /\ e["grantAgentDeclines"] - s["grantAgentDeclines"] = e["grantDenials"] - s["grantDenials"]
           \/ /\ e["grantDenials"] = s["grantDenials"] /\ e["failures"] = s["failures"]
              /\ e["agentRequestRejections"] > s["agentRequestRejections"]
              /\ e["agentRequestRejections"] - s["agentRequestRejections"]
                    >= e["usageUnavailable"] - s["usageUnavailable"]
<1> DEFINE d == Delta(s, e)
<1>1. {"grantDenials", "grantAgentDeclines", "failures", "agentRequestRejections",
       "usageUnavailable"} \subseteq Counters
  BY DEF Counters, DeliveryCounters, UsageCounters
<1>2. /\ d["grantDenials"] = e["grantDenials"] - s["grantDenials"]
      /\ d["grantAgentDeclines"] = e["grantAgentDeclines"] - s["grantAgentDeclines"]
      /\ d["agentRequestRejections"] = e["agentRequestRejections"] - s["agentRequestRejections"]
      /\ d["usageUnavailable"] = e["usageUnavailable"] - s["usageUnavailable"]
      /\ \A k \in {"grantDenials", "grantAgentDeclines", "agentRequestRejections",
                   "usageUnavailable"} : e[k] \in Nat /\ s[k] \in Nat
  BY <1>1, Deltas
<1>3. CASE relayDegradedSince(s, e) = "declined"
  <2>1. d["grantDenials"] > 0 /\ DenialVerdict(d) = "declined"
    BY <1>3 DEF relayDegradedSince
  <2>2. d["grantAgentDeclines"] = d["grantDenials"]
    BY <2>1 DEF DenialVerdict
  <2> HIDE DEF d
  <2> QED BY <1>2, <2>1, <2>2
<1>4. CASE relayDegradedSince(s, e) # "declined"
  <2>1. relayDegradedSince(s, e) = "sound" /\ requireCompleteV7Usage(d) = "declined"
    BY <1>4 DEF relayVerdict
  <2>2. d["agentRequestRejections"] > 0 /\ d["agentRequestRejections"] >= d["usageUnavailable"]
    BY <2>1 DEF requireCompleteV7Usage
  <2> HIDE DEF d
  <2> QED BY <1>2, <2>1, <2>2, SoundMeans
<1> QED BY <1>3, <1>4

-----------------------------------------------------------------------------
(* The verdict and the calls.                                              *)

VerdictInv ==
    /\ run.verdict = "scored" => phase = "closed"
    /\ ScoredRunsAreWhole
    /\ ChargesAreJustified

\* No call of a class was marked when its counter has not grown.
LEMMA NoneMarked ==
    ASSUME NEW k \in Tallied, Cardinality(During(Class(k))) = 0
    PROVE  During(Class(k)) = {}
  BY FiniteBooks, FS_EmptySet

\* A marked call has an outcome.
LEMMA MarkedOutcome ==
    ASSUME MarksInv, NEW c \in Calls, call[c].settled
    PROVE  call[c].outcome # "none"
  BY DEF MarksInv, MarkOK

\* The counters as differences.
LEMMA Differences ==
    ASSUME TypeOK, SpanInv, Measuring, NEW k \in Tallied
    PROVE  /\ n[k] \in Nat /\ run.start[k] \in Nat /\ Cardinality(During(Class(k))) \in Nat
           /\ n[k] - run.start[k] = Cardinality(During(Class(k)))
<1>1. n[k] \in Nat /\ run.start[k] \in Nat
  BY TalliedNames DEF TypeOK, RunType
<1>2. Cardinality(During(Class(k))) \in Nat
  BY FiniteBooks, FS_CardinalityType
<1>3. n[k] = run.start[k] + Cardinality(During(Class(k)))
  BY DEF SpanInv
<1> QED BY <1>1, <1>2, <1>3

\* A scored run is whole when it is concluded.
LEMMA ScoredAtEnd ==
    ASSUME TypeOK, MarksInv, SpanInv, Measuring, relayVerdict(run.start, n) = "scored"
    PROVE  /\ During({"success"}) # {}
           /\ During(Outcomes) = During({"success", "served", "refused", "cancelled"})
<1>t. run.start \in [Counters -> Nat] /\ n \in [Counters -> Nat]
  BY DEF TypeOK, RunType
<1>1. /\ n["grantDenials"] = run.start["grantDenials"] /\ n["failures"] = run.start["failures"]
      /\ n["usageUnavailable"] = run.start["usageUnavailable"]
      /\ n["usageAvailable"] > run.start["usageAvailable"]
  BY <1>t, ScoredMeans
<1>2. ASSUME NEW k \in {"grantDenials", "failures", "usageUnavailable"}
      PROVE  During(Class(k)) = {}
  BY <1>1, TalliedNames, Differences, NoneMarked
<1>3. During(Class("usageAvailable")) # {}
  <2>1. /\ n["usageAvailable"] - run.start["usageAvailable"] = Cardinality(During(Class("usageAvailable")))
        /\ n["usageAvailable"] \in Nat /\ run.start["usageAvailable"] \in Nat
    BY TalliedNames, Differences
  <2>2. Cardinality(During(Class("usageAvailable"))) # 0
    BY <1>1, <2>1
  <2> QED BY <2>2, FS_EmptySet
<1>4. /\ Class("grantDenials") = {"agentDenial", "platformDenial"}
      /\ Class("failures") = {"failure", "exhausted"}
      /\ Class("usageUnavailable") = {"gap", "rejection"}
      /\ Class("usageAvailable") = {"success"}
  BY DEF Class
<1>5. ASSUME NEW c \in Calls, call[c].settled, call[c].outcome \in Outcomes
      PROVE  call[c].outcome \in {"success", "served", "refused", "cancelled"}
  <2>1. /\ c \notin During({"agentDenial", "platformDenial"}) /\ c \notin During({"failure", "exhausted"})
        /\ c \notin During({"gap", "rejection"})
    BY <1>2, <1>4
  <2>2. call[c].outcome # "none"
    BY <1>5, MarkedOutcome
  <2> QED BY <1>5, <2>1, <2>2 DEF During, Outcomes
<1>6. {"success", "served", "refused", "cancelled"} \subseteq Outcomes
  BY DEF Outcomes
<1> QED BY <1>3, <1>4, <1>5, <1>6 DEF During

\* A charge for declines, or for rejected requests, is justified when it is made.
LEMMA DeclinedAtEnd ==
    ASSUME TypeOK, MarksInv, SpanInv, Measuring, relayVerdict(run.start, n) = "declined"
    PROVE  /\ During({"platformDenial"}) = {}
           /\ \/ During({"agentDenial"}) # {}
              \/ /\ During({"rejection"}) # {}
                 /\ During({"gap", "failure", "exhausted"}) = {}
<1>t. run.start \in [Counters -> Nat] /\ n \in [Counters -> Nat]
  BY DEF TypeOK, RunType
<1>c. /\ Class("grantDenials") = {"agentDenial", "platformDenial"}
      /\ Class("grantAgentDeclines") = {"agentDenial"}
      /\ Class("failures") = {"failure", "exhausted"}
      /\ Class("usageUnavailable") = {"gap", "rejection"}
      /\ Class("agentRequestRejections") = {"rejection"}
  BY DEF Class
<1> DEFINE Span(k) == n[k] - run.start[k]
<1>d. /\ Span("grantDenials") = Cardinality(During({"agentDenial", "platformDenial"}))
      /\ Span("grantAgentDeclines") = Cardinality(During({"agentDenial"}))
      /\ Span("failures") = Cardinality(During({"failure", "exhausted"}))
      /\ Span("usageUnavailable") = Cardinality(During({"gap", "rejection"}))
      /\ Span("agentRequestRejections") = Cardinality(During({"rejection"}))
  <2>1. \A k \in Tallied : Span(k) = Cardinality(During(Class(k)))
    BY Differences
  <2> HIDE DEF Span
  <2> QED BY <1>c, <2>1, TalliedNames
<1>e. \A k \in {"grantDenials", "grantAgentDeclines", "failures", "usageUnavailable",
                "agentRequestRejections"} : n[k] \in Nat /\ run.start[k] \in Nat
  BY TalliedNames, Differences
<1>g. \A O : Cardinality(During(O)) \in Nat
  BY FiniteBooks, FS_CardinalityType
<1>f. \A O : IsFiniteSet(During(O))
  BY FiniteBooks
<1>1. CASE /\ n["grantDenials"] > run.start["grantDenials"]
           /\ n["grantAgentDeclines"] - run.start["grantAgentDeclines"]
                = n["grantDenials"] - run.start["grantDenials"]
  <2>1. /\ Cardinality(During({"agentDenial"})) = Cardinality(During({"agentDenial", "platformDenial"}))
        /\ Cardinality(During({"agentDenial"})) # 0
    BY <1>1, <1>d, <1>e, <1>g
  <2>2. During({"agentDenial"}) \in SUBSET During({"agentDenial", "platformDenial"})
    BY DEF During
  <2>3. During({"agentDenial", "platformDenial"}) = During({"agentDenial"})
    BY <1>f, <2>1, <2>2, FS_Subset
  <2>4. During({"agentDenial"}) # {}
    BY <2>1, FS_EmptySet
  <2> QED BY <2>3, <2>4 DEF During
<1>2. CASE /\ n["grantDenials"] = run.start["grantDenials"] /\ n["failures"] = run.start["failures"]
           /\ n["agentRequestRejections"] > run.start["agentRequestRejections"]
           /\ n["agentRequestRejections"] - run.start["agentRequestRejections"]
                >= n["usageUnavailable"] - run.start["usageUnavailable"]
  <2>1. /\ Cardinality(During({"agentDenial", "platformDenial"})) = 0
        /\ Cardinality(During({"failure", "exhausted"})) = 0
        /\ Cardinality(During({"rejection"})) # 0
        /\ Cardinality(During({"rejection"})) >= Cardinality(During({"gap", "rejection"}))
        /\ Cardinality(During({"rejection"})) \in Nat
        /\ Cardinality(During({"gap", "rejection"})) \in Nat
    BY <1>2, <1>d, <1>e, <1>g
  <2>2. /\ During({"agentDenial", "platformDenial"}) = {} /\ During({"failure", "exhausted"}) = {}
        /\ During({"rejection"}) # {}
    BY <1>f, <2>1, FS_EmptySet
  <2>3. During({"rejection"}) \in SUBSET During({"gap", "rejection"})
    BY DEF During
  <2>4. Cardinality(During({"rejection"})) <= Cardinality(During({"gap", "rejection"}))
    BY <1>f, <2>3, FS_Subset
  <2>5. During({"gap", "rejection"}) = During({"rejection"})
    BY <1>f, <2>1, <2>3, <2>4, FS_Subset
  <2> QED BY <2>2, <2>5 DEF During
<1> QED BY <1>t, <1>1, <1>2, DeclinedMeans

\* A run that is said not to have used the model made no chat call.
LEMMA UnusedAtEnd ==
    ASSUME TypeOK, MarksInv, SpanInv, Measuring, relayVerdict(run.start, n) = "modelUnused",
           NEW c \in Calls, call[c].lane = "chat"
    PROVE  ~call[c].admitted /\ ~call[c].settled
<1>t. run.start \in [Counters -> Nat] /\ n \in [Counters -> Nat]
  BY DEF TypeOK, RunType
<1>1. \A k \in ChatCounters : n[k] = run.start[k]
  BY <1>t, UnusedMeans
<1>2. Admitted = {}
  <2>1. n["requests"] = run.start["requests"] + Cardinality(Admitted) /\ n["requests"] = run.start["requests"]
    BY <1>1 DEF SpanInv, ChatCounters
  <2>2. n["requests"] \in Nat /\ run.start["requests"] \in Nat /\ Cardinality(Admitted) \in Nat
    BY <1>t, TalliedNames, FiniteBooks, FS_CardinalityType
  <2>3. Cardinality(Admitted) = 0
    BY <2>1, <2>2
  <2> QED BY <2>3, FiniteBooks, FS_EmptySet
<1>3. ASSUME NEW k \in {"successes", "failures", "grantDenials", "callerCancels", "agentRequestRejections"}
      PROVE  During(Class(k)) = {}
  BY <1>1, TalliedNames, Differences, NoneMarked DEF ChatCounters
<1>c. /\ Class("successes") = {"success", "gap"} /\ Class("failures") = {"failure", "exhausted"}
      /\ Class("grantDenials") = {"agentDenial", "platformDenial"}
      /\ Class("callerCancels") = {"cancelled"} /\ Class("agentRequestRejections") = {"rejection"}
  BY DEF Class
<1>4. ~call[c].settled
  <2> SUFFICES ASSUME call[c].settled PROVE FALSE
    OBVIOUS
  <2>1. call[c].outcome \in Outcomes \ {"none", "served", "refused"}
    BY DEF TypeOK, CallType, MarksInv, MarkOK
  <2>2. /\ c \notin During({"success", "gap"}) /\ c \notin During({"failure", "exhausted"})
        /\ c \notin During({"agentDenial", "platformDenial"}) /\ c \notin During({"cancelled"})
        /\ c \notin During({"rejection"})
    BY <1>3, <1>c
  <2> QED BY <2>1, <2>2 DEF During, Outcomes
<1> QED BY <1>2, <1>4 DEF Admitted

\* A closed embedding phase stays closed, and nobody enters it.
LEMMA ClosedStays ==
    ASSUME TypeOK, [Next]_vars, phase = "closed"
    PROVE  phase' = "closed" /\ EmbeddingCalls' \subseteq EmbeddingCalls
<1>1. ASSUME NEW c \in Calls, Handler(c) \/ Client(c) PROVE phase' = phase /\ ~AdmitEmbedding(c)
  <2>1. ~AdmitEmbedding(c)
    BY DEF AdmitEmbedding
  <2> QED BY <1>1, <2>1 DEF Handler, Client, Chat, Embedding, RegisterCancel, DeliverAgain,
         TransportFails, Truncated, AtCapacity, TransientAnswer, FinalAnswer, SettleChat,
         NextAttempt, ChargeEmbedding, DeliverEmbedding, EmbeddingServed, EmbeddingAtCapacity,
         EmbeddingTransient, EmbeddingFails, SettleEmbedding, Interrupted, Notify, Leave,
         AdmitChat, HangUp, DeadlinePasses, others
<1>2. ASSUME Worker \/ Expire \/ Remove \/ UNCHANGED vars PROVE phase' = "closed"
  BY <1>2 DEF Worker, BeginEmbeddingPhase, TakeStart, EndPhase, PhaseEnded, TakeEnd,
              Expire, Remove, vars
<1>3. phase' = "closed"
  BY <1>1, <1>2 DEF Next
<1>4. ~\E c \in Calls : AdmitEmbedding(c)
  BY DEF AdmitEmbedding
<1>5. EmbeddingCalls' \subseteq EmbeddingCalls
  BY <1>4, InsideStep, InsideChange
<1> QED BY <1>3, <1>5

\* After the conclusion the marks of the measurement are frozen.
LEMMA Frozen ==
    ASSUME TypeOK, MarksInv, [Next]_vars, ~Measuring, NEW d \in Calls
    PROVE  /\ call'[d].lane = call[d].lane
           /\ call'[d].settled = call[d].settled /\ call'[d].admitted = call[d].admitted
           /\ call[d].settled => call'[d].outcome = call[d].outcome
<1>0. MarkOK(call[d]) /\ call[d] \in CallType
  BY DEF MarksInv, TypeOK
<1>1. CASE Quiet(call[d], call'[d])
  BY <1>1 DEF Quiet, SameBooks
<1>2. CASE Admits(d)
  <2>1. /\ call'[d].lane = call[d].lane /\ call'[d].settled = call[d].settled
        /\ call'[d].outcome = call[d].outcome /\ call'[d].admitted = Measuring
        /\ call[d].pc = "idle"
    BY <1>2 DEF Admits
  <2>2. call[d].admitted = FALSE
    BY <1>0, <2>1 DEF MarkOK, CallType
  <2>3. Measuring = FALSE
    BY DEF Measuring
  <2> QED BY <2>1, <2>2, <2>3
<1>3. ASSUME NEW o, NEW K, Settles(d, o, K)
      PROVE  /\ call'[d].lane = call[d].lane /\ call'[d].admitted = call[d].admitted
             /\ call'[d].settled = call[d].settled /\ ~call[d].settled
  <2>1. /\ call'[d].lane = call[d].lane /\ call'[d].admitted = call[d].admitted
        /\ call'[d].settled = Measuring
    BY <1>0, <1>3, SettledBooks DEF Settles
  <2>2. call[d].settled = FALSE
    BY <1>0, <1>3 DEF Settles, MarkOK, Ended, CallType
  <2>3. Measuring = FALSE
    BY DEF Measuring
  <2> QED BY <2>1, <2>2, <2>3
<1>4. CASE call'[d] = call[d]
  BY <1>4
<1> QED BY <1>1, <1>2, <1>3, <1>4, BookSteps

\* So are the sets of calls it was made from.
LEMMA FrozenSets ==
    ASSUME TypeOK, MarksInv, [Next]_vars, ~Measuring, NEW O
    PROVE  During(O)' = During(O)
  BY Frozen DEF During

\* The verdict is right when it is reached, and stays right.
LEMMA VerdictStep ==
    ASSUME TypeOK, DrainInv, MarksInv, SpanInv, VerdictInv, [Next]_vars
    PROVE  VerdictInv'
<1>r. run \in RunType
  BY DEF TypeOK
<1>1. CASE TakeEnd
  <2>1. /\ run.pc = "closed" /\ run.measured /\ UNCHANGED <<call, n, session, phase>>
    BY <1>1 DEF TakeEnd
  <2>2. Measuring
    BY <2>1 DEF SpanInv, Measuring
  <2>3. run'.verdict = IF session = "removed" THEN "unavailable" ELSE relayVerdict(run.start, n)
    BY <1>r, <1>1 DEF TakeEnd, RunType
  <2>4. \A O : During(O)' = During(O)
    BY <2>1 DEF During
  <2>5. EmbeddingCalls' = EmbeddingCalls
    BY <2>1 DEF EmbeddingCalls, InHandler
  <2>6. session # "removed" => phase = "closed" /\ EmbeddingCalls = {}
    BY <2>1 DEF DrainInv
  <2>7. ASSUME run'.verdict = "scored"
        PROVE  phase' = "closed" /\ EmbeddingCalls' = {}
               /\ During({"success"})' # {}
               /\ During(Outcomes)' = During({"success", "served", "refused", "cancelled"})'
    <3>1. session # "removed" /\ relayVerdict(run.start, n) = "scored"
      BY <2>3, <2>7
    <3> QED BY <2>1, <2>2, <2>4, <2>5, <2>6, <3>1, ScoredAtEnd
  <2>8. ASSUME run'.verdict = "declined"
        PROVE  /\ During({"platformDenial"})' = {}
               /\ \/ During({"agentDenial"})' # {}
                  \/ /\ During({"rejection"})' # {}
                     /\ During({"gap", "failure", "exhausted"})' = {}
    <3>1. relayVerdict(run.start, n) = "declined"
      BY <2>3, <2>8
    <3> QED BY <2>2, <2>4, <3>1, DeclinedAtEnd
  <2>9. ASSUME run'.verdict = "modelUnused", NEW c \in Calls, call'[c].lane = "chat"
        PROVE  ~call'[c].admitted /\ ~call'[c].settled
    <3>1. relayVerdict(run.start, n) = "modelUnused" /\ call' = call
      BY <2>1, <2>3, <2>9
    <3> QED BY <2>2, <2>9, <3>1, UnusedAtEnd
  <2> QED BY <2>7, <2>8, <2>9 DEF VerdictInv, ScoredRunsAreWhole, ChargesAreJustified
<1>2. CASE ~TakeEnd
  <2>1. run'.verdict = run.verdict
    BY <1>2, BookSteps, WorkerSpan
  <2>2. CASE run.verdict = "none"
    BY <2>1, <2>2 DEF VerdictInv, ScoredRunsAreWhole, ChargesAreJustified
  <2>3. CASE run.verdict # "none"
    <3>1. ~Measuring
      BY <2>3 DEF Measuring
    <3>2. \A O : During(O)' = During(O)
      BY <3>1, FrozenSets
    <3>3. ASSUME run.verdict = "scored"
          PROVE  phase' = "closed" /\ EmbeddingCalls' = {}
      BY <3>3, ClosedStays DEF VerdictInv, ScoredRunsAreWhole
    <3>4. ASSUME run.verdict = "modelUnused", NEW c \in Calls, call'[c].lane = "chat"
          PROVE  ~call'[c].admitted /\ ~call'[c].settled
      BY <3>1, <3>4, Frozen DEF VerdictInv, ChargesAreJustified
    <3>5. ScoredRunsAreWhole'
      BY <2>1, <3>2, <3>3 DEF VerdictInv, ScoredRunsAreWhole
    <3>6. ChargesAreJustified'
      BY <2>1, <3>2, <3>4 DEF VerdictInv, ChargesAreJustified
    <3> QED BY <2>1, <3>3, <3>5, <3>6 DEF VerdictInv
  <2> QED BY <2>2, <2>3
<1> QED BY <1>1, <1>2

-----------------------------------------------------------------------------
(* The theorems.                                                           *)

\* The invariant holds at the start, where nothing has been counted.
LEMMA AccountsStart ==
    ASSUME Init
    PROVE  MarksInv /\ TallyInv /\ SpanInv /\ VerdictInv
<1>1. \A c \in Calls : /\ call[c].pc = "idle" /\ call[c].outcome = "none"
                       /\ call[c].settled = FALSE /\ call[c].admitted = FALSE
  BY DEF Init, NewCall
<1>2. MarksInv
  BY <1>1 DEF MarksInv, MarkOK
<1>3. ASSUME NEW k \in Tallied PROVE n[k] = 0 /\ Cardinality(Booked(Class(k))) = 0
  <2>1. Booked(Class(k)) = {}
    BY <1>1, ClassOutcomes DEF Booked
  <2> QED BY <2>1, FS_EmptySet, TalliedNames DEF Init, NoCounts
<1>4. n["requests"] = 0 /\ Cardinality(Chatted) = 0
  <2>1. Chatted = {}
    BY <1>1 DEF Chatted
  <2> QED BY <2>1, FS_EmptySet, TalliedNames DEF Init, NoCounts
<1>5. ~run.measured /\ run.verdict = "none"
  BY DEF Init, NewRun
<1>6. SpanInv
  BY <1>1, <1>5 DEF SpanInv, Measuring
<1>7. VerdictInv
  BY <1>5 DEF VerdictInv, ScoredRunsAreWhole, ChargesAreJustified
<1> QED BY <1>2, <1>3, <1>4, <1>6, <1>7 DEF TallyInv

\* The accounts of a session are exact, the span of the measurement included.
LEMMA AccountsCorrect == Spec => [](MarksInv /\ TallyInv /\ SpanInv /\ VerdictInv)
<1> DEFINE Inv == MarksInv /\ TallyInv /\ SpanInv /\ VerdictInv
<1>1. Init => Inv
  BY AccountsStart
<1>2. TypeOK /\ DrainInv /\ Inv /\ [Next]_vars => Inv'
  BY MarksStep, TallyStep, SpanStep, VerdictStep
<1> HIDE DEF Inv
<1>3. Spec => []Inv
  BY <1>1, <1>2, TypeCorrect, DrainCorrect, PTL DEF Spec
<1> QED BY <1>3 DEF Inv

\* Calls booked under different outcomes add up.
LEMMA BookedSum ==
    ASSUME NEW O, NEW P, O \cap P = {}
    PROVE  /\ Cardinality(Booked(O \cup P)) = Cardinality(Booked(O)) + Cardinality(Booked(P))
           /\ Cardinality(Booked(O)) \in Nat /\ Cardinality(Booked(P)) \in Nat
<1>1. Booked(O \cup P) = Booked(O) \cup Booked(P)
  BY DEF Booked
<1>2. Booked(O) \cap Booked(P) = {}
  BY DEF Booked
<1>3. Cardinality(Booked(O) \cap Booked(P)) = 0
  BY <1>2, FS_EmptySet
<1>4. Cardinality(Booked(O)) \in Nat /\ Cardinality(Booked(P)) \in Nat
  BY FiniteBooks, FS_CardinalityType
<1>5. Cardinality(Booked(O) \cup Booked(P))
        = Cardinality(Booked(O)) + Cardinality(Booked(P)) - Cardinality(Booked(O) \cap Booked(P))
  BY FiniteBooks, FS_Union
<1> DEFINE both == Cardinality(Booked(O) \cup Booked(P))
           none == Cardinality(Booked(O) \cap Booked(P))
<1>6. Cardinality(Booked(O \cup P)) = both
  BY <1>1
<1> HIDE DEF both
<1> QED BY <1>3, <1>4, <1>5, <1>6 DEF both

\* The outcomes that are booked, in the groups of the five outcome counters.
LEMMA FiveGroups ==
    LET Size(O) == Cardinality(Booked(O)) IN
    /\ Size({"success", "gap"}) + Size({"failure", "exhausted"})
         + Size({"agentDenial", "platformDenial"}) + Size({"cancelled"}) + Size({"rejection"})
       = Size(Outcomes \ {"none", "served", "refused"})
    /\ Size({"success"}) + Size({"gap", "rejection"}) = Size({"success", "gap"}) + Size({"rejection"})
<1> DEFINE Size(O) == Cardinality(Booked(O))
           A == {"success", "gap"}
           B == {"failure", "exhausted"}
           C == {"agentDenial", "platformDenial"}
           D == {"cancelled"}
           E == {"rejection"}
           S == {"success"}
           G == {"gap"}
<1>0. /\ A \cap B = {} /\ (A \cup B) \cap C = {} /\ (A \cup B \cup C) \cap D = {}
      /\ (A \cup B \cup C \cup D) \cap E = {} /\ S \cap G = {} /\ G \cap E = {}
  OBVIOUS
<1>e. /\ A \cup B \cup C \cup D \cup E = Outcomes \ {"none", "served", "refused"}
      /\ S \cup G = A /\ G \cup E = {"gap", "rejection"}
  BY DEF Outcomes
<1> HIDE DEF A, B, C, D, E, S, G
<1>s. ASSUME NEW O, NEW P, O \cap P = {}
      PROVE  Size(O \cup P) = Size(O) + Size(P) /\ Size(O) \in Nat /\ Size(P) \in Nat
  BY <1>s, BookedSum
<1> HIDE DEF Size
<1>1. Size(A \cup B) = Size(A) + Size(B) /\ Size(A) \in Nat /\ Size(B) \in Nat
  BY <1>0, <1>s
<1>2. Size(A \cup B \cup C) = Size(A \cup B) + Size(C) /\ Size(C) \in Nat
  BY <1>0, <1>s
<1>3. Size(A \cup B \cup C \cup D) = Size(A \cup B \cup C) + Size(D) /\ Size(D) \in Nat
  BY <1>0, <1>s
<1>4. Size(A \cup B \cup C \cup D \cup E) = Size(A \cup B \cup C \cup D) + Size(E) /\ Size(E) \in Nat
  BY <1>0, <1>s
<1>5. Size(S \cup G) = Size(S) + Size(G) /\ Size(S) \in Nat /\ Size(G) \in Nat
  BY <1>0, <1>s
<1>6. Size(G \cup E) = Size(G) + Size(E)
  BY <1>0, <1>s
<1>7. Size(A) + Size(B) + Size(C) + Size(D) + Size(E) = Size(A \cup B \cup C \cup D \cup E)
  BY <1>1, <1>2, <1>3, <1>4
<1>8. Size(S) + Size(G \cup E) = Size(S \cup G) + Size(E)
  BY <1>4, <1>5, <1>6
<1>9. /\ Size(A) + Size(B) + Size(C) + Size(D) + Size(E)
           = Size(Outcomes \ {"none", "served", "refused"})
      /\ Size(S) + Size({"gap", "rejection"}) = Size(A) + Size(E)
  BY <1>e, <1>7, <1>8, SMTT(60)
<1> QED BY <1>9 DEF Size, A, B, C, D, E, S

\* Every call is booked exactly once: however the two lanes interleave, the five
\* outcome counters add up to the calls that have ended, the requests are the chat
\* calls admitted, and usage is present or missing once per success or rejection.
THEOREM EveryCallIsBookedOnce == Spec => []CallsBookedOnce
<1>1. TypeOK /\ MarksInv /\ TallyInv => CallsBookedOnce
  <2> SUFFICES ASSUME TypeOK, MarksInv, TallyInv PROVE CallsBookedOnce
    OBVIOUS
  <2> DEFINE Size(O) == Cardinality(Booked(O))
  <2>1. /\ n["successes"] = Size({"success", "gap"}) /\ n["failures"] = Size({"failure", "exhausted"})
        /\ n["grantDenials"] = Size({"agentDenial", "platformDenial"})
        /\ n["callerCancels"] = Size({"cancelled"}) /\ n["agentRequestRejections"] = Size({"rejection"})
        /\ n["usageAvailable"] = Size({"success"}) /\ n["usageUnavailable"] = Size({"gap", "rejection"})
    BY TalliedNames DEF TallyInv, Class
  <2>2. {c \in Calls : call[c].outcome \notin {"none", "served", "refused"}}
          = Booked(Outcomes \ {"none", "served", "refused"})
    BY DEF Booked, TypeOK, CallType
  <2>3. n["requests"] = Cardinality({c \in Calls : call[c].lane = "chat" /\ call[c].pc # "idle"})
    BY DEF TallyInv, Chatted
  <2>4. n["successes"] + n["failures"] + n["grantDenials"] + n["callerCancels"]
          + n["agentRequestRejections"]
        = Cardinality({c \in Calls : call[c].outcome \notin {"none", "served", "refused"}})
    BY <2>1, <2>2, FiveGroups
  <2>5. n["usageAvailable"] + n["usageUnavailable"] = n["successes"] + n["agentRequestRejections"]
    BY <2>1, FiveGroups
  <2> QED BY <2>3, <2>4, <2>5 DEF CallsBookedOnce, Number
<1> QED BY <1>1, TypeCorrect, AccountsCorrect, PTL

\* A run that is scored had a chat call with a metered success while the worker was
\* measuring, lost no call of either lane to the platform, to the grant or to
\* missing usage, and leaves no embedding call undecided, for all interleavings.
THEOREM ScoredIsWhole == Spec => []ScoredRunsAreWhole
<1>1. VerdictInv => ScoredRunsAreWhole
  BY DEF VerdictInv
<1> QED BY <1>1, AccountsCorrect, PTL

\* A run charged to the harness is charged for what the harness did between the
\* snapshots, whatever was in flight at either of them.
THEOREM ChargesAreSound == Spec => []ChargesAreJustified
<1>1. VerdictInv => ChargesAreJustified
  BY DEF VerdictInv
<1> QED BY <1>1, AccountsCorrect, PTL
=============================================================================
