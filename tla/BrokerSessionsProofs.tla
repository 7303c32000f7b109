------------------------ MODULE BrokerSessionsProofs ------------------------
(***************************************************************************)
(* Proofs about BrokerSessions for every set of sessions, runs, calls and  *)
(* addresses, any table capacity and any limit of calls per source.        *)
(***************************************************************************)
EXTENDS BrokerSessions, FiniteSetTheorems, TLAPS

-----------------------------------------------------------------------------
(* The inductive invariant.                                                *)

\* A session is issued once: before it there is nothing to remove, and what is out
\* of the table and destroyed has no credentials.  A secret is gone before the
\* bearer it is traded for exists, so an unopened session is an unclaimed one.
SessionInv ==
    /\ table \cap doomed = {}
    /\ \A s \in Sessions :
          /\ ~Born(s) => s \notin table \cup doomed /\ sess[s].run = NoRun
          /\ s \notin table \cup doomed => ~sess[s].secret /\ ~sess[s].bearer
          /\ sess[s].secret => ~sess[s].bearer /\ sess[s].run = NoRun

\* Where a worker whose claim succeeded can be.
Claimed == {"start", "bind", "binding", "serving", "restart", "rebind", "rebinding",
            "stop", "remove", "removed"}

\* A run and the session it claimed name each other, from the claim on and for good.
ClaimInv ==
    /\ \A r \in Runs : pc[r] \in Claimed => sess[want[r]].run = r
    /\ \A s \in Sessions : sess[s].run # NoRun =>
          want[sess[s].run] = s /\ pc[sess[s].run] \in Claimed
    /\ \A r \in Runs : pc[r] = "removed" => want[r] \notin table

\* Only a direct harness sits at the loopback address.
AddressInv == \A r \in Runs \ Direct : addr[r] # Loopback

\* Where a call is between its admission and the deferred decrement.
InFlight == {"admitted", "checked", "upstream", "leaving"}

\* A routed call keeps the one session it was routed to.
CallInv ==
    \A c \in Calls : call[c].pc \in InFlight \cup {"routed"} =>
        \E s \in Sessions : call[c].sess = {s}

IInv ==
    /\ TypeOK
    /\ IsFiniteSet(table)
    /\ SessionInv
    /\ ClaimInv
    /\ SourceFollowsContainer
    /\ AddressInv
    /\ CallInv
    /\ InFlightCountsCalls

-----------------------------------------------------------------------------
(* Types.                                                                  *)

Session == [clock : Clocks, secret : BOOLEAN, bearer : BOOLEAN,
            run : Runs \cup {NoRun},
            source : Addresses \cup {Loopback, NoAddress},
            inFlight : 0..PerSourceConcurrency]

CallState == {"idle", "arrived", "routed", "admitted", "checked", "upstream", "leaving", "done"}

CallType == [pc : CallState, run : Runs \cup {NoRun},
             source : Addresses \cup {Loopback, NoAddress},
             sess : {{}} \cup {{s} : s \in Sessions}, cancelled : BOOLEAN]

WorkerState == {"submit", "refused", "claim"} \cup Claimed

\* TypeOK by the parts that change together.
TableType ==
    /\ table \subseteq Sessions /\ IsFiniteSet(table) /\ Cardinality(table) <= MaxSessions
    /\ doomed \subseteq Sessions
SessType == sess \in [Sessions -> Session]
PlatformType ==
    /\ activation \in [Sessions -> {"none", "found", "answered"}]
    /\ sweep \in [Sweepers -> SUBSET Sessions]
WorkerType ==
    /\ pc \in [Runs -> WorkerState]
    /\ want \in [Runs -> Sessions]
    /\ addr \in [Runs -> Addresses \cup {Loopback, NoAddress}]
    /\ old \in [Runs -> Addresses \cup {NoAddress}]
CallsType == call \in [Calls -> CallType]

\* The parts are TypeOK and the finiteness of the table.
LEMMA TypeParts ==
    TypeOK /\ IsFiniteSet(table) <=>
        TableType /\ SessType /\ PlatformType /\ WorkerType /\ CallsType
  <1>1. WorkerState = {"submit", "claim", "refused", "start", "bind", "binding", "serving",
                       "restart", "rebind", "rebinding", "stop", "remove", "removed"}
    BY DEF WorkerState, Claimed
  <1> QED BY <1>1, Zenon DEF TypeOK, TableType, SessType, PlatformType, WorkerType, CallsType,
                    Session, CallType, CallState

\* The initial state satisfies the inductive invariant.
LEMMA InitIInv == Init => IInv
  <1> SUFFICES ASSUME Init
               PROVE  IInv
    OBVIOUS
  <1> USE DEF Init
  <1>1. IsFiniteSet(table) /\ Cardinality(table) = 0
    BY FS_EmptySet
  <1>2. TypeOK
    BY <1>1, BrokerAssumption DEF TypeOK, Clocks, NoCall
  <1>3. SessionInv
    BY DEF SessionInv, Born
  <1>4. ClaimInv
    BY DEF ClaimInv, Claimed
  <1>5. SourceFollowsContainer /\ AddressInv
    BY BrokerAssumption DEF SourceFollowsContainer, AddressInv
  <1>6. CallInv
    BY DEF CallInv, InFlight, NoCall
  <1>7. InFlightCountsCalls
    <2>1. \A s \in Sessions :
             {c \in Calls : call[c].sess = {s}
                 /\ call[c].pc \in {"admitted", "checked", "upstream", "leaving"}} = {}
      BY DEF NoCall
    <2> QED BY <2>1, FS_EmptySet DEF InFlightCountsCalls
  <1> QED BY <1>1, <1>2, <1>3, <1>4, <1>5, <1>6, <1>7 DEF IInv

\* A call past its routing has a target, and it is the session it was routed to.
LEMMA TargetIsTheSession ==
    ASSUME CallInv, NEW c \in Calls, call[c].pc \in InFlight \cup {"routed"}
    PROVE  Target(c) \in Sessions /\ call[c].sess = {Target(c)}
  BY DEF CallInv, Target

\* Taking sessions out of the table keeps it finite and within its capacity.
LEMMA EvictType ==
    ASSUME TableType, NEW S, Evict(S)
    PROVE  TableType'
  <1>1. table' \subseteq table
    BY DEF Evict
  <1>2. IsFiniteSet(table') /\ Cardinality(table') <= Cardinality(table)
    BY <1>1, FS_Subset DEF TableType
  <1>3. Cardinality(table) \in Nat /\ Cardinality(table') \in Nat
    BY <1>2, FS_CardinalityType DEF TableType
  <1> QED BY <1>1, <1>2, <1>3, BrokerAssumption DEF Evict, TableType

\* The parts of TypeOK after a step.
TypesKept == TableType' /\ SessType' /\ PlatformType' /\ WorkerType' /\ CallsType'

\* The writes to one session.
Issued(x) == [x EXCEPT !.clock = "prepared", !.secret = TRUE]
Opened(x) == [x EXCEPT !.secret = FALSE, !.bearer = TRUE, !.clock = "live"]
Aged(x, k) == [x EXCEPT !.clock = k]
Emptied(x) == [x EXCEPT !.secret = FALSE, !.bearer = FALSE]
ClaimedBy(x, r) == [x EXCEPT !.run = r]
BoundTo(x, a) == [x EXCEPT !.source = a]
Counting(x, n) == [x EXCEPT !.inFlight = n]

\* What each write changes of a session and what it keeps.
LEMMA SessionWrites ==
    ASSUME NEW x \in Session
    PROVE  /\ Issued(x) \in Session
           /\ Issued(x).clock = "prepared" /\ Issued(x).secret = TRUE
           /\ Issued(x).bearer = x.bearer /\ Issued(x).run = x.run
           /\ Issued(x).source = x.source /\ Issued(x).inFlight = x.inFlight
           /\ Opened(x) \in Session
           /\ Opened(x).clock = "live" /\ Opened(x).secret = FALSE
           /\ Opened(x).bearer = TRUE /\ Opened(x).run = x.run
           /\ Opened(x).source = x.source /\ Opened(x).inFlight = x.inFlight
           /\ Emptied(x) \in Session
           /\ Emptied(x).clock = x.clock /\ Emptied(x).secret = FALSE
           /\ Emptied(x).bearer = FALSE /\ Emptied(x).run = x.run
           /\ Emptied(x).source = x.source /\ Emptied(x).inFlight = x.inFlight
  BY DEF Session, Clocks, Issued, Opened, Emptied

\* The same for the writes of one field.
LEMMA FieldWrites ==
    ASSUME NEW x \in Session
    PROVE  /\ \A k \in Clocks :
                /\ Aged(x, k) \in Session
                /\ Aged(x, k).clock = k /\ Aged(x, k).secret = x.secret
                /\ Aged(x, k).bearer = x.bearer /\ Aged(x, k).run = x.run
                /\ Aged(x, k).source = x.source /\ Aged(x, k).inFlight = x.inFlight
           /\ \A r \in Runs :
                /\ ClaimedBy(x, r) \in Session
                /\ ClaimedBy(x, r).clock = x.clock /\ ClaimedBy(x, r).secret = x.secret
                /\ ClaimedBy(x, r).bearer = x.bearer /\ ClaimedBy(x, r).run = r
                /\ ClaimedBy(x, r).source = x.source /\ ClaimedBy(x, r).inFlight = x.inFlight
           /\ \A a \in Addresses \cup {Loopback, NoAddress} :
                /\ BoundTo(x, a) \in Session
                /\ BoundTo(x, a).clock = x.clock /\ BoundTo(x, a).secret = x.secret
                /\ BoundTo(x, a).bearer = x.bearer /\ BoundTo(x, a).run = x.run
                /\ BoundTo(x, a).source = a /\ BoundTo(x, a).inFlight = x.inFlight
           /\ \A n \in 0..PerSourceConcurrency :
                /\ Counting(x, n) \in Session
                /\ Counting(x, n).clock = x.clock /\ Counting(x, n).secret = x.secret
                /\ Counting(x, n).bearer = x.bearer /\ Counting(x, n).run = x.run
                /\ Counting(x, n).source = x.source /\ Counting(x, n).inFlight = n
  BY DEF Session, Aged, ClaimedBy, BoundTo, Counting

\* What one write leaves of one session and of all the others.
Wrote(s, x) ==
    /\ SessType'
    /\ sess'[s] = x
    /\ \A t \in Sessions \ {s} : sess'[t] = sess[t]

\* An update of one session leaves all the others as they are.
LEMMA OneSession ==
    ASSUME SessType, NEW s \in Sessions, NEW x \in Session, sess' = [sess EXCEPT ![s] = x]
    PROVE  Wrote(s, x)
  BY DEF SessType, Wrote

\* What the platform writes to a session.
LEMMA PlatformWrites ==
    ASSUME SessType, NEW s \in Sessions
    PROVE  /\ Prepare(s) => Wrote(s, Issued(sess[s]))
           /\ Activate(s) => IF sess[s].secret THEN Wrote(s, Opened(sess[s]))
                                                ELSE UNCHANGED sess
           /\ TimePasses(s) => \E k \in Clocks \ {"unborn"} :
                                  sess[s].clock # "unborn" /\ Wrote(s, Aged(sess[s], k))
           /\ Destroy(s) => Wrote(s, Emptied(sess[s]))
           /\ LookupActivation(s) \/ CancelSession(s) => UNCHANGED sess
  <1>1. sess[s] \in Session
    BY DEF SessType
  <1>2. ASSUME Prepare(s)
        PROVE  Wrote(s, Issued(sess[s]))
    <2>0. Issued(sess[s]) \in Session
      BY <1>1, SessionWrites
    <2>1. sess' = [sess EXCEPT ![s] = Issued(sess[s])]
      BY <1>2 DEF SessType, Prepare, Issued
    <2> QED BY <2>0, <2>1, OneSession
  <1>3. ASSUME Activate(s)
        PROVE  IF sess[s].secret THEN Wrote(s, Opened(sess[s])) ELSE UNCHANGED sess
    <2>1. CASE sess[s].secret
      <3>0. Opened(sess[s]) \in Session
        BY <1>1, SessionWrites
      <3>1. sess' = [sess EXCEPT ![s] = Opened(sess[s])]
        BY <1>3, <2>1 DEF SessType, Activate, Opened
      <3> QED BY <2>1, <3>0, <3>1, OneSession
    <2> QED BY <1>3, <2>1 DEF Activate
  <1>4. ASSUME TimePasses(s)
        PROVE  \E k \in Clocks \ {"unborn"} :
                  sess[s].clock # "unborn" /\ Wrote(s, Aged(sess[s], k))
    <2>1. PICK k \in {"stale", "over"} :
             sess[s].clock # "unborn" /\ sess' = [sess EXCEPT ![s] = Aged(sess[s], k)]
      BY <1>4 DEF SessType, TimePasses, Aged
    <2>2. k \in Clocks \ {"unborn"}
      BY DEF Clocks
    <2>3. Aged(sess[s], k) \in Session
      BY <1>1, <2>2, FieldWrites
    <2>4. Wrote(s, Aged(sess[s], k))
      BY <2>1, <2>3, OneSession
    <2> QED BY <2>1, <2>2, <2>4
  <1>5. ASSUME Destroy(s)
        PROVE  Wrote(s, Emptied(sess[s]))
    <2>0. Emptied(sess[s]) \in Session
      BY <1>1, SessionWrites
    <2>1. sess' = [sess EXCEPT ![s] = Emptied(sess[s])]
      BY <1>5 DEF SessType, Destroy, Emptied
    <2> QED BY <2>0, <2>1, OneSession
  <1> QED BY <1>2, <1>3, <1>4, <1>5 DEF LookupActivation, CancelSession

\* The platform's actions keep the types.
LEMMA PlatformTypes ==
    ASSUME TableType, SessType, PlatformType, WorkerType, CallsType, NEW s \in Sessions,
           \/ Prepare(s) \/ LookupActivation(s) \/ Activate(s)
           \/ CancelSession(s) \/ TimePasses(s) \/ Destroy(s)
    PROVE  TypesKept
  <1> USE DEF platformOnly
  <1>1. TableType'
    <2>1. CASE Prepare(s)
      <3>1. Cardinality(table) \in Nat /\ table' = table \cup {s}
        BY <2>1, FS_CardinalityType DEF Prepare, TableType
      <3>2. IsFiniteSet(table') /\ Cardinality(table') <= Cardinality(table) + 1
        BY <3>1, FS_AddElement, SMTT(60) DEF TableType
      <3>3. IsFiniteSet(table') /\ Cardinality(table') \in Nat
        BY <3>2, FS_CardinalityType
      <3>4. Cardinality(table') <= MaxSessions
        BY <2>1, <3>1, <3>2, <3>3, BrokerAssumption DEF Prepare
      <3> QED BY <2>1, <3>3, <3>4 DEF Prepare, TableType
    <2>2. CASE CancelSession(s)
      BY <2>2, EvictType DEF CancelSession
    <2> QED BY <2>1, <2>2 DEF LookupActivation, Activate, TimePasses, Destroy, TableType
  <1>2. SessType'
    BY PlatformWrites DEF Wrote, SessType
  <1>3. PlatformType' /\ WorkerType'
    BY DEF PlatformType, WorkerType, Prepare, LookupActivation, Activate, CancelSession,
           TimePasses, Destroy
  <1>4. CallsType'
    <2>1. CASE Destroy(s)
      <3>1. ASSUME NEW c \in Calls
            PROVE  /\ call[c] \in CallType
                   /\ [call[c] EXCEPT !.cancelled = TRUE] \in CallType
        BY DEF CallsType, CallType
      <3> QED BY <2>1, <3>1 DEF Destroy, CallsType
    <2> QED BY <2>1 DEF CallsType, Prepare, LookupActivation, Activate, CancelSession, TimePasses
  <1> QED BY <1>1, <1>2, <1>3, <1>4 DEF TypesKept

\* The two halves of pruneExpired keep the types.
LEMMA SweepTypes ==
    ASSUME TableType, SessType, PlatformType, WorkerType, CallsType,
           PrepareSweep \/ \E a \in Sweepers : RemoveCollected(a)
    PROVE  TypesKept
  <1> USE DEF platformOnly
  <1>1. SessType' /\ WorkerType' /\ CallsType'
    BY DEF PrepareSweep, RemoveCollected, SessType, WorkerType, CallsType
  <1>2. PlatformType'
    BY DEF PrepareSweep, RemoveCollected, Collect, PlatformType, TableType, Sweepers
  <1>3. TableType'
    <2>1. ASSUME NEW a \in Sweepers, RemoveCollected(a)
          PROVE  TableType'
      BY <2>1, EvictType DEF RemoveCollected
    <2>2. CASE PrepareSweep
      BY <2>2 DEF PrepareSweep, TableType
    <2> QED BY <2>1, <2>2
  <1> QED BY <1>1, <1>2, <1>3 DEF TypesKept

\* What a worker writes to a session: its own claim, or the source of the session it
\* holds.
LEMMA WorkerWrites ==
    ASSUME SessType, WorkerType, NEW r \in Runs, Worker(r)
    PROVE  \/ UNCHANGED sess
           \/ /\ pc[r] = "claim" /\ pc' = [pc EXCEPT ![r] = "start"]
              /\ sess[want[r]].run = NoRun /\ sess[want[r]].bearer
              /\ Wrote(want[r], ClaimedBy(sess[want[r]], r))
           \/ /\ pc[r] \in {"binding", "rebinding"} /\ pc' = [pc EXCEPT ![r] = "serving"]
              /\ sess[want[r]].run = r
              /\ Wrote(want[r], BoundTo(sess[want[r]], addr[r]))
  <1> DEFINE s == want[r]
  <1>1. s \in Sessions /\ sess[s] \in Session
        /\ addr[r] \in Addresses \cup {Loopback, NoAddress}
    BY DEF SessType, WorkerType
  <1>2. CASE Claim(r) /\ sess' # sess
    <2>1. /\ pc[r] = "claim" /\ pc' = [pc EXCEPT ![r] = "start"]
          /\ sess[s].run = NoRun /\ sess[s].bearer
          /\ sess' = [sess EXCEPT ![s] = ClaimedBy(sess[s], r)]
      BY <1>1, <1>2 DEF Claim, Go, SessType, ClaimedBy
    <2>2. ClaimedBy(sess[s], r) \in Session
      BY <1>1, FieldWrites
    <2> QED BY <1>1, <2>1, <2>2, OneSession
  <1>3. CASE (BindSource(r) \/ ReplaceBoundSource(r)) /\ sess' # sess
    <2>1. /\ pc[r] \in {"binding", "rebinding"} /\ pc' = [pc EXCEPT ![r] = "serving"]
          /\ sess[s].run = r
          /\ sess' = [sess EXCEPT ![s] = BoundTo(sess[s], addr[r])]
      BY <1>1, <1>3 DEF BindSource, ReplaceBoundSource, Go, SessType, BoundTo
    <2>2. BoundTo(sess[s], addr[r]) \in Session
      BY <1>1, FieldWrites
    <2> QED BY <1>1, <2>1, <2>2, OneSession
  <1> QED BY <1>2, <1>3 DEF Worker, LookupSession, Start, Obtain, StopForRestart, StartAgain,
                            EndServing, Stop, RemoveRun, brokerOnly

\* The worker's actions keep the types.
LEMMA WorkerTypes ==
    ASSUME TableType, SessType, PlatformType, WorkerType, CallsType, AddressInv,
           NEW r \in Runs, Worker(r)
    PROVE  TypesKept
  <1> USE DEF brokerOnly, Go
  <1>1. PlatformType' /\ CallsType'
    BY DEF Worker, LookupSession, Claim, Start, Obtain, BindSource, StopForRestart, StartAgain,
           ReplaceBoundSource, EndServing, Stop, RemoveRun, PlatformType, CallsType
  <1>2. TableType'
    <2>1. CASE RemoveRun(r)
      BY <2>1, EvictType DEF RemoveRun
    <2> QED BY <2>1 DEF Worker, LookupSession, Claim, Start, Obtain, BindSource, StopForRestart,
                        StartAgain, ReplaceBoundSource, EndServing, Stop, TableType
  <1>3. SessType'
    BY WorkerWrites DEF Wrote, SessType
  <1>4. WorkerType'
    <2> USE DEF WorkerType, WorkerState, Claimed
    <2>1. CASE LookupSession(r)
      BY <2>1 DEF LookupSession
    <2>2. CASE Start(r) \/ StartAgain(r)
      BY <2>2 DEF Start, StartAgain, Obtain, FreeAddresses
    <2>3. CASE StopForRestart(r)
      BY <2>3 DEF StopForRestart, AddressInv
    <2>4. CASE Claim(r) \/ BindSource(r) \/ ReplaceBoundSource(r)
      BY <2>4 DEF Claim, BindSource, ReplaceBoundSource
    <2>5. CASE EndServing(r) \/ Stop(r) \/ RemoveRun(r)
      BY <2>5 DEF EndServing, Stop, RemoveRun
    <2> QED BY <2>1, <2>2, <2>3, <2>4, <2>5 DEF Worker
  <1> QED BY <1>1, <1>2, <1>3, <1>4 DEF TypesKept

\* A call counted in flight is one the session's counter counts.
LEMMA CountedCall ==
    ASSUME InFlightCountsCalls, NEW c \in Calls, NEW s \in Sessions,
           call[c].sess = {s}, call[c].pc \in InFlight
    PROVE  sess[s].inFlight \in Nat \ {0}
  <1> DEFINE counted == {d \in Calls : call[d].sess = {s}
                           /\ call[d].pc \in {"admitted", "checked", "upstream", "leaving"}}
  <1>1. c \in counted
    BY DEF InFlight
  <1>2. IsFiniteSet(counted)
    BY FS_Subset, BrokerAssumption
  <1>3. Cardinality(counted) \in Nat /\ Cardinality(counted) # 0
    BY <1>1, <1>2, FS_EmptySet, FS_CardinalityType
  <1> QED BY <1>3 DEF InFlightCountsCalls

\* What a call writes to a session: the counter alone, up at its admission and down
\* when it leaves.
LEMMA CallWrites ==
    ASSUME SessType, CallInv, InFlightCountsCalls, NEW c \in Calls, Arrive(c) \/ Call(c)
    PROVE  \/ UNCHANGED sess /\ ~Admit(c) /\ ~Leave(c)
           \/ UNCHANGED sess /\ Admit(c) /\ call' = [call EXCEPT ![c].pc = "done"]
           \/ /\ Target(c) \in Sessions /\ call[c].sess = {Target(c)}
              /\ call[c].pc = "routed" /\ call' = [call EXCEPT ![c].pc = "admitted"]
              /\ sess[Target(c)].inFlight + 1 \in 0..PerSourceConcurrency
              /\ Wrote(Target(c), Counting(sess[Target(c)], sess[Target(c)].inFlight + 1))
           \/ /\ Target(c) \in Sessions /\ call[c].sess = {Target(c)}
              /\ call[c].pc = "leaving" /\ call' = [call EXCEPT ![c].pc = "done"]
              /\ sess[Target(c)].inFlight - 1 \in 0..PerSourceConcurrency
              /\ Wrote(Target(c), Counting(sess[Target(c)], sess[Target(c)].inFlight - 1))
  <1> DEFINE s == Target(c)
  <1>1. CASE Admit(c) /\ sess' # sess
    <2>1. s \in Sessions /\ call[c].sess = {s} /\ call[c].pc = "routed"
      BY <1>1, TargetIsTheSession DEF Admit
    <2>2. sess[s] \in Session /\ sess[s].inFlight \in 0..PerSourceConcurrency
      BY <2>1 DEF SessType, Session
    <2> DEFINE n == sess[s].inFlight + 1
    <2>3. n \in 0..PerSourceConcurrency
      BY <1>1, <2>2, BrokerAssumption DEF Admit
    <2>4. /\ sess' = [sess EXCEPT ![s] = Counting(sess[s], n)]
          /\ call' = [call EXCEPT ![c].pc = "admitted"]
      BY <1>1, <2>1 DEF Admit, CallTo, SessType, Counting
    <2> HIDE DEF n
    <2>5. Counting(sess[s], n) \in Session
      BY <2>2, <2>3, FieldWrites
    <2>6. Wrote(s, Counting(sess[s], n))
      BY <2>1, <2>4, <2>5, OneSession
    <2> QED BY <2>1, <2>3, <2>4, <2>6 DEF n
  <1>2. CASE Leave(c)
    <2>1. s \in Sessions /\ call[c].sess = {s} /\ call[c].pc = "leaving"
      BY <1>2, TargetIsTheSession DEF Leave, InFlight
    <2>2. sess[s] \in Session /\ sess[s].inFlight \in 0..PerSourceConcurrency
          /\ sess[s].inFlight \in Nat \ {0}
      BY <2>1, CountedCall DEF SessType, Session, InFlight
    <2> DEFINE n == sess[s].inFlight - 1
    <2>3. n \in 0..PerSourceConcurrency
      BY <2>2, BrokerAssumption
    <2>4. /\ sess' = [sess EXCEPT ![s] = Counting(sess[s], n)]
          /\ call' = [call EXCEPT ![c].pc = "done"]
      BY <1>2, <2>1 DEF Leave, CallTo, SessType, Counting
    <2> HIDE DEF n
    <2>5. Counting(sess[s], n) \in Session
      BY <2>2, <2>3, FieldWrites
    <2>6. Wrote(s, Counting(sess[s], n))
      BY <2>1, <2>4, <2>5, OneSession
    <2> QED BY <2>1, <2>3, <2>4, <2>6 DEF n
  <1>3. CASE Admit(c) /\ sess' = sess
    <2>1. s \in Sessions /\ sess[s].inFlight \in 0..PerSourceConcurrency
      BY <1>3, TargetIsTheSession DEF Admit, SessType, Session
    <2>2. sess' = [sess EXCEPT ![s].inFlight = @ + 1] =>
             sess'[s].inFlight = sess[s].inFlight + 1
      BY <2>1 DEF SessType, Session
    <2> QED BY <1>3, <2>1, <2>2, BrokerAssumption DEF Admit, CallTo
  <1> QED BY <1>1, <1>2, <1>3 DEF Arrive, Call, Route, Check, Register, Complete

\* The steps of a call keep the types: the counter goes neither below zero nor above
\* the limit.
LEMMA CallTypes ==
    ASSUME TableType, SessType, PlatformType, WorkerType, CallsType, CallInv,
           InFlightCountsCalls, NEW c \in Calls, Arrive(c) \/ Call(c)
    PROVE  TypesKept
  <1> USE DEF callOnly, CallTo
  <1>1. TableType' /\ WorkerType'
    BY ZenonT(60) DEF Arrive, Call, Route, Admit, Check, Register, Complete, Leave, TableType, WorkerType
  <1>2. PlatformType'
    BY DEF Arrive, Call, Route, Admit, Check, Register, Complete, Leave, PlatformType,
           TableType, Collect
  <1>3. CallsType'
    <2> USE DEF CallsType, CallType, CallState
    <2>1. CASE Arrive(c)
      <3>1. PICK r \in Runs :
               call' = [call EXCEPT ![c] = [NoCall EXCEPT !.pc = "arrived", !.run = r,
                                                          !.source = addr[r]]]
        BY <2>1 DEF Arrive
      <3>2. addr[r] \in Addresses \cup {Loopback, NoAddress}
        BY DEF WorkerType
      <3>3. [NoCall EXCEPT !.pc = "arrived", !.run = r, !.source = addr[r]] \in CallType
        BY <3>2 DEF NoCall
      <3> QED BY <3>1, <3>3
    <2>2. CASE Route(c)
      BY <2>2 DEF Route, TableType
    <2>3. CASE Admit(c) \/ Check(c) \/ Register(c) \/ Complete(c) \/ Leave(c)
      BY <2>3 DEF Admit, Check, Register, Complete, Leave
    <2> QED BY <2>1, <2>2, <2>3 DEF Call
  <1>4. SessType'
    BY CallWrites DEF Wrote, SessType
  <1> QED BY <1>1, <1>2, <1>3, <1>4 DEF TypesKept

\* Every step keeps the types.
LEMMA TypeStep ==
    ASSUME IInv, [Next]_vars
    PROVE  TypeOK' /\ IsFiniteSet(table)'
  <1>1. TableType /\ SessType /\ PlatformType /\ WorkerType /\ CallsType
    BY TypeParts DEF IInv
  <1>2. TypesKept
    <2>1. CASE UNCHANGED vars
      BY <1>1, <2>1 DEF vars, TypesKept, TableType, SessType, PlatformType, WorkerType, CallsType
    <2> QED BY <1>1, <2>1, PlatformTypes, SweepTypes, WorkerTypes, CallTypes DEF Next, IInv
  <1> QED BY <1>2, TypeParts, PTL DEF TypesKept

-----------------------------------------------------------------------------
(* The life of a session.                                                  *)

\* The platform's actions keep the life of every session in order.
LEMMA PlatformSessions ==
    ASSUME TableType, SessType, SessionInv, NEW s \in Sessions,
           \/ Prepare(s) \/ LookupActivation(s) \/ Activate(s)
           \/ CancelSession(s) \/ TimePasses(s) \/ Destroy(s)
    PROVE  SessionInv'
  <1>1. sess[s] \in Session
    BY DEF SessType
  <1>2. CASE Prepare(s)
    <2>1. ~Born(s) /\ table' = table \cup {s} /\ doomed' = doomed
      BY <1>2 DEF Prepare
    <2>2. Wrote(s, Issued(sess[s]))
      BY <1>2, PlatformWrites
    <2>a. /\ Issued(sess[s]).clock = "prepared" /\ Issued(sess[s]).secret = TRUE
          /\ Issued(sess[s]).bearer = sess[s].bearer /\ Issued(sess[s]).run = sess[s].run
      BY <1>1, SessionWrites
    <2>3. /\ sess'[s].clock = "prepared" /\ sess'[s].secret = TRUE
          /\ sess'[s].bearer = sess[s].bearer /\ sess'[s].run = sess[s].run
      BY <2>a, <2>2 DEF Wrote
    <2> QED BY <2>1, <2>2, <2>3 DEF SessionInv, Born, Wrote
  <1>3. CASE Activate(s)
    <2>1. UNCHANGED <<table, doomed>>
      BY <1>3 DEF Activate
    <2>2. CASE sess[s].secret
      <3>1. Wrote(s, Opened(sess[s]))
        BY <1>3, <2>2, PlatformWrites
      <3>a. /\ Opened(sess[s]).clock = "live" /\ Opened(sess[s]).secret = FALSE
            /\ Opened(sess[s]).bearer = TRUE /\ Opened(sess[s]).run = sess[s].run
        BY <1>1, SessionWrites
      <3>2. /\ sess'[s].clock = "live" /\ sess'[s].secret = FALSE
            /\ sess'[s].bearer = TRUE /\ sess'[s].run = sess[s].run
        BY <3>a, <3>1 DEF Wrote
      <3> QED BY <2>1, <2>2, <3>1, <3>2 DEF SessionInv, Born, Wrote
    <2>3. CASE ~sess[s].secret
      BY <1>3, <2>1, <2>3, PlatformWrites DEF SessionInv, Born
    <2> QED BY <2>2, <2>3
  <1>4. CASE TimePasses(s)
    <2>1. UNCHANGED <<table, doomed>>
      BY <1>4 DEF TimePasses
    <2>2. PICK k \in Clocks \ {"unborn"} :
             sess[s].clock # "unborn" /\ Wrote(s, Aged(sess[s], k))
      BY <1>4, PlatformWrites
    <2>3. /\ sess'[s].clock # "unborn" /\ sess'[s].secret = sess[s].secret
          /\ sess'[s].bearer = sess[s].bearer /\ sess'[s].run = sess[s].run
      BY <1>1, <2>2, FieldWrites DEF Wrote
    <2> QED BY <2>1, <2>2, <2>3 DEF SessionInv, Born, Wrote
  <1>5. CASE Destroy(s)
    <2>1. table' = table /\ doomed' = doomed \ {s} /\ s \in doomed
      BY <1>5 DEF Destroy
    <2>2. Wrote(s, Emptied(sess[s]))
      BY <1>5, PlatformWrites
    <2>a. /\ Emptied(sess[s]).clock = sess[s].clock /\ Emptied(sess[s]).secret = FALSE
          /\ Emptied(sess[s]).bearer = FALSE /\ Emptied(sess[s]).run = sess[s].run
      BY <1>1, SessionWrites
    <2>3. /\ sess'[s].clock = sess[s].clock /\ sess'[s].secret = FALSE
          /\ sess'[s].bearer = FALSE /\ sess'[s].run = sess[s].run
      BY <2>a, <2>2 DEF Wrote
    <2> QED BY <2>1, <2>2, <2>3 DEF SessionInv, Born, Wrote
  <1>6. CASE LookupActivation(s) \/ CancelSession(s)
    BY <1>6 DEF LookupActivation, CancelSession, Evict, SessionInv, Born
  <1> QED BY <1>2, <1>3, <1>4, <1>5, <1>6

\* What a worker does to the table: removeRun evicts the session the run claimed.
LEMMA WorkerTable ==
    ASSUME NEW r \in Runs, Worker(r)
    PROVE  \/ UNCHANGED <<table, doomed>>
           \/ /\ RemoveRun(r) /\ pc[r] = "remove" /\ pc' = [pc EXCEPT ![r] = "removed"]
              /\ Evict(IF sess[want[r]].run = r THEN {want[r]} ELSE {})
              /\ sess' = sess
  BY DEF Worker, LookupSession, Claim, Start, Obtain, BindSource, StopForRestart, StartAgain,
         ReplaceBoundSource, EndServing, Stop, RemoveRun, Go, brokerOnly

\* The worker's actions keep the life of every session in order.
LEMMA WorkerSessions ==
    ASSUME TableType, SessType, WorkerType, SessionInv, NEW r \in Runs, Worker(r)
    PROVE  SessionInv'
  <1>1. want[r] \in Sessions
    BY DEF WorkerType
  <1>2. /\ table' \cap doomed' = {}
        /\ table' \cup doomed' = table \cup doomed
    BY WorkerTable DEF SessionInv, Evict
  <1>3. ASSUME NEW s \in Sessions
        PROVE  /\ sess'[s].clock = sess[s].clock /\ sess'[s].secret = sess[s].secret
               /\ sess'[s].bearer = sess[s].bearer
               /\ sess'[s].run = sess[s].run \/ sess[s].bearer
    <2>1. sess[s] \in Session
      BY DEF SessType
    <2>2. addr[r] \in Addresses \cup {Loopback, NoAddress}
      BY DEF WorkerType
    <2> QED BY <1>1, <2>1, <2>2, WorkerWrites, FieldWrites, SMTT(60) DEF Wrote
  <1> QED BY <1>2, <1>3 DEF SessionInv, Born

\* Every step keeps the life of every session in order.
LEMMA SessionStep ==
    ASSUME IInv, [Next]_vars
    PROVE  SessionInv'
  <1>1. TableType /\ SessType /\ WorkerType
    BY TypeParts DEF IInv
  <1>2. SessionInv /\ CallInv /\ InFlightCountsCalls
    BY DEF IInv
  <1>3. CASE PrepareSweep \/ UNCHANGED vars
    BY <1>2, <1>3 DEF PrepareSweep, Born, SessionInv, vars
  <1>4. ASSUME NEW a \in Sweepers, RemoveCollected(a)
        PROVE  SessionInv'
    BY <1>2, <1>4 DEF RemoveCollected, Evict, Born, SessionInv
  <1>5. ASSUME NEW c \in Calls, Arrive(c) \/ Call(c)
        PROVE  SessionInv'
    <2>1. UNCHANGED <<table, doomed>>
      BY <1>5 DEF Arrive, Call, Route, Admit, Check, Register, Complete, Leave, callOnly
    <2>2. \A s \in Sessions : sess[s] \in Session
      BY <1>1 DEF SessType
    <2>3. ASSUME NEW s \in Sessions
          PROVE  /\ sess'[s].clock = sess[s].clock /\ sess'[s].secret = sess[s].secret
                 /\ sess'[s].bearer = sess[s].bearer /\ sess'[s].run = sess[s].run
      BY <1>1, <1>2, <1>5, <2>2, CallWrites, FieldWrites DEF Wrote
    <2> QED BY <1>2, <2>1, <2>3, SMTT(60) DEF SessionInv, Born
  <1> QED BY <1>1, <1>2, <1>3, <1>4, <1>5, PlatformSessions, WorkerSessions DEF Next

-----------------------------------------------------------------------------
(* Claims and sources.                                                     *)

\* Where a worker goes: one step along its own course, and past its claim only with
\* the session in hand.
LEMMA WorkerMoves ==
    ASSUME WorkerType, NEW r \in Runs, Worker(r)
    PROVE  /\ want' = want
           /\ pc' \in [Runs -> WorkerState]
           /\ \A q \in Runs \ {r} : pc'[q] = pc[q] /\ addr'[q] = addr[q]
           /\ pc'[r] \in Claimed =>
                pc[r] \in Claimed \/ (pc[r] = "claim" /\ pc'[r] = "start" /\ sess[want[r]].run = NoRun)
           /\ pc[r] \in Claimed => pc'[r] \in Claimed
           /\ pc'[r] = "removed" => RemoveRun(r)
           /\ pc'[r] = "serving" =>
                /\ pc[r] \in {"binding", "rebinding"} /\ addr'[r] = addr[r]
                /\ sess' = [sess EXCEPT ![want[r]].source = addr[r]]
           /\ addr'[r] # Loopback \/ addr'[r] = addr[r] \/ r \in Direct
  <1> USE DEF WorkerType, Go, brokerOnly
  <1>1. CASE LookupSession(r)
    BY <1>1 DEF LookupSession, WorkerState, Claimed
  <1>2. CASE Claim(r)
    BY <1>2 DEF Claim, WorkerState, Claimed
  <1>3. CASE Start(r) \/ StartAgain(r)
    BY <1>3, BrokerAssumption DEF Start, StartAgain, Obtain, FreeAddresses, WorkerState, Claimed
  <1>4. CASE BindSource(r) \/ ReplaceBoundSource(r)
    BY <1>4 DEF BindSource, ReplaceBoundSource, WorkerState, Claimed
  <1>5. CASE StopForRestart(r) \/ EndServing(r) \/ Stop(r)
    BY <1>5, BrokerAssumption DEF StopForRestart, EndServing, Stop, WorkerState, Claimed
  <1>6. CASE RemoveRun(r)
    BY <1>6 DEF RemoveRun, WorkerState, Claimed
  <1> QED BY <1>1, <1>2, <1>3, <1>4, <1>5, <1>6 DEF Worker

\* A step that is no worker's.
Others ==
    \/ \E s \in Sessions : \/ Prepare(s) \/ LookupActivation(s) \/ Activate(s)
                           \/ CancelSession(s) \/ TimePasses(s) \/ Destroy(s)
    \/ PrepareSweep
    \/ \E a \in Sweepers : RemoveCollected(a)
    \/ \E c \in Calls : Arrive(c) \/ Call(c)
    \/ UNCHANGED vars

\* Only a worker claims or binds a session, and only an unborn session enters the table.
LEMMA OthersKeep ==
    ASSUME IInv, Others
    PROVE  /\ UNCHANGED <<pc, want, addr, old>>
           /\ \A s \in Sessions : sess'[s].run = sess[s].run /\ sess'[s].source = sess[s].source
           /\ \A s \in table' : s \in table \/ ~Born(s)
  <1>1. SessType /\ CallInv /\ InFlightCountsCalls
    BY TypeParts DEF IInv
  <1>2. \A s \in Sessions : sess[s] \in Session
    BY <1>1 DEF SessType
  <1>3. ASSUME NEW s \in Sessions,
               \/ Prepare(s) \/ LookupActivation(s) \/ Activate(s)
               \/ CancelSession(s) \/ TimePasses(s) \/ Destroy(s),
               NEW t \in Sessions
        PROVE  sess'[t].run = sess[t].run /\ sess'[t].source = sess[t].source
    <2>1. \/ UNCHANGED sess \/ Wrote(s, Issued(sess[s])) \/ Wrote(s, Opened(sess[s]))
          \/ \E k \in Clocks : Wrote(s, Aged(sess[s], k))
          \/ Wrote(s, Emptied(sess[s]))
      BY <1>1, <1>3, PlatformWrites
    <2>2. /\ Issued(sess[s]).run = sess[s].run /\ Issued(sess[s]).source = sess[s].source
          /\ Opened(sess[s]).run = sess[s].run /\ Opened(sess[s]).source = sess[s].source
          /\ Emptied(sess[s]).run = sess[s].run /\ Emptied(sess[s]).source = sess[s].source
      BY <1>2, SessionWrites
    <2>3. \A k \in Clocks :
             Aged(sess[s], k).run = sess[s].run /\ Aged(sess[s], k).source = sess[s].source
      BY <1>2, FieldWrites
    <2> QED BY <2>1, <2>2, <2>3 DEF Wrote
  <1>4. ASSUME NEW c \in Calls, Arrive(c) \/ Call(c), NEW t \in Sessions
        PROVE  sess'[t].run = sess[t].run /\ sess'[t].source = sess[t].source
    <2>1. \/ UNCHANGED sess
          \/ \E n \in 0..PerSourceConcurrency :
                Target(c) \in Sessions /\ Wrote(Target(c), Counting(sess[Target(c)], n))
      BY <1>1, <1>4, CallWrites
    <2>2. ASSUME NEW n \in 0..PerSourceConcurrency, Target(c) \in Sessions
          PROVE  /\ Counting(sess[Target(c)], n).run = sess[Target(c)].run
                 /\ Counting(sess[Target(c)], n).source = sess[Target(c)].source
      BY <1>2, <2>2, FieldWrites
    <2> QED BY <2>1, <2>2 DEF Wrote
  <1>5. \A s \in Sessions : sess'[s].run = sess[s].run /\ sess'[s].source = sess[s].source
    BY <1>3, <1>4 DEF Others, PrepareSweep, RemoveCollected, vars
  <1>6. UNCHANGED <<pc, want, addr, old>> /\ \A s \in table' : s \in table \/ ~Born(s)
    BY DEF Others, Prepare, LookupActivation, Activate, CancelSession, TimePasses, Destroy,
           PrepareSweep, RemoveCollected, Evict, Arrive, Call, Route, Admit, Check, Register,
           Complete, Leave, platformOnly, callOnly, vars
  <1> QED BY <1>5, <1>6

\* Every step keeps a run and its claimed session together, the source of a serving
\* run's session its address, and the loopback address to the direct harnesses.
LEMMA ClaimStep ==
    ASSUME IInv, [Next]_vars
    PROVE  ClaimInv' /\ SourceFollowsContainer' /\ AddressInv'
  <1>1. SessType /\ WorkerType /\ TableType /\ SessionInv /\ ClaimInv
        /\ SourceFollowsContainer /\ AddressInv
    BY TypeParts DEF IInv
  <1>2. \A r \in Runs : want[r] \in Sessions
    BY <1>1 DEF WorkerType
  <1>3. CASE Others
    <2>1. \A r \in Runs : pc[r] = "removed" => sess[want[r]].run \in Runs
      BY <1>1 DEF ClaimInv, Claimed
    <2>2. \A r \in Runs : pc[r] = "removed" => Born(want[r])
      BY <1>1, <1>2, <2>1, BrokerAssumption DEF SessionInv
    <2>3. ClaimInv'
      BY <1>1, <1>2, <1>3, <2>2, OthersKeep DEF ClaimInv
    <2>4. SourceFollowsContainer' /\ AddressInv'
      BY <1>1, <1>2, <1>3, OthersKeep DEF SourceFollowsContainer, AddressInv
    <2> QED BY <2>3, <2>4
  <1>4. ASSUME NEW r \in Runs, Worker(r)
        PROVE  ClaimInv' /\ SourceFollowsContainer' /\ AddressInv'
    <2> DEFINE s == want[r]
    <2>1. s \in Sessions /\ sess[s] \in Session
          /\ addr[r] \in Addresses \cup {Loopback, NoAddress}
      BY <1>1 DEF SessType, WorkerType
    <2>2. \A t \in Sessions \ {s} : sess'[t].run = sess[t].run /\ sess'[t].source = sess[t].source
      BY <1>1, <1>4, WorkerWrites DEF Wrote
    <2>3. /\ ClaimedBy(sess[s], r).run = r /\ ClaimedBy(sess[s], r).source = sess[s].source
          /\ BoundTo(sess[s], addr[r]).run = sess[s].run
          /\ BoundTo(sess[s], addr[r]).source = addr[r]
      BY <2>1, FieldWrites
    <2>4. \/ sess'[s].run = sess[s].run /\ ~(pc[r] = "claim" /\ pc'[r] = "start")
          \/ /\ pc[r] = "claim" /\ pc'[r] = "start" /\ sess[s].run = NoRun /\ sess'[s].run = r
             /\ sess'[s].source = sess[s].source
      <3>1. CASE UNCHANGED sess
        <4>1. pc[r] = "claim" => pc'[r] # "start"
          BY <1>1, <1>4, <3>1, <2>1, BrokerAssumption
             DEF Worker, LookupSession, Claim, Start, Obtain, BindSource, StopForRestart,
                 StartAgain, ReplaceBoundSource, EndServing, Stop, RemoveRun, Go, WorkerType,
                 SessType, Session
        <4> QED BY <3>1, <4>1
      <3>2. CASE ~UNCHANGED sess
        BY <1>1, <1>4, <2>3, <3>2, WorkerWrites DEF Wrote, WorkerType
      <3> QED BY <3>1, <3>2
    <2>5. sess'[s].source = sess[s].source \/ sess[s].run = r
      BY <1>1, <1>4, <2>3, WorkerWrites DEF Wrote
    <2>6. \A q \in Runs : pc'[q] \in Claimed => sess'[want'[q]].run = q
      <3> SUFFICES ASSUME NEW q \in Runs, pc'[q] \in Claimed
                   PROVE  sess'[want[q]].run = q
        BY <1>1, <1>4, WorkerMoves
      <3>1. CASE q = r
        BY <1>1, <1>4, <2>4, <3>1, WorkerMoves, BrokerAssumption DEF ClaimInv
      <3>2. CASE q # r
        <4>1. sess[want[q]].run = q
          <5>1. q \in Runs \ {r}
            BY <3>2
          <5>2. pc'[q] = pc[q]
            BY <1>1, <1>4, <5>1, WorkerMoves
          <5> QED BY <1>1, <5>2 DEF ClaimInv
        <4>2. CASE want[q] = s
          <5>1. sess[s].run = q /\ q # NoRun
            BY <4>1, <4>2, BrokerAssumption
          <5>2. sess'[s].run = q
            BY <2>4, <5>1
          <5> QED BY <4>2, <5>2
        <4> QED BY <1>2, <2>2, <4>1, <4>2
      <3> QED BY <3>1, <3>2
    <2>7. \A t \in Sessions : sess'[t].run # NoRun =>
             want'[sess'[t].run] = t /\ pc'[sess'[t].run] \in Claimed
      <3> SUFFICES ASSUME NEW t \in Sessions, sess'[t].run # NoRun
                   PROVE  want[sess'[t].run] = t /\ pc'[sess'[t].run] \in Claimed
        BY <1>1, <1>4, WorkerMoves
      <3>1. CASE sess'[t].run = sess[t].run
        <4>1. /\ sess[t].run \in Runs /\ want[sess[t].run] = t
              /\ pc[sess[t].run] \in Claimed
          BY <1>1, <3>1 DEF ClaimInv, SessType, Session
        <4> QED BY <1>1, <1>4, <3>1, <4>1, WorkerMoves, ZenonT(60)
      <3>2. CASE sess'[t].run # sess[t].run
        BY <2>2, <2>4, <3>2 DEF Claimed
      <3> QED BY <3>1, <3>2
    <2>8. \A q \in Runs : pc'[q] = "removed" => want'[q] \notin table'
      <3>1. table' \subseteq table /\ want' = want
        BY <1>1, <1>4, WorkerTable, WorkerMoves, ZenonT(60) DEF Evict
      <3>2. pc'[r] = "removed" => s \notin table'
        <4> SUFFICES ASSUME RemoveRun(r)
                     PROVE  s \notin table'
          BY <1>1, <1>4, WorkerMoves
        <4>1. sess[s].run = r
          BY <1>1 DEF RemoveRun, Go, ClaimInv, Claimed
        <4> QED BY <4>1 DEF RemoveRun, Evict
      <3>3. ASSUME NEW q \in Runs \ {r}, pc'[q] = "removed"
            PROVE  want[q] \notin table
        BY <1>1, <1>4, <3>3, WorkerMoves, ZenonT(60) DEF ClaimInv
      <3> QED BY <3>1, <3>2, <3>3
    <2>9. SourceFollowsContainer'
      <3> SUFFICES ASSUME NEW q \in Runs, pc'[q] = "serving"
                   PROVE  sess'[want'[q]].source = addr'[q]
        BY DEF SourceFollowsContainer
      <3>1. CASE q = r
        <4>1. sess' = [sess EXCEPT ![s].source = addr[r]] /\ addr'[r] = addr[r] /\ want' = want
          BY <1>1, <1>4, <3>1, WorkerMoves
        <4> QED BY <1>1, <2>1, <3>1, <4>1 DEF SessType, Session
      <3>2. CASE q # r
        <4>1. pc[q] = "serving" /\ addr'[q] = addr[q] /\ want' = want
          BY <1>1, <1>4, <3>2, WorkerMoves
        <4>2. sess[want[q]].run = q /\ sess[want[q]].source = addr[q]
          BY <1>1, <4>1 DEF ClaimInv, Claimed, SourceFollowsContainer
        <4> QED BY <1>2, <2>2, <2>5, <3>2, <4>1, <4>2
      <3> QED BY <3>1, <3>2
    <2>10. AddressInv'
      BY <1>1, <1>4, WorkerMoves DEF AddressInv
    <2> QED BY <2>6, <2>7, <2>8, <2>9, <2>10 DEF ClaimInv
  <1> QED BY <1>3, <1>4 DEF Next, Others

-----------------------------------------------------------------------------
(* The calls in flight.                                                    *)

Counted(s) == {c \in Calls : call[c].sess = {s} /\ call[c].pc \in InFlight}

\* The counter of a session counts a finite set of calls.
LEMMA CountedType ==
    /\ InFlightCountsCalls <=> \A s \in Sessions : sess[s].inFlight = Cardinality(Counted(s))
    /\ \A s : IsFiniteSet(Counted(s)) /\ Cardinality(Counted(s)) \in Nat
  <1>1. \A s : IsFiniteSet(Counted(s))
    BY FS_Subset, BrokerAssumption DEF Counted
  <1> QED BY <1>1, FS_CardinalityType DEF InFlightCountsCalls, Counted, InFlight

\* What a step other than an admission and a departure does to the calls in flight:
\* each keeps its session and its counter.
LEMMA QuietCall ==
    ASSUME TableType, CallsType, CallInv, NEW c \in Calls, Arrive(c) \/ Call(c), ~Leave(c),
           ~Admit(c) \/ call' = [call EXCEPT ![c].pc = "done"]
    PROVE  CallInv' /\ \A s \in Sessions : Counted(s)' = Counted(s)
  <1>1. \A d \in Calls \ {c} : call'[d] = call[d]
    BY DEF CallsType, Arrive, Call, Route, Admit, Check, Register, Complete, CallTo
  <1>2. /\ call'[c].pc \in InFlight <=> call[c].pc \in InFlight
        /\ call[c].pc \in InFlight => call'[c].sess = call[c].sess
        /\ call'[c].pc \in InFlight \cup {"routed"} => \E s \in Sessions : call'[c].sess = {s}
    <2> USE DEF CallsType, CallType, CallTo, InFlight
    <2>1. CASE Arrive(c)
      <3>1. PICK r \in Runs :
               call' = [call EXCEPT ![c] = [NoCall EXCEPT !.pc = "arrived", !.run = r,
                                                          !.source = addr[r]]]
        BY <2>1 DEF Arrive
      <3>2. call'[c].pc = "arrived" /\ call[c].pc = "idle"
        BY <2>1, <3>1 DEF Arrive, NoCall
      <3> QED BY <3>2
    <2>2. CASE Route(c)
      <3>1. call[c].pc = "arrived"
        BY <2>2 DEF Route
      <3>2. \/ call' = [call EXCEPT ![c].pc = "done"]
            \/ \E s \in Sessions : call' = [call EXCEPT ![c].pc = "routed", ![c].sess = {s}]
        BY <2>2 DEF Route, TableType
      <3> QED BY <3>1, <3>2
    <2>3. CASE Check(c) \/ Register(c) \/ Complete(c)
      <3>1. /\ call[c].pc \in InFlight
            /\ \E to \in InFlight : call' = [call EXCEPT ![c].pc = to]
        BY <2>3 DEF Check, Register, Complete
      <3> QED BY <3>1 DEF CallInv
    <2>4. CASE Admit(c)
      BY <2>4 DEF Admit
    <2> QED BY <2>1, <2>2, <2>3, <2>4 DEF Call
  <1> QED BY <1>1, <1>2 DEF CallInv, Counted

\* An admitted call is one more in its session's counter.
LEMMA CounterUp ==
    ASSUME SessType, CallsType, CallInv, NEW c \in Calls, NEW s \in Sessions,
           \A t \in Sessions : sess[t].inFlight = Cardinality(Counted(t)),
           call[c].sess = {s}, call[c].pc = "routed", call' = [call EXCEPT ![c].pc = "admitted"],
           sess[s].inFlight + 1 \in 0..PerSourceConcurrency,
           Wrote(s, Counting(sess[s], sess[s].inFlight + 1))
    PROVE  CallInv' /\ \A t \in Sessions : sess'[t].inFlight = Cardinality(Counted(t)')
  <1>1. /\ call'[c].pc = "admitted" /\ call'[c].sess = {s}
        /\ \A d \in Calls \ {c} : call'[d] = call[d]
    BY DEF CallsType, CallType
  <1>2. CallInv'
    BY <1>1 DEF CallInv, InFlight
  <1>3. Counted(s)' = Counted(s) \cup {c} /\ c \notin Counted(s)
    BY <1>1 DEF Counted, InFlight
  <1>4. ASSUME NEW t \in Sessions \ {s}
        PROVE  Counted(t)' = Counted(t)
    <2>1. call'[c].sess # {t} /\ call[c].sess # {t}
      BY <1>1, <1>4
    <2> QED BY <1>1, <2>1 DEF Counted
  <1>5. sess'[s].inFlight = sess[s].inFlight + 1 /\ \A t \in Sessions \ {s} : sess'[t] = sess[t]
    <2>1. sess[s] \in Session
      BY DEF SessType
    <2>2. Counting(sess[s], sess[s].inFlight + 1).inFlight = sess[s].inFlight + 1
      BY <2>1, FieldWrites
    <2> QED BY <2>2 DEF Wrote
  <1>6. sess'[s].inFlight = Cardinality(Counted(s)')
    <2>1. IsFiniteSet(Counted(s)) /\ Cardinality(Counted(s)) = sess[s].inFlight
      BY CountedType
    <2>2. Cardinality(Counted(s) \cup {c}) = sess[s].inFlight + 1
      BY <1>3, <2>1, FS_AddElement
    <2> QED BY <1>3, <1>5, <2>2
  <1>7. \A t \in Sessions \ {s} : sess'[t].inFlight = Cardinality(Counted(t)')
    BY <1>4, <1>5
  <1> QED BY <1>2, <1>6, <1>7

\* A call that leaves is one less in its session's counter.
LEMMA CounterDown ==
    ASSUME SessType, CallsType, CallInv, NEW c \in Calls, NEW s \in Sessions,
           \A t \in Sessions : sess[t].inFlight = Cardinality(Counted(t)),
           call[c].sess = {s}, call[c].pc = "leaving", call' = [call EXCEPT ![c].pc = "done"],
           sess[s].inFlight - 1 \in 0..PerSourceConcurrency,
           Wrote(s, Counting(sess[s], sess[s].inFlight - 1))
    PROVE  CallInv' /\ \A t \in Sessions : sess'[t].inFlight = Cardinality(Counted(t)')
  <1>1. /\ call'[c].pc = "done" /\ call'[c].sess = {s}
        /\ \A d \in Calls \ {c} : call'[d] = call[d]
    BY DEF CallsType, CallType
  <1>2. CallInv'
    BY <1>1 DEF CallInv, InFlight
  <1>3. Counted(s)' = Counted(s) \ {c} /\ c \in Counted(s)
    BY <1>1 DEF Counted, InFlight
  <1>4. ASSUME NEW t \in Sessions \ {s}
        PROVE  Counted(t)' = Counted(t)
    <2>1. call'[c].sess # {t} /\ call[c].sess # {t}
      BY <1>1, <1>4
    <2> QED BY <1>1, <2>1 DEF Counted
  <1>5. sess'[s].inFlight = sess[s].inFlight - 1 /\ \A t \in Sessions \ {s} : sess'[t] = sess[t]
    <2>1. sess[s] \in Session
      BY DEF SessType
    <2>2. Counting(sess[s], sess[s].inFlight - 1).inFlight = sess[s].inFlight - 1
      BY <2>1, FieldWrites
    <2> QED BY <2>2 DEF Wrote
  <1>6. sess'[s].inFlight = Cardinality(Counted(s)')
    <2>1. IsFiniteSet(Counted(s)) /\ Cardinality(Counted(s)) = sess[s].inFlight
      BY CountedType
    <2>2. Cardinality(Counted(s) \ {c}) = sess[s].inFlight - 1
      BY <1>3, <2>1, FS_RemoveElement
    <2> QED BY <1>3, <1>5, <2>2
  <1>7. \A t \in Sessions \ {s} : sess'[t].inFlight = Cardinality(Counted(t)')
    BY <1>4, <1>5
  <1> QED BY <1>2, <1>6, <1>7

\* Every step keeps the counters and the calls they count together, and every routed
\* call its session.
LEMMA CallStep ==
    ASSUME IInv, [Next]_vars
    PROVE  CallInv' /\ InFlightCountsCalls'
  <1>1. TableType /\ SessType /\ WorkerType /\ CallsType /\ CallInv /\ InFlightCountsCalls
    BY TypeParts DEF IInv
  <1>2. \A s \in Sessions : sess[s] \in Session
    BY <1>1 DEF SessType
  <1>3. SUFFICES CallInv' /\ \A s \in Sessions : sess'[s].inFlight = Cardinality(Counted(s)')
    BY DEF InFlightCountsCalls, Counted, InFlight
  <1>4. \A s \in Sessions : sess[s].inFlight = Cardinality(Counted(s))
    BY <1>1, CountedType
  <1>5. ASSUME CallInv', \A s \in Sessions : Counted(s)' = Counted(s)
                              /\ sess'[s].inFlight = sess[s].inFlight
        PROVE  CallInv' /\ \A s \in Sessions : sess'[s].inFlight = Cardinality(Counted(s)')
    BY <1>4, <1>5
  <1>6. ASSUME NEW c \in Calls, Arrive(c) \/ Call(c)
        PROVE  CallInv' /\ \A s \in Sessions : sess'[s].inFlight = Cardinality(Counted(s)')
    <2>1. CASE UNCHANGED sess /\ ~Leave(c)
                  /\ (~Admit(c) \/ call' = [call EXCEPT ![c].pc = "done"])
      <3>1. CallInv' /\ \A s \in Sessions : Counted(s)' = Counted(s)
        BY <1>1, <1>6, <2>1, QuietCall
      <3> QED BY <1>5, <2>1, <3>1
    <2>2. ASSUME Target(c) \in Sessions, call[c].sess = {Target(c)},
                 call[c].pc = "routed", call' = [call EXCEPT ![c].pc = "admitted"],
                 sess[Target(c)].inFlight + 1 \in 0..PerSourceConcurrency,
                 Wrote(Target(c), Counting(sess[Target(c)], sess[Target(c)].inFlight + 1))
          PROVE  CallInv' /\ \A t \in Sessions : sess'[t].inFlight = Cardinality(Counted(t)')
      BY <1>1, <1>4, <2>2, CounterUp
    <2>3. ASSUME Target(c) \in Sessions, call[c].sess = {Target(c)},
                 call[c].pc = "leaving", call' = [call EXCEPT ![c].pc = "done"],
                 sess[Target(c)].inFlight - 1 \in 0..PerSourceConcurrency,
                 Wrote(Target(c), Counting(sess[Target(c)], sess[Target(c)].inFlight - 1))
          PROVE  CallInv' /\ \A t \in Sessions : sess'[t].inFlight = Cardinality(Counted(t)')
      BY <1>1, <1>4, <2>3, CounterDown
    <2>4. Admit(c) /\ UNCHANGED sess => ~Leave(c)
      BY DEF Admit, Leave
    <2> QED BY <1>1, <1>6, <2>1, <2>2, <2>3, <2>4, CallWrites
  <1>7. ASSUME NEW s \in Sessions, Destroy(s)
        PROVE  CallInv' /\ \A t \in Sessions : Counted(t)' = Counted(t)
    <2>1. \A c \in Calls : call'[c].pc = call[c].pc /\ call'[c].sess = call[c].sess
      BY <1>1, <1>7 DEF Destroy, CallsType, CallType
    <2> QED BY <1>1, <2>1 DEF CallInv, Counted
  <1>8. ASSUME UNCHANGED call
        PROVE  CallInv' /\ \A t \in Sessions : Counted(t)' = Counted(t)
    BY <1>1, <1>8 DEF CallInv, Counted
  <1>9. ASSUME NEW s \in Sessions,
               \/ Prepare(s) \/ LookupActivation(s) \/ Activate(s)
               \/ CancelSession(s) \/ TimePasses(s) \/ Destroy(s),
               NEW t \in Sessions
        PROVE  sess'[t].inFlight = sess[t].inFlight
    <2>1. \/ UNCHANGED sess \/ Wrote(s, Issued(sess[s])) \/ Wrote(s, Opened(sess[s]))
          \/ \E k \in Clocks : Wrote(s, Aged(sess[s], k))
          \/ Wrote(s, Emptied(sess[s]))
      BY <1>1, <1>9, PlatformWrites
    <2>2. /\ Issued(sess[s]).inFlight = sess[s].inFlight
          /\ Opened(sess[s]).inFlight = sess[s].inFlight
          /\ Emptied(sess[s]).inFlight = sess[s].inFlight
      BY <1>2, SessionWrites
    <2>3. \A k \in Clocks : Aged(sess[s], k).inFlight = sess[s].inFlight
      BY <1>2, FieldWrites
    <2> QED BY <2>1, <2>2, <2>3 DEF Wrote
  <1>10. ASSUME NEW r \in Runs, Worker(r), NEW t \in Sessions
         PROVE  sess'[t].inFlight = sess[t].inFlight /\ UNCHANGED call
    <2>1. want[r] \in Sessions /\ addr[r] \in Addresses \cup {Loopback, NoAddress}
      BY <1>1 DEF WorkerType
    <2>2. /\ ClaimedBy(sess[want[r]], r).inFlight = sess[want[r]].inFlight
          /\ BoundTo(sess[want[r]], addr[r]).inFlight = sess[want[r]].inFlight
      BY <1>2, <2>1, FieldWrites
    <2>3. sess'[t].inFlight = sess[t].inFlight
      BY <1>1, <1>10, <2>2, WorkerWrites DEF Wrote
    <2>4. UNCHANGED call
      BY <1>10 DEF Worker, LookupSession, Claim, Start, Obtain, BindSource, StopForRestart,
                   StartAgain, ReplaceBoundSource, EndServing, Stop, RemoveRun, brokerOnly
    <2> QED BY <2>3, <2>4
  <1>11. CASE PrepareSweep \/ (\E a \in Sweepers : RemoveCollected(a)) \/ UNCHANGED vars
    <2>1. UNCHANGED <<sess, call>>
      BY <1>11 DEF PrepareSweep, RemoveCollected, platformOnly, vars
    <2> QED BY <1>5, <1>8, <2>1
  <1>12. ASSUME NEW s \in Sessions,
                \/ Prepare(s) \/ LookupActivation(s) \/ Activate(s)
                \/ CancelSession(s) \/ TimePasses(s)
         PROVE  UNCHANGED call
    BY <1>12 DEF Prepare, LookupActivation, Activate, CancelSession, TimePasses, platformOnly
  <1>13. ASSUME NEW s \in Sessions,
                \/ Prepare(s) \/ LookupActivation(s) \/ Activate(s)
                \/ CancelSession(s) \/ TimePasses(s) \/ Destroy(s)
         PROVE  CallInv' /\ \A t \in Sessions : sess'[t].inFlight = Cardinality(Counted(t)')
    BY <1>5, <1>7, <1>8, <1>9, <1>12, <1>13
  <1>14. ASSUME NEW r \in Runs, Worker(r)
         PROVE  CallInv' /\ \A t \in Sessions : sess'[t].inFlight = Cardinality(Counted(t)')
    <2>1. CASE Sessions = {}
      BY <1>1, <1>14, <2>1 DEF WorkerType
    <2> QED BY <1>5, <1>8, <1>10, <1>14, <2>1
  <1> QED BY <1>6, <1>11, <1>13, <1>14 DEF Next

-----------------------------------------------------------------------------
(* The theorems.                                                           *)

\* The inductive invariant holds for good.
LEMMA Inductive == Spec => []IInv
  <1>1. IInv /\ [Next]_vars => IInv'
    BY TypeStep, SessionStep, ClaimStep, CallStep DEF IInv
  <1> QED BY <1>1, InitIInv, PTL DEF Spec

\* Every variable keeps its type: the table never exceeds its capacity and no counter
\* goes below zero or above the limit of calls per source.
THEOREM TypeCorrect == Spec => []TypeOK
  <1>1. IInv => TypeOK
    BY DEF IInv
  <1> QED BY <1>1, Inductive, PTL

\* A session that was removed and destroyed has no credentials, and no activation,
\* claim or binding that looked it up before can give it any.
THEOREM DestroyedStaysPowerless == Spec => []DestroyedIsPowerless
  <1>1. IInv => DestroyedIsPowerless
    BY DEF IInv, SessionInv, DestroyedIsPowerless
  <1> QED BY <1>1, Inductive, PTL

\* The counter of calls in flight is exact, so a source never loses a place to a call
\* that has left.
THEOREM CountersAreExact == Spec => []InFlightCountsCalls
  <1>1. IInv => InFlightCountsCalls
    BY DEF IInv
  <1> QED BY <1>1, Inductive, PTL

\* A worker that is through leaves no session of its run behind.
THEOREM RunsLeaveNoSession == Spec => []RemovedRunsHoldNoSession
  <1>1. IInv => RemovedRunsHoldNoSession
    <2> SUFFICES ASSUME IInv, NEW r \in Runs, pc[r] = "removed", NEW s \in table
                 PROVE  sess[s].run # r
      BY DEF RemovedRunsHoldNoSession
    <2>1. s \in Sessions /\ r # NoRun
      BY BrokerAssumption DEF IInv, TypeOK
    <2>2. want[r] \notin table
      BY DEF IInv, ClaimInv
    <2> QED BY <2>1, <2>2 DEF IInv, ClaimInv
  <1> QED BY <1>1, Inductive, PTL

\* The source a serving run's session admits is the address of its live container,
\* before and after the compatibility restart.
THEOREM SourceIsTheContainer == Spec => []SourceFollowsContainer
  <1>1. IInv => SourceFollowsContainer
    BY DEF IInv
  <1> QED BY <1>1, Inductive, PTL

-----------------------------------------------------------------------------
(* How far a source address identifies a run.                              *)

\* Where harnesses sit: a direct one at the loopback address, a container at an address
\* no other container has; and a call was made by some run.
PlaceInv ==
    /\ \A r \in Runs : addr[r] \in (IF r \in Direct THEN {Loopback} ELSE Addresses) \cup {NoAddress}
    /\ \A q, r \in Runs \ Direct : addr[q] = addr[r] /\ addr[q] # NoAddress => q = r
    /\ \A c \in Calls : call[c].pc # "idle" => call[c].run \in Runs

\* A call is routed to a session another run has claimed.
RoutedAstray(c) ==
    call[c].pc = "arrived" /\ call'[c].pc = "routed" /\ sess[Target(c)'].run # call[c].run

\* That happens between containers only: the owner of the session is not serving cases
\* (its container is gone or not bound yet), or the caller's container has been stopped
\* since it called; or both are direct harnesses, which share one address.
StraysFollowReuse ==
    [][\A c \in Calls : RoutedAstray(c) =>
         LET owner == sess[Target(c)'].run
             caller == call[c].run
         IN \/ pc[owner] # "serving"
            \/ addr[caller] # call[c].source
            \/ {owner, caller} \subseteq Direct]_vars

\* A worker's address changes when it obtains one no container has, or gives it back.
LEMMA AddressWrites ==
    ASSUME WorkerType, NEW r \in Runs, Worker(r)
    PROVE  /\ call' = call
           /\ \/ addr' = addr
              \/ addr' = [addr EXCEPT ![r] = NoAddress]
              \/ \E a \in IF r \in Direct THEN {Loopback} ELSE FreeAddresses :
                    addr' = [addr EXCEPT ![r] = a]
  BY DEF Worker, LookupSession, Claim, Start, Obtain, BindSource, StopForRestart, StartAgain,
         ReplaceBoundSource, EndServing, Stop, RemoveRun, brokerOnly

\* Every step keeps PlaceInv.
LEMMA PlaceStep ==
    ASSUME TypeOK, PlaceInv, [Next]_vars
    PROVE  PlaceInv'
  <1>1. ASSUME NEW r \in Runs, Worker(r)
        PROVE  PlaceInv'
    <2> USE DEF PlaceInv
    <2>1. WorkerType /\ addr \in [Runs -> Addresses \cup {Loopback, NoAddress}]
      BY TypeParts DEF TypeOK, WorkerType, WorkerState, Claimed
    <2>2. call' = call
      BY <1>1, <2>1, AddressWrites
    <2>3. CASE addr' = addr
      BY <2>2, <2>3
    <2>4. CASE addr' = [addr EXCEPT ![r] = NoAddress]
      BY <2>1, <2>2, <2>4
    <2>5. ASSUME NEW a \in IF r \in Direct THEN {Loopback} ELSE FreeAddresses,
                 addr' = [addr EXCEPT ![r] = a]
          PROVE  PlaceInv'
      <3>1. addr'[r] = a /\ \A q \in Runs \ {r} : addr'[q] = addr[q]
        BY <2>1, <2>5
      <3>2. CASE r \in Direct
        BY <2>2, <3>1, <3>2
      <3>3. CASE r \notin Direct
        <4>1. a \in Addresses /\ \A q \in Runs : addr[q] # a
          BY <2>5, <3>3 DEF FreeAddresses
        <4> QED BY <2>2, <3>1, <3>3, <4>1
      <3> QED BY <3>2, <3>3
    <2> QED BY <1>1, <2>1, <2>3, <2>4, <2>5, AddressWrites
  <1>2. ASSUME NEW c \in Calls, Arrive(c)
        PROVE  PlaceInv'
    <2>1. PICK r \in Runs : call' = [call EXCEPT ![c] = [NoCall EXCEPT !.pc = "arrived", !.run = r,
                                                                  !.source = addr[r]]]
      BY <1>2 DEF Arrive
    <2>2. addr' = addr
      BY <1>2 DEF Arrive, callOnly
    <2>3. \A d \in Calls : call'[d] = IF d = c THEN [NoCall EXCEPT !.pc = "arrived", !.run = r,
                                                                  !.source = addr[r]] ELSE call[d]
      BY <2>1 DEF TypeOK
    <2>4. \A d \in Calls : call'[d].pc # "idle" => call'[d].run \in Runs
      BY <2>3 DEF PlaceInv, NoCall
    <2> QED BY <2>2, <2>4 DEF PlaceInv
  <1>3. ASSUME addr' = addr,
               \A c \in Calls : call'[c].run = call[c].run /\ (call'[c].pc # "idle" => call[c].pc # "idle")
        PROVE  PlaceInv'
    BY <1>3 DEF PlaceInv
  <1>4. ASSUME NEW c \in Calls, Call(c)
        PROVE  PlaceInv'
    <2>1. addr' = addr
      BY <1>4 DEF Call, Route, Admit, Check, Register, Complete, Leave, callOnly
    <2>2. call[c].pc # "idle" /\ \A d \in Calls : call'[d].run = call[d].run /\ (d # c => call'[d] = call[d])
      BY <1>4 DEF Call, Route, Admit, Check, Register, Complete, Leave, CallTo, TypeOK
    <2> QED BY <1>3, <2>1, <2>2
  <1>5. ASSUME NEW s \in Sessions, Destroy(s)
        PROVE  PlaceInv'
    <2>1. addr' = addr
      BY <1>5 DEF Destroy
    <2>2. \A d \in Calls : call'[d].run = call[d].run /\ call'[d].pc = call[d].pc
      BY <1>5 DEF Destroy, TypeOK
    <2> QED BY <1>3, <2>1, <2>2
  <1>6. CASE UNCHANGED <<addr, call>>
    BY <1>3, <1>6
  <1>7. ASSUME NEW s \in Sessions, \/ Prepare(s) \/ LookupActivation(s) \/ Activate(s)
                                   \/ CancelSession(s) \/ TimePasses(s)
        PROVE  UNCHANGED <<addr, call>>
    BY <1>7 DEF Prepare, LookupActivation, Activate, CancelSession, TimePasses, platformOnly
  <1>8. PrepareSweep \/ (\E a \in Sweepers : RemoveCollected(a)) \/ UNCHANGED vars => UNCHANGED <<addr, call>>
    BY DEF PrepareSweep, RemoveCollected, platformOnly, vars
  <1> QED BY <1>1, <1>2, <1>4, <1>5, <1>6, <1>7, <1>8 DEF Next

\* While a run serves cases, no other container reaches its session: a call is routed to
\* another run's session only if the owner or the caller has no container at the address
\* any more (inference_broker.go, sessionForSource, which returns any session that matches).
THEOREM StraysNeedAReusedAddress == Spec => StraysFollowReuse
  <1>1. Init => PlaceInv
    BY DEF Init, PlaceInv, NoCall
  <1>2. IInv /\ PlaceInv /\ [Next]_vars => PlaceInv'
    BY PlaceStep DEF IInv
  <1>3. IInv /\ PlaceInv /\ [Next]_vars =>
          [\A c \in Calls : RoutedAstray(c) =>
             LET owner == sess[Target(c)'].run
                 caller == call[c].run
             IN \/ pc[owner] # "serving"
                \/ addr[caller] # call[c].source
                \/ {owner, caller} \subseteq Direct]_vars
    <2> SUFFICES ASSUME IInv, PlaceInv, Next, NEW c \in Calls, RoutedAstray(c),
                        pc[sess[Target(c)'].run] = "serving", addr[call[c].run] = call[c].source
                 PROVE  {sess[Target(c)'].run, call[c].run} \subseteq Direct
      OBVIOUS
    <2> DEFINE s == Target(c)'
               owner == sess[s].run
               caller == call[c].run
    <2>1. Route(c)
      <3>1. call'[c] # call[c] /\ call'[c].pc = "routed" /\ call[c].pc = "arrived"
        BY DEF RoutedAstray
      <3>2. ASSUME NEW d \in Calls, Arrive(d) \/ (Call(d) /\ ~Route(d))
            PROVE  FALSE
        <4>1. CallsType
          BY TypeParts DEF IInv
        <4>2. CASE Arrive(d)
          <5>1. PICK r \in Runs :
                   call' = [call EXCEPT ![d] = [NoCall EXCEPT !.pc = "arrived", !.run = r, !.source = addr[r]]]
            BY <4>2 DEF Arrive
          <5>2. call'[d].pc = "arrived" /\ \A e \in Calls : e # d => call'[e] = call[e]
            BY <4>1, <5>1 DEF CallsType, NoCall
          <5> QED BY <3>1, <5>2
        <4>3. CASE Call(d) /\ ~Route(d)
          <5>1. PICK to \in {"done", "admitted", "checked", "leaving", "upstream"} : CallTo(d, to)
            BY <4>3 DEF Call, Admit, Check, Register, Complete, Leave
          <5>2. call'[d].pc = to /\ \A e \in Calls : e # d => call'[e] = call[e]
            BY <4>1, <5>1 DEF CallsType, CallTo
          <5> QED BY <3>1, <5>2
        <4> QED BY <3>2, <4>2, <4>3
      <3>3. ASSUME NEW d \in Calls, Route(d)
            PROVE  d = c
        <4>1. \A e \in Calls : e # d => call'[e] = call[e]
          BY <3>3 DEF Route, CallTo, IInv, TypeOK
        <4> QED BY <3>1, <4>1
      <3>4. ASSUME NEW z \in Sessions, Destroy(z)
            PROVE  FALSE
        <4>1. call'[c].pc = call[c].pc
          BY <3>4 DEF Destroy, IInv, TypeOK
        <4> QED BY <3>1, <4>1
      <3>5. ASSUME NEW r \in Runs, Worker(r)
            PROVE  FALSE
        <4>1. call' = call
          BY <3>5 DEF Worker, LookupSession, Claim, Start, Obtain, BindSource, StopForRestart, StartAgain,
                      ReplaceBoundSource, EndServing, Stop, RemoveRun, brokerOnly
        <4> QED BY <3>1, <4>1
      <3>6. ASSUME NEW z \in Sessions, \/ Prepare(z) \/ LookupActivation(z) \/ Activate(z)
                                       \/ CancelSession(z) \/ TimePasses(z)
            PROVE  call' = call
        BY <3>6 DEF Prepare, LookupActivation, Activate, CancelSession, TimePasses, platformOnly
      <3>7. PrepareSweep \/ (\E x \in Sweepers : RemoveCollected(x)) => call' = call
        BY DEF PrepareSweep, RemoveCollected, platformOnly
      <3> QED BY <3>1, <3>2, <3>3, <3>4, <3>5, <3>6, <3>7 DEF Next
    <2>2. PICK t \in table : /\ sess[t].source = call[c].source /\ Active(t)
                             /\ call' = [call EXCEPT ![c].pc = "routed", ![c].sess = {t}]
      <3>1. CallsType /\ ~CallTo(c, "done")
        <4>1. CallsType
          BY TypeParts DEF IInv
        <4>2. CallTo(c, "done") => call'[c].pc = "done"
          BY <4>1 DEF CallsType, CallTo
        <4> QED BY <4>1, <4>2 DEF RoutedAstray
      <3> QED BY <2>1, <3>1 DEF Route
    <2>3. t \in Sessions /\ call'[c].sess = {t} /\ sess' = sess
      <3>1. CallsType /\ t \in Sessions
        BY <2>2, TypeParts DEF IInv, TypeOK
      <3>2. call'[c].sess = {t}
        BY <2>2, <3>1 DEF CallsType
      <3> QED BY <2>1, <3>1, <3>2 DEF Route
    <2>4. s = t
      BY <2>3 DEF Target
    <2>5. /\ owner = sess[t].run /\ owner \in Runs /\ want[owner] = t
          /\ sess[t].source # NoAddress
      BY <2>2, <2>3, <2>4 DEF Active, IInv, TypeOK, ClaimInv
    <2>6. pc[owner] = "serving" /\ addr[caller] = call[c].source /\ caller # owner
      BY <2>4, <2>5, <2>3 DEF RoutedAstray
    <2>7. addr[owner] = addr[caller] /\ addr[owner] # NoAddress
      BY <2>2, <2>5, <2>6 DEF IInv, SourceFollowsContainer
    <2>8. caller \in Runs
      BY DEF PlaceInv, RoutedAstray
    <2> HIDE DEF owner, caller, s
    <2>9. owner \in Direct /\ caller \in Direct
      BY <2>5, <2>6, <2>7, <2>8, BrokerAssumption DEF PlaceInv
    <2> QED BY <2>9 DEF owner, caller, s
  <1> QED BY <1>1, <1>2, <1>3, Inductive, PTL DEF Spec, StraysFollowReuse

-----------------------------------------------------------------------------
(* The refinement of TicketContract.                                       *)

Phase == [s \in Sessions |-> PhaseOf(s)]
Owner == [s \in Sessions |-> sess[s].run]

\* What the phase of a session depends on.
SamePhase(s) ==
    /\ Born(s)' <=> Born(s)
    /\ s \in table' \cup doomed' <=> s \in table \cup doomed
    /\ sess'[s].run = sess[s].run
    /\ sess'[s].bearer <=> sess[s].bearer

\* A session of which nothing of that changes keeps its phase.
LEMMA PhaseKept ==
    ASSUME NEW s, SamePhase(s)
    PROVE  PhaseOf(s)' = PhaseOf(s)
  BY DEF SamePhase, PhaseOf

\* A step that changes nothing of that in any session is no step of the contract.
LEMMA Stutter ==
    ASSUME \A s \in Sessions : SamePhase(s)
    PROVE  UNCHANGED <<Phase, Owner>>
  BY PhaseKept DEF Phase, Owner, SamePhase

\* A step that changes it in one session only moves that one.
LEMMA OneMoves ==
    ASSUME NEW s \in Sessions, \A t \in Sessions \ {s} : SamePhase(t)
    PROVE  /\ Phase' = [Phase EXCEPT ![s] = PhaseOf(s)']
           /\ Phase[s] = PhaseOf(s)
           /\ sess'[s].run = sess[s].run => Owner' = Owner
           /\ Owner' = [Owner EXCEPT ![s] = sess'[s].run]
  <1>1. \A t \in Sessions \ {s} : PhaseOf(t)' = PhaseOf(t) /\ sess'[t].run = sess[t].run
    BY PhaseKept DEF SamePhase
  <1> QED BY <1>1 DEF Phase, Owner

\* The platform's actions issue, open and retire a session, or do nothing to it.
LEMMA PlatformPhases ==
    ASSUME SessType, SessionInv, NEW s \in Sessions,
           \/ Prepare(s) \/ LookupActivation(s) \/ Activate(s)
           \/ CancelSession(s) \/ TimePasses(s) \/ Destroy(s)
    PROVE  [Contract!Next]_<<Phase, Owner>>
  <1> DEFINE Goal == [Contract!Next]_<<Phase, Owner>>
  <1>1. sess[s] \in Session
    BY DEF SessType
  <1>2. CASE Prepare(s)
    <2>1. ~Born(s) /\ table' = table \cup {s} /\ doomed' = doomed
      BY <1>2 DEF Prepare
    <2>2. Wrote(s, Issued(sess[s]))
      BY <1>2, PlatformWrites
    <2>3. /\ Issued(sess[s]).clock = "prepared"
          /\ Issued(sess[s]).bearer = sess[s].bearer /\ Issued(sess[s]).run = sess[s].run
      BY <1>1, SessionWrites
    <2>4. Born(s)' /\ ~sess'[s].bearer /\ sess'[s].run = NoRun /\ sess[s].run = NoRun
      BY <2>1, <2>2, <2>3 DEF Wrote, Born, SessionInv
    <2>5. PhaseOf(s) = "new" /\ PhaseOf(s)' = "issued"
      BY <2>1, <2>4 DEF PhaseOf
    <2>6. \A t \in Sessions \ {s} : SamePhase(t)
      BY <2>1, <2>2 DEF Wrote, SamePhase, Born
    <2>7. Contract!Issue(s)
      BY <2>4, <2>5, <2>6, OneMoves DEF Contract!Issue, Contract!Move, Phase, Owner
    <2> QED BY <2>7 DEF Contract!Next
  <1>3. CASE Activate(s)
    <2>1. UNCHANGED <<table, doomed>>
      BY <1>3 DEF Activate
    <2>2. CASE sess[s].secret
      <3>1. Wrote(s, Opened(sess[s]))
        BY <1>3, <2>2, PlatformWrites
      <3>2. /\ Opened(sess[s]).clock = "live"
            /\ Opened(sess[s]).bearer = TRUE /\ Opened(sess[s]).run = sess[s].run
        BY <1>1, SessionWrites
      <3>3. /\ Born(s) /\ s \in table \cup doomed /\ ~sess[s].bearer /\ sess[s].run = NoRun
            /\ Born(s)' /\ sess'[s].bearer /\ sess'[s].run = NoRun
        BY <2>2, <3>1, <3>2 DEF Wrote, Born, SessionInv
      <3>4. PhaseOf(s) = "issued" /\ PhaseOf(s)' = "open"
        BY <2>1, <3>3 DEF PhaseOf
      <3>5. \A t \in Sessions \ {s} : SamePhase(t)
        BY <2>1, <3>1 DEF Wrote, SamePhase, Born
      <3>6. Contract!Open(s)
        BY <3>3, <3>4, <3>5, OneMoves DEF Contract!Open, Contract!Move, Phase, Owner
      <3> QED BY <3>6 DEF Contract!Next
    <2>3. CASE ~sess[s].secret
      <3>1. \A t \in Sessions : SamePhase(t)
        BY <1>3, <2>1, <2>3, PlatformWrites DEF SamePhase, Born
      <3> QED BY <3>1, Stutter
    <2> QED BY <2>2, <2>3
  <1>4. CASE TimePasses(s)
    <2>1. UNCHANGED <<table, doomed>>
      BY <1>4 DEF TimePasses
    <2>2. PICK k \in Clocks \ {"unborn"} :
             sess[s].clock # "unborn" /\ Wrote(s, Aged(sess[s], k))
      BY <1>4, PlatformWrites
    <2>3. /\ Aged(sess[s], k).clock = k /\ Aged(sess[s], k).bearer = sess[s].bearer
          /\ Aged(sess[s], k).run = sess[s].run
      BY <1>1, FieldWrites
    <2>4. \A t \in Sessions : SamePhase(t)
      BY <2>1, <2>2, <2>3 DEF Wrote, SamePhase, Born
    <2> QED BY <2>4, Stutter
  <1>5. CASE Destroy(s)
    <2>1. table' = table /\ doomed' = doomed \ {s} /\ s \in doomed
      BY <1>5 DEF Destroy
    <2>2. Wrote(s, Emptied(sess[s]))
      BY <1>5, PlatformWrites
    <2>3. Emptied(sess[s]).clock = sess[s].clock /\ Emptied(sess[s]).run = sess[s].run
      BY <1>1, SessionWrites
    <2>4. /\ Born(s) /\ s \in table \cup doomed /\ s \notin table' \cup doomed'
          /\ Born(s)' /\ sess'[s].run = sess[s].run
      BY <2>1, <2>2, <2>3 DEF Wrote, Born, SessionInv
    <2>5. PhaseOf(s) \in {"issued", "open", "claimed"} /\ PhaseOf(s)' = "retired"
      BY <2>4 DEF PhaseOf
    <2>6. \A t \in Sessions \ {s} : SamePhase(t)
      BY <2>1, <2>2 DEF Wrote, SamePhase, Born
    <2>7. Contract!Retire(s)
      BY <2>4, <2>5, <2>6, OneMoves DEF Contract!Retire, Contract!Move, Phase, Owner
    <2> QED BY <2>7 DEF Contract!Next
  <1>6. CASE LookupActivation(s) \/ CancelSession(s)
    <2>1. UNCHANGED sess /\ table' \cup doomed' = table \cup doomed
      BY <1>6 DEF LookupActivation, CancelSession, Evict
    <2>2. \A t \in Sessions : SamePhase(t)
      BY <2>1 DEF SamePhase, Born
    <2> QED BY <2>2, Stutter
  <1> QED BY <1>2, <1>3, <1>4, <1>5, <1>6

\* A worker claims an open session, or does nothing to any.
LEMMA WorkerPhases ==
    ASSUME SessType, WorkerType, SessionInv, NEW r \in Runs, Worker(r)
    PROVE  [Contract!Next]_<<Phase, Owner>>
  <1>0. PICK s \in Sessions : s = want[r]
    BY DEF WorkerType
  <1>1. s \in Sessions /\ sess[s] \in Session
        /\ addr[r] \in Addresses \cup {Loopback, NoAddress}
    BY DEF SessType, WorkerType
  <1>2. table' \cup doomed' = table \cup doomed
    BY WorkerTable DEF Evict
  <1>3. /\ ClaimedBy(sess[s], r).clock = sess[s].clock /\ ClaimedBy(sess[s], r).run = r
        /\ ClaimedBy(sess[s], r).bearer = sess[s].bearer
        /\ BoundTo(sess[s], addr[r]).clock = sess[s].clock
        /\ BoundTo(sess[s], addr[r]).run = sess[s].run
        /\ BoundTo(sess[s], addr[r]).bearer = sess[s].bearer
    BY <1>1, FieldWrites
  <1>4. CASE UNCHANGED sess \/ Wrote(s, BoundTo(sess[s], addr[r]))
    <2>1. \A t \in Sessions : SamePhase(t)
      BY <1>2, <1>3, <1>4 DEF Wrote, SamePhase, Born
    <2> QED BY <2>1, Stutter
  <1>5. CASE sess[s].run = NoRun /\ sess[s].bearer /\ Wrote(s, ClaimedBy(sess[s], r))
    <2>1. \A t \in Sessions \ {s} : SamePhase(t)
      BY <1>2, <1>5 DEF Wrote, SamePhase, Born
    <2>2. /\ Born(s) /\ s \in table \cup doomed
          /\ Born(s)' /\ sess'[s].run = r /\ r # NoRun
      <3>1. Born(s) /\ s \in table \cup doomed
        BY <1>5 DEF SessionInv
      <3>2. sess'[s].clock = sess[s].clock /\ sess'[s].run = r
        BY <1>3, <1>5 DEF Wrote
      <3> QED BY <3>1, <3>2, BrokerAssumption DEF Born
    <2>3. PhaseOf(s) = "open" /\ PhaseOf(s)' = "claimed"
      BY <1>2, <1>5, <2>2 DEF PhaseOf
    <2>4. /\ Phase' = [Phase EXCEPT ![s] = "claimed"] /\ Phase[s] = "open"
          /\ Owner' = [Owner EXCEPT ![s] = r]
      BY <1>1, <2>1, <2>2, <2>3, OneMoves
    <2>5. Contract!Claim(s)
      BY <2>4 DEF Contract!Claim, Contract!Move, Phase, Owner
    <2> QED BY <1>1, <2>5 DEF Contract!Next
  <1> QED BY <1>0, <1>4, <1>5, WorkerWrites

\* Every step of the broker is a step of the contract or leaves it alone.
LEMMA ContractStep ==
    ASSUME IInv, [Next]_vars
    PROVE  [Contract!Next]_<<Phase, Owner>>
  <1>1. SessType /\ CallInv /\ SessionInv /\ WorkerType /\ InFlightCountsCalls
    BY TypeParts DEF IInv
  <1>2. \A s \in Sessions : sess[s] \in Session
    BY <1>1 DEF SessType
  <1>3. CASE PrepareSweep \/ (\E a \in Sweepers : RemoveCollected(a)) \/ UNCHANGED vars
    <2>1. UNCHANGED sess /\ table' \cup doomed' = table \cup doomed
      BY <1>3 DEF PrepareSweep, RemoveCollected, Evict, vars
    <2>2. \A t \in Sessions : SamePhase(t)
      BY <2>1 DEF SamePhase, Born
    <2> QED BY <2>2, Stutter
  <1>4. ASSUME NEW c \in Calls, Arrive(c) \/ Call(c)
        PROVE  [Contract!Next]_<<Phase, Owner>>
    <2>1. UNCHANGED <<table, doomed>>
      BY <1>4 DEF Arrive, Call, Route, Admit, Check, Register, Complete, Leave, callOnly
    <2>2. \/ UNCHANGED sess
          \/ \E n \in 0..PerSourceConcurrency :
                Target(c) \in Sessions /\ Wrote(Target(c), Counting(sess[Target(c)], n))
      BY <1>1, <1>4, CallWrites
    <2>3. ASSUME NEW n \in 0..PerSourceConcurrency, Target(c) \in Sessions
          PROVE  /\ Counting(sess[Target(c)], n).run = sess[Target(c)].run
                 /\ Counting(sess[Target(c)], n).clock = sess[Target(c)].clock
                 /\ Counting(sess[Target(c)], n).bearer = sess[Target(c)].bearer
      BY <1>2, <2>3, FieldWrites
    <2>4. \A t \in Sessions : SamePhase(t)
      BY <2>1, <2>2, <2>3 DEF Wrote, SamePhase, Born
    <2> QED BY <2>4, Stutter
  <1> QED BY <1>1, <1>3, <1>4, PlatformPhases, WorkerPhases DEF Next

\* Whoever races whom, a session is issued once, opened by one activation, claimed for
\* good by one run, and never comes back once it is retired.
THEOREM TicketsHold == Spec => TicketHolds
  <1>1. Init => Contract!Init
    BY DEF Init, Contract!Init, PhaseOf, Born
  <1>2. IInv /\ [Next]_vars => [Contract!Next]_<<Phase, Owner>>
    BY ContractStep
  <1>3. IInv /\ [Next]_vars =>
           [Contract!Next]_<<[s \in Sessions |-> PhaseOf(s)], [s \in Sessions |-> sess[s].run]>>
    BY <1>2 DEF Phase, Owner
  <1> QED BY <1>1, <1>3, Inductive, PTL DEF Spec, TicketHolds, Contract!Spec

=============================================================================
