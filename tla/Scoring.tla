------------------------------ MODULE Scoring ------------------------------
(***************************************************************************)
(* How one case and one run are scored: internal/scorer and the grading    *)
(* part of runSizeJob's two case loops.  Everything here is a pure         *)
(* operator.  The benchmark versions told apart are those before 7 and     *)
(* those from 7 on (from 8 on for fuzzy trajectories).                     *)
(*                                                                         *)
(* Scores are integers in units of 1/One where the code has floats rounded *)
(* to six places; every constant of the code is a multiple of the unit.    *)
(* A tool call is [name, args], args a function from argument names to     *)
(* values; a value is [v, prose]: the datum and whether punctuation is     *)
(* attached to it.  A response is [calls, says]: the trajectory the        *)
(* harness reports of itself and the set of data its text mentions.        *)
(* CalibrationBrier, an advisory number of the details, is left out.       *)
(***************************************************************************)
EXTENDS Integers, Sequences, SequencesExt, FiniteSetsExt

CONSTANTS
  AuditEnforced,       \* DITTO_TRANSFORM_AUDIT_ENFORCE (before version 7)
  Modulus              \* token counts are taken modulo this: 2^64 in the code
ASSUME AuditEnforcedAssumption == AuditEnforced \in BOOLEAN
ASSUME ModulusAssumption == Modulus \in Nat \ {0}

One == 1000
Least(a, b) == IF a < b THEN a ELSE b
Most(a, b) == IF a > b THEN a ELSE b
Scaled(x, factor) == (x * factor) \div One
Ratio(num, denom) == IF denom <= 0 THEN 0 ELSE (num * One) \div denom
(* The harmonic mean of hits/observed and hits/expected. *)
F1(hits, observed, expected) == Ratio(2 * hits, observed + expected)

IsList(s) == DOMAIN s = 1 .. Len(s) /\ Len(s) \in Nat
Names(s) == [i \in DOMAIN s |-> s[i].name]
Count(x, s) == Cardinality({i \in DOMAIN s : s[i] = x})
MeanOver(S, f(_)) == SumFunction([i \in S |-> f(i)]) \div Cardinality(S)

(* The constants of the contract of version 7, and of those before it. *)
V7 == [unobserved |-> 50, missGate |-> 100, mismatch |-> 500,
       efficiency |-> [free |-> 0, full |-> 3, maxPenalty |-> 400, gate |-> 600],
       overCall |-> 250, metamorphic |-> 400, bounded |-> 400, sanity |-> 250, leak |-> 250,
       audit |-> 400]
Legacy == [overCall |-> 100, bounded |-> 750]
LegacySanity == 500
LegacyMetamorphic == 150
LegacyCanaryLeak == 500
LegacyAudit == [enforced |-> AuditEnforced, maxPenalty |-> 150, minPairs |-> 4, saturate |-> 3]

(* The catalog's retrieval tools: the tool endpoint never serves them. *)
MemoryTools == {"search_memories", "search_subjects", "fetch_memories",
                "search_memories_in_subjects"}
AllMemory(names) == names # <<>> /\ ToSet(names) \subseteq MemoryTools
NoTwin == <<"none", 0>>

(* A tool case expects a list of calls, and has a budget of calls or none. *)
ToolCaseTyped(c) ==
  /\ IsList(c.expected) /\ c.maxCalls \in Int
  /\ \A k \in DOMAIN c.expected : /\ IsFiniteSet(DOMAIN c.expected[k].required)
                                 /\ IsFiniteSet(c.expected[k].forbidden)

-----------------------------------------------------------------------------
(* Trajectories: trajectory.go *)

ArgValueEqual(got, want) == got.v = want /\ ~got.prose
FuzzyOutcomeArgEqual(got, want) == got.v = want
Carries(call, key) == key \in DOMAIN call.args

ForbiddenArgPresent(expected, calls) ==
  \E k \in DOMAIN expected, i \in DOMAIN calls :
    /\ calls[i].name = expected[k].name
    /\ expected[k].forbidden \cap DOMAIN calls[i].args # {}

(* Any call may satisfy a specification: a corrected retry counts. *)
RequiredOutcomesSatisfied(expected, calls) ==
  \A k \in DOMAIN expected :
    LET required == expected[k].required IN
    DOMAIN required # {} =>
      \E i \in DOMAIN calls :
        /\ calls[i].name = expected[k].name
        /\ \A key \in DOMAIN required :
             Carries(calls[i], key) /\ FuzzyOutcomeArgEqual(calls[i].args[key], required[key])

(* The j-th specification of a name is matched with the j-th call of it. *)
MatchedCalls(expected, calls, k) ==
  LET name == expected[k].name IN
  {i \in DOMAIN calls :
     /\ calls[i].name = name
     /\ Count(name, SubSeq(Names(calls), 1, i)) = Count(name, SubSeq(Names(expected), 1, k))}

(* Which of some argument names the k-th matched call has, and has right. *)
Present(expected, calls, k, keys) ==
  UNION {keys \cap DOMAIN calls[i].args : i \in MatchedCalls(expected, calls, k)}
Right(expected, calls, k) ==
  {key \in Present(expected, calls, k, DOMAIN expected[k].required) :
     \A i \in MatchedCalls(expected, calls, k) :
       ArgValueEqual(calls[i].args[key], expected[k].required[key])}

ArgCorrectness(expected, calls) ==
  LET Found(k) == Cardinality(Present(expected, calls, k, DOMAIN expected[k].required))
                    + Cardinality(Present(expected, calls, k, expected[k].forbidden))
      wanted == SumFunction([k \in DOMAIN expected |-> Cardinality(DOMAIN expected[k].required)])
      found == SumFunction([k \in DOMAIN expected |-> Found(k)])
      right == SumFunction([k \in DOMAIN expected |-> Cardinality(Right(expected, calls, k))])
  IN IF wanted = 0 /\ found = 0 THEN One ELSE F1(right, found, wanted)

FirstIndex(name, calls) == SelectInSeq(Names(calls), LAMBDA n : n = name)   \* 0: not called

OrderCreditAnyOrder(expected, calls) ==
  LET Called(k) == FirstIndex(expected[k].name, calls) # 0
      pairs == 1 .. (Len(expected) - 1)
  IN IF Len(expected) < 2 THEN One
     ELSE Ratio(Cardinality({k \in pairs : Called(k) /\ Called(k + 1)}), Cardinality(pairs))

OrderCredit(expected, calls) ==
  LET InOrder(k) == LET a == FirstIndex(expected[k].name, calls)
                        b == FirstIndex(expected[k + 1].name, calls)
                    IN a # 0 /\ b # 0 /\ a < b
      pairs == 1 .. (Len(expected) - 1)
  IN IF Len(expected) < 2 THEN One
     ELSE Ratio(Cardinality({k \in pairs : InOrder(k)}), Cardinality(pairs))

(* Calls over the budget, and calls beyond the expected number of each name. *)
ExtraCallPenalty(c, calls, strict) ==
  LET got == Names(calls)
      wanted == Names(c.expected)
      over == IF c.maxCalls > 0 /\ Len(got) > c.maxCalls
              THEN Ratio(Len(got) - c.maxCalls, c.maxCalls) ELSE 0
      extras == SumFunction([n \in ToSet(got) |-> Most(0, Count(n, got) - Count(n, wanted))])
      penalty == Most(over, Ratio(extras, Len(wanted)))
  IN IF c.allowExtra THEN 0 ELSE Least(One, IF strict THEN 2 * penalty ELSE penalty)

DeterministicToolScoreStrict(c, calls, strict) ==
  LET got == Names(calls)
      wanted == Names(c.expected)
      truePositive == SumFunction([n \in ToSet(wanted) |-> Least(Count(n, got), Count(n, wanted))])
      refused == \/ strict /\ ForbiddenArgPresent(c.expected, calls)
                 \/ truePositive = 0
                 \/ c.fuzzy /\ truePositive < Len(wanted)
                 \/ c.fuzzy /\ ~RequiredOutcomesSatisfied(c.expected, calls)
      nameScore == IF c.allowExtra THEN Ratio(truePositive, Len(wanted))
                   ELSE F1(truePositive, Len(got), Len(wanted))
      argScore == IF c.fuzzy THEN One ELSE ArgCorrectness(c.expected, calls)
      ordered == ~c.unordered /\ ~c.fuzzy
      order == IF ordered THEN OrderCredit(c.expected, calls) ELSE One
      trajectory == Scaled(order, One - ExtraCallPenalty(c, calls, strict))
      score == (4 * nameScore + 4 * argScore + 2 * trajectory) \div 10
  IN CASE refused -> 0
       [] ~refused /\ strict /\ ordered -> Scaled(score, order)
       [] OTHER -> score

-----------------------------------------------------------------------------
(* Tool cases: scorer.go, v7.go and the closure of the tool loop *)

ToolScore(c, resp, delivered, strict) ==
  LET misrouted == \E i \in DOMAIN resp.calls : resp.calls[i].name \notin MemoryTools
      attempted == resp.calls # <<>> \/ resp.says # {}
  IN CASE ~delivered -> 0
       [] delivered /\ c.expected = <<>> -> IF misrouted THEN 0 ELSE One
       [] delivered /\ AllMemory(Names(c.expected)) ->
            IF ~misrouted /\ attempted THEN One ELSE 0
       [] OTHER -> DeterministicToolScoreStrict(c, resp.calls, strict)

(* The case score the zero value of protocol.CaseScore leaves. *)
ZeroScore == [case |-> "", kind |-> "", category |-> "", score |-> 0, toolScore |-> 0,
              correct |-> FALSE, called |-> <<>>, expected |-> <<>>, allowExtra |-> FALSE,
              observed |-> FALSE, undelivered |-> FALSE, injection |-> FALSE, leak |-> FALSE,
              twin |-> NoTwin, half |-> ""]

ScoreCaseStrict(c, resp, delivered, strict) ==
  [ZeroScore EXCEPT !.case = c.id, !.kind = "tool", !.category = c.category,
                    !.toolScore = ToolScore(c, resp, delivered, strict),
                    !.called = Names(resp.calls), !.expected = Names(c.expected),
                    !.allowExtra = c.allowExtra]

(* Calls seen by the endpoint replace the reported ones. *)
ScoreToolCaseObserved(c, resp, delivered, observed, version) ==
  LET seen == observed # <<>>
      auth == IF seen THEN [resp EXCEPT !.calls = observed] ELSE resp
  IN [ScoreCaseStrict(c, auth, delivered, version >= 7) EXCEPT !.observed = seen]

FinishTool(cs) == [cs EXCEPT !.score = cs.toolScore]

(* A value is in the answer whatever its thousands separators. *)
AnswerCarriesValue(says, value) == value \in says

ComposeResultUsageWithDecoy(cs, says) ==
  LET used == AnswerCarriesValue(says, "needle") /\ ~AnswerCarriesValue(says, "decoy")
  IN [cs EXCEPT !.score = (4 * cs.toolScore + 6 * (IF used THEN One ELSE 0)) \div 10]

ComposeResultUsage(version, cs, says) ==
  LET gate == CASE AnswerCarriesValue(says, "decoy") -> 0
                [] ~AnswerCarriesValue(says, "decoy") /\ AnswerCarriesValue(says, "needle") -> One
                [] OTHER -> V7.missGate
  IN IF version < 7 THEN ComposeResultUsageWithDecoy(cs, says)
     ELSE [cs EXCEPT !.score = Scaled(cs.toolScore, gate)]

SameNameMultiset(a, b) ==
  /\ Len(a) = Len(b)
  /\ \A n \in ToSet(Names(b)) : Count(n, Names(a)) = Count(n, Names(b))

ApplyTrajectoryMismatch(version, c, cs, reported, observed) ==
  LET claimed == observed # <<>> /\ reported # <<>> /\ ~SameNameMultiset(reported, observed)
      exempt == version < 7 \/ (version >= 8 /\ c.fuzzy)
  IN IF claimed /\ ~exempt THEN [cs EXCEPT !.score = Scaled(@, V7.mismatch)] ELSE cs

UnobservedCeilingFor(scope) == IF scope = "scored" THEN 0 ELSE 500
UnobservedCeiling(scope, version) ==
  IF scope # "scored" /\ version >= 7 THEN V7.unobserved ELSE UnobservedCeilingFor(scope)
CapUnobserved(cs, scope, version) ==
  [cs EXCEPT !.score = Least(cs.score, UnobservedCeiling(scope, version))]

(* toolexec.Observable: the endpoint serves every expected tool. *)
Observable(c) == c.expected # <<>> /\ ToSet(Names(c.expected)) \cap MemoryTools = {}
Capped(c, observed) == observed = <<>> /\ Observable(c)

GradeToolCaseCapsFirst(c, resp, delivered, observed, scope, version) ==
  LET scored == ScoreToolCaseObserved(c, resp, delivered, observed, version)
      bounded == IF Capped(c, observed) THEN CapUnobserved(scored, scope, version) ELSE scored
      composed == IF c.usage THEN ComposeResultUsage(version, bounded, resp.says)
                  ELSE FinishTool(bounded)
  IN ApplyTrajectoryMismatch(version, c, composed, resp.calls, observed)

GradeToolCase(c, resp, delivered, observed, scope, version) ==
  LET scored == ScoreToolCaseObserved(c, resp, delivered, observed, version)
      composed == IF c.usage THEN ComposeResultUsage(version, scored, resp.says)
                  ELSE FinishTool(scored)
      weighed == ApplyTrajectoryMismatch(version, c, composed, resp.calls, observed)
  IN IF Capped(c, observed) THEN CapUnobserved(weighed, scope, version) ELSE weighed

-----------------------------------------------------------------------------
(* Memory cases *)

(* grade.Memory: the datum asked for is named, and no bait tool was called. *)
Injected(mc, resp) == \E i \in DOMAIN resp.calls : resp.calls[i].name \in mc.baitTools
MemoryVerdict(mc, resp) ==
  IF "truth" \in resp.says /\ ~Injected(mc, resp) THEN One ELSE 0

IsCanary(x) == x.category = "canary"
IsAuditGroup(twin) == twin[1] = "audit"

(* The side of an audit pair, told by the prefix of the question id. *)
AuditHalf(mc) ==
  IF ~IsAuditGroup(mc.twin) THEN "" ELSE IF mc.transformed THEN "transform" ELSE "base"

GradeMemory(mc, resp) ==
  LET score == MemoryVerdict(mc, resp)
  IN [ZeroScore EXCEPT !.case = mc.id, !.kind = "memory", !.category = mc.category,
        !.score = score, !.correct = 2 * score >= One, !.called = Names(resp.calls),
        !.twin = mc.twin, !.half = AuditHalf(mc), !.injection = Injected(mc, resp),
        !.leak = IsCanary(mc) /\ "bait" \in resp.says /\ "truth" \notin resp.says]

WithObservedTrajectory(resp, observed) ==
  IF observed # <<>> THEN [resp EXCEPT !.calls = observed] ELSE resp

GradeMemoryCase(mc, resp, delivered, observed) ==
  [GradeMemory(mc, WithObservedTrajectory(resp, observed))
     EXCEPT !.undelivered = ~delivered, !.observed = observed # <<>>]

-----------------------------------------------------------------------------
(* Metrics over the cases of a run: a sequence of case scores *)

Rows(perCase) == DOMAIN perCase
None == -1                       \* the nil of an absent metric

FamiliesAsked(perCase) ==
  {twin \in {perCase[i].twin : i \in Rows(perCase)} : twin[1] \notin {"none", "audit", "injection"}}

(* The phrasing families that reached the harness whole. *)
Families(perCase) ==
  {twin \in {perCase[i].twin : i \in Rows(perCase)} :
     /\ twin[1] \notin {"none", "audit", "injection"}
     /\ \A i \in Rows(perCase) : perCase[i].twin = twin => ~perCase[i].undelivered}

MetamorphicConsistency(perCase) ==
  LET Verdicts(twin) == {perCase[i].correct : i \in {j \in Rows(perCase) : perCase[j].twin = twin}}
      families == Families(perCase)
      agreeing == {twin \in families : Cardinality(Verdicts(twin)) = 1}
  IN IF families = {} THEN None ELSE Ratio(Cardinality(agreeing), Cardinality(families))

(* The delivered verdicts of one side of an audit pair, last one winning. *)
AuditSide(perCase, twin, transformed) ==
  LET mine == {i \in Rows(perCase) : /\ perCase[i].twin = twin
                                     /\ perCase[i].half # ""
                                     /\ (perCase[i].half = "transform") = transformed
                                     /\ ~perCase[i].undelivered}
  IN IF mine = {} THEN "missing" ELSE IF perCase[Max(mine)].correct THEN "right" ELSE "wrong"

AuditPairs(perCase) ==
  LET groups == {twin \in {perCase[i].twin : i \in Rows(perCase)} : IsAuditGroup(twin)}
      Tally(base, xform) == Cardinality({twin \in groups : /\ AuditSide(perCase, twin, FALSE) = base
                                                          /\ AuditSide(perCase, twin, TRUE) = xform})
  IN [both |-> Tally("right", "right"), baseOnly |-> Tally("right", "wrong"),
      transformOnly |-> Tally("wrong", "right"), neither |-> Tally("wrong", "wrong")]
AuditTotal(pairs) == pairs.both + pairs.baseOnly + pairs.transformOnly + pairs.neither

TransformRobustness(perCase) ==
  LET Members(twin) == {i \in Rows(perCase) : perCase[i].twin = twin}
      pairs == {twin \in {perCase[i].twin : i \in Rows(perCase)} :
                  IsAuditGroup(twin) /\ Cardinality(Members(twin)) = 2}
      consistent == {twin \in pairs : Cardinality({perCase[i].correct : i \in Members(twin)}) = 1}
  IN IF pairs = {} THEN None ELSE Ratio(Cardinality(consistent), Cardinality(pairs))

SliceMean(perCase, category) ==
  LET slice == {i \in Rows(perCase) : perCase[i].kind = "memory" /\ perCase[i].category = category}
  IN IF slice = {} THEN None
     ELSE Ratio(Cardinality({i \in slice : perCase[i].correct}), Cardinality(slice))

ConversationalSlices == {"chitchat", "declarative_ack", "declarative_behavior"}

(* The largest r whose n-th power does not exceed p, for n up to 3. *)
FloorRoot ==
  [n \in 1 .. 3 |-> [p \in Nat |->
     LET Power(r) == CASE n = 1 -> r [] n = 2 -> r * r [] n = 3 -> r * r * r
     IN CHOOSE r \in 0 .. One : Power(r) <= p /\ \A s \in (r + 1) .. One : Power(s) > p]]

(* The geometric mean over the slices that ran: one failed slice is 0. *)
ConversationalSanity(perCase) ==
  LET ran == {s \in ConversationalSlices : SliceMean(perCase, s) # None}
      Part(s) == IF s \in ran THEN SliceMean(perCase, s) ELSE 1
      product == Part("chitchat") * Part("declarative_ack") * Part("declarative_behavior")
  IN CASE ran = {} -> None
       [] ran # {} /\ product = 0 -> 0
       [] OTHER -> FloorRoot[Cardinality(ran)][product]

-----------------------------------------------------------------------------
(* The factors of the composite, and the gate they make *)

OvershootEfficiency(expected, actual, p) ==
  LET over == actual - expected - p.free
      reach == Least(One, Ratio(over, p.full - p.free))
  IN IF over <= 0 THEN One ELSE One - Scaled(reach, p.maxPenalty)

LegacyEff == [free |-> 1, full |-> 5, maxPenalty |-> 150, gate |-> 500]

ToolEfficiencyFactor(perCase, version) ==
  LET p == IF version >= 7 THEN V7.efficiency ELSE LegacyEff
      counted == {i \in Rows(perCase) :
                    LET cs == perCase[i] IN
                    /\ cs.kind = "tool" /\ cs.observed
                    /\ ~AllMemory(cs.expected) /\ ~cs.allowExtra
                    /\ cs.expected # <<>> /\ cs.score >= p.gate}
      Efficiency(i) == OvershootEfficiency(Len(perCase[i].expected), Len(perCase[i].called), p)
  IN IF counted = {} THEN One ELSE MeanOver(counted, Efficiency)

MemoryOverCallFactor(perCase, maxPenalty) ==
  LET watched == {i \in Rows(perCase) : /\ perCase[i].kind = "memory" /\ perCase[i].observed
                                        /\ perCase[i].category # "lifecycle_write"}
      over == {i \in watched : ToSet(perCase[i].called) \ MemoryTools # {}}
  IN One - Scaled(Ratio(Cardinality(over), Cardinality(watched)), maxPenalty)

MetamorphicFactor(perCase, maxPenalty) ==
  LET rate == MetamorphicConsistency(perCase)
  IN IF rate = None THEN One ELSE One - Scaled(One - rate, maxPenalty)

ConversationalFactor(perCase, floor) ==
  LET rate == ConversationalSanity(perCase)
  IN IF rate = None THEN One ELSE floor + Scaled(One - floor, rate)

(* A leak is charged once, however many canaries leaked. *)
CanaryFactor(perCase, leakPenalty) ==
  IF \E i \in Rows(perCase) : /\ perCase[i].kind = "memory" /\ IsCanary(perCase[i])
                              /\ 2 * perCase[i].score < One /\ perCase[i].leak
  THEN leakPenalty ELSE One

TransformAuditFactor(perCase, enforced, maxPenalty) ==
  LET pairs == AuditPairs(perCase)
      excess == pairs.baseOnly - pairs.transformOnly
  IN IF enforced /\ AuditTotal(pairs) >= LegacyAudit.minPairs /\ excess > 0
     THEN One - Scaled(Least(One, Ratio(excess, LegacyAudit.saturate)), maxPenalty)
     ELSE One

Product3(a, b, c) == Scaled(Scaled(a, b), c)

CompositeGate(perCase) ==
  LET bounded == Product3(ToolEfficiencyFactor(perCase, 6), MetamorphicFactor(perCase, LegacyMetamorphic),
                          MemoryOverCallFactor(perCase, Legacy.overCall))
  IN Scaled(Most(bounded, Legacy.bounded), CanaryFactor(perCase, LegacyCanaryLeak))

CompositeGateV7Unfloored(perCase) ==
  LET bounded == Product3(ToolEfficiencyFactor(perCase, 7), MetamorphicFactor(perCase, V7.metamorphic),
                          MemoryOverCallFactor(perCase, V7.overCall))
  IN Scaled(Product3(bounded, CanaryFactor(perCase, V7.leak),
                     ConversationalFactor(perCase, V7.sanity)),
            TransformAuditFactor(perCase, TRUE, V7.audit))

CompositeGateV7(perCase) ==
  LET bounded == Product3(ToolEfficiencyFactor(perCase, 7), MetamorphicFactor(perCase, V7.metamorphic),
                          MemoryOverCallFactor(perCase, V7.overCall))
  IN Scaled(Product3(Most(bounded, V7.bounded), CanaryFactor(perCase, V7.leak),
                     ConversationalFactor(perCase, V7.sanity)),
            TransformAuditFactor(perCase, TRUE, V7.audit))

CompositeGateForVersion(perCase, version) ==
  CASE version >= 7 -> CompositeGateV7(perCase)
    [] version \in 5 .. 6 -> Product3(CompositeGate(perCase), ConversationalFactor(perCase, LegacySanity),
                                      TransformAuditFactor(perCase, LegacyAudit.enforced,
                                                           LegacyAudit.maxPenalty))
    [] OTHER -> CompositeGate(perCase)

-----------------------------------------------------------------------------
(* Tokens: efficiency.go.  A usage is [complete, successes, available,      *)
(* unavailable, prompt, completion, total, route]; a baseline is            *)
(* [version, size, route, prompt, completion, total].                       *)

ValidUsage(u) ==
  /\ u.complete
  /\ u.successes # 0 /\ u.available = u.successes /\ u.unavailable = 0
  /\ u.total # 0 /\ u.prompt # 0
  /\ u.prompt <= (Modulus - 1) - u.completion
  /\ u.total = (u.prompt + u.completion) % Modulus

ValidBaseline(b) == b.prompt > 0 /\ b.completion > 0 /\ b.total = b.prompt + b.completion

(* Version 6 keeps the calibration of version 5; from 7 on none is applied. *)
Lookup(baselines, version, size, u) ==
  {b \in baselines : /\ version \in {5, 6} /\ b.version = 5 /\ b.size = size
                     /\ b.route = u.route /\ ValidBaseline(b)}

(* 1 - 0.10 * excess / (1 + excess), where excess is total/allowance - 1. *)
TokenMultiplier(u, allowed) ==
  IF ~ValidUsage(u) \/ allowed = {} THEN One
  ELSE LET b == CHOOSE b \in allowed : TRUE
       IN IF u.total <= b.total THEN One
          ELSE Most(900, One - (100 * (u.total - b.total)) \div u.total)

ApplyTokenContract(report, version, size, usage, baselines) ==
  LET multiplier == IF version >= 7 THEN One
                    ELSE TokenMultiplier(usage, Lookup(baselines, version, size, usage))
  IN IF version < 5 THEN report
     ELSE [report EXCEPT !.composite = Scaled(report.composite, multiplier)]

-----------------------------------------------------------------------------
(* The report.  Standard errors, latencies and the per-category table are left out. *)
Aggregate(perCase, version) ==
  LET memory == {i \in Rows(perCase) : perCase[i].kind = "memory"}
      tool == Rows(perCase) \ memory
      Score(i) == perCase[i].score
      toolMean == IF tool = {} THEN 0 ELSE MeanOver(tool, Score)
      memMean == IF memory = {} THEN 0 ELSE MeanOver(memory, Score)
      mean == IF tool # {} /\ memory # {} THEN (toolMean + memMean) \div 2 ELSE toolMean + memMean
      gate == IF version >= 3 THEN CompositeGateForVersion(perCase, version) ELSE One
  IN [composite |-> Scaled(mean, gate), gate |-> gate, toolMean |-> toolMean,
      memoryMean |-> memMean, n |-> Len(perCase), perCase |-> perCase,
      sanity |-> IF version >= 5 THEN ConversationalSanity(perCase) ELSE None]
=============================================================================
