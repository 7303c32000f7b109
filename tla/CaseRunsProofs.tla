--------------------------- MODULE CaseRunsProofs --------------------------
(***************************************************************************)
(* Theorems about CaseRuns, for any suite, any number of cases and waves   *)
(* and any concurrency: what is in the harness before a question is asked, *)
(* what an unanswered case may weigh on, that the report can be made again *)
(* from the transcript, that a self-report never pays, what full marks     *)
(* mean, and how much the penalties of a run can take.                     *)
(***************************************************************************)
EXTENDS CaseRuns, ScoringProofs, SequenceTheorems, FiniteSetTheorems, TLAPS

-----------------------------------------------------------------------------
(* The batches *)

(* The rank in a finite set of naturals meets every number up to its size. *)
LEMMA RankIsOnto ==
  ASSUME NEW n \in Nat, NEW S \in SUBSET (1 .. n)
  PROVE  /\ Cardinality(S) \in Nat
         /\ \A k \in 1 .. Cardinality(S) :
              Nth(S, k) \in S /\ Cardinality({j \in S : j <= Nth(S, k)}) = k
         /\ \A i \in S : \E k \in 1 .. Cardinality(S) : Nth(S, k) = i
  <1> DEFINE T == 1 .. Cardinality(S)
             Rank(i) == Cardinality({j \in S : j <= i})
  <1>1. /\ Cardinality(S) \in Nat
        /\ \A i \in S : Rank(i) \in T
        /\ \A k \in T : \E i \in S : Rank(i) = k
        /\ \A i, j \in S : Rank(i) = Rank(j) => i = j
    BY RanksAreNumbers
  <1> HIDE DEF T
  <1>2. \A k \in T : Nth(S, k) \in S /\ Rank(Nth(S, k)) = k
    BY <1>1 DEF Nth
  <1> HIDE DEF Rank
  <1>3. ASSUME NEW i \in S
        PROVE  \E k \in T : Nth(S, k) = i
    <2>1. Rank(i) \in T /\ Nth(S, Rank(i)) \in S /\ Rank(Nth(S, Rank(i))) = Rank(i)
      BY <1>1, <1>2
    <2> QED  BY <1>1, <2>1
  <1> QED  BY <1>1, <1>2, <1>3 DEF T, Rank

(* The batch a case belongs to: the tool cases are batch 0. *)
BatchOf(c) == IF IsTool(c) THEN 0 ELSE WaveOf(c)

(* The batches divide the cases of the suite.                              *)
LEMMA BatchesDivide ==
  ASSUME run \in Runs, NEW b \in Nat
  PROVE  /\ Batch(b) \in Seq(CaseIds)
         /\ \A i \in DOMAIN Batch(b) : BatchOf(Batch(b)[i]) = b
         /\ \A c \in CaseIds : BatchOf(c) = b => \E i \in DOMAIN Batch(b) : Batch(b)[i] = c
  <1> DEFINE d == run.dataset
  <1>1. /\ d.tools \in Seq(CaseIds) /\ d.memory \in Seq(CaseIds)
        /\ \A c \in CaseIds : IF IsTool(c) THEN c \in ToSet(d.tools) \ ToSet(d.memory)
                              ELSE c \in ToSet(d.memory) \ ToSet(d.tools)
    BY DatasetAssumption DEF CaseIds, IsTool, Case
  <1>2. /\ \A c \in CaseIds : IsTool(c) => \E i \in DOMAIN d.tools : d.tools[i] = c
        /\ \A c \in CaseIds : ~IsTool(c) => \E i \in DOMAIN d.memory : d.memory[i] = c
        /\ \A i \in DOMAIN d.tools : IsTool(d.tools[i]) /\ d.tools[i] \in CaseIds
        /\ \A i \in DOMAIN d.memory : ~IsTool(d.memory[i]) /\ d.memory[i] \in CaseIds
    BY <1>1 DEF ToSet
  <1>3. \A c \in CaseIds : ~IsTool(c) => WaveOf(c) \in Nat \ {0}
    BY DatasetAssumption DEF WaveOf, Most, Least, Waves, CaseIds, IsTool, Case
  <1>4. CASE b = 0
    BY <1>1, <1>2, <1>3, <1>4 DEF Batch, BatchOf
  <1>5. CASE b # 0
    <2> DEFINE S == InWave(b)
               n == Cardinality(S)
    <2>1. DOMAIN d.memory = 1 .. Len(d.memory) /\ Len(d.memory) \in Nat
      BY <1>1
    <2>2. S \in SUBSET (1 .. Len(d.memory))
      BY <2>1 DEF InWave
    <2>3. /\ n \in Nat /\ \A k \in 1 .. n : Nth(S, k) \in S
          /\ \A i \in S : \E k \in 1 .. n : Nth(S, k) = i
      BY <2>1, <2>2, RankIsOnto
    <2>4. Batch(b) = [k \in 1 .. n |-> d.memory[Nth(S, k)]]
      BY <1>5 DEF Batch
    <2>5. \A i \in S : d.memory[i] \in CaseIds /\ BatchOf(d.memory[i]) = b
      BY <1>2 DEF InWave, BatchOf
    <2>6. \A c \in CaseIds : BatchOf(c) = b => \E i \in S : d.memory[i] = c
      BY <1>2, <1>5 DEF InWave, BatchOf
    <2> HIDE DEF S, n, d
    <2>7. Batch(b) \in Seq(CaseIds) /\ DOMAIN Batch(b) = 1 .. n
      BY <2>3, <2>4, <2>5
    <2> QED  BY <2>3, <2>4, <2>5, <2>6, <2>7
  <1> QED  BY <1>4, <1>5

-----------------------------------------------------------------------------
(* The inductive invariant *)

Ended == {"graded", "panicked"}

(* Where the worker is says which batch is next. *)
PhaseInv ==
  /\ run \in Runs /\ batch \in Nat /\ launched \in 0 .. Len(Current)
  /\ pc \in {"endpoint", "prerequisites"} => batch = 0
  /\ pc = "secondary" => batch = 1
  /\ pc = "wave" => batch \in 1 .. Len(Waves)
  /\ pc = "cases" => batch \in 0 .. Len(Waves)
  /\ pc \notin {"cases", "stopped"} => launched = 0
  /\ DOMAIN work = CaseIds /\ \A c \in CaseIds : DOMAIN work[c] = DOMAIN Idle

(* What the harness was given before the batch that comes next. *)
SeedInv ==
  /\ pc \notin {"endpoint", "prerequisites", "stopped"} /\ run.version >= 8 => Prerequisites \subseteq seeded
  /\ pc \in {"wave", "cases"} /\ batch > 0 =>
       /\ run.dataset.iso \subseteq seeded
       /\ \A w \in 1 .. batch : w < batch \/ pc = "cases" => Waves[w] \subseteq seeded

(* The cases of earlier batches have ended, and no later case was asked. *)
OrderInv ==
  /\ \A i \in 1 .. launched : work[Current[i]].at # "queued"
  /\ \A c \in CaseIds :
       /\ BatchOf(c) < batch => work[c].at \in Ended
       /\ work[c].at # "queued" => BatchOf(c) <= batch /\ (BatchOf(c) = batch => pc \in {"cases", "stopped"})

AskInv == \A c \in CaseIds : ~IsTool(c) /\ work[c].at # "queued" => Case(c).needs \subseteq seeded

(* Every score is a row with the fields of a case score. *)
IsRow(row) == DOMAIN row = DOMAIN ZeroScore /\ row.undelivered \in BOOLEAN
RowInv ==
  /\ DOMAIN results = CaseIds /\ \A c \in CaseIds : IsRow(results[c])
  /\ \E Scores : perCase \in Seq(Scores)
  /\ \A i \in DOMAIN perCase : IsRow(perCase[i])

IInv == PhaseInv /\ SeedInv /\ OrderInv /\ AskInv /\ RowInv

-----------------------------------------------------------------------------
(* The suite of a run never changes. *)
LEMMA SuiteStays ==
  ASSUME run' = run
  PROVE  /\ CaseIds' = CaseIds /\ Waves' = Waves /\ Prerequisites' = Prerequisites
         /\ \A c : IsTool(c)' = IsTool(c) /\ Case(c)' = Case(c) /\ BatchOf(c)' = BatchOf(c)
         /\ \A b : Batch(b)' = Batch(b)
  <1>1. CaseIds' = CaseIds /\ Waves' = Waves /\ Prerequisites' = Prerequisites
    BY DEF CaseIds, Waves, Prerequisites
  <1>2. \A c : IsTool(c)' = IsTool(c) /\ Case(c)' = Case(c)
    BY DEF IsTool, Case
  <1>3. \A c : WaveOf(c)' = WaveOf(c)
    BY <1>1, <1>2 DEF WaveOf
  <1>4. \A c : BatchOf(c)' = BatchOf(c)
    BY <1>2, <1>3 DEF BatchOf
  <1>5. \A b : InWave(b)' = InWave(b)
    BY <1>3 DEF InWave
  <1>6. \A b : Batch(b)' = Batch(b)
    BY <1>5 DEF Batch
  <1> QED  BY <1>1, <1>2, <1>4, <1>6

(* The batch in hand is a sequence of cases of the suite. *)
LEMMA CurrentIsABatch ==
  ASSUME PhaseInv
  PROVE  /\ Current \in Seq(CaseIds) /\ Len(Current) \in Nat
         /\ \A i \in 1 .. Len(Current) : Current[i] \in CaseIds /\ BatchOf(Current[i]) = batch
         /\ \A c \in CaseIds : BatchOf(c) = batch => \E i \in 1 .. Len(Current) : Current[i] = c
  <1>1. /\ Current \in Seq(CaseIds) /\ \A i \in DOMAIN Current : BatchOf(Current[i]) = batch
        /\ \A c \in CaseIds : BatchOf(c) = batch => \E i \in DOMAIN Current : Current[i] = c
    BY BatchesDivide DEF PhaseInv, Current
  <1>2. DOMAIN Current = 1 .. Len(Current) /\ Len(Current) \in Nat
    BY <1>1
  <1> QED  BY <1>1, <1>2

(* The waves are as many as the suite says, and a memory case is asked in one of them. *)
LEMMA WavesAreCounted ==
  ASSUME run \in Runs
  PROVE  /\ Len(Waves) \in Nat /\ \A c \in CaseIds : BatchOf(c) \in Nat
         /\ \A c \in CaseIds : IsTool(c) <=> BatchOf(c) = 0
  <1>1. /\ Len(Waves) \in Nat
        /\ \A c \in CaseIds : ~IsTool(c) => Case(c).after \in Int
    BY DatasetAssumption DEF Waves, CaseIds, IsTool, Case
  <1>2. \A c \in CaseIds : ~IsTool(c) => WaveOf(c) \in Nat \ {0}
    BY <1>1 DEF WaveOf, Most, Least
  <1> QED  BY <1>1, <1>2 DEF BatchOf

(* What the steps of the cases may do to their places. *)
PlacesMove ==
  /\ DOMAIN work' = CaseIds /\ \A c \in CaseIds : DOMAIN work'[c] = DOMAIN Idle
  /\ \A c \in CaseIds : /\ work'[c].at = "queued" <=> work[c].at = "queued"
                        /\ work[c].at \in Ended => work'[c].at = work[c].at

(* A step of the cases that leaves the worker where it is keeps the order. *)
LEMMA CasesKeepOrder ==
  ASSUME PhaseInv, SeedInv, OrderInv, AskInv, PlacesMove, run' = run, UNCHANGED worker
  PROVE  PhaseInv' /\ SeedInv' /\ OrderInv' /\ AskInv'
  <1> USE DEF worker
  <1>1. /\ CaseIds' = CaseIds /\ Waves' = Waves /\ Prerequisites' = Prerequisites
        /\ \A c : IsTool(c)' = IsTool(c) /\ Case(c)' = Case(c) /\ BatchOf(c)' = BatchOf(c)
    BY SuiteStays
  <1>2. Current' = Current
    BY SuiteStays DEF Current
  <1>3. PhaseInv'
    BY <1>1, <1>2 DEF PhaseInv, PlacesMove
  <1>4. SeedInv'
    BY <1>1 DEF SeedInv
  <1>5. OrderInv'
    <2>1. \A i \in 1 .. launched : Current[i] \in CaseIds
      BY CurrentIsABatch DEF PhaseInv
    <2>2. \A i \in 1 .. launched : work'[Current[i]].at # "queued"
      BY <2>1 DEF OrderInv, PlacesMove
    <2>3. ASSUME NEW c \in CaseIds
          PROVE  /\ BatchOf(c) < batch => work'[c].at \in Ended
                 /\ work'[c].at # "queued" => BatchOf(c) <= batch /\ (BatchOf(c) = batch => pc \in {"cases", "stopped"})
      BY DEF OrderInv, PlacesMove
    <2> QED  BY <1>1, <1>2, <2>2, <2>3 DEF OrderInv
  <1>6. AskInv'
    BY <1>1 DEF AskInv, PlacesMove
  <1> QED  BY <1>3, <1>4, <1>5, <1>6

(* A step of a case, a recorded call and a cancellation move no other way. *)
LEMMA CaseStepsMove ==
  ASSUME PhaseInv, NEW c \in CaseIds, CaseStep(c) \/ ToolCall(c)
  PROVE  PlacesMove /\ run' = run /\ UNCHANGED worker
  <1> USE DEF PhaseInv, PlacesMove, Ended, Idle, Elsewhere
  <1>1. ASSUME NEW at \in {"attempt", "backoff", "returned", "recorded", "graded", "panicked"},
               work[c].at \notin {"queued", "graded", "panicked"},
               DOMAIN work' = CaseIds, \A d \in CaseIds \ {c} : work'[d] = work[d],
               DOMAIN work'[c] = DOMAIN work[c], work'[c].at = at
        PROVE  PlacesMove
    BY <1>1, SMTT(60)
  <1>2. CASE Answer(c)
    BY <1>1, <1>2, SMTT(60) DEF Answer
  <1>3. CASE Reject(c)
    BY <1>1, <1>3, SMTT(60) DEF Reject, Attempt
  <1>4. CASE Fault(c)
    BY <1>1, <1>4, SMTT(60) DEF Fault, Attempt
  <1>5. CASE Cut(c)
    BY <1>1, <1>5 DEF Cut, Attempt
  <1>6. CASE Retry(c)
    BY <1>1, <1>6 DEF Retry
  <1>7. CASE AbandonBackoff(c)
    BY <1>1, <1>7 DEF AbandonBackoff
  <1>8. CASE DeadlinePasses(c)
    BY <1>8 DEF DeadlinePasses
  <1>9. CASE Record(c)
    BY <1>1, <1>9 DEF Record
  <1>10. CASE Grade(c)
    BY <1>1, <1>10 DEF Grade
  <1>11. CASE CasePanics(c)
    BY <1>1, <1>11 DEF CasePanics
  <1>12. CASE ToolCall(c)
    BY <1>12 DEF ToolCall
  <1> QED  BY <1>2, <1>3, <1>4, <1>5, <1>6, <1>7, <1>8, <1>9, <1>10, <1>11, <1>12 DEF CaseStep

(* Cancelling touches the contexts of the running cases only. *)
LEMMA CancelMoves ==
  ASSUME PhaseInv, Cancel
  PROVE  PlacesMove /\ run' = run /\ UNCHANGED worker
  BY DEF PhaseInv, PlacesMove, Cancel, Idle, Elsewhere

-----------------------------------------------------------------------------
(* Rows *)

(* A tool case is graded into a row that says nothing of delivery. *)
LEMMA ToolRows ==
  ASSUME NEW c, NEW resp, NEW delivered, NEW observed, NEW scope, NEW version
  PROVE  IsRow(GradeToolCase(c, resp, delivered, observed, scope, version))
  <1> DEFINE first == ScoreToolCaseObserved(c, resp, delivered, observed, version)
             composed == IF c.usage THEN ComposeResultUsage(version, first, resp.says) ELSE FinishTool(first)
             weighed == ApplyTrajectoryMismatch(version, c, composed, resp.calls, observed)
  <1>1. IsRow(first)
    BY DEF ScoreToolCaseObserved, ScoreCaseStrict, ZeroScore, IsRow
  <1>2. IsRow(composed)
    <2> HIDE DEF first
    <2> QED  BY <1>1 DEF ComposeResultUsage, ComposeResultUsageWithDecoy, FinishTool, IsRow, ZeroScore
  <1>3. IsRow(weighed)
    <2> HIDE DEF composed
    <2> QED  BY <1>2 DEF ApplyTrajectoryMismatch, IsRow, ZeroScore
  <1>4. IsRow(CapUnobserved(weighed, scope, version))
    <2> HIDE DEF weighed
    <2> QED  BY <1>3 DEF CapUnobserved, IsRow, ZeroScore
  <1> QED  BY <1>3, <1>4 DEF GradeToolCase

(* A memory case is graded into a row that says whether it was answered. *)
LEMMA MemoryRows ==
  ASSUME NEW mc, NEW resp, NEW delivered \in BOOLEAN, NEW observed
  PROVE  IsRow(GradeMemoryCase(mc, resp, delivered, observed))
  BY DEF GradeMemoryCase, GradeMemory, ZeroScore, IsRow

LEMMA EntriesGradeToRows ==
  ASSUME NEW c, NEW entry
  PROVE  IsRow(GradeEntry(c, entry))
  BY ToolRows, MemoryRows DEF GradeEntry

(* The cases' steps write rows. *)
LEMMA StepsWriteRows ==
  ASSUME RowInv, NEW c \in CaseIds, CaseStep(c) \/ ToolCall(c) \/ Cancel
  PROVE  RowInv'
  <1>1. CaseIds' = CaseIds
    <2>1. run' = run
      BY DEF CaseStep, ToolCall, Cancel, Answer, Reject, Fault, Cut, Retry, AbandonBackoff, DeadlinePasses,
             Record, Grade, CasePanics, Elsewhere
    <2> QED  BY <2>1, SuiteStays
  <1>2. perCase' = perCase
    BY DEF CaseStep, ToolCall, Cancel, Answer, Reject, Fault, Cut, Retry, AbandonBackoff, DeadlinePasses,
           Record, Grade, CasePanics, Elsewhere, worker
  <1>3. CASE results' = results
    BY <1>1, <1>2, <1>3 DEF RowInv, IsRow
  <1>4. CASE Grade(c)
    <2>1. results' = [results EXCEPT ![c] = GradeEntry(c, transcript[c])]
      BY <1>4 DEF Grade
    <2>2. DOMAIN results' = CaseIds /\ \A d \in CaseIds : IsRow(results'[d])
      BY <2>1, EntriesGradeToRows DEF RowInv
    <2> QED  BY <1>1, <1>2, <2>2 DEF RowInv, IsRow
  <1> QED  BY <1>3, <1>4 DEF CaseStep, ToolCall, Cancel, Answer, Reject, Fault, Cut, Retry, AbandonBackoff,
             DeadlinePasses, Record, CasePanics, Elsewhere

-----------------------------------------------------------------------------
(* The worker's steps *)

LEMMA InitHolds ==
  ASSUME Init
  PROVE  IInv
  <1>1. Current \in Seq(CaseIds) /\ \A i \in DOMAIN Current : BatchOf(Current[i]) = batch
    BY BatchesDivide DEF Init, Current
  <1>2. Len(Current) \in Nat
    BY <1>1
  <1>a. /\ run \in Runs /\ pc = "endpoint" /\ batch = 0 /\ launched = 0
        /\ DOMAIN work = CaseIds /\ \A c \in CaseIds : work[c] = Idle
    <2>1. run \in Runs /\ pc = "endpoint" /\ batch = 0 /\ launched = 0 /\ work = [c \in CaseIds |-> Idle]
      BY DEF Init
    <2>2. work = [c \in CaseIds |-> Idle] => DOMAIN work = CaseIds /\ \A c \in CaseIds : work[c] = Idle
      BY Zenon
    <2> QED  BY <2>1, <2>2
  <1>b. \A c \in CaseIds : work[c].at = "queued"
    <2>1. Idle.at = "queued"
      BY DEF Idle
    <2> QED  BY <1>a, <2>1
  <1>3. PhaseInv
    BY <1>2, <1>a DEF PhaseInv
  <1>4. SeedInv
    BY DEF Init, SeedInv
  <1>5. OrderInv
    <2>1. \A c \in CaseIds : ~(BatchOf(c) < batch)
      BY <1>a, WavesAreCounted
    <2> QED  BY <1>a, <1>b, <2>1 DEF OrderInv
  <1>6. AskInv
    BY DEF Init, AskInv, Idle
  <1>7. RowInv
    <2>1. perCase \in Seq({}) /\ DOMAIN perCase = {}
      BY DEF Init
    <2> QED  BY <2>1 DEF Init, RowInv, IsRow, ZeroScore
  <1> QED  BY <1>3, <1>4, <1>5, <1>6, <1>7 DEF IInv

(* A step of the worker that starts no case and ends no batch. *)
LEMMA PreparationKeeps ==
  ASSUME IInv, run' = run, work' = work, results' = results, perCase' = perCase, batch' = batch,
         launched' = launched, seeded \subseteq seeded', pc # "cases", pc # "stopped",
         pc' = "cases" => batch \in 0 .. Len(Waves),
         pc' = "wave" => batch \in 1 .. Len(Waves),
         pc' = "secondary" => batch = 1,
         pc' \in {"endpoint", "prerequisites"} => batch = 0,
         SeedInv'
  PROVE  IInv'
  <1>1. /\ CaseIds' = CaseIds /\ Waves' = Waves /\ Prerequisites' = Prerequisites
        /\ \A c : IsTool(c)' = IsTool(c) /\ Case(c)' = Case(c) /\ BatchOf(c)' = BatchOf(c)
    BY SuiteStays
  <1>2. Current' = Current
    BY SuiteStays DEF Current
  <1>3. PhaseInv'
    BY <1>1, <1>2 DEF IInv, PhaseInv
  <1>4. OrderInv'
    <2>1. launched = 0
      BY DEF IInv, PhaseInv
    <2>2. \A c \in CaseIds : work[c].at # "queued" => BatchOf(c) <= batch /\ BatchOf(c) # batch
      BY DEF IInv, OrderInv
    <2> QED  BY <1>1, <1>2, <2>1, <2>2 DEF IInv, OrderInv
  <1>5. AskInv'
    BY <1>1 DEF IInv, AskInv
  <1>6. RowInv'
    BY <1>1 DEF IInv, RowInv, IsRow
  <1> QED  BY <1>3, <1>4, <1>5, <1>6 DEF IInv

LEMMA StartKeeps ==
  ASSUME IInv, StartToolServer
  PROVE  IInv'
  <1>1. pc = "endpoint" /\ pc' \in {"stopped", "prerequisites"} /\ batch = 0
    BY DEF StartToolServer, Stop, IInv, PhaseInv
  <1>2. SeedInv'
    BY <1>1 DEF SeedInv
  <1> QED  BY <1>1, <1>2, PreparationKeeps DEF StartToolServer

LEMMA PrerequisitesKeep ==
  ASSUME IInv, SeedPrerequisites \/ RefusePrerequisites
  PROVE  IInv'
  <1>1. /\ pc = "prerequisites" /\ pc' \in {"stopped", "cases"} /\ batch = 0
        /\ run' = run /\ batch' = batch /\ seeded \subseteq seeded'
        /\ pc' = "cases" /\ run.version >= 8 => Prerequisites \subseteq seeded'
    BY DEF SeedPrerequisites, RefusePrerequisites, Seed, Post, Stop, IInv, PhaseInv
  <1>2. SeedInv'
    BY <1>1, SuiteStays DEF SeedInv
  <1>3. 0 \in 0 .. Len(Waves)
    BY WavesAreCounted DEF IInv, PhaseInv
  <1> QED  BY <1>1, <1>2, <1>3, PreparationKeeps DEF SeedPrerequisites, RefusePrerequisites, Seed

LEMMA SecondaryKeeps ==
  ASSUME IInv, SeedSecondary
  PROVE  IInv'
  <1>1. /\ pc = "secondary" /\ batch = 1 /\ run' = run /\ batch' = batch /\ seeded \subseteq seeded'
        /\ pc' \in {"stopped", "score", "wave"}
        /\ pc' # "stopped" => seeded' = seeded \cup run.dataset.iso
        /\ pc' = "wave" => Waves # <<>>
    BY DEF SeedSecondary, Seed, Post, Stop, IInv, PhaseInv
  <1>2. pc' = "wave" => 1 \in 1 .. Len(Waves)
    <2>1. Len(Waves) \in Nat /\ DOMAIN Waves = 1 .. Len(Waves)
      BY DatasetAssumption DEF Waves, IInv, PhaseInv
    <2> QED  BY <1>1, <2>1
  <1>3. SeedInv'
    BY <1>1, SuiteStays DEF SeedInv, IInv
  <1> QED  BY <1>1, <1>2, <1>3, PreparationKeeps DEF SeedSecondary, Seed

LEMMA WaveKeeps ==
  ASSUME IInv, SeedWave
  PROVE  IInv'
  <1>1. /\ pc = "wave" /\ batch \in 1 .. Len(Waves) /\ run' = run /\ batch' = batch
        /\ seeded \subseteq seeded' /\ pc' \in {"stopped", "cases"}
        /\ pc' = "cases" => seeded' = seeded \cup Waves[batch]
    BY DEF SeedWave, Seed, Post, Stop, IInv, PhaseInv
  <1>2. batch \in 0 .. Len(Waves) /\ \A w \in 1 .. batch : w < batch \/ w = batch
    BY <1>1, WavesAreCounted DEF IInv, PhaseInv
  <1>3. SeedInv'
    BY <1>1, <1>2, SuiteStays DEF SeedInv, IInv
  <1> QED  BY <1>1, <1>2, <1>3, PreparationKeeps DEF SeedWave, Seed

LEMMA StartCaseKeeps ==
  ASSUME IInv, StartCase
  PROVE  IInv'
  <1> DEFINE c == Current[launched + 1]
  <1>1. /\ pc = "cases" /\ launched \in Nat /\ launched + 1 \in 1 .. Len(Current) /\ launched' = launched + 1
        /\ run' = run /\ pc' = pc /\ batch' = batch /\ seeded' = seeded /\ perCase' = perCase
        /\ results' = results
        /\ work' = [work EXCEPT ![c].at = "attempt", ![c].ctx = IF cancelled THEN "cancelled" ELSE "alive"]
    BY CurrentIsABatch DEF StartCase, IInv, PhaseInv
  <1>2. c \in CaseIds /\ BatchOf(c) = batch
    BY <1>1, CurrentIsABatch DEF IInv
  <1>3. /\ CaseIds' = CaseIds /\ Waves' = Waves /\ Prerequisites' = Prerequisites /\ Current' = Current
        /\ \A d : IsTool(d)' = IsTool(d) /\ Case(d)' = Case(d) /\ BatchOf(d)' = BatchOf(d)
    BY <1>1, SuiteStays DEF Current
  <1>4. /\ DOMAIN work' = CaseIds /\ \A d \in CaseIds : DOMAIN work'[d] = DOMAIN Idle
        /\ work'[c].at = "attempt" /\ \A d \in CaseIds : d # c => work'[d] = work[d]
    <2> HIDE DEF c
    <2> QED  BY <1>1, <1>2 DEF IInv, PhaseInv, Idle
  <1>5. PhaseInv'
    BY <1>1, <1>3, <1>4 DEF IInv, PhaseInv
  <1>6. SeedInv'
    BY <1>1, <1>3, SMTT(60) DEF IInv, SeedInv
  <1>7. OrderInv'
    <2>1. \A i \in 1 .. launched' : work'[Current[i]].at # "queued"
      <3> SUFFICES ASSUME NEW i \in 1 .. launched'
                   PROVE  work'[Current[i]].at # "queued"
        OBVIOUS
      <3>1. Current[i] \in CaseIds /\ (i = launched + 1 \/ i \in 1 .. launched)
        BY <1>1, CurrentIsABatch DEF IInv
      <3>2. i \in 1 .. launched => work[Current[i]].at # "queued"
        BY DEF IInv, OrderInv
      <3> QED  BY <1>4, <3>1, <3>2
    <2>2. ASSUME NEW d \in CaseIds
          PROVE  /\ BatchOf(d) < batch => work'[d].at \in Ended
                 /\ work'[d].at # "queued" => BatchOf(d) <= batch /\ (BatchOf(d) = batch => pc \in {"cases", "stopped"})
      BY <1>1, <1>2, <1>4, SMTT(60) DEF IInv, OrderInv, PhaseInv
    <2> QED  BY <1>1, <1>3, <2>1, <2>2 DEF OrderInv
  <1>8. AskInv'
    <2>1. ASSUME ~IsTool(c)
          PROVE  Case(c).needs \subseteq seeded
      <3>1. /\ Case(c).after \in Int /\ DOMAIN Waves = 1 .. Len(Waves) /\ Len(Waves) \in Nat
            /\ Case(c).needs \subseteq
                 run.dataset.iso \cup (UNION {Waves[w] : w \in {v \in DOMAIN Waves : v <= Case(c).after}})
                   \cup (IF run.version >= 8 THEN Prerequisites ELSE {})
        BY <1>2, <2>1, DatasetAssumption, SMTT(60) DEF IInv, PhaseInv, Waves, Prerequisites, CaseIds, Case, IsTool
      <3>2. batch = WaveOf(c) /\ batch > 0
        BY <1>2, <2>1, <3>1 DEF BatchOf, WaveOf, Most, Least
      <3>a. batch = Most(1, Least(Case(c).after, Len(Waves)))
        BY <3>2 DEF WaveOf
      <3>b. ASSUME NEW a \in Int, NEW n \in Nat, NEW v \in 1 .. n, v <= a
            PROVE  v \in 1 .. Most(1, Least(a, n))
        BY <3>b DEF Most, Least
      <3>3. \A v \in DOMAIN Waves : v <= Case(c).after => v \in 1 .. batch
        <4> DEFINE a == Case(c).after
                   n == Len(Waves)
        <4>1. a \in Int /\ n \in Nat /\ DOMAIN Waves = 1 .. n /\ batch = Most(1, Least(a, n))
          BY <3>1, <3>a
        <4> HIDE DEF a, n
        <4>2. \A v \in DOMAIN Waves : v <= a => v \in 1 .. batch
          BY <4>1, <3>b
        <4> QED  BY <4>2 DEF a
      <3>4. run.dataset.iso \subseteq seeded /\ \A v \in 1 .. batch : Waves[v] \subseteq seeded
        BY <1>1, <3>2 DEF IInv, SeedInv
      <3>5. run.version >= 8 => Prerequisites \subseteq seeded
        BY <1>1 DEF IInv, SeedInv
      <3>6. UNION {Waves[w] : w \in {v \in DOMAIN Waves : v <= Case(c).after}} \subseteq seeded
        BY <3>3, <3>4
      <3> DEFINE brought == UNION {Waves[w] : w \in {v \in DOMAIN Waves : v <= Case(c).after}}
      <3> HIDE DEF brought
      <3>7. Case(c).needs \subseteq run.dataset.iso \cup brought \cup (IF run.version >= 8 THEN Prerequisites ELSE {})
        BY <3>1 DEF brought
      <3>8. run.dataset.iso \subseteq seeded /\ brought \subseteq seeded
        BY <3>4, <3>6 DEF brought
      <3>9. CASE run.version >= 8
        BY <3>5, <3>7, <3>8, <3>9
      <3>10. CASE ~(run.version >= 8)
        BY <3>7, <3>8, <3>10
      <3> QED  BY <3>9, <3>10, SMTT(60)
    <2> QED  BY <1>1, <1>3, <1>4, <2>1 DEF IInv, AskInv
  <1>9. RowInv'
    BY <1>1, <1>3 DEF IInv, RowInv, IsRow
  <1> QED  BY <1>5, <1>6, <1>7, <1>8, <1>9 DEF IInv

LEMMA EndBatchKeeps ==
  ASSUME IInv, EndBatch
  PROVE  IInv'
  <1>1. /\ pc = "cases" /\ BatchReturned /\ run' = run /\ seeded' = seeded /\ work' = work
        /\ results' = results /\ launched \in Nat /\ batch \in Nat
    BY CurrentIsABatch DEF EndBatch, IInv, PhaseInv
  <1>2. /\ CaseIds' = CaseIds /\ Waves' = Waves /\ Prerequisites' = Prerequisites
        /\ \A d : IsTool(d)' = IsTool(d) /\ Case(d)' = Case(d) /\ BatchOf(d)' = BatchOf(d)
        /\ \A b : Batch(b)' = Batch(b)
    BY <1>1, SuiteStays
  <1>3. AskInv'
    BY <1>1, <1>2 DEF IInv, AskInv
  <1>4. CASE cancelled
    <2>1. pc' = "stopped" /\ batch' = batch /\ launched' = launched /\ perCase' = perCase
      BY <1>4 DEF EndBatch, Stop
    <2>2. Current' = Current
      BY <1>2, <2>1 DEF Current
    <2>3. PhaseInv'
      BY <1>1, <1>2, <2>1, <2>2 DEF IInv, PhaseInv
    <2>4. SeedInv'
      BY <1>1, <1>2, <2>1 DEF IInv, SeedInv
    <2>5. OrderInv'
      BY <1>1, <1>2, <2>1, <2>2 DEF IInv, OrderInv
    <2>6. RowInv'
      BY <1>1, <1>2, <2>1 DEF IInv, RowInv, IsRow
    <2> QED  BY <1>3, <2>3, <2>4, <2>5, <2>6 DEF IInv
  <1>5. CASE ~cancelled
    <2>1. /\ perCase' = perCase \o [i \in DOMAIN Current |-> results[Current[i]]]
          /\ batch' = batch + 1 /\ launched' = 0 /\ launched = Len(Current)
          /\ pc' = IF batch = 0 THEN "secondary" ELSE IF batch < Len(Waves) THEN "wave" ELSE "score"
      BY <1>5, <1>1 DEF EndBatch, BatchReturned
    <2>2. Len(Waves) \in Nat /\ batch \in 0 .. Len(Waves)
      BY <1>1, WavesAreCounted DEF IInv, PhaseInv
    <2>3. Current' = Batch(batch + 1) /\ Len(Current') \in Nat
      <3>1. Current' = Batch(batch + 1)
        BY <1>2, <2>1 DEF Current
      <3>2. Batch(batch + 1) \in Seq(CaseIds)
        BY <1>1, BatchesDivide DEF IInv, PhaseInv
      <3> QED  BY <3>1, <3>2
    <2>4. PhaseInv'
      <3>1. run' \in Runs /\ batch' \in Nat /\ launched' \in 0 .. Len(Current')
        BY <1>1, <2>1, <2>3 DEF IInv, PhaseInv
      <3>2. /\ pc' \notin {"endpoint", "prerequisites", "cases"}
            /\ pc' = "secondary" => batch' = 1
            /\ pc' = "wave" => batch' \in 1 .. Len(Waves)
        BY <1>1, <2>1, <2>2
      <3> QED  BY <1>1, <1>2, <2>1, <3>1, <3>2 DEF IInv, PhaseInv
    <2>5. SeedInv'
      <3>1. pc' = "wave" => batch > 0 /\ \A w \in 1 .. batch' : w < batch' => w \in 1 .. batch
        BY <1>1, <2>1
      <3> QED  BY <1>1, <1>2, <2>1, <3>1 DEF IInv, SeedInv
    <2>6. \A c \in CaseIds : BatchOf(c) = batch => work[c].at \in Ended
      <3>1. \A c \in CaseIds : ~Running(c)
        BY <1>1 DEF BatchReturned
      <3>2. \A c \in CaseIds : BatchOf(c) = batch => work[c].at # "queued"
        BY <2>1, CurrentIsABatch DEF IInv, OrderInv
      <3> QED  BY <3>1, <3>2 DEF Running, Ended
    <2>7. OrderInv'
      <3>1. ASSUME NEW c \in CaseIds
            PROVE  /\ BatchOf(c) < batch' => work[c].at \in Ended
                   /\ work[c].at # "queued" => BatchOf(c) <= batch' /\ BatchOf(c) # batch'
        <4>1. BatchOf(c) \in Nat
          BY WavesAreCounted DEF IInv, PhaseInv
        <4>2. work[c].at # "queued" => BatchOf(c) <= batch
          BY DEF IInv, OrderInv
        <4>3. BatchOf(c) < batch => work[c].at \in Ended
          BY DEF IInv, OrderInv
        <4> QED  BY <1>1, <2>1, <2>6, <4>1, <4>2, <4>3
      <3> QED  BY <1>1, <1>2, <2>1, <3>1 DEF OrderInv
    <2>8. RowInv'
      <3> DEFINE new == [i \in DOMAIN Current |-> results[Current[i]]]
      <3>1. PICK Scores : perCase \in Seq(Scores)
        BY DEF IInv, RowInv
      <3> DEFINE S == Scores \cup {results[c] : c \in CaseIds}
      <3>2. Current \in Seq(CaseIds)
        BY CurrentIsABatch DEF IInv
      <3>3. perCase \in Seq(S) /\ new \in Seq(S)
        BY <3>1, <3>2
      <3>4. \A i \in DOMAIN new : IsRow(new[i])
        BY <3>2 DEF IInv, RowInv
      <3> HIDE DEF new, S
      <3>5. /\ perCase \o new \in Seq(S) /\ Len(perCase \o new) = Len(perCase) + Len(new)
            /\ \A i \in 1 .. Len(perCase) + Len(new) :
                 (perCase \o new)[i] = IF i <= Len(perCase) THEN perCase[i] ELSE new[i - Len(perCase)]
        BY <3>3, ConcatProperties
      <3>6. ASSUME NEW i \in DOMAIN (perCase \o new)
            PROVE  IsRow((perCase \o new)[i])
        <4>1. i \in 1 .. Len(perCase) + Len(new) /\ Len(perCase) \in Nat /\ Len(new) \in Nat
          BY <3>3, <3>5
        <4>2. CASE i <= Len(perCase)
          <5>1. i \in DOMAIN perCase /\ (perCase \o new)[i] = perCase[i]
            BY <3>3, <3>5, <4>1, <4>2
          <5> QED  BY <5>1 DEF IInv, RowInv
        <4>3. CASE i > Len(perCase)
          <5>1. i - Len(perCase) \in DOMAIN new /\ (perCase \o new)[i] = new[i - Len(perCase)]
            BY <3>3, <3>5, <4>1, <4>3
          <5> QED  BY <3>4, <5>1
        <4> QED  BY <4>1, <4>2, <4>3
      <3>7. perCase' = perCase \o new
        BY <2>1 DEF new
      <3>8. /\ \E T : perCase' \in Seq(T)
            /\ \A i \in DOMAIN perCase' : IsRow(perCase'[i])
        BY <3>5, <3>6, <3>7
      <3> QED  BY <1>1, <1>2, <3>8 DEF IInv, RowInv, IsRow
    <2> QED  BY <1>3, <2>4, <2>5, <2>7, <2>8 DEF IInv
  <1> QED  BY <1>4, <1>5

LEMMA PublishKeeps ==
  ASSUME IInv, Publish
  PROVE  IInv'
  <1>1. pc = "score" /\ pc' = "done"
    BY DEF Publish
  <1>2. SeedInv'
    BY <1>1, SuiteStays DEF Publish, SeedInv, IInv
  <1> QED  BY <1>1, <1>2, PreparationKeeps DEF Publish

LEMMA NextKeeps ==
  ASSUME IInv, [Next]_vars
  PROVE  IInv'
  <1>1. ASSUME NEW c \in CaseIds, CaseStep(c) \/ ToolCall(c)
        PROVE  IInv'
    BY <1>1, CaseStepsMove, CasesKeepOrder, StepsWriteRows DEF IInv
  <1>2. CASE Cancel
    <2>1. PhaseInv' /\ SeedInv' /\ OrderInv' /\ AskInv'
      BY <1>2, CancelMoves, CasesKeepOrder DEF IInv
    <2>2. results' = results /\ perCase' = perCase /\ CaseIds' = CaseIds
      BY <1>2, SuiteStays DEF Cancel, worker
    <2>3. RowInv'
      BY <2>2 DEF IInv, RowInv, IsRow
    <2> QED  BY <2>1, <2>3 DEF IInv
  <1>3. CASE WorkerStep
    BY <1>3, StartKeeps, PrerequisitesKeep, SecondaryKeeps, WaveKeeps, StartCaseKeeps, EndBatchKeeps,
       PublishKeeps DEF WorkerStep
  <1>4. CASE UNCHANGED vars
    <2>1. /\ CaseIds' = CaseIds /\ Waves' = Waves /\ Prerequisites' = Prerequisites
          /\ \A c : IsTool(c)' = IsTool(c) /\ Case(c)' = Case(c) /\ BatchOf(c)' = BatchOf(c)
      BY <1>4, SuiteStays DEF vars
    <2>2. PlacesMove /\ UNCHANGED worker /\ run' = run
      BY <1>4 DEF vars, worker, PlacesMove, IInv, PhaseInv
    <2>3. PhaseInv' /\ SeedInv' /\ OrderInv' /\ AskInv'
      BY <2>2, CasesKeepOrder DEF IInv
    <2>4. RowInv'
      BY <1>4, <2>1 DEF vars, IInv, RowInv, IsRow
    <2> QED  BY <2>3, <2>4 DEF IInv
  <1> QED  BY <1>1, <1>2, <1>3, <1>4 DEF Next, Finished

(* The invariant holds of every suite and every run of it. *)
LEMMA InvariantHolds == Spec => []IInv
  <1>1. Init => IInv
    BY InitHolds
  <1>2. IInv /\ [Next]_vars => IInv'
    BY NextKeeps
  <1> QED  BY <1>1, <1>2, PTL DEF Spec

-----------------------------------------------------------------------------
(* The group metrics *)

(* The greatest element of a finite set of naturals is one of them. *)
LEMMA MaxIsMember ==
  ASSUME NEW n \in Nat, NEW S \in SUBSET (1 .. n), S # {}
  PROVE  Max(S) \in S /\ \A j \in S : Max(S) >= j
  <1> DEFINE k == Cardinality(S)
             m == Nth(S, k)
             below == {j \in S : j <= m}
  <1>1. IsFiniteSet(S) /\ k \in Nat /\ k # 0
    <2>1. IsFiniteSet(1 .. n)
      BY FS_Interval
    <2>2. IsFiniteSet(S)
      BY <2>1, FS_Subset
    <2> QED  BY <2>2, FS_CardinalityType, FS_EmptySet
  <1>2. PICK i \in S : Cardinality({j \in S : j <= i}) = k
    <2>1. k \in 1 .. k
      BY <1>1
    <2>2. Nth(S, k) \in S /\ Cardinality({j \in S : j <= Nth(S, k)}) = k
      BY <2>1, RankIsOnto, SMTT(60)
    <2> QED  BY <2>2
  <1>3. {j \in S : j <= i} = S
    <2> DEFINE upTo == {j \in S : j <= i}
    <2>1. upTo \in SUBSET S
      OBVIOUS
    <2> HIDE DEF upTo
    <2> QED  BY <1>1, <1>2, <2>1, FS_Subset DEF upTo
  <1>4. \A j \in S : i >= j
    <2> SUFFICES ASSUME NEW j \in S  PROVE i >= j
      OBVIOUS
    <2>1. j <= i
      BY <1>3
    <2>2. i \in Int /\ j \in Int
      OBVIOUS
    <2> QED  BY <2>1, <2>2
  <1> QED  BY <1>4 DEF Max

(* A run of rows differs from the same run answered right only in the      *)
(* verdicts of the rows that were not delivered.                           *)
LEMMA OnlyVerdictsDiffer ==
  ASSUME NEW rows, \A i \in DOMAIN rows : IsRow(rows[i])
  PROVE  LET right == HadBeenRight(rows) IN
         /\ DOMAIN right = DOMAIN rows
         /\ \A i \in DOMAIN rows :
              /\ right[i].twin = rows[i].twin /\ right[i].half = rows[i].half
              /\ right[i].undelivered = rows[i].undelivered
              /\ ~rows[i].undelivered => right[i] = rows[i]
  BY DEF HadBeenRight, IsRow, ZeroScore

LEMMA ConsistencyIgnoresSilence ==
  ASSUME NEW rows, \A i \in DOMAIN rows : IsRow(rows[i])
  PROVE  MetamorphicConsistency(HadBeenRight(rows)) = MetamorphicConsistency(rows)
  <1> DEFINE right == HadBeenRight(rows)
             Verdicts(p, twin) == {p[i].correct : i \in {j \in Rows(p) : p[j].twin = twin}}
             Agreeing(p) == {twin \in Families(p) : Cardinality(Verdicts(p, twin)) = 1}
  <1>1. /\ DOMAIN right = DOMAIN rows
        /\ \A i \in DOMAIN rows :
             /\ right[i].twin = rows[i].twin /\ right[i].undelivered = rows[i].undelivered
             /\ ~rows[i].undelivered => right[i] = rows[i]
    BY OnlyVerdictsDiffer
  <1> HIDE DEF right
  <1>2. {right[i].twin : i \in DOMAIN right} = {rows[i].twin : i \in DOMAIN rows}
    BY <1>1
  <1>3. Families(right) = Families(rows)
    BY <1>1, <1>2 DEF Families, Rows
  <1>4. \A twin \in Families(rows) : Verdicts(right, twin) = Verdicts(rows, twin)
    <2> SUFFICES ASSUME NEW twin \in Families(rows)
                 PROVE  Verdicts(right, twin) = Verdicts(rows, twin)
      OBVIOUS
    <2>1. \A i \in DOMAIN rows : rows[i].twin = twin => right[i] = rows[i]
      BY <1>1 DEF Families, Rows
    <2>2. {j \in Rows(right) : right[j].twin = twin} = {j \in Rows(rows) : rows[j].twin = twin}
      BY <1>1 DEF Rows
    <2> QED  BY <2>1, <2>2 DEF Rows
  <1>5. Agreeing(right) = Agreeing(rows)
    <2> HIDE DEF Verdicts
    <2> QED  BY <1>3, <1>4
  <1>6. \A p : MetamorphicConsistency(p) =
                IF Families(p) = {} THEN None ELSE Ratio(Cardinality(Agreeing(p)), Cardinality(Families(p)))
    BY DEF MetamorphicConsistency
  <1> HIDE DEF Agreeing
  <1> QED  BY <1>3, <1>5, <1>6 DEF right

LEMMA AuditIgnoresSilence ==
  ASSUME NEW S, NEW rows \in Seq(S), \A i \in DOMAIN rows : IsRow(rows[i])
  PROVE  AuditPairs(HadBeenRight(rows)) = AuditPairs(rows)
  <1> DEFINE right == HadBeenRight(rows)
             Mine(p, twin, transformed) ==
               {i \in Rows(p) : /\ p[i].twin = twin /\ p[i].half # ""
                                /\ (p[i].half = "transform") = transformed /\ ~p[i].undelivered}
             Groups(p) == {twin \in {p[i].twin : i \in Rows(p)} : IsAuditGroup(twin)}
  <1>1. /\ DOMAIN right = DOMAIN rows
        /\ \A i \in DOMAIN rows :
             /\ right[i].twin = rows[i].twin /\ right[i].half = rows[i].half
             /\ right[i].undelivered = rows[i].undelivered
             /\ ~rows[i].undelivered => right[i] = rows[i]
    BY OnlyVerdictsDiffer
  <1>2. DOMAIN rows = 1 .. Len(rows) /\ Len(rows) \in Nat
    OBVIOUS
  <1>3. ASSUME NEW twin, NEW side \in BOOLEAN
        PROVE  AuditSide(right, twin, side) = AuditSide(rows, twin, side)
    <2>1. Mine(right, twin, side) = Mine(rows, twin, side)
      <3> HIDE DEF right
      <3> QED  BY <1>1 DEF Rows
    <2>2. Mine(rows, twin, side) \in SUBSET (1 .. Len(rows))
      BY <1>2 DEF Rows
    <2>3. ASSUME Mine(rows, twin, side) # {}
          PROVE  right[Max(Mine(rows, twin, side))] = rows[Max(Mine(rows, twin, side))]
      <3>1. Max(Mine(rows, twin, side)) \in Mine(rows, twin, side)
        <4> HIDE DEF Mine
        <4> QED  BY <1>2, <2>2, <2>3, MaxIsMember
      <3>2. \A i \in Mine(rows, twin, side) : right[i] = rows[i]
        BY <1>1 DEF Rows
      <3> HIDE DEF Mine
      <3> QED  BY <3>1, <3>2
    <2>4. \A p : AuditSide(p, twin, side) =
                  IF Mine(p, twin, side) = {} THEN "missing"
                  ELSE IF p[Max(Mine(p, twin, side))].correct THEN "right" ELSE "wrong"
      BY DEF AuditSide
    <2> HIDE DEF Mine, right
    <2> QED  BY <2>1, <2>3, <2>4
  <1>4. Groups(right) = Groups(rows)
    <2> HIDE DEF right
    <2>1. {right[i].twin : i \in DOMAIN right} = {rows[i].twin : i \in DOMAIN rows}
      BY <1>1
    <2> QED  BY <2>1 DEF Rows
  <1> HIDE DEF right, Groups
  <1> DEFINE Base(p, twin) == AuditSide(p, twin, FALSE)
             Xform(p, twin) == AuditSide(p, twin, TRUE)
             Tally(p, base, xform) ==
               Cardinality({twin \in Groups(p) : Base(p, twin) = base /\ Xform(p, twin) = xform})
  <1>5. \A p : AuditPairs(p) =
          [both |-> Tally(p, "right", "right"), baseOnly |-> Tally(p, "right", "wrong"),
           transformOnly |-> Tally(p, "wrong", "right"), neither |-> Tally(p, "wrong", "wrong")]
    BY DEF AuditPairs, Groups
  <1>a. \A twin : Base(right, twin) = Base(rows, twin) /\ Xform(right, twin) = Xform(rows, twin)
    BY <1>3
  <1> HIDE DEF Base, Xform
  <1>b. \A base, xform : Tally(right, base, xform) = Tally(rows, base, xform)
    BY <1>4, <1>a
  <1> HIDE DEF Tally
  <1>6. AuditPairs(right) = AuditPairs(rows)
    BY <1>5, <1>b
  <1> QED  BY <1>6 DEF right

-----------------------------------------------------------------------------
(* Theorems *)

(* No question is asked before its evidence is in the harness, and none of *)
(* a later wave while one of an earlier wave is unanswered (the waves of   *)
(* runSizeJob and runBounded's join), whatever the suite, the concurrency  *)
(* and the moment of a cancellation.                                       *)
THEOREM EvidenceComesFirst == Spec => []EvidenceBeforeQuestion
  <1>1. IInv => EvidenceBeforeQuestion
    <2> SUFFICES ASSUME IInv, NEW c \in CaseIds, ~IsTool(c), work[c].at # "queued"
                 PROVE  /\ Case(c).needs \subseteq seeded
                        /\ \A d \in CaseIds : (IsTool(d) \/ WaveOf(d) < WaveOf(c)) =>
                             work[d].at \in {"graded", "panicked"}
      BY DEF EvidenceBeforeQuestion
    <2>1. Case(c).needs \subseteq seeded
      BY DEF IInv, AskInv
    <2>2. WaveOf(c) \in Nat \ {0} /\ WaveOf(c) <= batch /\ batch \in Nat
      BY WavesAreCounted DEF IInv, PhaseInv, OrderInv, BatchOf
    <2>3. ASSUME NEW d \in CaseIds, IsTool(d) \/ WaveOf(d) < WaveOf(c)
          PROVE  work[d].at \in {"graded", "panicked"}
      <3>1. BatchOf(d) < batch
        BY <2>2, <2>3, WavesAreCounted DEF IInv, PhaseInv, BatchOf
      <3> QED  BY <3>1 DEF IInv, OrderInv, Ended
    <2> QED  BY <2>1, <2>3
  <1> QED  BY <1>1, InvariantHolds, PTL

(* A case the harness never answered weighs on no group metric: a failed   *)
(* call is never read as brittle phrasing or as a failed audit pair        *)
(* (runSizeJob's undelivered cases in MetamorphicConsistency and           *)
(* AuditPairs), whatever the rows of the report.                           *)
THEOREM SilenceIsNeutral == Spec => []UndeliveredIsNeutral
  <1>1. IInv => UndeliveredIsNeutral
    <2> SUFFICES ASSUME IInv  PROVE UndeliveredIsNeutral
      OBVIOUS
    <2>1. PICK S : perCase \in Seq(S)
      BY DEF IInv, RowInv
    <2>2. \A i \in DOMAIN perCase : IsRow(perCase[i])
      BY DEF IInv, RowInv
    <2> QED  BY <2>1, <2>2, ConsistencyIgnoresSilence, AuditIgnoresSilence DEF UndeliveredIsNeutral
  <1> QED  BY <1>1, InvariantHolds, PTL

-----------------------------------------------------------------------------
(* The report and the transcripts *)

(* A graded case has the score its transcript entry gives it. *)
GradeInv ==
  /\ DOMAIN transcript = CaseIds
  /\ \A c \in CaseIds : work[c].at = "graded" => results[c] = GradeEntry(c, transcript[c])

(* order[b] lists the cases asked before batch b. *)
IsOrder(order, b) ==
  order = [k \in 0 .. b |-> IF k = 0 THEN <<>> ELSE order[k - 1] \o Batch(k - 1)]
InOrder(order, b) ==
  \A k \in 0 .. b : order[k] \in Seq(CaseIds) /\ \A i \in DOMAIN order[k] : BatchOf(order[k][i]) < k
FoldInv ==
  \E order : /\ IsOrder(order, batch) /\ InOrder(order, batch)
            /\ perCase = [i \in DOMAIN order[batch] |-> results[order[batch][i]]]

(* What is published was made of what is still there. *)
PublishInv ==
  /\ pc \in {"score", "done"} => batch = Len(Waves) + 1
  /\ report # NoReport => pc = "done" /\ report = Report(perCase, transcript)

ReportInv == IInv /\ GradeInv /\ FoldInv /\ PublishInv

(* Grading and reporting depend on the suite and their arguments alone. *)
LEMMA GradingStays ==
  ASSUME run' = run
  PROVE  /\ \A c, entry : GradeEntry(c, entry)' = GradeEntry(c, entry)
         /\ perCase' = perCase /\ transcript' = transcript =>
              Report(perCase, transcript)' = Report(perCase, transcript)
  <1>1. \A c, entry : GradeEntry(c, entry)' = GradeEntry(c, entry)
    BY DEF GradeEntry, IsTool, Case
  <1>2. ASSUME perCase' = perCase, transcript' = transcript
        PROVE  Report(perCase, transcript)' = Report(perCase, transcript)
    BY <1>2 DEF Report, Details, Case
  <1> QED  BY <1>1, <1>2

(* What has ended stays as it is, and what is graded is graded from its entry. *)
LEMMA GradesStay ==
  ASSUME IInv, GradeInv, NEW c \in CaseIds, CaseStep(c) \/ ToolCall(c)
  PROVE  /\ GradeInv'
         /\ \A d \in CaseIds : work[d].at \in Ended => results'[d] = results[d]
         /\ work[c].at \in Ended \cup {"queued"} => transcript' = transcript /\ results' = results
         /\ report' = report
  <1> USE DEF Elsewhere, worker
  <1>1. run' = run /\ PlacesMove /\ UNCHANGED worker
    BY CaseStepsMove DEF IInv
  <1>2. CaseIds' = CaseIds /\ \A d, entry : GradeEntry(d, entry)' = GradeEntry(d, entry)
    BY <1>1, SuiteStays, GradingStays
  <1>3. CASE Record(c)
    <2>1. /\ work[c].at = "returned" /\ results' = results /\ DOMAIN transcript' = CaseIds
          /\ \A d \in CaseIds : d # c => transcript'[d] = transcript[d]
          /\ \A d \in CaseIds : d # c => work'[d] = work[d]
          /\ work'[c].at = "recorded"
      BY <1>3 DEF Record, GradeInv, IInv, PhaseInv, Idle
    <2>2. \A d \in CaseIds : work'[d].at = "graded" => results'[d] = GradeEntry(d, transcript'[d])
      BY <2>1 DEF GradeInv
    <2> QED  BY <1>1, <1>2, <2>1, <2>2 DEF GradeInv, Ended
  <1>4. CASE Grade(c)
    <2>1. /\ work[c].at = "recorded" /\ transcript' = transcript
          /\ results' = [results EXCEPT ![c] = GradeEntry(c, transcript[c])]
          /\ \A d \in CaseIds : d # c => work'[d] = work[d]
      BY <1>4 DEF Grade, IInv, PhaseInv
    <2>2. results'[c] = GradeEntry(c, transcript[c]) /\ \A d \in CaseIds : d # c => results'[d] = results[d]
      BY <2>1 DEF IInv, RowInv
    <2>3. \A d \in CaseIds : work'[d].at = "graded" => results'[d] = GradeEntry(d, transcript'[d])
      BY <2>1, <2>2 DEF GradeInv
    <2> QED  BY <1>1, <1>2, <2>1, <2>2, <2>3 DEF GradeInv, Ended
  <1>5. ASSUME results' = results, transcript' = transcript,
               \A d \in CaseIds : work'[d].at = "graded" => work[d].at = "graded"
        PROVE  GradeInv'
    BY <1>2, <1>5 DEF GradeInv
  <1>6. ASSUME NEW at, at # "graded", \A d \in CaseIds : d # c => work'[d] = work[d], work'[c].at = at
        PROVE  \A d \in CaseIds : work'[d].at = "graded" => work[d].at = "graded"
    BY <1>6
  <1>7. CASE Answer(c)
    BY <1>1, <1>5, <1>6, <1>7 DEF Answer, IInv, PhaseInv, Idle
  <1>8. CASE Reject(c)
    BY <1>1, <1>5, <1>6, <1>8 DEF Reject, Attempt, IInv, PhaseInv, Idle
  <1>9. CASE Fault(c)
    BY <1>1, <1>5, <1>6, <1>9 DEF Fault, Attempt, IInv, PhaseInv, Idle
  <1>10. CASE Cut(c)
    BY <1>1, <1>5, <1>6, <1>10 DEF Cut, Attempt, IInv, PhaseInv, Idle
  <1>11. CASE Retry(c)
    BY <1>1, <1>5, <1>6, <1>11 DEF Retry, IInv, PhaseInv, Idle
  <1>12. CASE AbandonBackoff(c)
    BY <1>1, <1>5, <1>6, <1>12 DEF AbandonBackoff, IInv, PhaseInv, Idle
  <1>13. CASE DeadlinePasses(c)
    BY <1>1, <1>5, <1>13 DEF DeadlinePasses, IInv, PhaseInv, Idle
  <1>14. CASE CasePanics(c)
    BY <1>1, <1>5, <1>6, <1>14 DEF CasePanics, IInv, PhaseInv, Idle
  <1>15. CASE ToolCall(c)
    BY <1>1, <1>5, <1>15 DEF ToolCall
  <1> QED  BY <1>3, <1>4, <1>7, <1>8, <1>9, <1>10, <1>11, <1>12, <1>13, <1>14, <1>15 DEF CaseStep

(* The rows stay in order as long as no result of an ended case changes. *)
LEMMA RowsStay ==
  ASSUME IInv, FoldInv, run' = run, batch' = batch, perCase' = perCase,
         \A c \in CaseIds : work[c].at \in Ended => results'[c] = results[c]
  PROVE  FoldInv'
  <1>1. PICK order : /\ IsOrder(order, batch) /\ InOrder(order, batch)
                     /\ perCase = [i \in DOMAIN order[batch] |-> results[order[batch][i]]]
    BY DEF FoldInv
  <1>2. CaseIds' = CaseIds /\ (\A c : BatchOf(c)' = BatchOf(c)) /\ \A b : Batch(b)' = Batch(b)
    BY SuiteStays, SMTT(60)
  <1>3. IsOrder(order, batch)' /\ InOrder(order, batch)'
    BY <1>1, <1>2 DEF IsOrder, InOrder
  <1>4. \A i \in DOMAIN order[batch] : order[batch][i] \in CaseIds /\ BatchOf(order[batch][i]) < batch
    <2>1. batch \in 0 .. batch
      BY DEF IInv, PhaseInv
    <2> QED  BY <1>1, <2>1 DEF InOrder
  <1>5. perCase' = [i \in DOMAIN order[batch] |-> results'[order[batch][i]]]
    BY <1>1, <1>4 DEF IInv, OrderInv
  <1>6. \E o : (/\ IsOrder(o, batch) /\ InOrder(o, batch)
               /\ perCase = [i \in DOMAIN o[batch] |-> results[o[batch][i]]])'
    BY <1>3, <1>5
  <1> QED  BY <1>6 DEF FoldInv

LEMMA OrderSteps ==
  ASSUME NEW order, NEW b \in Nat, IsOrder(order, b)
  PROVE  order[0] = <<>> /\ \A k \in 1 .. b : order[k] = order[k - 1] \o Batch(k - 1)
  <1> DEFINE Step(f) == [k \in 0 .. b |-> IF k = 0 THEN <<>> ELSE f[k - 1] \o Batch(k - 1)]
  <1>1. order = Step(order)
    BY DEF IsOrder
  <1> DEFINE next == Step(order)
  <1>2. next[0] = <<>> /\ \A k \in 1 .. b : next[k] = order[k - 1] \o Batch(k - 1)
    <2>1. 0 \in 0 .. b /\ \A k \in 1 .. b : k \in 0 .. b /\ k # 0
      OBVIOUS
    <2> QED  BY <2>1
  <1> HIDE DEF next, Step
  <1>3. order = next
    BY <1>1 DEF next
  <1> QED  BY <1>2, <1>3

(* A batch that ends adds its rows after those of the batches before it. *)
LEMMA BatchIsFolded ==
  ASSUME IInv, FoldInv, EndBatch, ~cancelled
  PROVE  FoldInv'
  <1>1. PICK order : /\ IsOrder(order, batch) /\ InOrder(order, batch)
                     /\ perCase = [i \in DOMAIN order[batch] |-> results[order[batch][i]]]
    BY DEF FoldInv
  <1> DEFINE before == order[batch]
             longer == [k \in 0 .. batch + 1 |-> IF k = batch + 1 THEN before \o Current ELSE order[k]]
  <1>2. /\ run' = run /\ results' = results /\ batch' = batch + 1 /\ batch \in Nat
        /\ perCase' = perCase \o [i \in DOMAIN Current |-> results[Current[i]]]
    BY DEF EndBatch, IInv, PhaseInv
  <1>3. CaseIds' = CaseIds /\ (\A c : BatchOf(c)' = BatchOf(c)) /\ \A b : Batch(b)' = Batch(b)
    BY <1>2, SuiteStays
  <1>4. /\ Current \in Seq(CaseIds) /\ before \in Seq(CaseIds) /\ Len(before) \in Nat /\ Len(Current) \in Nat
        /\ \A i \in DOMAIN before : BatchOf(before[i]) < batch
        /\ \A i \in DOMAIN Current : BatchOf(Current[i]) = batch
    <2>1. before \in Seq(CaseIds) /\ \A i \in DOMAIN before : BatchOf(before[i]) < batch
      BY <1>1, <1>2 DEF InOrder
    <2>2. Current \in Seq(CaseIds)
      BY CurrentIsABatch DEF IInv
    <2>3. \A i \in DOMAIN Current : BatchOf(Current[i]) = batch
      BY <2>2, CurrentIsABatch DEF IInv
    <2> HIDE DEF before
    <2> QED  BY <2>1, <2>2, <2>3
  <1>5. /\ before \o Current \in Seq(CaseIds) /\ DOMAIN (before \o Current) = 1 .. Len(before) + Len(Current)
        /\ \A i \in 1 .. Len(before) + Len(Current) :
             (before \o Current)[i] = IF i <= Len(before) THEN before[i] ELSE Current[i - Len(before)]
    <2> HIDE DEF before
    <2>1. /\ before \o Current \in Seq(CaseIds) /\ Len(before \o Current) = Len(before) + Len(Current)
          /\ \A i \in 1 .. Len(before) + Len(Current) :
               (before \o Current)[i] = IF i <= Len(before) THEN before[i] ELSE Current[i - Len(before)]
      BY <1>4, ConcatProperties
    <2> QED  BY <2>1
  <1>6. \A i \in DOMAIN (before \o Current) : BatchOf((before \o Current)[i]) < batch + 1
    <2> HIDE DEF before
    <2> SUFFICES ASSUME NEW i \in 1 .. Len(before) + Len(Current)
                 PROVE  BatchOf((before \o Current)[i]) < batch + 1
      BY <1>5
    <2>1. CASE i <= Len(before)
      <3>1. i \in DOMAIN before /\ (before \o Current)[i] = before[i]
        BY <1>4, <1>5, <2>1
      <3>2. BatchOf(before[i]) < batch /\ BatchOf(before[i]) \in Nat
        BY <1>4, <3>1, WavesAreCounted DEF IInv, PhaseInv
      <3> QED  BY <1>2, <3>1, <3>2
    <2>2. CASE i > Len(before)
      <3>1. i - Len(before) \in DOMAIN Current /\ (before \o Current)[i] = Current[i - Len(before)]
        BY <1>4, <1>5, <2>2
      <3> QED  BY <1>2, <1>4, <3>1
    <2> QED  BY <1>4, <2>1, <2>2
  <1>7. IsOrder(longer, batch + 1)
    <2>a. order[0] = <<>>
      BY <1>1, <1>2, OrderSteps
    <2>1. longer[0] = <<>>
      BY <1>2, <2>a
    <2>2. ASSUME NEW k \in 1 .. batch + 1
          PROVE  longer[k] = longer[k - 1] \o Batch(k - 1)
      <3>1. CASE k = batch + 1
        <4>1. longer[k] = before \o Current /\ longer[k - 1] = before /\ k - 1 = batch
          BY <1>2, <3>1
        <4> QED  BY <4>1 DEF Current
      <3>2. CASE k \in 1 .. batch
        <4>1. longer[k] = order[k] /\ longer[k - 1] = order[k - 1]
          BY <1>2, <3>2
        <4>2. order[k] = order[k - 1] \o Batch(k - 1)
          BY <1>1, <1>2, <3>2, OrderSteps
        <4> HIDE DEF longer
        <4> QED  BY <4>1, <4>2
      <3>3. k = batch + 1 \/ k \in 1 .. batch
        BY <1>2
      <3> HIDE DEF longer
      <3> QED  BY <3>1, <3>2, <3>3
    <2>3. longer = [k \in 0 .. batch + 1 |-> longer[k]]
      OBVIOUS
    <2> HIDE DEF longer
    <2>4. \A k \in 0 .. batch + 1 : longer[k] = IF k = 0 THEN <<>> ELSE longer[k - 1] \o Batch(k - 1)
      <3>1. \A k \in 0 .. batch + 1 : k = 0 \/ k \in 1 .. batch + 1
        BY <1>2
      <3>2. \A k \in 1 .. batch + 1 : k # 0
        BY <1>2
      <3> QED  BY <2>1, <2>2, <3>1, <3>2
    <2> QED  BY <2>3, <2>4 DEF IsOrder
  <1>8. InOrder(longer, batch + 1)
    <2> SUFFICES ASSUME NEW k \in 0 .. batch + 1
                 PROVE  longer[k] \in Seq(CaseIds) /\ \A i \in DOMAIN longer[k] : BatchOf(longer[k][i]) < k
      BY DEF InOrder
    <2>1. CASE k = batch + 1
      <3>1. longer[k] = before \o Current
        BY <2>1
      <3> QED  BY <1>5, <1>6, <2>1, <3>1
    <2>2. CASE k \in 0 .. batch
      <3>1. longer[k] = order[k]
        BY <1>2, <2>2
      <3> QED  BY <1>1, <2>2, <3>1 DEF InOrder
    <2> QED  BY <1>2, <2>1, <2>2
  <1>9. perCase' = [i \in DOMAIN longer[batch + 1] |-> results[longer[batch + 1][i]]]
    <2> DEFINE new == [i \in DOMAIN Current |-> results[Current[i]]]
               all == [i \in DOMAIN (before \o Current) |-> results[(before \o Current)[i]]]
               S == {results[c] : c \in CaseIds}
    <2>1. longer[batch + 1] = before \o Current
      BY <1>2
    <2>2. perCase = [i \in DOMAIN before |-> results[before[i]]]
      BY <1>1
    <2> HIDE DEF before, longer
    <2>3. /\ perCase \in Seq(S) /\ Len(perCase) = Len(before)
          /\ new \in Seq(S) /\ Len(new) = Len(Current)
      BY <1>4, <2>2
    <2>4. \A i \in DOMAIN (before \o Current) : (before \o Current)[i] \in CaseIds
      BY <1>5
    <2>5. all \in Seq(S) /\ Len(all) = Len(before) + Len(Current) /\ DOMAIN all = 1 .. Len(before) + Len(Current)
      BY <1>4, <1>5, <2>4
    <2> HIDE DEF S
    <2>6. /\ perCase \o new \in Seq(S) /\ Len(perCase \o new) = Len(before) + Len(Current)
          /\ \A i \in 1 .. Len(before) + Len(Current) :
               (perCase \o new)[i] = IF i <= Len(before) THEN perCase[i] ELSE new[i - Len(before)]
      <3> HIDE DEF new
      <3>1. /\ perCase \o new \in Seq(S) /\ Len(perCase \o new) = Len(perCase) + Len(new)
            /\ \A i \in 1 .. Len(perCase) + Len(new) :
                 (perCase \o new)[i] = IF i <= Len(perCase) THEN perCase[i] ELSE new[i - Len(perCase)]
        BY <2>3, ConcatProperties
      <3> QED  BY <2>3, <3>1
    <2>7. ASSUME NEW i \in 1 .. Len(before) + Len(Current)
          PROVE  (perCase \o new)[i] = all[i]
      <3>1. all[i] = results[(before \o Current)[i]]
        BY <2>5
      <3>2. CASE i <= Len(before)
        <4>1. i \in DOMAIN before /\ (before \o Current)[i] = before[i] /\ (perCase \o new)[i] = perCase[i]
          BY <1>4, <1>5, <2>6, <3>2
        <4> QED  BY <2>2, <3>1, <4>1
      <3>3. CASE i > Len(before)
        <4>1. /\ i - Len(before) \in DOMAIN Current /\ (before \o Current)[i] = Current[i - Len(before)]
              /\ (perCase \o new)[i] = new[i - Len(before)]
          BY <1>4, <1>5, <2>6, <3>3, SMTT(60)
        <4> QED  BY <3>1, <4>1
      <3>4. i <= Len(before) \/ i > Len(before)
        BY <1>4
      <3> HIDE DEF new, all
      <3> QED  BY <3>2, <3>3, <3>4
    <2>8. perCase \o new = all
      <3> HIDE DEF new, all
      <3> QED  BY <2>5, <2>6, <2>7, SeqEqual
    <2> QED  BY <1>2, <2>1, <2>8
  <1>10. PICK o : o = longer
    OBVIOUS
  <1>11. /\ IsOrder(o, batch + 1) /\ InOrder(o, batch + 1)
         /\ perCase' = [i \in DOMAIN o[batch + 1] |-> results[o[batch + 1][i]]]
    <2> HIDE DEF longer
    <2> QED  BY <1>7, <1>8, <1>9, <1>10
  <1> HIDE DEF longer
  <1>12. (IsOrder(o, batch) /\ InOrder(o, batch) /\ perCase = [i \in DOMAIN o[batch] |-> results[o[batch][i]]])'
    BY <1>2, <1>3, <1>11 DEF IsOrder, InOrder
  <1> QED  BY <1>12 DEF FoldInv

(* The worker's other steps touch neither the rows nor what they are made of. *)
LEMMA PlainWorkerSteps ==
  ASSUME WorkerStep, ~EndBatch, ~Publish
  PROVE  /\ run' = run /\ batch' = batch /\ perCase' = perCase /\ results' = results
         /\ transcript' = transcript /\ report' = report
         /\ pc # "done" /\ pc # "score"
  BY DEF WorkerStep, StartToolServer, SeedPrerequisites, RefusePrerequisites, SeedSecondary, SeedWave, Seed, StartCase

LEMMA ReportInvKept ==
  ASSUME ReportInv, [Next]_vars
  PROVE  ReportInv'
  <1> USE DEF ReportInv
  <1>1. IInv'
    BY NextKeeps
  <1>2. run' = run /\ CaseIds' = CaseIds /\ Waves' = Waves
    <2>1. run' = run
      BY ZenonT(60) DEF Next, WorkerStep, StartToolServer, SeedPrerequisites, RefusePrerequisites, SeedSecondary, SeedWave,
             Seed, StartCase, EndBatch, Publish, Cancel, Finished, vars, CaseStep, ToolCall, Answer, Reject, Fault,
             Cut, Retry, AbandonBackoff, DeadlinePasses, Record, Grade, CasePanics, Elsewhere
    <2> QED  BY <2>1, SuiteStays
  <1>3. ASSUME NEW c \in CaseIds, CaseStep(c) \/ ToolCall(c)
        PROVE  ReportInv'
    <2>1. UNCHANGED worker
      BY <1>3, CaseStepsMove DEF IInv
    <2>2. /\ GradeInv' /\ report' = report
          /\ \A d \in CaseIds : work[d].at \in Ended => results'[d] = results[d]
      BY <1>3, GradesStay
    <2>3. FoldInv'
      BY <1>2, <2>1, <2>2, RowsStay DEF worker
    <2>4. PublishInv'
      <3>1. ASSUME pc = "done"
            PROVE  transcript' = transcript
        <4>1. work[c].at \in Ended \cup {"queued"}
          BY <3>1, WavesAreCounted DEF IInv, PhaseInv, OrderInv
        <4> QED  BY <1>3, <4>1, GradesStay
      <3>2. pc = "done" => Report(perCase, transcript)' = Report(perCase, transcript)
        BY <1>2, <2>1, <3>1, GradingStays DEF worker
      <3> QED  BY <1>2, <2>1, <2>2, <3>2 DEF PublishInv, worker
    <2> QED  BY <1>1, <2>2, <2>3, <2>4
  <1>4. CASE Cancel \/ UNCHANGED vars
    <2>1. /\ results' = results /\ transcript' = transcript /\ perCase' = perCase /\ batch' = batch
          /\ report' = report /\ pc' = pc
          /\ \A c \in CaseIds : work'[c].at = work[c].at
      BY <1>4 DEF Cancel, vars, worker, IInv, PhaseInv, Idle
    <2>2. GradeInv'
      BY <1>2, <2>1, GradingStays DEF GradeInv
    <2>3. FoldInv'
      BY <1>2, <2>1, RowsStay
    <2>4. PublishInv'
      BY <1>2, <2>1, GradingStays DEF PublishInv
    <2> QED  BY <1>1, <2>2, <2>3, <2>4
  <1>5. CASE EndBatch
    <2>1. results' = results /\ transcript' = transcript /\ work' = work /\ report' = report /\ pc = "cases"
      BY <1>5 DEF EndBatch
    <2>2. GradeInv'
      BY <1>2, <2>1, GradingStays DEF GradeInv
    <2>3. FoldInv'
      <3>1. CASE cancelled
        <4>1. batch' = batch /\ perCase' = perCase
          BY <1>5, <3>1 DEF EndBatch
        <4> QED  BY <1>2, <2>1, <4>1, RowsStay
      <3> QED  BY <1>5, <3>1, BatchIsFolded
    <2>4. PublishInv'
      <3>1. pc' \in {"score", "done"} => batch' = Len(Waves) + 1
        <4>1. Len(Waves) \in Nat /\ batch \in 0 .. Len(Waves)
          BY <2>1, WavesAreCounted DEF IInv, PhaseInv
        <4> QED  BY <1>5, <4>1 DEF EndBatch, Stop
      <3>2. report = NoReport
        BY <2>1 DEF PublishInv
      <3> QED  BY <1>2, <2>1, <3>1, <3>2 DEF PublishInv
    <2> QED  BY <1>1, <2>2, <2>3, <2>4
  <1>6. CASE Publish
    <2>1. /\ results' = results /\ transcript' = transcript /\ work' = work /\ perCase' = perCase
          /\ batch' = batch /\ report' = Report(perCase, transcript) /\ pc = "score" /\ pc' = "done"
      BY <1>6 DEF Publish
    <2>2. GradeInv'
      BY <1>2, <2>1, GradingStays DEF GradeInv
    <2>3. FoldInv'
      BY <1>2, <2>1, RowsStay
    <2>4. PublishInv'
      BY <1>2, <2>1, GradingStays DEF PublishInv
    <2> QED  BY <1>1, <2>2, <2>3, <2>4
  <1>7. CASE WorkerStep /\ ~EndBatch /\ ~Publish
    <2>1. /\ batch' = batch /\ perCase' = perCase /\ results' = results /\ transcript' = transcript
          /\ report' = report /\ pc # "done" /\ pc # "score"
      BY <1>7, PlainWorkerSteps
    <2>2. \A c \in CaseIds : work'[c].at = "graded" => work[c].at = "graded"
      <3>1. CASE work' = work
        BY <3>1
      <3>2. CASE StartCase
        <4>1. Current[launched + 1] \in CaseIds
          BY <3>2, CurrentIsABatch DEF StartCase, IInv, PhaseInv
        <4> QED  BY <3>2, <4>1 DEF StartCase, IInv, PhaseInv, Idle
      <3> QED  BY <1>7, <3>1, <3>2 DEF WorkerStep, StartToolServer, SeedPrerequisites, RefusePrerequisites,
                 SeedSecondary, SeedWave, Seed
    <2>3. GradeInv'
      BY <1>2, <2>1, <2>2, GradingStays DEF GradeInv
    <2>4. FoldInv'
      BY <1>2, <2>1, RowsStay
    <2>5. PublishInv'
      <3>1. pc' \in {"score", "done"} => batch = Len(Waves) + 1
        <4>1. pc' \in {"score", "done"} => pc = "secondary" /\ Waves = <<>>
          BY <1>7 DEF WorkerStep, StartToolServer, SeedPrerequisites, RefusePrerequisites, SeedSecondary,
                     SeedWave, Seed, Post, Stop, StartCase
        <4>2. Waves = <<>> => Len(Waves) = 0
          OBVIOUS
        <4> QED  BY <4>1, <4>2 DEF IInv, PhaseInv
      <3>2. report = NoReport
        BY <2>1 DEF PublishInv
      <3> QED  BY <1>2, <2>1, <3>1, <3>2 DEF PublishInv
    <2> QED  BY <1>1, <2>3, <2>4, <2>5
  <1> QED  BY <1>3, <1>4, <1>5, <1>6, <1>7 DEF Next, Finished

LEMMA ReportInvHolds == Spec => []ReportInv
  <1>1. Init => ReportInv
    <2> SUFFICES ASSUME Init  PROVE ReportInv
      OBVIOUS
    <2>1. GradeInv
      <3>1. Idle.at # "graded"
        BY DEF Idle
      <3> QED  BY <3>1 DEF Init, GradeInv
    <2>2. FoldInv
      <3> DEFINE o == [k \in 0 .. 0 |-> <<>>]
      <3>1. batch = 0 /\ perCase = <<>>
        BY DEF Init
      <3>2. IsOrder(o, 0) /\ InOrder(o, 0)
        BY DEF IsOrder, InOrder
      <3>3. perCase = [i \in DOMAIN o[0] |-> results[o[0][i]]]
        BY <3>1
      <3> HIDE DEF o
      <3> QED  BY <3>1, <3>2, <3>3 DEF FoldInv
    <2>3. PublishInv
      BY DEF Init, PublishInv
    <2> QED  BY <2>1, <2>2, <2>3, InitHolds DEF ReportInv
  <1>2. ReportInv /\ [Next]_vars => ReportInv'
    BY ReportInvKept
  <1> QED  BY <1>1, <1>2, PTL DEF Spec

(* The order a report is checked against is the order it was made in. *)
LEMMA OrderIsUnique ==
  ASSUME run \in Runs, NEW order, IsOrder(order, Len(Waves) + 1)
  PROVE  CaseOrder = order[Len(Waves) + 1]
  <1> DEFINE n == Len(Waves) + 1
             Step(f) == [b \in 0 .. n |-> IF b = 0 THEN <<>> ELSE f[b - 1] \o Batch(b - 1)]
             Before == CHOOSE f : f = Step(f)
             Odd == {b \in 0 .. n : Before[b] # order[b]}
  <1>1. n \in Nat
    BY WavesAreCounted
  <1>2. CaseOrder = Before[n]
    BY DEF CaseOrder
  <1>3. order = Step(order)
    BY DEF IsOrder
  <1>4. Before = Step(Before)
    <2> HIDE DEF Step
    <2> QED  BY <1>3
  <1>5. /\ Before[0] = order[0]
        /\ \A b \in 1 .. n : /\ Before[b] = Before[b - 1] \o Batch(b - 1)
                           /\ order[b] = order[b - 1] \o Batch(b - 1)
    <2>1. \A f : f = Step(f) => f[0] = <<>> /\ \A b \in 1 .. n : f[b] = f[b - 1] \o Batch(b - 1)
      <3> HIDE DEF n
      <3> SUFFICES ASSUME NEW f, f = [b \in 0 .. n |-> IF b = 0 THEN <<>> ELSE f[b - 1] \o Batch(b - 1)]
                   PROVE  f[0] = <<>> /\ \A b \in 1 .. n : f[b] = f[b - 1] \o Batch(b - 1)
        OBVIOUS
      <3>1. IsOrder(f, n)
        BY DEF IsOrder
      <3> QED  BY <1>1, <3>1, OrderSteps
    <2> HIDE DEF Before, Step, n
    <2> QED  BY <1>3, <1>4, <2>1
  <1> HIDE DEF Step, Before, n
  <1>6. Odd = {}
    <2> SUFFICES ASSUME Odd # {}  PROVE FALSE
      OBVIOUS
    <2>1. Odd \in SUBSET (0 .. n)
      OBVIOUS
    <2>2. PICK b \in Odd : \A k \in Odd : b <= k
      <3> HIDE DEF Odd
      <3> QED  BY <1>1, <2>1, LeastNatural
    <2>3. b \in 0 .. n /\ Before[b] # order[b]
      OBVIOUS
    <2>a. b # 0
      BY <1>5, <2>3
    <2>4. b - 1 \in 0 .. n /\ b - 1 \notin Odd
      BY <1>1, <2>2, <2>3, <2>a
    <2>5. Before[b - 1] = order[b - 1]
      BY <2>4
    <2>6. b \in 1 .. n
      BY <1>1, <2>3, <2>a
    <2> QED  BY <1>5, <2>3, <2>5, <2>6
  <1>7. n \in 0 .. n
    BY <1>1
  <1>8. Before[n] = order[n]
    BY <1>6, <1>7
  <1> QED  BY <1>2, <1>8 DEF n

(* What is published can be graded again from the suite and the transcript *)
(* alone (transcript.go), whatever the suite, the concurrency, the order   *)
(* the cases end in and the calls the harness makes after it answered.     *)
THEOREM ReportsCanBeRegraded == Spec => []ReportFromTranscripts
  <1>1. ReportInv => ReportFromTranscripts
    <2> SUFFICES ASSUME ReportInv, report # NoReport, \A c \in CaseIds : work[c].at # "panicked"
                 PROVE  report = Report([i \in DOMAIN CaseOrder |-> GradeEntry(CaseOrder[i], transcript[CaseOrder[i]])],
                                        transcript)
      BY DEF ReportFromTranscripts
    <2>1. report = Report(perCase, transcript) /\ batch = Len(Waves) + 1
      BY DEF ReportInv, PublishInv
    <2>2. PICK order : /\ IsOrder(order, batch) /\ InOrder(order, batch)
                       /\ perCase = [i \in DOMAIN order[batch] |-> results[order[batch][i]]]
      BY DEF ReportInv, FoldInv
    <2>3. order[batch] = CaseOrder
      BY <2>1, <2>2, OrderIsUnique DEF ReportInv, IInv, PhaseInv
    <2>4. \A i \in DOMAIN CaseOrder : results[CaseOrder[i]] = GradeEntry(CaseOrder[i], transcript[CaseOrder[i]])
      <3>1. batch \in 0 .. batch
        BY DEF ReportInv, IInv, PhaseInv
      <3>2. \A i \in DOMAIN CaseOrder : CaseOrder[i] \in CaseIds /\ BatchOf(CaseOrder[i]) < batch
        BY <2>2, <2>3, <3>1 DEF InOrder
      <3>3. \A c \in CaseIds : BatchOf(c) < batch => work[c].at = "graded"
        BY DEF ReportInv, IInv, OrderInv, Ended
      <3> QED  BY <3>2, <3>3 DEF ReportInv, GradeInv
    <2>5. perCase = [i \in DOMAIN CaseOrder |-> GradeEntry(CaseOrder[i], transcript[CaseOrder[i]])]
      BY <2>2, <2>3, <2>4
    <2> QED  BY <2>1, <2>5
  <1> QED  BY <1>1, ReportInvHolds, PTL
-----------------------------------------------------------------------------
(* Self-reports *)

(* What a harness answers, and what is kept of it, has its two parts.      *)
IsResponse(resp) == DOMAIN resp = {"calls", "says"} /\ IsList(resp.calls)
IsEntry(entry) == DOMAIN entry = DOMAIN Blank /\ IsResponse(entry.response) /\ IsList(entry.observed)
EntryInv ==
  /\ DOMAIN calls = CaseIds /\ \A c \in CaseIds : \E Calls : calls[c] \in Seq(Calls)
  /\ \A c \in CaseIds : IsResponse(work[c].response)
  /\ \A c \in CaseIds : IsEntry(transcript[c])

LEMMA RecordedCallsAreAList ==
  ASSUME EntryInv, NEW c \in CaseIds
  PROVE  IsList(calls[c])
  <1>1. PICK Calls : calls[c] \in Seq(Calls)
    BY DEF EntryInv
  <1> QED  BY <1>1 DEF IsList

(* An answered case, a recorded one and a call keep the parts. *)
LEMMA CaseStepsKeepEntries ==
  ASSUME ReportInv, EntryInv, NEW c \in CaseIds, CaseStep(c) \/ ToolCall(c)
  PROVE  EntryInv'
  <1> USE DEF ReportInv, IInv, Elsewhere
  <1>1. run' = run /\ CaseIds' = CaseIds /\ DOMAIN work = CaseIds /\ DOMAIN transcript = CaseIds
        /\ \A d \in CaseIds : DOMAIN work[d] = DOMAIN Idle
    BY CaseStepsMove, SuiteStays DEF PhaseInv, GradeInv
  <1>2. IsResponse(NoResponse)
    BY DEF IsResponse, NoResponse, IsList
  <1>3. ASSUME calls' = calls, transcript' = transcript, \A d \in CaseIds : IsResponse(work'[d].response)
        PROVE  EntryInv'
    BY <1>1, <1>3 DEF EntryInv, IsResponse, IsEntry
  <1>4. ASSUME calls' = calls, transcript' = transcript, \A d \in CaseIds : work'[d].response = work[d].response
        PROVE  EntryInv'
    BY <1>3, <1>4 DEF EntryInv
  <1>5. CASE Answer(c)
    <2>1. PICK says \in Case(c).mayAnswer, reported \in Case(c).mayReport \cup {calls[c]} :
            /\ work'[c].response = [calls |-> reported, says |-> says]
            /\ \A d \in CaseIds : d # c => work'[d] = work[d]
      BY <1>1, <1>5 DEF Answer, Idle
    <2>2. IsList(reported)
      <3>1. \A s \in Case(c).mayReport : IsList(s)
        BY DatasetAssumption DEF PhaseInv, Case, CaseIds
      <3> QED  BY <3>1, RecordedCallsAreAList
    <2>3. IsResponse(work'[c].response)
      BY <2>1, <2>2 DEF IsResponse
    <2>4. \A d \in CaseIds : IsResponse(work'[d].response)
      BY <2>1, <2>3 DEF EntryInv
    <2>5. calls' = calls /\ transcript' = transcript
      BY <1>5 DEF Answer
    <2> QED  BY <1>3, <2>4, <2>5
  <1>6. CASE Reject(c)
    BY <1>1, <1>4, <1>6 DEF Reject, Attempt, Idle
  <1>7. CASE Fault(c)
    BY <1>1, <1>4, <1>7 DEF Fault, Attempt, Idle
  <1>8. CASE Cut(c)
    BY <1>1, <1>4, <1>8 DEF Cut, Attempt, Idle
  <1>9. CASE Retry(c)
    BY <1>1, <1>4, <1>9 DEF Retry, Idle
  <1>10. CASE AbandonBackoff(c)
    BY <1>1, <1>4, <1>10 DEF AbandonBackoff, Idle
  <1>11. CASE DeadlinePasses(c)
    BY <1>1, <1>4, <1>11 DEF DeadlinePasses, Idle
  <1>12. CASE CasePanics(c)
    BY <1>1, <1>4, <1>12 DEF CasePanics, Idle
  <1>13. CASE Grade(c)
    BY <1>1, <1>4, <1>13 DEF Grade, Idle
  <1>14. CASE Record(c)
    <2> DEFINE observed == calls[c]
               resp == IF Delivered(c) THEN work[c].response ELSE NoResponse
               kept == IF IsTool(c) THEN resp ELSE WithObservedTrajectory(resp, observed)
    <2>1. IsList(observed) /\ IsResponse(resp)
      BY <1>2, RecordedCallsAreAList DEF EntryInv
    <2>2. IsResponse(kept)
      <3> HIDE DEF resp, observed
      <3> QED  BY <2>1 DEF IsResponse, WithObservedTrajectory
    <2>3. /\ transcript'[c].response = kept /\ transcript'[c].observed = observed
          /\ DOMAIN transcript'[c] = DOMAIN Blank
          /\ \A d \in CaseIds : d # c => transcript'[d] = transcript[d]
      BY <1>1, <1>14 DEF Record, Blank
    <2> HIDE DEF observed, resp, kept
    <2>4. \A d \in CaseIds : IsEntry(transcript'[d])
      BY <2>1, <2>2, <2>3 DEF EntryInv, IsEntry
    <2>5. calls' = calls /\ \A d \in CaseIds : work'[d].response = work[d].response
      BY <1>1, <1>14 DEF Record, Idle
    <2> QED  BY <1>1, <2>4, <2>5 DEF EntryInv, IsEntry, IsResponse
  <1>15. CASE ToolCall(c)
    <2>1. PICK call \in Case(c).mayCall : calls' = [calls EXCEPT ![c] = Append(@, call)]
      BY <1>15 DEF ToolCall
    <2>2. PICK Calls : calls[c] \in Seq(Calls)
      BY DEF EntryInv
    <2>3. Append(calls[c], call) \in Seq(Calls \cup {call})
      BY <2>2
    <2>4. DOMAIN calls' = CaseIds /\ \A d \in CaseIds : \E S : calls'[d] \in Seq(S)
      BY <2>1, <2>3 DEF EntryInv
    <2>5. work' = work /\ transcript' = transcript
      BY <1>15 DEF ToolCall
    <2> QED  BY <1>1, <2>4, <2>5 DEF EntryInv, IsEntry, IsResponse
  <1> QED  BY <1>5, <1>6, <1>7, <1>8, <1>9, <1>10, <1>11, <1>12, <1>13, <1>14, <1>15, SMTT(60) DEF CaseStep

LEMMA EntriesKept ==
  ASSUME ReportInv, EntryInv, [Next]_vars
  PROVE  EntryInv'
  <1> USE DEF ReportInv, IInv
  <1>1. ASSUME run' = run, calls' = calls, transcript' = transcript,
               \A c \in CaseIds : work'[c].response = work[c].response
        PROVE  EntryInv'
    BY <1>1, SuiteStays DEF EntryInv, IsEntry, IsResponse
  <1>2. CASE WorkerStep
    <2>1. run' = run /\ calls' = calls /\ transcript' = transcript
      BY <1>2 DEF WorkerStep, StartToolServer, SeedPrerequisites, RefusePrerequisites, SeedSecondary, SeedWave,
                  Seed, StartCase, EndBatch, Publish
    <2>2. CASE work' = work
      BY <1>1, <2>1, <2>2
    <2>3. CASE StartCase
      <3>1. Current[launched + 1] \in CaseIds
        BY <2>3, CurrentIsABatch DEF StartCase, PhaseInv
      <3>2. \A c \in CaseIds : work'[c].response = work[c].response
        BY <2>3, <3>1 DEF StartCase, PhaseInv, Idle
      <3> QED  BY <1>1, <2>1, <3>2
    <2> QED  BY <1>2, <2>2, <2>3 DEF WorkerStep, StartToolServer, SeedPrerequisites, RefusePrerequisites,
               SeedSecondary, SeedWave, Seed, EndBatch, Publish
  <1>3. CASE Cancel
    <2>1. \A c \in CaseIds : work'[c].response = work[c].response
      BY <1>3 DEF Cancel, PhaseInv, Idle
    <2> QED  BY <1>1, <1>3, <2>1 DEF Cancel, worker
  <1>4. CASE UNCHANGED vars
    BY <1>1, <1>4 DEF vars
  <1> QED  BY <1>2, <1>3, <1>4, CaseStepsKeepEntries DEF Next, Finished

LEMMA EntriesHold == Spec => [](ReportInv /\ EntryInv)
  <1>1. Init => EntryInv
    <2> SUFFICES ASSUME Init  PROVE EntryInv
      OBVIOUS
    <2>1. IsResponse(NoResponse) /\ IsList(<<>>)
      BY DEF IsResponse, NoResponse, IsList
    <2>2. DOMAIN calls = CaseIds /\ \A c \in CaseIds : \E Calls : calls[c] \in Seq(Calls)
      <3>1. <<>> \in Seq({})
        OBVIOUS
      <3> QED  BY <3>1 DEF Init
    <2>3. \A c \in CaseIds : work[c].response = NoResponse
      BY DEF Init, Idle
    <2>4. \A c \in CaseIds : transcript[c] = Blank
      BY DEF Init
    <2>5. IsEntry(Blank)
      <3>1. Blank.response = NoResponse /\ Blank.observed = <<>>
        BY DEF Blank
      <3> QED  BY <2>1, <3>1 DEF IsEntry
    <2> QED  BY <2>1, <2>2, <2>3, <2>4, <2>5 DEF EntryInv
  <1>2. EntryInv /\ ReportInv /\ [Next]_vars => EntryInv'
    BY EntriesKept
  <1> QED  BY <1>1, <1>2, ReportInvHolds, PTL DEF Spec

(* Where the endpoint can check it, what a harness says of its own calls   *)
(* never pays (GradeToolCase's caps): for any suite, any trajectory of any *)
(* length and any version, a tool case scores at most what the same answer *)
(* scores without a self-report, or the ceiling of unobserved cases.       *)
THEOREM SelfReportsCostOnly == Spec => []SelfReportOnlyCosts
  <1>1. ReportInv /\ EntryInv => SelfReportOnlyCosts
    <2> DEFINE silent(entry) == [entry EXCEPT !.response.calls = <<>>]
    <2> SUFFICES ASSUME ReportInv, EntryInv, NEW c \in CaseIds, IsTool(c), work[c].at = "graded",
                        \/ transcript[c].observed # <<>>
                        \/ ToSet(Names(Case(c).expected)) \cap MemoryTools = {}
                 PROVE  results[c].score <=
                          Most(GradeEntry(c, silent(transcript[c])).score,
                               IF transcript[c].observed = <<>> THEN UnobservedCeiling(run.scope, run.version) ELSE 0)
      BY DEF SelfReportOnlyCosts
    <2> DEFINE entry == transcript[c]
               resp == entry.response
               quiet == [resp EXCEPT !.calls = <<>>]
               delivered == entry.outcome = "success"
    <2>1. IsEntry(entry)
      BY DEF EntryInv
    <2>2. /\ silent(entry).response = quiet /\ silent(entry).outcome = entry.outcome
          /\ silent(entry).observed = entry.observed
      BY <2>1 DEF IsEntry, Blank
    <2>3. results[c] = GradeEntry(c, entry)
      BY SMTT(60) DEF ReportInv, GradeInv
    <2>4. ToolCaseTyped(Case(c)) /\ run.version \in Nat
      BY DatasetAssumption, CaseRunsAssumption DEF ReportInv, IInv, PhaseInv, Case, CaseIds, IsTool
    <2>5. /\ GradeEntry(c, entry) = GradeToolCase(Case(c), resp, delivered, entry.observed, run.scope, run.version)
          /\ GradeEntry(c, silent(entry)) =
               GradeToolCase(Case(c), quiet, delivered, entry.observed, run.scope, run.version)
      BY <2>2 DEF GradeEntry
    <2>6. DOMAIN resp = {"calls", "says"} /\ IsList(resp.calls) /\ IsList(entry.observed)
      BY <2>1 DEF IsEntry, IsResponse
    <2>7. DOMAIN quiet = {"calls", "says"} /\ delivered \in BOOLEAN
      BY <2>6
    <2>8. GradeToolCase(Case(c), resp, delivered, entry.observed, run.scope, run.version).score <=
            Most(GradeToolCase(Case(c), quiet, delivered, entry.observed, run.scope, run.version).score,
                 IF entry.observed = <<>> THEN UnobservedCeiling(run.scope, run.version) ELSE 0)
      BY <2>4, <2>6, <2>7, SelfReportsNeverPay, ZenonT(60)
    <2> QED  BY <2>3, <2>5, <2>8
  <1> QED  BY <1>1, EntriesHold, PTL
-----------------------------------------------------------------------------
(* Full marks *)

(* What a full score leaves: every name as often as expected, all          *)
(* arguments right, and the order kept unless the case has none.           *)
Spotless(c, s) ==
  LET expected == Case(c).expected IN
  /\ \A n : Count(n, Names(s)) = Count(n, Names(expected))
  /\ ArgCorrectness(expected, s) = One
  /\ ~Case(c).unordered => OrderCredit(expected, s) = One

(* The calls are the expected ones in the order p.                         *)
Pairs(c, s, p) ==
  LET expected == Case(c).expected IN
  /\ p \in [DOMAIN s -> DOMAIN s]
  /\ \A i, j \in DOMAIN s : p[i] = p[j] => i = j
  /\ \A i \in DOMAIN s : Meets(s[p[i]], expected[i])
  /\ Case(c).unordered \/ \A i \in DOMAIN s : p[i] = i

(* A tool named once in the expectations is called where p says, and only  *)
(* there.                                                                  *)
NamePairs(expected, s, p) ==
  /\ p \in [DOMAIN s -> DOMAIN s] /\ \A i, j \in DOMAIN s : p[i] = p[j] => i = j
  /\ \A i \in DOMAIN s : s[p[i]].name = expected[i].name
LEMMA PairedOnce ==
  ASSUME NEW expected, NEW s, DOMAIN s = DOMAIN expected, IsList(s), IsInjective(Names(expected)),
         NEW p, NamePairs(expected, s, p)
  PROVE  \A k \in DOMAIN s : \A i \in DOMAIN s : s[i].name = expected[k].name <=> i = p[k]
  <1> DEFINE D == DOMAIN s
  <1>1. IsFiniteSet(D)
    BY PositionsAreFinite
  <1>2. \A k, l \in D : expected[k].name = expected[l].name => k = l
    BY DEF IsInjective, Names
  <1> SUFFICES ASSUME NEW k \in D, NEW i \in D
               PROVE  s[i].name = expected[k].name <=> i = p[k]
    OBVIOUS
  <1> HIDE DEF D
  <1>3. PICK l \in D : p[l] = i
    <2>1. p \in Injection(D, D)
      BY DEF NamePairs, Injection, IsInjective, D
    <2>2. p \in Surjection(D, D)
      BY <1>1, <2>1, FS_Injection
    <2> QED  BY <2>2 DEF Surjection
  <1>4. s[i].name = expected[l].name
    BY <1>3 DEF NamePairs, D
  <1> QED  BY <1>2, <1>3, <1>4 DEF NamePairs, D

(* Calls with nothing against them are exactly those expected.             *)
LEMMA SpotlessIsExact ==
  ASSUME NEW c, ToolCaseTyped(Case(c)), NEW s, IsList(s), Spotless(c, s)
  PROVE  Exact(c, s)
  <1> DEFINE expected == Case(c).expected
             m == Len(expected)
             D == DOMAIN expected
             Match(k) == MatchedCalls(expected, s, k)
  <1>1. IsList(expected) /\ m \in Nat /\ D = 1 .. m
    BY DEF ToolCaseTyped, IsList
  <1>2. \A n : Count(n, Names(s)) = Count(n, Names(expected))
    BY DEF Spotless
  <1>3. Len(s) = m /\ DOMAIN s = D
    <2>1. /\ IsList(Names(s)) /\ Len(Names(s)) = Len(s)
          /\ IsList(Names(expected)) /\ Len(Names(expected)) = Len(expected)
      BY <1>1, NamesAreAList
    <2>2. Len(Names(s)) = Len(Names(expected))
      BY <1>2, <2>1, NamesAreHit, ZenonT(60)
    <2> QED  BY <1>1, <2>1, <2>2 DEF IsList
  <1>4. /\ \A k \in D : \E i \in D : Match(k) = {i} /\ s[i].name = expected[k].name
        /\ \A k, l \in D : Match(k) = Match(l) => k = l
    <2>1. /\ \A k \in DOMAIN expected :
               \E i \in DOMAIN s : MatchedCalls(expected, s, k) = {i} /\ s[i].name = expected[k].name
          /\ \A k, l \in DOMAIN expected : MatchedCalls(expected, s, k) = MatchedCalls(expected, s, l) => k = l
      <3> HIDE DEF expected
      <3> QED  BY <1>1, <1>2, MatchesAreUnique
    <2> QED  BY <1>3, <2>1
  <1>5. \A k \in D : /\ Right(expected, s, k) = DOMAIN expected[k].required
                     /\ Present(expected, s, k, expected[k].forbidden) = {}
    BY ArgumentsAreRight DEF Spotless
  <1> DEFINE p == [k \in D |-> CHOOSE i \in D : Match(k) = {i} /\ s[i].name = expected[k].name]
  <1> HIDE DEF Match
  <1>6. /\ p \in [D -> D]
        /\ \A k \in D : Match(k) = {p[k]} /\ s[p[k]].name = expected[k].name
    BY <1>4
  <1> HIDE DEF p, D, m, expected
  <1>7. ASSUME NEW k \in D, NEW l \in D, p[k] = p[l]
        PROVE  k = l
    <2>1. Match(k) = {p[k]} /\ Match(l) = {p[l]}
      BY <1>6
    <2>2. Match(k) = Match(l)
      BY <1>7, <2>1
    <2> QED  BY <1>4, <2>2
  <1>8. ASSUME NEW k \in D
        PROVE  Meets(s[p[k]], expected[k])
    <2>1. MatchedCalls(expected, s, k) = {p[k]}
      BY <1>6 DEF Match
    <2>2. \A keys : Present(expected, s, k, keys) = keys \cap DOMAIN s[p[k]].args
      BY <2>1 DEF Present
    <2>3. expected[k].forbidden \cap DOMAIN s[p[k]].args = {}
      BY <1>5, <2>2
    <2>4. ASSUME NEW key \in DOMAIN expected[k].required
          PROVE  Carries(s[p[k]], key) /\ ArgValueEqual(s[p[k]].args[key], expected[k].required[key])
      <3>1. key \in Right(expected, s, k)
        BY <1>5
      <3>2. key \in Present(expected, s, k, DOMAIN expected[k].required)
        BY <3>1 DEF Right
      <3>3. \A i \in {p[k]} : ArgValueEqual(s[i].args[key], expected[k].required[key])
        BY <2>1, <3>1 DEF Right
      <3>4. Carries(s[p[k]], key)
        BY <2>2, <3>2 DEF Carries
      <3> QED  BY <3>3, <3>4
    <2> QED  BY <1>6, <2>3, <2>4 DEF Meets
  <1>9. ASSUME ~Case(c).unordered
        PROVE  \A k \in D : p[k] = k
    <2> DEFINE a == [k \in 1 .. m |-> FirstIndex(expected[k].name, s)]
    <2>1. \A k \in 1 .. (m - 1) : a[k] # 0 /\ a[k + 1] # 0 /\ a[k] < a[k + 1]
      <3>1. OrderCredit(expected, s) = One
        BY <1>9 DEF Spotless, expected
      <3>2. \A k \in 1 .. (m - 1) : k \in 1 .. m /\ k + 1 \in 1 .. m
        BY <1>1
      <3> QED  BY <1>1, <3>1, <3>2, OrderIsKept DEF m
    <2>2. CASE m < 2
      BY <1>1, <1>6, <2>2
    <2>3. CASE ~(m < 2)
      <3>1. \A k \in 1 .. m : a[k] = FirstIndex(expected[k].name, s) /\ a[k] \in 0 .. m
        BY <1>3, FirstIndexIsFirst
      <3> HIDE DEF a
      <3>2. \A k \in 1 .. m : a[k] \in 1 .. m
        <4> SUFFICES ASSUME NEW k \in 1 .. m  PROVE a[k] # 0
          BY <1>1, <3>1
        <4>1. CASE k = m
          <5>1. m - 1 \in 1 .. (m - 1) /\ (m - 1) + 1 = k
            BY <1>1, <2>3, <4>1
          <5> QED  BY <2>1, <5>1
        <4>2. CASE k # m
          <5>1. k \in 1 .. (m - 1)
            BY <1>1, <4>2
          <5> QED  BY <2>1, <5>1
        <4> QED  BY <4>1, <4>2
      <3>3. a \in [1 .. m -> 1 .. m]
        BY <3>2 DEF a
      <3>4. \A k \in 1 .. m : a[k] = k
        BY <1>1, <2>1, <3>3, RisingIsIdentity
      <3>5. \A k \in D : FirstIndex(expected[k].name, s) = k /\ k # 0
        BY <1>1, <3>1, <3>4
      <3>6. \A k \in D : s[k].name = expected[k].name
        BY <3>5, FirstIndexIsFirst
      <3> QED  BY <1>6, <3>5, <3>6
    <2> QED  BY <2>2, <2>3
  <1>10. Pairs(c, s, p)
    BY <1>3, <1>6, <1>7, <1>8, <1>9 DEF Pairs, expected
  <1> QED  BY <1>3, <1>10 DEF Exact, Pairs, expected, m

(* The expected calls have nothing against them, where each tool is        *)
(* expected once and the calls are within the budget.                      *)
LEMMA ExactIsSpotless ==
  ASSUME NEW c, ToolCaseTyped(Case(c)), NEW s, IsList(s), Exact(c, s), Attainable(c), NEW strict \in BOOLEAN
  PROVE  /\ Spotless(c, s) /\ ~ForbiddenArgPresent(Case(c).expected, s)
         /\ ExtraCallPenalty(Case(c), s, strict) = 0
  <1> DEFINE expected == Case(c).expected
             m == Len(expected)
             D == DOMAIN expected
  <1>1. IsList(expected) /\ m \in Nat /\ D = 1 .. m /\ Len(s) = m /\ DOMAIN s = D
    BY DEF ToolCaseTyped, IsList, Exact
  <1>2. PICK p : Pairs(c, s, p)
    BY DEF Exact, Pairs
  <1>3. /\ p \in [D -> D] /\ \A i, j \in D : p[i] = p[j] => i = j
        /\ \A k \in D : Meets(s[p[k]], expected[k])
        /\ Case(c).unordered \/ \A k \in D : p[k] = k
    BY <1>1, <1>2 DEF Pairs
  <1>4. \A k \in D : s[p[k]].name = expected[k].name
    BY <1>3 DEF Meets
  <1>5. /\ IsInjective(Names(expected))
        /\ Case(c).maxCalls \notin 1 .. (m - 1) /\ Case(c).maxCalls \in Int
    BY DEF Attainable, ToolCaseTyped
  <1> HIDE DEF D, m, expected
  <1>6. \A k \in D : \A i \in D : s[i].name = expected[k].name <=> i = p[k]
    <2>1. DOMAIN s = DOMAIN expected
      BY <1>1 DEF D
    <2>2. /\ p \in [DOMAIN s -> DOMAIN s] /\ \A i, j \in DOMAIN s : p[i] = p[j] => i = j
          /\ \A i \in DOMAIN s : s[p[i]].name = expected[i].name
      BY <1>1, <1>3, <1>4
    <2>3. IsList(s) /\ IsInjective(Names(expected)) /\ NamePairs(expected, s, p)
      BY <1>1, <1>5, <2>2 DEF NamePairs
    <2> HIDE DEF D
    <2>4. \A k \in DOMAIN s : \A i \in DOMAIN s : s[i].name = expected[k].name <=> i = p[k]
      BY <2>1, <2>3, PairedOnce
    <2> QED  BY <1>1, <2>4
  <1>7. \A k \in D : \A l \in D : expected[l].name = expected[k].name <=> l = k
    BY <1>5 DEF IsInjective, Names, D
  <1>8. ASSUME NEW n
        PROVE  Count(n, Names(s)) = Count(n, Names(expected))
    <2>1. /\ IsList(Names(s)) /\ DOMAIN Names(s) = D /\ \A i \in D : Names(s)[i] = s[i].name
          /\ IsList(Names(expected)) /\ DOMAIN Names(expected) = D
          /\ \A k \in D : Names(expected)[k] = expected[k].name
      BY <1>1, NamesAreAList DEF Names, D
    <2> SUFFICES Cardinality(Places(n, Names(s))) = Cardinality(Places(n, Names(expected)))
      BY <2>1, PlacesAreCounted
    <2>2. CASE \E k \in D : expected[k].name = n
      <3>1. PICK k \in D : expected[k].name = n
        BY <2>2
      <3>2. Places(n, Names(s)) = {p[k]} /\ Places(n, Names(expected)) = {k}
        BY <1>3, <1>6, <1>7, <2>1, <3>1 DEF Places
      <3> QED  BY <3>2, FS_Singleton
    <2>3. CASE ~\E k \in D : expected[k].name = n
      <3>1. \A i \in D : \E k \in D : s[i].name = expected[k].name
        <4> SUFFICES ASSUME NEW i \in D  PROVE \E k \in D : p[k] = i
          BY <1>4
        <4>1. IsFiniteSet(D)
          BY <1>1, PositionsAreFinite
        <4>2. p \in Injection(D, D)
          BY <1>3 DEF Injection, IsInjective
        <4>3. p \in Surjection(D, D)
          BY <4>1, <4>2, FS_Injection
        <4> QED  BY <4>3 DEF Surjection
      <3>2. Places(n, Names(s)) = {} /\ Places(n, Names(expected)) = {}
        BY <2>1, <2>3, <3>1 DEF Places
      <3> QED  BY <3>2
    <2> QED  BY <2>2, <2>3
  <1>9. \A k \in D : MatchedCalls(expected, s, k) = {p[k]}
    <2>1. \A k \in D : \E i \in D : MatchedCalls(expected, s, k) = {i} /\ s[i].name = expected[k].name
      BY <1>1, <1>8, MatchesAreUnique, ZenonT(60) DEF D
    <2> QED  BY <1>6, <2>1
  <1>10. ASSUME NEW k \in D
         PROVE  /\ Right(expected, s, k) = DOMAIN expected[k].required
                /\ Present(expected, s, k, expected[k].forbidden) = {}
    <2>1. \A keys : Present(expected, s, k, keys) = keys \cap DOMAIN s[p[k]].args
      BY <1>9 DEF Present
    <2>2. /\ \A key \in DOMAIN expected[k].required :
               key \in DOMAIN s[p[k]].args /\ ArgValueEqual(s[p[k]].args[key], expected[k].required[key])
          /\ expected[k].forbidden \cap DOMAIN s[p[k]].args = {}
      BY <1>3 DEF Meets, Carries
    <2>3. Right(expected, s, k) =
            {key \in DOMAIN expected[k].required \cap DOMAIN s[p[k]].args :
               \A i \in {p[k]} : ArgValueEqual(s[i].args[key], expected[k].required[key])}
      BY <1>9, <2>1 DEF Right
    <2> QED  BY <2>1, <2>2, <2>3
  <1>11. ArgCorrectness(expected, s) = One
    BY <1>10, ArgumentsAreRight DEF D, expected
  <1>12. ASSUME ~Case(c).unordered
         PROVE  OrderCredit(expected, s) = One
    <2>1. ASSUME NEW k \in D
          PROVE  FirstIndex(expected[k].name, s) = k
      <3> DEFINE f == FirstIndex(expected[k].name, s)
      <3>1. p[k] = k /\ s[k].name = expected[k].name
        BY <1>3, <1>4, <1>12
      <3>2. f \in 0 .. m /\ f # 0 /\ s[f].name = expected[k].name
        BY <1>1, <3>1, FirstIndexIsFirst
      <3> HIDE DEF f
      <3>3. f \in D
        BY <1>1, <3>2
      <3>4. f = p[k]
        BY <1>6, <3>2, <3>3
      <3> QED  BY <3>1, <3>4 DEF f
    <2>2. ASSUME NEW k \in 1 .. (m - 1)
          PROVE  /\ FirstIndex(expected[k].name, s) # 0 /\ FirstIndex(expected[k + 1].name, s) # 0
                 /\ FirstIndex(expected[k].name, s) < FirstIndex(expected[k + 1].name, s)
      <3>1. k \in D /\ k + 1 \in D /\ k # 0 /\ k + 1 # 0 /\ k < k + 1
        BY <1>1
      <3> QED  BY <2>1, <3>1
    <2> QED  BY <1>1, <2>2, OrderIsKept, SMTT(60) DEF m
  <1>13. ~ForbiddenArgPresent(expected, s)
    <2> SUFFICES ASSUME NEW k \in D, NEW i \in D, s[i].name = expected[k].name
                 PROVE  expected[k].forbidden \cap DOMAIN s[i].args = {}
      BY <1>1 DEF ForbiddenArgPresent, D
    <2>1. i = p[k]
      BY <1>6
    <2> QED  BY <1>3, <2>1 DEF Meets
  <1>14. ExtraCallPenalty(Case(c), s, strict) = 0
    <2>1. ~(Case(c).maxCalls > 0 /\ Len(s) > Case(c).maxCalls)
      BY <1>1, <1>5
    <2> QED  BY <1>8, <2>1, NoExtraCalls DEF expected
  <1> QED  BY <1>8, <1>11, <1>12, <1>13, <1>14 DEF Spotless, expected

(* A plain case observed at the tool endpoint has the score of its calls.  *)
LEMMA PlainGrade ==
  ASSUME NEW c, PlainTrajectory(c), ToolCaseTyped(Case(c)), NEW s, s # <<>>, NEW scope, NEW version \in Nat
  PROVE  GradeToolCase(Case(c), NoResponse, TRUE, s, scope, version).score =
           DeterministicToolScoreStrict(Case(c), s, version >= 7)
  <1> DEFINE d == Case(c)
             strict == version >= 7
             auth == [NoResponse EXCEPT !.calls = s]
             scored == [ScoreCaseStrict(d, auth, TRUE, strict) EXCEPT !.observed = TRUE]
  <1>1. auth.calls = s /\ NoResponse.calls = <<>>
    BY DEF NoResponse
  <1>2. ScoreToolCaseObserved(d, NoResponse, TRUE, s, version) = scored
    BY DEF ScoreToolCaseObserved
  <1>3. d.expected # <<>> /\ ToSet(Names(d.expected)) \cap MemoryTools = {} /\ ~d.usage
    BY DEF PlainTrajectory, Observable
  <1> HIDE DEF auth, d
  <1>4. ~AllMemory(Names(d.expected))
    <2> SUFFICES ASSUME AllMemory(Names(d.expected))  PROVE FALSE
      OBVIOUS
    <2>1. ToSet(Names(d.expected)) = {}
      BY <1>3 DEF AllMemory
    <2>2. PICK S : Names(d.expected) \in Seq(S)
      BY NamesAreAList DEF ToolCaseTyped, d
    <2>3. Names(d.expected) = <<>>
      <3>1. DOMAIN Names(d.expected) = {}
        BY <2>1 DEF ToSet
      <3> QED  BY <2>2, <3>1
    <2> QED  BY <2>3 DEF AllMemory
  <1>5. ToolScore(d, auth, TRUE, strict) = DeterministicToolScoreStrict(d, s, strict)
    BY <1>1, <1>3, <1>4 DEF ToolScore
  <1>6. scored.toolScore = DeterministicToolScoreStrict(d, s, strict) /\ DOMAIN scored = DOMAIN ZeroScore
    BY <1>5 DEF ScoreCaseStrict, ZeroScore
  <1> HIDE DEF scored
  <1>7. FinishTool(scored).score = DeterministicToolScoreStrict(d, s, strict)
    BY <1>6 DEF FinishTool, ZeroScore
  <1>8. ApplyTrajectoryMismatch(version, d, FinishTool(scored), NoResponse.calls, s) = FinishTool(scored)
    BY <1>1 DEF ApplyTrajectoryMismatch
  <1>9. GradeToolCase(d, NoResponse, TRUE, s, scope, version) = FinishTool(scored)
    BY <1>2, <1>3, <1>8 DEF GradeToolCase, Capped
  <1> QED  BY <1>7, <1>9 DEF d

(* The trajectory score means what it says: for any suite, any calls of    *)
(* any length and any version, a plain tool case has full marks only for   *)
(* exactly the expected calls (DeterministicToolScore: an extra, a missing *)
(* or a misplaced call, a wrong or a forbidden argument is always felt),   *)
(* and for those whenever each tool is expected once within the budget.    *)
THEOREM FullMarksMeanExact == Spec => []FullMarksAreEarned
  <1>1. ReportInv /\ EntryInv => FullMarksAreEarned
    <2> SUFFICES ASSUME ReportInv, EntryInv, NEW c \in CaseIds, PlainTrajectory(c), calls[c] # <<>>
                 PROVE  LET score == GradeToolCase(Case(c), NoResponse, TRUE, calls[c], run.scope, run.version).score
                        IN /\ score = One => Exact(c, calls[c])
                           /\ Exact(c, calls[c]) /\ Attainable(c) => score = One
      BY DEF FullMarksAreEarned
    <2> DEFINE s == calls[c]
               strict == run.version >= 7
    <2>1. ToolCaseTyped(Case(c)) /\ run.version \in Nat /\ strict \in BOOLEAN
      BY DatasetAssumption, CaseRunsAssumption
         DEF ReportInv, IInv, PhaseInv, Case, CaseIds, IsTool, PlainTrajectory
    <2>2. IsList(s)
      BY RecordedCallsAreAList
    <2>3. Case(c).expected # <<>> /\ ~Case(c).fuzzy /\ ~Case(c).allowExtra
      BY DEF PlainTrajectory, Observable
    <2>4. GradeToolCase(Case(c), NoResponse, TRUE, s, run.scope, run.version).score =
            DeterministicToolScoreStrict(Case(c), s, strict)
      BY <2>1, PlainGrade, ZenonT(60)
    <2> HIDE DEF s, strict
    <2>5. DeterministicToolScoreStrict(Case(c), s, strict) = One <=>
            /\ ~(strict /\ ForbiddenArgPresent(Case(c).expected, s))
            /\ Spotless(c, s) /\ ExtraCallPenalty(Case(c), s, strict) = 0
      BY <2>1, <2>2, <2>3, FullScore DEF Spotless
    <2>6. Spotless(c, s) => Exact(c, s)
      BY <2>1, <2>2, SpotlessIsExact
    <2>7. Exact(c, s) /\ Attainable(c) =>
            /\ Spotless(c, s) /\ ~ForbiddenArgPresent(Case(c).expected, s)
            /\ ExtraCallPenalty(Case(c), s, strict) = 0
      BY <2>1, <2>2, ExactIsSpotless
    <2> QED  BY <2>4, <2>5, <2>6, <2>7 DEF s
  <1> QED  BY <1>1, EntriesHold, PTL

-----------------------------------------------------------------------------
(* Penalties *)

(* Every case score kept is a fraction.                                    *)
ScoredInv == \A c \in CaseIds : IsScored(results[c])

LEMMA EntriesGradeToFractions ==
  ASSUME run \in Runs, NEW c \in CaseIds, NEW entry, IsEntry(entry)
  PROVE  IsScored(GradeEntry(c, entry))
  <1> DEFINE delivered == entry.outcome = "success"
  <1>1. DOMAIN entry.response = {"calls", "says"} /\ IsList(entry.response.calls) /\ IsList(entry.observed)
    BY DEF IsEntry, IsResponse
  <1>2. delivered \in BOOLEAN
    OBVIOUS
  <1>3. CASE IsTool(c)
    <2>1. ToolCaseTyped(Case(c)) /\ run.version \in Nat
      BY <1>3, DatasetAssumption, CaseRunsAssumption DEF Case, CaseIds, IsTool
    <2>2. GradeEntry(c, entry) =
            GradeToolCase(Case(c), entry.response, delivered, entry.observed, run.scope, run.version)
      BY <1>3 DEF GradeEntry
    <2> HIDE DEF delivered
    <2> QED  BY <1>1, <1>2, <2>1, <2>2, ToolCaseIsScored
  <1>4. CASE ~IsTool(c)
    <2>1. GradeEntry(c, entry) = GradeMemoryCase(Case(c), entry.response, delivered, entry.observed)
      BY <1>4 DEF GradeEntry
    <2> HIDE DEF delivered
    <2> QED  BY <1>1, <1>2, <2>1, MemoryCaseIsScored
  <1> QED  BY <1>3, <1>4

LEMMA ScoresKept ==
  ASSUME ReportInv, EntryInv, ScoredInv, [Next]_vars
  PROVE  ScoredInv'
  <1>1. run' = run /\ CaseIds' = CaseIds
    <2>1. run' = run
      BY ZenonT(60) DEF Next, WorkerStep, StartToolServer, SeedPrerequisites, RefusePrerequisites, SeedSecondary, SeedWave,
             Seed, StartCase, EndBatch, Publish, Cancel, Finished, vars, CaseStep, ToolCall, Answer, Reject, Fault,
             Cut, Retry, AbandonBackoff, DeadlinePasses, Record, Grade, CasePanics, Elsewhere
    <2> QED  BY <2>1, SuiteStays
  <1>2. CASE results' = results
    BY <1>1, <1>2 DEF ScoredInv, IsScored
  <1>3. ASSUME NEW c \in CaseIds, Grade(c)
        PROVE  ScoredInv'
    <2>1. results' = [results EXCEPT ![c] = GradeEntry(c, transcript[c])] /\ DOMAIN results = CaseIds
      BY <1>3 DEF Grade, ReportInv, IInv, RowInv
    <2>2. IsScored(GradeEntry(c, transcript[c]))
      BY EntriesGradeToFractions DEF EntryInv, ReportInv, IInv, PhaseInv
    <2>3. \A d \in CaseIds : IsScored(results'[d])
      BY <2>1, <2>2 DEF ScoredInv
    <2> QED  BY <1>1, <2>3 DEF ScoredInv, IsScored
  <1>4. results' = results \/ \E c \in CaseIds : Grade(c)
    BY DEF Next, WorkerStep, StartToolServer, SeedPrerequisites, RefusePrerequisites, SeedSecondary, SeedWave,
           Seed, StartCase, EndBatch, Publish, Cancel, Finished, vars, CaseStep, ToolCall, Answer, Reject, Fault,
           Cut, Retry, AbandonBackoff, DeadlinePasses, Record, CasePanics, Elsewhere
  <1> QED  BY <1>2, <1>3, <1>4

LEMMA ScoresHold == Spec => [](ReportInv /\ EntryInv /\ ScoredInv)
  <1>1. Init => ScoredInv
    <2> SUFFICES ASSUME Init, NEW c \in CaseIds  PROVE IsScored(results[c])
      BY DEF ScoredInv
    <2>1. results[c] = ZeroScore
      BY DEF Init
    <2>2. ZeroScore.score = 0 /\ ZeroScore.called = <<>> /\ ZeroScore.expected = <<>>
      BY DEF ZeroScore
    <2>3. IsList(<<>>) /\ 0 \in 0 .. One
      BY DEF IsList, One
    <2> QED  BY <2>1, <2>2, <2>3 DEF IsScored
  <1>2. ReportInv /\ EntryInv /\ ScoredInv /\ [Next]_vars => ScoredInv'
    BY ScoresKept
  <1> QED  BY <1>1, <1>2, EntriesHold, PTL DEF Spec

(* The rows folded into the report are those scores.                       *)
LEMMA RunIsScored ==
  ASSUME ReportInv, ScoredInv
  PROVE  IsScoredRun(perCase)
  <1>1. PICK order : /\ IsOrder(order, batch) /\ InOrder(order, batch)
                     /\ perCase = [i \in DOMAIN order[batch] |-> results[order[batch][i]]]
    BY DEF ReportInv, FoldInv
  <1>2. order[batch] \in Seq(CaseIds)
    <2>1. batch \in 0 .. batch
      BY DEF ReportInv, IInv, PhaseInv
    <2> QED  BY <1>1, <2>1 DEF InOrder
  <1>3. \A i \in DOMAIN perCase : IsScored(perCase[i])
    BY <1>1, <1>2 DEF ScoredInv
  <1>4. IsList(perCase)
    <2>1. PICK Scores : perCase \in Seq(Scores)
      BY DEF ReportInv, IInv, RowInv
    <2> QED  BY <2>1 DEF IsList
  <1> QED  BY <1>3, <1>4 DEF IsScoredRun

(* No penalty pays and none takes more than is written of it (scorer.go,   *)
(* v7.go, efficiency.go): for any suite, any calls and answers, any number *)
(* of cases and any version, the gate of a published report is between the *)
(* floors of the penalties the run gave occasion for and one, and its      *)
(* composite between nine tenths of what the gate leaves and the better    *)
(* mean.                                                                   *)
THEOREM PenaltiesStayBounded == Spec => []PenaltiesAreBounded
  <1>1. ReportInv /\ EntryInv /\ ScoredInv => PenaltiesAreBounded
    <2> SUFFICES ASSUME ReportInv, ScoredInv, report # NoReport
                 PROVE  LET scores == report.scores
                            better == Most(scores.toolMean, scores.memoryMean)
                            half == (scores.toolMean + scores.memoryMean) \div 2
                        IN /\ scores.toolMean \in 0 .. One /\ scores.memoryMean \in 0 .. One
                           /\ scores.gate \in LeastGate(perCase) .. One
                           /\ scores.composite \in Scaled(Scaled(half, scores.gate), 900) .. better
      BY DEF PenaltiesAreBounded
    <2>1. IsScoredRun(perCase)
      BY RunIsScored
    <2>2. /\ run.version \in Nat /\ run.usage.total \in Nat
          /\ \A b \in Baselines : b.total \in Nat
      BY CaseRunsAssumption, TokenAssumption DEF ReportInv, IInv, PhaseInv
    <2>3. report.scores = ApplyTokenContract(Aggregate(perCase, run.version), run.version, "full",
                                             run.usage, Baselines)
      BY DEF ReportInv, PublishInv, Report
    <2>4. LeastGate(perCase) = GateFloor(perCase, run.version)
      BY DEF LeastGate, GateFloor, Floor, Leaked, Talked, Audited
    <2> QED  BY <2>1, <2>2, <2>3, <2>4, ContractIsBetween
  <1> QED  BY <1>1, ScoresHold, PTL

=============================================================================
