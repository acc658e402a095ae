-------------------------- MODULE Scheduler_proofs --------------------------
(***************************************************************************)
(* Proofs about the wave scheduler, for every set of compiled plans and    *)
(* every limit: type correctness, the fence around barriers, and the plan  *)
(* order of trace, events and errors.                                      *)
(***************************************************************************)
EXTENDS Scheduler, FiniteSetTheorems, WellFoundedInduction, TLAPS

-----------------------------------------------------------------------------
(* Plans *)

(* The plan is the run's from beginning to end.                            *)
LEMMA PlanIsFixed ==
  ASSUME [Next]_vars
  PROVE  compiled' = compiled
  BY Zenon DEF Next, vars, Schedule, SettleOne, StopLoop, ThrowFromLoop, Throw,
    RunSynchronous, RenderTooLarge, StartWave, DrainFailedWave, DrainWave, Return,
    Settle, Emit, CancelRun, DeadlinePasses

(* What a step may assume of the plan it executes.                         *)
LEMMA PlanFacts ==
  ASSUME compiled \in Plans
  PROVE  /\ compiled.size \in Nat
         /\ \A n \in Node : n \in Nat /\ compiled.inputs[n] \subseteq Node
         /\ \A n \in Node : \A m \in compiled.inputs[n] : m < n
         /\ Stage \subseteq Node
         /\ compiled.candidates \subseteq Stage
  BY SchedulerAssumption DEF IsPlan, Node, Stage

(* Every nonempty set of numbers has a least member.                       *)
LEMMA LeastExists ==
  ASSUME NEW T, T \subseteq Nat, T # {}
  PROVE  \E x \in T : \A y \in T : x <= y
<1>1. IsWellFoundedOn(OpToRel(<, Nat), Nat)
  BY NatLessThanWellFounded
<1>2. PICK x \in T : \A y \in T : ~(<<y, x>> \in OpToRel(<, Nat))
  BY <1>1, WFMin, Zenon
<1>3. ASSUME NEW y \in T
      PROVE  x <= y
  <2>1. x \in Nat /\ y \in Nat
    OBVIOUS
  <2>2. ~(<<y, x>> \in OpToRel(<, Nat))
    BY <1>2
  <2>3. y < x => <<y, x>> \in OpToRel(<, Nat)
    BY <2>1 DEF OpToRel
  <2>4. ~(y < x)
    BY <2>2, <2>3, Zenon
  <2> QED
    BY <2>1, <2>4
<1> QED
  BY <1>3

LEMMA SelectedIsReady ==
  ASSUME compiled \in Plans
  PROVE  Selected \subseteq ReadyStages /\ ReadyStages \subseteq ReadyOperations \cap Stage
  BY DEF Selected, ReadyStages

-----------------------------------------------------------------------------
(* Type correctness *)

LEMMA InitType == Init => TypeOK
<1> SUFFICES ASSUME Init PROVE TypeOK
  OBVIOUS
<1>1. /\ phase \in Phase /\ pending \subseteq Node /\ values \subseteq Node
      /\ wave \subseteq Stage /\ running \subseteq wave /\ pendingStageCommits \subseteq Stage
  BY DEF Init, Phase
<1>2. outcome \in [Node -> Outcome] /\ trace \in [Node -> Nat]
  BY DEF Init, Outcome
<1>3. events \in Seq(Stage)
  BY DEF Init
<1>4. error \in Error
  BY DEF Init, Error, NoError
<1> QED
  BY <1>1, <1>2, <1>3, <1>4 DEF Init, TypeOK

(* Publishing outcomes numbers steps and leaves no stage behind but these. *)
LEMMA RecordedType ==
  ASSUME TypeOK, NEW commits, commits \subseteq Stage, NEW result
  PROVE  Recorded(commits, result) \in [Node -> Nat]
<1> DEFINE recordable == {n \in commits : result[n] # "refused"}
           rank(n) == {m \in recordable : m <= n}
           done == {n \in Node : trace[n] # 0}
<1>1. IsFiniteSet(Node)
  BY FS_Interval, PlanFacts DEF Node, TypeOK
<1>2. \A n \in Node : IsFiniteSet(rank(n)) /\ IsFiniteSet(done)
  BY <1>1, FS_Subset, PlanFacts DEF TypeOK
<1>3. \A n \in Node : Cardinality(rank(n)) \in Nat /\ Cardinality(done) \in Nat
  BY <1>2, FS_CardinalityType
<1>4. \A n \in Node : Cardinality(done) + Cardinality(rank(n)) \in Nat
  BY <1>3
<1> QED
  BY <1>4 DEF Recorded, TypeOK

(* A flush leaves the trace and the outcomes that wait well typed.         *)
LEMMA FlushOnThrowType ==
  ASSUME TypeOK, NEW commits, commits \subseteq Stage, NEW result,
         compiled' = compiled, FlushOnThrow(commits, result)
  PROVE  trace' \in [Node -> Nat] /\ pendingStageCommits' \subseteq Stage
  BY RecordedType DEF FlushOnThrow

LEMMA ControlErrorType == ControlError \in Error
  BY DEF ControlError, Error

LEMMA NextType ==
  ASSUME TypeOK, [Next]_vars
  PROVE  TypeOK'
<1> USE PlanIsFixed
<1>0. compiled' = compiled /\ Node' = Node /\ Stage' = Stage
  BY DEF Node, Stage
<1>a. Stage \subseteq Node
  BY PlanFacts DEF TypeOK
<1>1. CASE UNCHANGED vars
  BY <1>1, <1>0 DEF TypeOK, vars, runVars, controlVars
<1>2. CASE StopLoop
  <2>1. FlushOnThrow(pendingStageCommits, outcome)
    BY <1>2 DEF StopLoop, ThrowFromLoop
  <2>2. trace' \in [Node -> Nat] /\ pendingStageCommits' \subseteq Stage
    BY <2>1, <1>0, FlushOnThrowType DEF TypeOK
  <2>3. error' \in Error
    BY <1>2, ControlErrorType DEF StopLoop, ThrowFromLoop, Throw, Error
  <2> QED
    BY <1>2, <1>0, <2>2, <2>3
    DEF TypeOK, StopLoop, ThrowFromLoop, Throw, controlVars, Phase
<1>3. CASE RunSynchronous
  BY <1>3, <1>0 DEF TypeOK, RunSynchronous, controlVars, ReadySynchronous, ReadyOperations
<1>4. CASE RenderTooLarge
  <2>1. FlushOnThrow(pendingStageCommits, outcome)
    BY <1>4 DEF RenderTooLarge, ThrowFromLoop
  <2>2. trace' \in [Node -> Nat] /\ pendingStageCommits' \subseteq Stage
    BY <2>1, <1>0, FlushOnThrowType DEF TypeOK
  <2>3. error' \in Error
    BY <1>4 DEF RenderTooLarge, ThrowFromLoop, Throw, Error
  <2> QED
    BY <1>4, <1>0, <2>2, <2>3
    DEF TypeOK, RenderTooLarge, ThrowFromLoop, Throw, controlVars, Phase
<1>5. ASSUME NEW hits \in SUBSET Selected, NEW refused \in SUBSET Selected,
             StartWave(hits, refused)
      PROVE  TypeOK'
  <2>1. wave' \subseteq Stage /\ running' \subseteq wave'
    BY <1>5, SelectedIsReady DEF TypeOK, StartWave
  <2>2. outcome' \in [Node -> Outcome]
    BY <1>5 DEF TypeOK, StartWave, Outcome
  <2>3. expired' \in BOOLEAN
    BY <1>5 DEF TypeOK, StartWave
  <2> QED
    BY <1>5, <1>0, <2>1, <2>2, <2>3 DEF TypeOK, StartWave, Phase
<1>6. CASE DrainFailedWave
  <2>1. pendingStageCommits \cup wave \subseteq Stage
    BY DEF TypeOK
  <2>2. trace' \in [Node -> Nat] /\ pendingStageCommits' \subseteq Stage
    BY <2>1, <1>6, <1>0, FlushOnThrowType DEF DrainFailedWave
  <2>3. WaveFailed /\ (~Aborted => Errors # {})
    BY <1>6 DEF DrainFailedWave, WaveFailed
  <2>4. error' \in Error
    <3>1. CASE Aborted
      BY <3>1, <1>6, ControlErrorType DEF DrainFailedWave, Throw
    <3>2. CASE ~Aborted
      <4>1. Errors \subseteq Nat /\ Errors # {}
        BY <3>2, <2>3, <1>a, PlanFacts DEF Errors, TypeOK
      <4>2. PICK least \in Errors : \A m \in Errors : least <= m
        BY <4>1, LeastExists
      <4>3. FirstError.node \in Errors /\ FirstError.kind = "stage"
        BY <4>2 DEF FirstError
      <4> QED
        BY <4>1, <4>3, <3>2, <1>6 DEF DrainFailedWave, Throw, Error, FirstError
    <3> QED
      BY <3>1, <3>2
  <2> QED
    BY <1>6, <1>0, <1>a, <2>2, <2>4 DEF TypeOK, DrainFailedWave, Throw, controlVars, Phase
<1>7. CASE DrainWave
  <2> DEFINE commits == pendingStageCommits \cup wave
  <2>1. Committable(commits) \subseteq Stage /\ commits \subseteq Stage
    BY DEF TypeOK, Committable
  <2>2. Recorded(Committable(commits), outcome) \in [Node -> Nat]
    BY <2>1, RecordedType
  <2>3. trace' \in [Node -> Nat] /\ pendingStageCommits' \subseteq Stage
    BY <1>7, <2>1, <2>2 DEF DrainWave
  <2>4. /\ phase' = "scheduling" /\ running' = {} /\ wave' = {}
        /\ values' = values \cup wave /\ pending' = pending \ wave
        /\ UNCHANGED <<outcome, events, limitExceeded, cancelled, expired, error>>
    BY <1>7 DEF DrainWave, Drained, controlVars
  <2>5. wave \subseteq Node /\ values' \subseteq Node /\ pending' \subseteq Node
    BY <2>4, <1>a DEF TypeOK
  <2> HIDE DEF commits
  <2> QED
    BY <1>0, <2>3, <2>4, <2>5 DEF TypeOK, Phase
<1>8. CASE Return
  <2>1. Committable(pendingStageCommits) \subseteq Stage
    BY DEF TypeOK, Committable
  <2>2. Recorded(Committable(pendingStageCommits), outcome) \in [Node -> Nat]
    BY <2>1, RecordedType
  <2>3. error' \in Error /\ phase' \in Phase
    BY <1>8 DEF Return, TypeOK, Error, Phase
  <2> QED
    BY <1>8, <1>0, <2>2, <2>3 DEF TypeOK, Return, controlVars
<1>9. ASSUME NEW n \in Stage, NEW result \in {"succeeded", "failed"}, Settle(n, result)
      PROVE  TypeOK'
  BY <1>9, <1>0 DEF TypeOK, Settle, Outcome, controlVars
<1>10. ASSUME NEW n \in Stage, Emit(n)
       PROVE  TypeOK'
  <2>1. events \in Seq(Stage) /\ (events' = events \/ events' = Append(events, n))
    BY <1>10 DEF TypeOK, Emit
  <2>2. events' \in Seq(Stage)
    BY <2>1
  <2>3. limitExceeded' \in BOOLEAN
    BY <1>10 DEF TypeOK, Emit
  <2> QED
    BY <1>10, <1>0, <2>2, <2>3 DEF TypeOK, Emit, runVars, controlVars
<1>11. CASE CancelRun
  BY <1>11, <1>0 DEF TypeOK, CancelRun, runVars
<1>12. CASE DeadlinePasses
  BY <1>12, <1>0 DEF TypeOK, DeadlinePasses, runVars
<1> QED
  BY <1>1, <1>2, <1>3, <1>4, <1>5, <1>6, <1>7, <1>8, <1>9, <1>10, <1>11, <1>12
  DEF Next, Schedule, SettleOne

(* The scheduler's sets, settlements, trace, events and error stay in      *)
(* their types, whatever the plan and the limits (executeExecutionGraph).  *)
THEOREM TypeCorrect == Spec => []TypeOK
<1>1. Init => TypeOK
  BY InitType
<1>2. TypeOK /\ [Next]_vars => TypeOK'
  BY NextType
<1> QED
  BY <1>1, <1>2, PTL DEF Spec

-----------------------------------------------------------------------------
(* Barriers *)

PhaseInv ==
  /\ phase \in {"scheduling", "returned"} => wave = {}
  /\ phase = "returned" => pending = {}
  /\ phase # "wave" => running = {}

(* While the run goes on, the operations with a value are those that are   *)
(* no longer pending.                                                      *)
ValuesInv ==
  /\ wave \subseteq pending
  /\ Node \ pending \subseteq values
  /\ phase # "failed" => values \cap pending = {}

OutcomeInv ==
  /\ \A n \in Stage : n \in pending \ wave => outcome[n] = "none"
  /\ \A n \in running : outcome[n] = "none"
  /\ \A n \in wave \ running : outcome[n] # "none"
  /\ \A n \in Stage \ pending : outcome[n] \in {"cache-hit", "succeeded"}

Barriers == Stage \ compiled.candidates

FenceInv ==
  \A b \in Barriers :
    /\ b \notin pending \/ b \in wave => \A m \in Node : m < b => m \notin pending
    /\ b \in wave => wave = {b}
    /\ b \in pending => \A n \in Stage : n > b => n \in pending \ wave

ScheduleInv == TypeOK /\ PhaseInv /\ ValuesInv /\ OutcomeInv /\ FenceInv

(* The first pending operation is always ready: its inputs come before it. *)
LEMMA LeastPendingIsReady ==
  ASSUME TypeOK, Node \ pending \subseteq values, pending # {}
  PROVE  \E x \in ReadyOperations : \A y \in pending : x <= y
<1>1. pending \subseteq Nat
  BY PlanFacts DEF TypeOK
<1>2. PICK x \in pending : \A y \in pending : x <= y
  BY <1>1, LeastExists
<1>3. compiled.inputs[x] \subseteq Node /\ \A m \in compiled.inputs[x] : m < x
  BY PlanFacts DEF TypeOK
<1>4. ASSUME NEW m \in compiled.inputs[x]
      PROVE  m \in values
  <2>1. m \in Node /\ m < x /\ m \in Nat /\ x \in Nat
    BY <1>1, <1>3, PlanFacts DEF TypeOK
  <2>2. m \notin pending
    BY <1>2, <2>1
  <2> QED
    BY <2>1, <2>2
<1> QED
  BY <1>2, <1>4 DEF ReadyOperations

(* So the first of the ready stages is the first pending operation.        *)
LEMMA LeastReadyStage ==
  ASSUME TypeOK, Node \ pending \subseteq values, pending # {}, ReadySynchronous = {}
  PROVE  \E x \in ReadyStages : \A y \in pending : x <= y
<1>1. PICK x \in ReadyOperations : \A y \in pending : x <= y
  BY LeastPendingIsReady
<1>2. x \in Stage
  BY <1>1 DEF ReadySynchronous
<1> QED
  BY <1>1, <1>2 DEF ReadyStages

LEMMA SomethingIsReady ==
  ASSUME TypeOK, Node \ pending \subseteq values, pending # {}
  PROVE  ~NothingReady
  BY LeastReadyStage DEF NothingReady

(* A barrier is selected alone, and only when it is the first pending one. *)
LEMMA SelectedBarrier ==
  ASSUME TypeOK, Node \ pending \subseteq values, pending # {}, ReadySynchronous = {},
         NEW b \in Selected, ~IsStaticParallelCandidate(b)
  PROVE  Selected = {b} /\ \A y \in pending : b <= y
<1> DEFINE runtimeCandidatesUpTo(n) ==
             \A m \in ReadyStages : m <= n => IsRuntimeParallelCandidate(m)
           concurrent == {n \in ReadyStages :
             /\ runtimeCandidatesUpTo(n)
             /\ Cardinality({m \in ReadyStages : m < n}) < MaxParallelism}
           first == {n \in ReadyStages : \A m \in ReadyStages : n <= m}
<1>1. Selected = IF concurrent # {} THEN concurrent ELSE first
  BY DEF Selected
<1>2. ReadyStages \subseteq Nat /\ ReadyStages \subseteq pending
  BY SelectedIsReady, PlanFacts DEF TypeOK, ReadyOperations
<1>3. b \notin concurrent
  <2>1. SUFFICES ASSUME b \in ReadyStages, runtimeCandidatesUpTo(b)
                 PROVE  FALSE
    BY Zenon
  <2>2. b <= b
    BY <1>2, <2>1
  <2>3. IsRuntimeParallelCandidate(b)
    BY <2>1, <2>2
  <2> QED
    BY <2>3 DEF IsRuntimeParallelCandidate
<1>4. Selected = first
  BY <1>1, <1>3
<1>5. PICK x \in ReadyStages : \A y \in pending : x <= y
  BY LeastReadyStage
<1>6. \A n \in first : n = x
  BY <1>2, <1>5
<1> HIDE DEF first
<1> QED
  BY <1>4, <1>5, <1>6

(* No stage behind a pending barrier is selected.                          *)
LEMMA SelectedBeforeBarriers ==
  ASSUME NEW n \in Selected, NEW b \in pending \cap Stage,
         ~IsStaticParallelCandidate(b), compiled \in Plans
  PROVE  n <= b
  BY SelectedIsReady DEF ReadyStages

LEMMA InitSchedule == Init => ScheduleInv
<1> SUFFICES ASSUME Init PROVE ScheduleInv
  OBVIOUS
<1>1. TypeOK
  BY InitType
<1>2. Stage \subseteq Node
  BY DEF Stage
<1>3. PhaseInv /\ ValuesInv /\ OutcomeInv
  BY <1>2 DEF Init, PhaseInv, ValuesInv, OutcomeInv
<1>4. FenceInv
  BY <1>2 DEF Init, FenceInv, Barriers
<1> QED
  BY <1>1, <1>3, <1>4 DEF ScheduleInv

(* Starting a wave keeps the fence.                                        *)
LEMMA StartWaveFence ==
  ASSUME ScheduleInv, NEW hits, NEW refused, StartWave(hits, refused)
  PROVE  FenceInv'
<1>1. /\ TypeOK /\ wave = {} /\ pending # {} /\ ReadySynchronous = {}
      /\ Node \ pending \subseteq values
  BY DEF ScheduleInv, PhaseInv, ValuesInv, StartWave, Active
<1>2. compiled' = compiled /\ Node' = Node /\ Stage' = Stage /\ Barriers' = Barriers
  BY DEF StartWave, Node, Stage, Barriers
<1>3. pending' = pending /\ wave' = Selected
  BY DEF StartWave
<1>4. Barriers \subseteq Stage /\ Stage \subseteq Node /\ Node \subseteq Nat
  BY <1>1, PlanFacts DEF TypeOK, Barriers
<1> SUFFICES ASSUME NEW b \in Barriers
             PROVE  /\ b \notin pending \/ b \in Selected =>
                         \A m \in Node : m < b => m \notin pending
                    /\ b \in Selected => Selected = {b}
                    /\ b \in pending => \A n \in Stage : n > b => n \in pending \ Selected
  BY <1>2, <1>3 DEF FenceInv
<1>5. ~IsStaticParallelCandidate(b)
  BY DEF Barriers, IsStaticParallelCandidate
<1>6. b \notin pending => \A m \in Node : m < b => m \notin pending
  BY DEF ScheduleInv, FenceInv
<1>7. b \in Selected => Selected = {b} /\ \A m \in Node : m < b => m \notin pending
  <2>1. SUFFICES ASSUME b \in Selected
                 PROVE  Selected = {b} /\ \A m \in Node : m < b => m \notin pending
    OBVIOUS
  <2>2. Selected = {b} /\ \A y \in pending : b <= y
    BY <1>1, <1>5, <2>1, SelectedBarrier
  <2> QED
    BY <1>4, <2>2
<1>8. ASSUME b \in pending, NEW n \in Stage, n > b
      PROVE  n \in pending \ Selected
  <2>1. n \in pending
    BY <1>8 DEF ScheduleInv, FenceInv
  <2>2. n \in Selected => n <= b
    BY <1>1, <1>4, <1>5, <1>8, SelectedBeforeBarriers DEF TypeOK
  <2> QED
    BY <1>4, <1>8, <2>1, <2>2
<1> QED
  BY <1>6, <1>7, <1>8

(* A step that moves no stage keeps what ScheduleInv says of them.         *)
LEMMA SameStagesKeepSchedule ==
  ASSUME ScheduleInv, [Next]_vars, UNCHANGED <<pending, values, wave, running, outcome>>,
         phase' = phase \/ phase' = "failed" \/ phase' = "returned",
         phase' # "wave" => running = {},
         phase' = "returned" => wave = {} /\ pending = {},
         phase' = "scheduling" => phase = "scheduling",
         phase' # "failed" => phase # "failed"
  PROVE  ScheduleInv'
<1>1. compiled' = compiled /\ Node' = Node /\ Stage' = Stage /\ Barriers' = Barriers
  BY PlanIsFixed DEF Node, Stage, Barriers
<1>2. TypeOK'
  BY NextType DEF ScheduleInv
<1>3. PhaseInv' /\ ValuesInv'
  BY <1>1 DEF ScheduleInv, PhaseInv, ValuesInv
<1>4. OutcomeInv'
  BY <1>1 DEF ScheduleInv, OutcomeInv
<1>5. FenceInv'
  BY <1>1 DEF ScheduleInv, FenceInv
<1> QED
  BY <1>2, <1>3, <1>4, <1>5 DEF ScheduleInv

(* What drains keeps the fence: only whole waves leave pending.            *)
LEMMA DrainWaveFence ==
  ASSUME ScheduleInv, DrainWave
  PROVE  FenceInv'
<1>1. compiled' = compiled /\ Node' = Node /\ Stage' = Stage /\ Barriers' = Barriers
  BY DEF DrainWave, Node, Stage, Barriers
<1>2. pending' = pending \ wave /\ wave' = {}
  BY DEF DrainWave
<1> SUFFICES ASSUME NEW b \in Barriers
             PROVE  /\ b \notin pending \ wave => \A m \in Node : m < b => m \notin pending \ wave
                    /\ b \in pending \ wave => \A n \in Stage : n > b => n \in pending \ wave
  BY <1>1, <1>2 DEF FenceInv
<1> QED
  BY DEF ScheduleInv, FenceInv

LEMMA RunSynchronousFence ==
  ASSUME ScheduleInv, RunSynchronous
  PROVE  FenceInv'
<1>1. compiled' = compiled /\ Node' = Node /\ Stage' = Stage /\ Barriers' = Barriers
  BY DEF RunSynchronous, Node, Stage, Barriers
<1>2. pending' = pending \ ReadySynchronous /\ wave' = wave /\ ReadySynchronous \cap Stage = {}
  BY DEF RunSynchronous, ReadySynchronous
<1>3. Barriers \subseteq Stage
  BY DEF Barriers
<1> QED
  BY <1>1, <1>2, <1>3 DEF ScheduleInv, FenceInv

LEMMA NextSchedule ==
  ASSUME ScheduleInv, [Next]_vars
  PROVE  ScheduleInv'
<1>0. compiled' = compiled /\ Node' = Node /\ Stage' = Stage /\ Barriers' = Barriers
  BY PlanIsFixed DEF Node, Stage, Barriers
<1>t. TypeOK /\ TypeOK'
  BY NextType DEF ScheduleInv
<1>a. Stage \subseteq Node /\ wave \subseteq Stage /\ pending \subseteq Node
  BY <1>t, PlanFacts DEF TypeOK
<1>1. CASE UNCHANGED vars
  BY <1>1, SameStagesKeepSchedule DEF vars, runVars, ScheduleInv, PhaseInv
<1>2. CASE StopLoop
  BY <1>2, SameStagesKeepSchedule
  DEF StopLoop, ThrowFromLoop, Throw, ScheduleInv, PhaseInv
<1>3. CASE RunSynchronous
  <2>1. /\ phase = "scheduling" /\ phase' = "scheduling" /\ wave = {} /\ running = {}
        /\ pending' = pending \ ReadySynchronous /\ values' = values \cup ReadySynchronous
        /\ UNCHANGED <<wave, running, outcome>> /\ ReadySynchronous \cap Stage = {}
    BY <1>3 DEF RunSynchronous, Active, ReadySynchronous, ScheduleInv, PhaseInv
  <2>2. PhaseInv' /\ ValuesInv'
    BY <1>0, <2>1 DEF ScheduleInv, PhaseInv, ValuesInv
  <2>3. OutcomeInv'
    BY <1>0, <2>1 DEF ScheduleInv, OutcomeInv
  <2> QED
    BY <1>3, <1>t, <2>2, <2>3, RunSynchronousFence DEF ScheduleInv
<1>4. CASE RenderTooLarge
  BY <1>4, SameStagesKeepSchedule
  DEF RenderTooLarge, Active, ThrowFromLoop, Throw, ScheduleInv, PhaseInv
<1>5. ASSUME NEW hits \in SUBSET Selected, NEW refused \in SUBSET Selected,
             StartWave(hits, refused)
      PROVE  ScheduleInv'
  <2>1. /\ phase = "scheduling" /\ phase' = "wave" /\ wave = {} /\ wave' = Selected
        /\ running' = Selected \ (hits \cup refused)
        /\ outcome' = [n \in Node |-> IF n \in hits THEN "cache-hit"
                                      ELSE IF n \in refused THEN "refused" ELSE outcome[n]]
        /\ UNCHANGED <<pending, values>>
    BY <1>5 DEF StartWave, Active, ScheduleInv, PhaseInv
  <2>2. Selected \subseteq pending \cap Stage
    BY <1>t, SelectedIsReady DEF TypeOK, ReadyOperations
  <2>3. PhaseInv' /\ ValuesInv'
    BY <1>0, <2>1, <2>2 DEF ScheduleInv, PhaseInv, ValuesInv
  <2>4. OutcomeInv'
    BY <1>0, <1>a, <2>1, <2>2 DEF ScheduleInv, OutcomeInv
  <2> QED
    BY <1>5, <1>t, <2>3, <2>4, StartWaveFence DEF ScheduleInv
<1>6. CASE DrainFailedWave
  <2>1. /\ running = {} /\ phase' = "failed" /\ values' = values \cup (wave \ Errors)
        /\ UNCHANGED <<pending, wave, running, outcome>>
    BY <1>6 DEF DrainFailedWave, Drained, Throw
  <2>2. PhaseInv' /\ ValuesInv'
    BY <1>0, <2>1 DEF ScheduleInv, PhaseInv, ValuesInv
  <2>3. OutcomeInv' /\ FenceInv'
    BY <1>0, <2>1 DEF ScheduleInv, OutcomeInv, FenceInv
  <2> QED
    BY <1>t, <2>2, <2>3 DEF ScheduleInv
<1>7. CASE DrainWave
  <2>1. /\ running = {} /\ phase = "wave" /\ phase' = "scheduling" /\ values' = values \cup wave
        /\ pending' = pending \ wave /\ wave' = {}
        /\ UNCHANGED <<running, outcome>> /\ Errors = {}
    BY <1>7 DEF DrainWave, Drained, WaveFailed
  <2>2. PhaseInv' /\ ValuesInv'
    BY <1>0, <1>a, <2>1 DEF ScheduleInv, PhaseInv, ValuesInv
  <2>3. \A n \in wave : outcome[n] \in {"cache-hit", "succeeded"}
    BY <1>t, <1>a, <2>1 DEF ScheduleInv, OutcomeInv, Errors, Failed, TypeOK, Outcome
  <2>4. OutcomeInv'
    BY <1>0, <2>1, <2>3 DEF ScheduleInv, OutcomeInv
  <2> QED
    BY <1>7, <1>t, <2>2, <2>4, DrainWaveFence DEF ScheduleInv
<1>8. CASE Return
  BY <1>8, SameStagesKeepSchedule DEF Return, ScheduleInv, PhaseInv
<1>9. ASSUME NEW n \in Stage, NEW result \in {"succeeded", "failed"}, Settle(n, result)
      PROVE  ScheduleInv'
  <2>1. /\ phase = "wave" /\ n \in running /\ running' = running \ {n}
        /\ outcome' = [outcome EXCEPT ![n] = result]
        /\ UNCHANGED <<phase, pending, values, wave>>
    BY <1>9 DEF Settle
  <2>2. PhaseInv' /\ ValuesInv' /\ FenceInv'
    BY <1>0, <2>1 DEF ScheduleInv, PhaseInv, ValuesInv, FenceInv
  <2>3. n \in wave /\ n \in pending /\ outcome \in [Node -> Outcome] /\ n \in Node
    BY <1>t, <1>a, <2>1 DEF TypeOK, ScheduleInv, ValuesInv
  <2>4. OutcomeInv'
    BY <1>0, <1>a, <2>1, <2>3 DEF ScheduleInv, OutcomeInv
  <2> QED
    BY <1>t, <2>2, <2>4 DEF ScheduleInv
<1>10. ASSUME NEW n \in Stage, Emit(n)
       PROVE  ScheduleInv'
  BY <1>10, SameStagesKeepSchedule DEF Emit, runVars, ScheduleInv, PhaseInv
<1>11. CASE CancelRun
  BY <1>11, SameStagesKeepSchedule DEF CancelRun, runVars, ScheduleInv, PhaseInv
<1>12. CASE DeadlinePasses
  BY <1>12, SameStagesKeepSchedule DEF DeadlinePasses, runVars, ScheduleInv, PhaseInv
<1> QED
  BY <1>1, <1>2, <1>3, <1>4, <1>5, <1>6, <1>7, <1>8, <1>9, <1>10, <1>11, <1>12
  DEF Next, Schedule, SettleOne

(* The inductive invariant of the scheduling loop: which operations have a *)
(* value, which are pending and which are started agree with each other    *)
(* and with the barriers (executeExecutionGraph).                          *)
THEOREM ScheduleIsConsistent == Spec => []ScheduleInv
<1>1. Init => ScheduleInv
  BY InitSchedule
<1>2. ScheduleInv /\ [Next]_vars => ScheduleInv'
  BY NextSchedule
<1> QED
  BY <1>1, <1>2, PTL DEF Spec

LEMMA FenceFromSchedule ==
  ASSUME ScheduleInv
  PROVE  BarrierFence
<1> SUFFICES ASSUME NEW b \in Stage, Started(b), ~IsStaticParallelCandidate(b)
             PROVE  /\ \A m \in Stage : m < b => m \in values
                    /\ phase = "wave" /\ b \in wave =>
                         wave = {b} /\ \A n \in Stage : n > b => ~Started(n)
  BY DEF BarrierFence
<1>1. b \in Barriers /\ Stage \subseteq Node /\ Stage \subseteq Nat
  BY PlanFacts DEF Barriers, IsStaticParallelCandidate, ScheduleInv, TypeOK
<1>2. b \notin pending \/ b \in wave
  BY DEF Started, ScheduleInv, OutcomeInv
<1>3. \A m \in Stage : m < b => m \in values
  BY <1>1, <1>2 DEF ScheduleInv, FenceInv, ValuesInv
<1>4. ASSUME b \in wave, NEW n \in Stage, n > b
      PROVE  wave = {b} /\ ~Started(n)
  <2>1. b \in pending /\ wave = {b}
    BY <1>1, <1>4 DEF ScheduleInv, FenceInv, ValuesInv
  <2>2. n \in pending \ wave
    BY <1>1, <1>4, <2>1 DEF ScheduleInv, FenceInv
  <2> QED
    BY <2>1, <2>2 DEF Started, ScheduleInv, OutcomeInv
<1>5. b \in wave => wave = {b}
  BY <1>1 DEF ScheduleInv, FenceInv
<1> QED
  BY <1>3, <1>4, <1>5

(* PLAN-005 for every plan and every limit: a stage that is not a static   *)
(* parallel candidate runs alone, after all stages before it and before    *)
(* all stages after it (isStaticParallelCandidate, selected).              *)
THEOREM BarriersAreFences == Spec => []BarrierFence
<1>1. ScheduleInv => BarrierFence
  BY FenceFromSchedule
<1> QED
  BY <1>1, ScheduleIsConsistent, PTL

-----------------------------------------------------------------------------
(* Events *)

EventInv ==
  /\ \A i \in 1..Len(events) :
       events[i] \in Barriers /\ (events[i] \in pending => events[i] \in wave)
  /\ EventsInPlanOrder

(* A step that emits nothing, and whose stages leave a wave only by        *)
(* leaving pending.                                                        *)
LEMMA QuietKeepsEvents ==
  ASSUME EventInv, events' = events, compiled' = compiled,
         pending' \subseteq pending, pending' \cap wave \subseteq wave'
  PROVE  EventInv'
<1>1. Barriers' = Barriers /\ Len(events') = Len(events)
  BY DEF Barriers, Stage, Node
<1> QED
  BY <1>1 DEF EventInv, EventsInPlanOrder

(* The stage that emits is a barrier that runs: every stage that emitted   *)
(* before it is an earlier barrier, or itself.                             *)
LEMMA EmitKeepsOrder ==
  ASSUME ScheduleInv, EventInv, NEW n \in Stage, Emit(n)
  PROVE  EventInv'
<1>1. /\ UNCHANGED <<compiled, pending, wave>>
      /\ events' = events \/ events' = Append(events, n)
      /\ n \in wave /\ n \in Barriers
  BY DEF Emit, MayEmit, runVars, Barriers, IsStaticParallelCandidate, ScheduleInv, TypeOK
<1>2. /\ Stage \subseteq Nat /\ Barriers \subseteq Stage /\ events \in Seq(Stage)
      /\ Barriers' = Barriers
  BY <1>1, PlanFacts DEF Barriers, Stage, Node, ScheduleInv, TypeOK
<1>3. \A e \in Barriers : (e \in pending => e \in wave) => e <= n
  <2>1. wave = {n} /\ n \in pending /\ \A e \in Stage : e > n => e \in pending \ wave
    BY <1>1 DEF ScheduleInv, FenceInv, ValuesInv
  <2> QED
    BY <1>2, <2>1
<1>4. CASE events' = events
  BY <1>1, <1>4, QuietKeepsEvents
<1>5. CASE events' = Append(events, n)
  <2>1. /\ Len(events') = Len(events) + 1 /\ events'[Len(events) + 1] = n
        /\ \A i \in 1..Len(events) : events'[i] = events[i]
        /\ Len(events) \in Nat
    BY <1>2, <1>5
  <2>2. \A i \in 1..Len(events') : i \in 1..Len(events) \/ i = Len(events) + 1
    BY <2>1
  <2>3. \A i \in 1..Len(events') :
          events'[i] \in Barriers /\ (events'[i] \in pending => events'[i] \in wave)
    BY <1>1, <2>1, <2>2 DEF EventInv
  <2>4. ASSUME NEW i \in 1..Len(events'), NEW j \in 1..Len(events'), i <= j
        PROVE  events'[i] <= events'[j]
    <3>1. CASE j \in 1..Len(events)
      BY <2>1, <2>4, <3>1 DEF EventInv, EventsInPlanOrder
    <3>2. CASE j = Len(events) + 1
      BY <1>3, <2>1, <2>3, <3>2
    <3> QED
      BY <2>2, <3>1, <3>2
  <2> QED
    BY <1>1, <1>2, <2>3, <2>4 DEF EventInv, EventsInPlanOrder
<1> QED
  BY <1>1, <1>4, <1>5

LEMMA NextEvents ==
  ASSUME ScheduleInv, EventInv, [Next]_vars
  PROVE  EventInv'
<1>0. compiled' = compiled
  BY PlanIsFixed
<1>1. CASE UNCHANGED vars
  BY <1>0, <1>1, QuietKeepsEvents DEF vars, runVars
<1>2. CASE StopLoop
  BY <1>0, <1>2, QuietKeepsEvents DEF StopLoop, ThrowFromLoop, Throw
<1>3. CASE RunSynchronous
  BY <1>0, <1>3, QuietKeepsEvents DEF RunSynchronous
<1>4. CASE RenderTooLarge
  BY <1>0, <1>4, QuietKeepsEvents DEF RenderTooLarge, ThrowFromLoop, Throw
<1>5. ASSUME NEW hits \in SUBSET Selected, NEW refused \in SUBSET Selected,
             StartWave(hits, refused)
      PROVE  EventInv'
  <2>1. wave = {} /\ UNCHANGED <<events, pending>>
    BY <1>5 DEF StartWave, Active, ScheduleInv, PhaseInv
  <2> QED
    BY <1>0, <2>1, QuietKeepsEvents
<1>6. CASE DrainFailedWave
  BY <1>0, <1>6, QuietKeepsEvents DEF DrainFailedWave, Throw
<1>7. CASE DrainWave
  <2>1. events' = events /\ pending' = pending \ wave
    BY <1>7 DEF DrainWave
  <2> QED
    BY <1>0, <2>1, QuietKeepsEvents
<1>8. CASE Return
  <2>1. UNCHANGED <<events, pending, wave>>
    BY <1>8 DEF Return
  <2> QED
    BY <1>0, <2>1, QuietKeepsEvents
<1>9. ASSUME NEW n \in Stage, NEW result \in {"succeeded", "failed"}, Settle(n, result)
      PROVE  EventInv'
  BY <1>0, <1>9, QuietKeepsEvents DEF Settle
<1>10. ASSUME NEW n \in Stage, Emit(n)
       PROVE  EventInv'
  BY <1>10, EmitKeepsOrder
<1>11. CASE CancelRun
  BY <1>0, <1>11, QuietKeepsEvents DEF CancelRun, runVars
<1>12. CASE DeadlinePasses
  BY <1>0, <1>12, QuietKeepsEvents DEF DeadlinePasses, runVars
<1> QED
  BY <1>1, <1>2, <1>3, <1>4, <1>5, <1>6, <1>7, <1>8, <1>9, <1>10, <1>11, <1>12
  DEF Next, Schedule, SettleOne

(* Channel events are emitted in plan order whatever the plan, the limits  *)
(* and the settlement order (channels.js emit, callFunction's lease).      *)
THEOREM EmissionFollowsPlan == Spec => []EventsInPlanOrder
<1>1. Init => EventInv
  BY DEF Init, EventInv, EventsInPlanOrder
<1>2. ScheduleInv /\ EventInv /\ [Next]_vars => EventInv'
  BY NextEvents
<1>3. EventInv => EventsInPlanOrder
  BY DEF EventInv
<1> QED
  BY <1>1, <1>2, <1>3, ScheduleIsConsistent, PTL DEF Spec

-----------------------------------------------------------------------------
(* The trace *)

(* The step the plan gives a stage.                                        *)
Rank(n) == Cardinality({m \in Stage : m <= n})

(* Unless the run failed, the recorded stages are the first ones of the    *)
(* plan, each at its step, and the settled ones that are not recorded wait *)
(* in pendingStageCommits.                                                 *)
NumberedInv ==
  /\ \A n \in Node \ Stage : trace[n] = 0
  /\ phase # "failed" =>
       /\ \A n \in Stage : trace[n] # 0 => n \notin pending /\ trace[n] = Rank(n)
       /\ \A m, n \in Stage : m < n /\ trace[n] # 0 => trace[m] # 0
       /\ \A n \in pendingStageCommits : n \notin pending /\ trace[n] = 0
       /\ \A n \in Stage \ pending : trace[n] # 0 \/ n \in pendingStageCommits

StepsIncrease ==
  \A m, n \in Stage : m < n /\ trace[m] # 0 /\ trace[n] # 0 => trace[m] < trace[n]

EndInv ==
  /\ phase # "failed" => error = NoError
  /\ phase = "failed" => StepsIncrease /\ FailureDrains /\ ErrorIsPlanOrdered
  /\ NeverStuckOrDiverged

LEMMA FiniteNodes ==
  ASSUME TypeOK
  PROVE  IsFiniteSet(Node) /\ IsFiniteSet(Stage)
<1>1. IsFiniteSet(Node)
  BY FS_Interval, PlanFacts DEF Node, TypeOK
<1> QED
  BY <1>1, FS_Subset, PlanFacts DEF TypeOK

(* Counting the members up to a number grows with each member.             *)
LEMMA CountUpTo ==
  ASSUME NEW T, IsFiniteSet(T), T \subseteq Nat
  PROVE  /\ \A n \in T : Cardinality({x \in T : x <= n}) \in Nat \ {0}
         /\ \A m, n \in T : m < n =>
              Cardinality({x \in T : x <= m}) < Cardinality({x \in T : x <= n})
<1> DEFINE upTo(n) == {x \in T : x <= n}
<1>1. \A n \in T : IsFiniteSet(upTo(n)) /\ Cardinality(upTo(n)) \in Nat
  BY FS_Subset, FS_CardinalityType
<1>2. \A n \in T : n \in upTo(n)
  OBVIOUS
<1>3. \A n \in T : Cardinality(upTo(n)) # 0
  BY <1>1, <1>2, FS_EmptySet
<1>4. ASSUME NEW m \in T, NEW n \in T, m < n
      PROVE  Cardinality(upTo(m)) < Cardinality(upTo(n))
  <2>1. upTo(m) \subseteq upTo(n) /\ n \in upTo(n) /\ n \notin upTo(m)
    <3>1. \A x \in T : x <= m => x <= n
      BY <1>4
    <3>2. n <= n /\ ~(n <= m)
      BY <1>4
    <3> QED
      BY <3>1, <3>2
  <2>2. IsFiniteSet(upTo(n))
    BY <1>1
  <2> HIDE DEF upTo
  <2>3. Cardinality(upTo(m)) <= Cardinality(upTo(n))
    BY <2>1, <2>2, FS_Subset
  <2>4. Cardinality(upTo(m)) # Cardinality(upTo(n))
    BY <2>1, <2>2, FS_Subset
  <2> QED
    BY <1>1, <2>3, <2>4
<1> QED
  BY <1>1, <1>3, <1>4

(* Recording a gapless continuation of the trace gives each stage the step *)
(* of the plan.                                                            *)
LEMMA RecordedRank ==
  ASSUME TypeOK, NumberedInv, phase # "failed",
         NEW commits, commits \subseteq Stage, \A n \in commits : trace[n] = 0,
         \A n \in commits : outcome[n] # "refused",
         \A n \in commits : \A m \in Stage : m < n => m \in commits \/ trace[m] # 0,
         NEW n \in commits
  PROVE  Recorded(commits, outcome)[n] = Rank(n)
<1> DEFINE done == {m \in Node : trace[m] # 0}
           new == {m \in commits : m <= n}
           upTo == {m \in Stage : m <= n}
<1>1. Stage \subseteq Node /\ Node \subseteq Nat /\ n \in Stage
  BY PlanFacts DEF TypeOK
<1>2. \A m \in done : m \in Stage /\ m <= n
  BY <1>1 DEF NumberedInv
<1>3. upTo = done \cup new /\ done \cap new = {}
  <2>1. \A m \in upTo : m \in done \cup new
    BY <1>1
  <2>2. \A m \in done \cup new : m \in upTo
    BY <1>2
  <2> QED
    BY <2>1, <2>2
<1>4. IsFiniteSet(done) /\ IsFiniteSet(new)
  BY <1>1, FiniteNodes, FS_Subset
<1>5. Cardinality(upTo) = Cardinality(done) + Cardinality(new)
  <2> HIDE DEF done, new, upTo
  <2>1. Cardinality(done \cap new) = 0
    BY <1>3, FS_EmptySet
  <2>2. /\ Cardinality(done) \in Nat /\ Cardinality(new) \in Nat
        /\ Cardinality(done \cup new) = Cardinality(done) + Cardinality(new) - Cardinality(done \cap new)
    BY <1>4, FS_Union, FS_CardinalityType
  <2> QED
    BY <1>3, <2>1, <2>2
<1>6. {m \in commits : outcome[m] # "refused"} = commits
  OBVIOUS
<1>7. Recorded(commits, outcome)[n] = Cardinality(done) + Cardinality(new)
  BY <1>1, <1>6 DEF Recorded
<1> QED
  BY <1>5, <1>7 DEF Rank

(* flushStageCommits(false) extends the gapless prefix.                    *)
LEMMA FlushedPrefix ==
  ASSUME TypeOK, NumberedInv, phase # "failed",
         NEW commits, commits \subseteq Stage, \A n \in commits : trace[n] = 0,
         \A n \in commits : outcome[n] # "refused",
         NEW steps, steps = Recorded(Committable(commits), outcome)
  PROVE  /\ \A n \in Node \ Stage : steps[n] = 0
         /\ \A n \in Stage : steps[n] # 0 <=> trace[n] # 0 \/ n \in Committable(commits)
         /\ \A n \in Stage : steps[n] # 0 => steps[n] = Rank(n)
         /\ \A m, n \in Stage : m < n /\ steps[n] # 0 => steps[m] # 0
<1> DEFINE c == Committable(commits)
<1>1. Stage \subseteq Node /\ Node \subseteq Nat /\ IsFiniteSet(Stage)
  BY PlanFacts, FiniteNodes DEF TypeOK
<1>2. c \subseteq commits /\ \A n \in c : \A m \in Stage : m < n => m \in c \/ trace[m] # 0
  <2>1. ASSUME NEW n \in c, NEW m \in Stage, m < n
        PROVE  m \in c \/ trace[m] # 0
    <3>1. m \in commits \/ trace[m] # 0
      BY <2>1 DEF Committable
    <3>2. \A k \in Stage : k < m => k < n
      BY <1>1, <2>1 DEF Committable
    <3> QED
      BY <2>1, <3>1, <3>2 DEF Committable
  <2> QED
    BY <2>1 DEF Committable
<1> HIDE DEF c
<1>3. \A n \in c : steps[n] = Rank(n)
  BY <1>2, RecordedRank DEF c
<1>4. \A n \in Node \ c : steps[n] = trace[n]
  BY DEF Recorded, c
<1>5. \A n \in Stage : Rank(n) \in Nat \ {0}
  BY <1>1, CountUpTo DEF Rank
<1>6. \A n \in Stage : steps[n] # 0 <=> trace[n] # 0 \/ n \in c
  BY <1>1, <1>2, <1>3, <1>4, <1>5
<1>7. \A n \in Node \ Stage : steps[n] = 0
  BY <1>2, <1>4 DEF NumberedInv
<1>8. \A n \in Stage : steps[n] # 0 => steps[n] = Rank(n)
  BY <1>1, <1>3, <1>4 DEF NumberedInv
<1>9. \A m, n \in Stage : m < n /\ steps[n] # 0 => steps[m] # 0
  BY <1>2, <1>6 DEF NumberedInv
<1> QED
  BY <1>6, <1>7, <1>8, <1>9 DEF c

(* flushStageCommits(true) records all outcomes, in plan order.            *)
LEMMA FlushedAll ==
  ASSUME TypeOK, NumberedInv, phase # "failed",
         NEW commits, commits \subseteq Stage, \A n \in commits : trace[n] = 0,
         NEW steps, steps = Recorded(commits, outcome)
  PROVE  /\ \A n \in Node \ Stage : steps[n] = 0
         /\ \A n \in Stage : steps[n] # 0 <=>
              trace[n] # 0 \/ (n \in commits /\ outcome[n] # "refused")
         /\ \A m, n \in Stage : m < n /\ steps[m] # 0 /\ steps[n] # 0 => steps[m] < steps[n]
<1> DEFINE recordable == {n \in commits : outcome[n] # "refused"}
           done == {m \in Node : trace[m] # 0}
           base == Cardinality(done)
           place(n) == Cardinality({m \in recordable : m <= n})
<1>1. Stage \subseteq Node /\ Node \subseteq Nat /\ IsFiniteSet(Node) /\ IsFiniteSet(Stage)
  BY PlanFacts, FiniteNodes DEF TypeOK
<1>2. base \in Nat
  BY <1>1, FS_Subset, FS_CardinalityType
<1>3. recordable \subseteq Stage /\ IsFiniteSet(recordable)
  BY <1>1, FS_Subset
<1>4. /\ \A n \in recordable : place(n) \in Nat \ {0}
      /\ \A m, n \in recordable : m < n => place(m) < place(n)
  <2> HIDE DEF recordable
  <2> QED
    BY <1>1, <1>3, CountUpTo
<1>5. \A n \in recordable : steps[n] = base + place(n)
  BY <1>1, <1>3 DEF Recorded
<1>6. \A n \in Node \ recordable : steps[n] = trace[n]
  BY DEF Recorded
<1>7. \A n \in recordable : n \in Stage /\ trace[n] = 0
  OBVIOUS
<1>8. ASSUME NEW n \in done
      PROVE  n \in Stage /\ trace[n] = Rank(n) /\ trace[n] <= base
  <2>1. n \in Stage /\ trace[n] = Rank(n)
    BY DEF NumberedInv
  <2>2. {m \in Stage : m <= n} \subseteq done
    <3>1. \A m \in Stage : m <= n => m < n \/ m = n
      BY <1>1, <2>1
    <3>2. \A m \in Stage : m <= n => trace[m] # 0
      BY <2>1, <3>1 DEF NumberedInv
    <3> QED
      BY <1>1, <3>2
  <2>3. IsFiniteSet(done)
    BY <1>1, FS_Subset
  <2>4. Rank(n) <= base
    BY <2>2, <2>3, FS_Subset DEF Rank
  <2> QED
    BY <2>1, <2>4
<1>9. \A m, n \in done : m < n => trace[m] < trace[n]
  <2>1. \A m, n \in Stage : m < n => Rank(m) < Rank(n)
    BY <1>1, CountUpTo DEF Rank
  <2> QED
    BY <1>8, <2>1
<1>10. \A n \in Node : n \in done <=> trace[n] # 0
  OBVIOUS
<1>11. \A n \in Stage : n \in recordable <=> n \in commits /\ outcome[n] # "refused"
  OBVIOUS
<1>12. \A m \in recordable, n \in done : ~(m < n)
  BY <1>7, <1>8, <1>10 DEF NumberedInv
<1> HIDE DEF recordable, done, base, place
<1>13. \A n \in Node : steps[n] # 0 <=> n \in done \/ n \in recordable
  BY <1>1, <1>2, <1>4, <1>5, <1>6, <1>7, <1>10
<1>14. ASSUME NEW m \in Stage, NEW n \in Stage, m < n, steps[m] # 0, steps[n] # 0
       PROVE  steps[m] < steps[n]
  <2>1. (m \in done \/ m \in recordable) /\ (n \in done \/ n \in recordable)
    BY <1>1, <1>13, <1>14
  <2>2. CASE m \in done /\ n \in done
    BY <1>1, <1>6, <1>7, <1>9, <1>10, <1>14, <2>2
  <2>3. CASE m \in done /\ n \in recordable
    <3>1. steps[m] = trace[m] /\ trace[m] <= base /\ trace[m] \in Nat
      BY <1>1, <1>6, <1>7, <1>8, <1>10, <2>3 DEF TypeOK
    <3>2. steps[n] = base + place(n) /\ place(n) \in Nat \ {0}
      BY <1>4, <1>5, <2>3
    <3> QED
      BY <1>2, <3>1, <3>2
  <2>4. CASE m \in recordable /\ n \in recordable
    <3>1. /\ steps[m] = base + place(m) /\ steps[n] = base + place(n)
          /\ place(m) \in Nat /\ place(n) \in Nat /\ place(m) < place(n)
      BY <1>4, <1>5, <1>14, <2>4
    <3> QED
      BY <1>2, <3>1
  <2> QED
    BY <1>12, <1>14, <2>1, <2>2, <2>3, <2>4
<1>15. \A n \in Node \ Stage : steps[n] = 0
  BY <1>7, <1>6 DEF NumberedInv
<1> QED
  BY <1>1, <1>10, <1>11, <1>13, <1>14, <1>15

(* A step that neither records, settles nor ends anything.                 *)
LEMMA QuietKeepsTrace ==
  ASSUME NumberedInv, EndInv, phase # "failed", phase' # "failed", compiled' = compiled,
         UNCHANGED <<trace, pendingStageCommits, error>>,
         pending' \subseteq pending, Stage \cap pending \subseteq pending'
  PROVE  NumberedInv' /\ EndInv'
<1>1. Node' = Node /\ Stage' = Stage /\ \A n : Rank(n)' = Rank(n)
  BY DEF Node, Stage, Rank
<1>2. NumberedInv'
  BY <1>1 DEF NumberedInv
<1> QED
  BY <1>2 DEF EndInv, NeverStuckOrDiverged

(* The catch publishes what has settled, and drains.                       *)
LEMMA FailureFlush ==
  ASSUME ScheduleInv, NumberedInv, phase # "failed", phase' = "failed", running = {},
         FlushOnThrow(pendingStageCommits \cup wave, outcome),
         UNCHANGED <<compiled, pending, wave, running, outcome>>
  PROVE  NumberedInv' /\ StepsIncrease' /\ FailureDrains'
<1> DEFINE commits == pendingStageCommits \cup wave
           steps == Recorded(commits, outcome)
<1>1. /\ TypeOK /\ Stage \subseteq Node /\ Node \subseteq Nat /\ commits \subseteq Stage
      /\ Node' = Node /\ Stage' = Stage
  BY PlanFacts DEF ScheduleInv, TypeOK, Node, Stage
<1>2. trace' = steps /\ pendingStageCommits' = {} /\ running' = {} /\ outcome' = outcome
  BY DEF FlushOnThrow
<1>3. \A n \in commits : trace[n] = 0
  BY DEF ScheduleInv, ValuesInv, NumberedInv, TypeOK
<1>4. /\ \A n \in Node \ Stage : steps[n] = 0
      /\ \A n \in Stage : steps[n] # 0 <=>
           trace[n] # 0 \/ (n \in commits /\ outcome[n] # "refused")
      /\ \A m, n \in Stage : m < n /\ steps[m] # 0 /\ steps[n] # 0 => steps[m] < steps[n]
  <2> HIDE DEF commits
  <2> QED
    BY <1>1, <1>3, FlushedAll
<1>5. ASSUME NEW n \in Stage
      PROVE  steps[n] # 0 <=> outcome[n] \in {"cache-hit", "succeeded", "failed"}
  <2>1. CASE n \in pending \ wave
    <3>1. outcome[n] = "none" /\ trace[n] = 0 /\ n \notin commits
      BY <2>1 DEF ScheduleInv, OutcomeInv, NumberedInv
    <3> QED
      BY <1>4, <3>1
  <2>2. CASE n \in wave
    <3>1. n \in commits /\ outcome[n] # "none" /\ outcome[n] \in Outcome /\ trace[n] = 0
      BY <1>1, <1>3, <2>2 DEF ScheduleInv, OutcomeInv, TypeOK
    <3> QED
      BY <1>4, <3>1 DEF Outcome
  <2>3. CASE n \notin pending
    <3>1. outcome[n] \in {"cache-hit", "succeeded"} /\ (trace[n] # 0 \/ n \in commits)
      BY <2>3 DEF ScheduleInv, OutcomeInv, NumberedInv
    <3> QED
      BY <1>4, <3>1
  <2> QED
    BY <2>1, <2>2, <2>3
<1>6. \A n \in Stage : steps[n] \in Nat
  BY <1>1, RecordedType DEF FlushOnThrow
<1> HIDE DEF steps, commits
<1>7. NumberedInv' /\ StepsIncrease'
  BY <1>1, <1>2, <1>4 DEF NumberedInv, StepsIncrease
<1>8. \A i, j \in Stage : steps[i] # 0 /\ steps[i] = steps[j] => i = j
  <2>1. SUFFICES ASSUME NEW i \in Stage, NEW j \in Stage, steps[i] # 0, steps[i] = steps[j], i # j
                 PROVE  FALSE
    OBVIOUS
  <2>2. i < j \/ j < i
    BY <1>1, <2>1
  <2>3. steps[i] < steps[j] \/ steps[j] < steps[i]
    BY <1>4, <2>1, <2>2
  <2> QED
    BY <1>6, <2>1, <2>3
<1>9. FailureDrains'
  BY <1>1, <1>2, <1>5, <1>8 DEF FailureDrains
<1> QED
  BY <1>7, <1>9

(* A run that has failed does nothing more.                                *)
LEMMA FailedRunStops ==
  ASSUME phase = "failed", [Next]_vars
  PROVE  UNCHANGED vars
  BY Zenon DEF Next, Schedule, SettleOne, StopLoop, RunSynchronous, RenderTooLarge, Active,
    StartWave, DrainFailedWave, DrainWave, Drained, Return, Settle, Emit, CancelRun,
    DeadlinePasses

LEMMA DrainWaveTrace ==
  ASSUME ScheduleInv, NumberedInv, EndInv, DrainWave
  PROVE  NumberedInv' /\ EndInv'
<1> DEFINE commits == pendingStageCommits \cup wave
           steps == Recorded(Committable(commits), outcome)
<1>1. /\ TypeOK /\ Stage \subseteq Node /\ commits \subseteq Stage
      /\ Node' = Node /\ Stage' = Stage /\ \A n : Rank(n)' = Rank(n)
  BY PlanFacts DEF ScheduleInv, TypeOK, Node, Stage, Rank, DrainWave
<1>2. /\ phase = "wave" /\ phase' = "scheduling" /\ running = {} /\ Errors = {}
      /\ trace' = steps /\ pendingStageCommits' = commits \ Committable(commits)
      /\ pending' = pending \ wave /\ error' = error
  BY DEF DrainWave, Drained, WaveFailed
<1>3. \A n \in commits : trace[n] = 0
  BY <1>2 DEF ScheduleInv, ValuesInv, NumberedInv, TypeOK
<1>4. \A n \in commits : outcome[n] # "refused"
  <2>1. \A n \in wave : outcome[n] # "refused"
    BY <1>2 DEF Errors, Failed
  <2>2. \A n \in pendingStageCommits : n \in Stage \ pending
    BY <1>1, <1>2 DEF NumberedInv
  <2> QED
    BY <2>1, <2>2 DEF ScheduleInv, OutcomeInv
<1>5. \A n \in commits : n \notin pending \ wave
  BY <1>2 DEF NumberedInv
<1>6. \A n \in Stage \ (pending \ wave) : trace[n] # 0 \/ n \in commits
  BY <1>2 DEF NumberedInv
<1>7. \A n \in Stage : trace[n] # 0 => n \notin pending
  BY <1>2 DEF NumberedInv
<1>8. Committable(commits) \subseteq commits
  BY DEF Committable
<1> HIDE DEF commits
<1>9. /\ \A n \in Node \ Stage : steps[n] = 0
      /\ \A n \in Stage : steps[n] # 0 <=> trace[n] # 0 \/ n \in Committable(commits)
      /\ \A n \in Stage : steps[n] # 0 => steps[n] = Rank(n)
      /\ \A m, n \in Stage : m < n /\ steps[n] # 0 => steps[m] # 0
  BY <1>1, <1>2, <1>3, <1>4, FlushedPrefix
<1> HIDE DEF steps
<1>10. /\ \A n \in Stage : steps[n] # 0 => n \notin pending \ wave
       /\ \A n \in commits \ Committable(commits) : steps[n] = 0
       /\ \A n \in Stage \ (pending \ wave) :
            steps[n] # 0 \/ n \in commits \ Committable(commits)
  BY <1>1, <1>3, <1>5, <1>6, <1>7, <1>8, <1>9
<1>11. NumberedInv'
  BY <1>1, <1>2, <1>5, <1>9, <1>10 DEF NumberedInv
<1>12. EndInv'
  BY <1>2 DEF EndInv, NeverStuckOrDiverged
<1> QED
  BY <1>11, <1>12

(* When nothing is pending, the last flush leaves no gap: the comparison   *)
(* with the plan cannot fail.                                              *)
LEMMA ReturnTrace ==
  ASSUME ScheduleInv, NumberedInv, EndInv, Return
  PROVE  NumberedInv' /\ EndInv'
<1> DEFINE commits == pendingStageCommits
           steps == Recorded(Committable(commits), outcome)
<1>1. /\ TypeOK /\ Stage \subseteq Node /\ commits \subseteq Stage
      /\ Node' = Node /\ Stage' = Stage /\ \A n : Rank(n)' = Rank(n)
  BY PlanFacts DEF ScheduleInv, TypeOK, Node, Stage, Rank, Return
<1>2. /\ phase = "scheduling" /\ pending = {} /\ pending' = {}
      /\ trace' = steps /\ pendingStageCommits' = commits \ Committable(commits)
      /\ IF MatchesPlan(steps)
         THEN phase' = "returned" /\ error' = error
         ELSE phase' = "failed"
  BY DEF Return
<1>3. \A n \in commits : trace[n] = 0 /\ outcome[n] # "refused"
  BY <1>1, <1>2 DEF ScheduleInv, OutcomeInv, NumberedInv
<1>4. \A n \in Stage : trace[n] # 0 \/ n \in commits
  BY <1>2 DEF NumberedInv
<1>5. Committable(commits) = commits
  BY <1>4 DEF Committable
<1> HIDE DEF commits
<1>6. /\ \A n \in Node \ Stage : steps[n] = 0
      /\ \A n \in Stage : steps[n] # 0 <=> trace[n] # 0 \/ n \in Committable(commits)
      /\ \A n \in Stage : steps[n] # 0 => steps[n] = Rank(n)
  BY <1>1, <1>2, <1>3, FlushedPrefix
<1> HIDE DEF steps
<1>7. \A n \in Stage : steps[n] # 0 /\ steps[n] = Rank(n)
  BY <1>4, <1>5, <1>6
<1>8. MatchesPlan(steps)
  BY <1>7 DEF MatchesPlan, Rank
<1>9. phase' = "returned" /\ error' = error /\ pendingStageCommits' = {}
  BY <1>2, <1>5, <1>8
<1>10. NumberedInv'
  BY <1>1, <1>2, <1>6, <1>7, <1>9 DEF NumberedInv
<1>11. EndInv'
  BY <1>2, <1>9 DEF EndInv, NeverStuckOrDiverged
<1> QED
  BY <1>10, <1>11

(* What a wave throws is a cancellation, a deadline or its first failure.  *)
LEMMA WaveError ==
  ASSUME ScheduleInv, EndInv, DrainFailedWave
  PROVE  ErrorIsPlanOrdered' /\ NeverStuckOrDiverged'
<1>1. /\ TypeOK /\ Stage \subseteq Node /\ Node \subseteq Nat /\ Stage' = Stage
  BY PlanFacts DEF ScheduleInv, TypeOK, Node, Stage, DrainFailedWave, Throw
<1>2. /\ error' = IF Aborted THEN ControlError ELSE FirstError
      /\ UNCHANGED <<outcome, cancelled, expired>>
  BY DEF DrainFailedWave, Throw, controlVars
<1>3. CASE Aborted
  BY <1>2, <1>3 DEF ControlError, Aborted, ErrorIsPlanOrdered, NeverStuckOrDiverged
<1>4. CASE ~Aborted
  <2>1. Errors # {} /\ Errors \subseteq Stage
    BY <1>1, <1>4 DEF DrainFailedWave, WaveFailed, Errors, TypeOK
  <2>2. PICK least \in Errors : \A m \in Errors : least <= m
    BY <1>1, <2>1, LeastExists
  <2>3. /\ FirstError.node \in Errors /\ \A m \in Errors : FirstError.node <= m
        /\ FirstError.kind = "stage"
    BY <2>2 DEF FirstError
  <2>4. \A m \in Stage : Failed(outcome[m]) => m \in Errors
    BY <1>1 DEF ScheduleInv, OutcomeInv, Errors, Failed
  <2>5. /\ error'.kind = "stage" /\ error'.node \in Stage /\ Failed(outcome[error'.node])
        /\ \A m \in Stage : m < error'.node => ~Failed(outcome[m])
    <3> DEFINE first == FirstError
    <3>1. error' = first
      BY <1>2, <1>4
    <3>2. /\ first.node \in Errors /\ \A m \in Errors : first.node <= m
          /\ first.kind = "stage"
      BY <2>3
    <3> HIDE DEF first
    <3>3. first.node \in Stage /\ Failed(outcome[first.node])
      BY <2>1, <3>2 DEF Errors
    <3>4. ASSUME NEW m \in Stage, m < first.node, m \in Errors
          PROVE  FALSE
      <4>1. first.node <= m /\ m \in Nat /\ first.node \in Nat
        BY <1>1, <3>2, <3>3, <3>4
      <4> QED
        BY <3>4, <4>1
    <3> QED
      BY <2>4, <3>1, <3>2, <3>3, <3>4
  <2>6. ~cancelled' /\ ~expired'
    BY <1>2, <1>4 DEF Aborted
  <2> QED
    BY <1>1, <1>2, <2>5, <2>6 DEF ErrorIsPlanOrdered, NeverStuckOrDiverged, Failed
<1> QED
  BY <1>3, <1>4

LEMMA NextTrace ==
  ASSUME ScheduleInv, NumberedInv, EndInv, [Next]_vars
  PROVE  NumberedInv' /\ EndInv'
<1>0. compiled' = compiled /\ Node' = Node /\ Stage' = Stage
  BY PlanIsFixed DEF Node, Stage
<1>1. CASE UNCHANGED vars
  <2>1. \A n : Rank(n)' = Rank(n)
    BY <1>0 DEF Rank
  <2>2. NumberedInv'
    BY <1>0, <1>1, <2>1 DEF NumberedInv, vars, runVars
  <2>3. StepsIncrease' <=> StepsIncrease
    BY <1>0, <1>1 DEF StepsIncrease, vars, runVars
  <2>4. FailureDrains' <=> FailureDrains
    BY <1>0, <1>1 DEF FailureDrains, vars, runVars
  <2>5. ErrorIsPlanOrdered' <=> ErrorIsPlanOrdered
    BY <1>0, <1>1 DEF ErrorIsPlanOrdered, vars, runVars, controlVars
  <2> QED
    BY <1>1, <2>2, <2>3, <2>4, <2>5 DEF EndInv, NeverStuckOrDiverged, vars
<1> SUFFICES ASSUME Next, phase # "failed"
             PROVE  NumberedInv' /\ EndInv'
  BY <1>1, FailedRunStops
<1>e. EndInv' <=> /\ phase' # "failed" => error' = NoError
                  /\ phase' = "failed" => StepsIncrease' /\ FailureDrains' /\ ErrorIsPlanOrdered'
                  /\ NeverStuckOrDiverged'
  BY DEF EndInv
<1>2. CASE StopLoop
  <2>1. /\ phase = "scheduling" /\ phase' = "failed" /\ wave = {} /\ running = {} /\ pending # {}
        /\ FlushOnThrow(pendingStageCommits \cup wave, outcome)
        /\ UNCHANGED <<compiled, pending, wave, running, outcome, cancelled, expired>>
    BY <1>2 DEF StopLoop, ThrowFromLoop, Throw, controlVars, ScheduleInv, PhaseInv
  <2>2. NumberedInv' /\ StepsIncrease' /\ FailureDrains'
    BY <2>1, FailureFlush
  <2>3. Aborted /\ error' = ControlError
    BY <1>2, <2>1, SomethingIsReady
    DEF StopLoop, ThrowFromLoop, Throw, ScheduleInv, ValuesInv
  <2>4. ErrorIsPlanOrdered' /\ NeverStuckOrDiverged'
    BY <2>1, <2>3 DEF ErrorIsPlanOrdered, NeverStuckOrDiverged, ControlError, Aborted
  <2> QED
    BY <1>e, <2>1, <2>2, <2>4
<1>3. CASE RunSynchronous
  <2>1. /\ phase' = phase /\ UNCHANGED <<trace, pendingStageCommits, error>>
        /\ pending' = pending \ ReadySynchronous /\ Stage \cap ReadySynchronous = {}
    BY <1>3 DEF RunSynchronous, ReadySynchronous
  <2> QED
    BY <1>0, <2>1, QuietKeepsTrace
<1>4. CASE RenderTooLarge
  <2>1. /\ phase = "scheduling" /\ phase' = "failed" /\ wave = {} /\ running = {} /\ ~Aborted
        /\ FlushOnThrow(pendingStageCommits \cup wave, outcome)
        /\ error' = [kind |-> "render-limit", node |-> 0]
        /\ UNCHANGED <<compiled, pending, wave, running, outcome, cancelled, expired>>
    BY <1>4 DEF RenderTooLarge, Active, ThrowFromLoop, Throw, controlVars, ScheduleInv, PhaseInv
  <2>2. NumberedInv' /\ StepsIncrease' /\ FailureDrains'
    BY <2>1, FailureFlush
  <2>3. ErrorIsPlanOrdered' /\ NeverStuckOrDiverged'
    BY <2>1 DEF ErrorIsPlanOrdered, NeverStuckOrDiverged, Aborted
  <2> QED
    BY <1>e, <2>1, <2>2, <2>3
<1>5. ASSUME NEW hits \in SUBSET Selected, NEW refused \in SUBSET Selected,
             StartWave(hits, refused)
      PROVE  NumberedInv' /\ EndInv'
  BY <1>0, <1>5, QuietKeepsTrace DEF StartWave
<1>6. CASE DrainFailedWave
  <2>1. /\ phase' = "failed" /\ running = {}
        /\ FlushOnThrow(pendingStageCommits \cup wave, outcome)
        /\ UNCHANGED <<pending, wave, running, outcome>>
    BY <1>6 DEF DrainFailedWave, Drained, Throw
  <2>2. NumberedInv' /\ StepsIncrease' /\ FailureDrains'
    BY <1>0, <2>1, FailureFlush
  <2> QED
    BY <1>6, <1>e, <2>1, <2>2, WaveError
<1>7. CASE DrainWave
  BY <1>7, DrainWaveTrace
<1>8. CASE Return
  BY <1>8, ReturnTrace
<1>9. ASSUME NEW n \in Stage, NEW result \in {"succeeded", "failed"}, Settle(n, result)
      PROVE  NumberedInv' /\ EndInv'
  BY <1>0, <1>9, QuietKeepsTrace DEF Settle
<1>10. ASSUME NEW n \in Stage, Emit(n)
       PROVE  NumberedInv' /\ EndInv'
  BY <1>0, <1>10, QuietKeepsTrace DEF Emit, runVars
<1>11. CASE CancelRun
  BY <1>0, <1>11, QuietKeepsTrace DEF CancelRun, runVars
<1>12. CASE DeadlinePasses
  BY <1>0, <1>12, QuietKeepsTrace DEF DeadlinePasses, runVars
<1> QED
  BY <1>2, <1>3, <1>4, <1>5, <1>6, <1>7, <1>8, <1>9, <1>10, <1>11, <1>12
  DEF Next, Schedule, SettleOne

LEMMA InitTrace == Init => NumberedInv /\ EndInv
<1> SUFFICES ASSUME Init PROVE NumberedInv /\ EndInv
  OBVIOUS
<1>1. Stage \subseteq Node
  BY DEF Stage
<1> QED
  BY <1>1 DEF Init, NumberedInv, EndInv, NeverStuckOrDiverged, NoError

LEMMA TraceInvariants == Spec => [](ScheduleInv /\ NumberedInv /\ EndInv)
<1>1. Init => NumberedInv /\ EndInv
  BY InitTrace
<1>2. ScheduleInv /\ NumberedInv /\ EndInv /\ [Next]_vars => NumberedInv' /\ EndInv'
  BY NextTrace
<1> QED
  BY <1>1, <1>2, ScheduleIsConsistent, PTL DEF Spec

(* PROCESS-001, PLAN-005: whatever order waves settle in, the trace is in  *)
(* plan order, and has no gap unless the run failed (flushStageCommits).   *)
THEOREM TraceFollowsPlan == Spec => []TraceInPlanOrder
<1>1. ASSUME ScheduleInv, NumberedInv, EndInv, NEW m \in Stage, NEW n \in Stage,
             m < n, trace[n] # 0
      PROVE  \/ trace[m] # 0 /\ trace[m] < trace[n]
             \/ trace[m] = 0 /\ phase = "failed"
  <2>1. CASE phase = "failed"
    BY <1>1, <2>1 DEF EndInv, StepsIncrease
  <2>2. CASE phase # "failed"
    <3>1. trace[m] # 0 /\ trace[m] = Rank(m) /\ trace[n] = Rank(n)
      BY <1>1, <2>2 DEF NumberedInv
    <3>2. IsFiniteSet(Stage) /\ Stage \subseteq Nat
      BY <1>1, FiniteNodes, PlanFacts DEF ScheduleInv, TypeOK
    <3>3. Rank(m) < Rank(n)
      BY <1>1, <3>2, CountUpTo DEF Rank
    <3> QED
      BY <3>1, <3>3
  <2> QED
    BY <2>1, <2>2
<1>2. ScheduleInv /\ NumberedInv /\ EndInv => TraceInPlanOrder
  BY <1>1 DEF TraceInPlanOrder
<1> QED
  BY <1>2, TraceInvariants, PTL

(* RUN-008: a failed run has drained its wave and recorded each stage that *)
(* was called exactly once (the catch of executeExecutionGraph).           *)
THEOREM FailedRunsDrain == Spec => []FailureDrains
<1>1. EndInv => FailureDrains
  BY DEF EndInv, FailureDrains
<1> QED
  BY <1>1, TraceInvariants, PTL

(* RUN-008: the reported error does not depend on settlement order.        *)
THEOREM ErrorFollowsPlan == Spec => []ErrorIsPlanOrdered
<1>1. EndInv => ErrorIsPlanOrdered
  BY DEF EndInv, ErrorIsPlanOrdered
<1> QED
  BY <1>1, TraceInvariants, PTL

(* No acyclic plan gets stuck, and the final comparison of trace and plan  *)
(* never fails (the two planning errors of executeExecutionGraph).         *)
THEOREM PlansAlwaysExecute == Spec => []NeverStuckOrDiverged
<1>1. EndInv => NeverStuckOrDiverged
  BY DEF EndInv
<1> QED
  BY <1>1, TraceInvariants, PTL

(* A run that returns has executed every operation, none of which failed.  *)
THEOREM ReturnsAreWhole == Spec => []ReturnsOnlyWhole
<1>1. ScheduleInv => ReturnsOnlyWhole
  BY DEF ScheduleInv, TypeOK, PhaseInv, ValuesInv, OutcomeInv, ReturnsOnlyWhole
<1> QED
  BY <1>1, ScheduleIsConsistent, PTL

-----------------------------------------------------------------------------
(* Overlap *)

LEMMA GreatestExists ==
  ASSUME NEW T, T \subseteq Nat, T # {}, NEW bound \in Nat, \A x \in T : x <= bound
  PROVE  \E x \in T : \A y \in T : y <= x
<1> DEFINE above == {k \in Nat : \A x \in T : x <= k}
<1>1. bound \in above
  OBVIOUS
<1>2. PICK k \in above : \A l \in above : k <= l
  BY <1>1, LeastExists
<1>3. k \in T
  <2>1. SUFFICES ASSUME k \notin T
                 PROVE  FALSE
    OBVIOUS
  <2>2. \A x \in T : x \in Nat /\ x < k
    BY <1>2, <2>1
  <2>3. PICK x \in T : TRUE
    OBVIOUS
  <2>4. k \in Nat /\ k - 1 \in Nat /\ ~(k <= k - 1)
    BY <1>2, <2>2, <2>3
  <2>5. \A y \in T : y <= k - 1
    BY <2>2, <2>4
  <2> QED
    BY <1>2, <2>4, <2>5
<1> QED
  BY <1>2, <1>3

(* The selection takes at most maxParallelism stages: the last of them has *)
(* fewer than that many ready stages before it.                            *)
LEMMA SelectionIsBounded ==
  ASSUME TypeOK, NEW chosen, chosen \subseteq ReadyStages, chosen # {},
         \A n \in chosen : Cardinality({m \in ReadyStages : m < n}) < MaxParallelism
  PROVE  Cardinality(chosen) <= MaxParallelism
<1>1. /\ ReadyStages \subseteq Stage /\ Stage \subseteq Node /\ Node \subseteq Nat
      /\ IsFiniteSet(ReadyStages) /\ IsFiniteSet(chosen)
  <2>1. ReadyStages \subseteq Stage
    BY SelectedIsReady DEF TypeOK
  <2> QED
    BY <2>1, PlanFacts, FiniteNodes, FS_Subset DEF TypeOK
<1>2. PICK last \in chosen : \A m \in chosen : m <= last
  <2>1. chosen \subseteq Nat /\ \A m \in chosen : m <= compiled.size /\ compiled.size \in Nat
    BY <1>1, PlanFacts DEF Node, TypeOK
  <2> QED
    BY <2>1, GreatestExists
<1> DEFINE before == {m \in ReadyStages : m < last}
<1>3. chosen \subseteq before \cup {last}
  BY <1>1, <1>2
<1>4. IsFiniteSet(before) /\ Cardinality(before) \in Nat /\ Cardinality(before) < MaxParallelism
  BY <1>1, <1>2, FS_Subset, FS_CardinalityType
<1> HIDE DEF before
<1>5. /\ IsFiniteSet(before \cup {last})
      /\ Cardinality(before \cup {last}) <= Cardinality(before) + 1
  <2>1. /\ IsFiniteSet(before \cup {last})
        /\ Cardinality(before \cup {last}) =
             IF last \in before THEN Cardinality(before) ELSE Cardinality(before) + 1
    BY <1>4, FS_AddElement, Zenon
  <2> QED
    BY <1>4, <2>1
<1>6. /\ Cardinality(chosen) <= Cardinality(before \cup {last})
      /\ Cardinality(chosen) \in Nat /\ Cardinality(before \cup {last}) \in Nat
  BY <1>1, <1>3, <1>5, FS_Subset, FS_CardinalityType
<1> QED
  BY <1>4, <1>5, <1>6, SchedulerAssumption

LEMMA SelectedOverlap ==
  ASSUME TypeOK, values \cap pending = {}, Cardinality(Selected) > 1
  PROVE  /\ Cardinality(Selected) <= MaxParallelism
         /\ \A n \in Selected : IsRuntimeParallelCandidate(n) /\ compiled.inputs[n] \cap Selected = {}
<1> DEFINE runtimeCandidatesUpTo(n) ==
             \A m \in ReadyStages : m <= n => IsRuntimeParallelCandidate(m)
           concurrent == {n \in ReadyStages :
             /\ runtimeCandidatesUpTo(n)
             /\ Cardinality({m \in ReadyStages : m < n}) < MaxParallelism}
           first == {n \in ReadyStages : \A m \in ReadyStages : n <= m}
<1>1. Selected = IF concurrent # {} THEN concurrent ELSE first
  BY DEF Selected
<1>2. ReadyStages \subseteq Nat /\ ReadyStages \subseteq pending
  BY SelectedIsReady, PlanFacts DEF TypeOK, ReadyOperations
<1>3. ~(Cardinality(first) > 1)
  <2>1. \A m, n \in first : m = n
    BY <1>2
  <2> HIDE DEF first
  <2>2. CASE first = {}
    BY <2>2, FS_EmptySet
  <2>3. CASE first # {}
    <3>1. PICK x \in first : TRUE
      BY <2>3
    <3>2. first = {x}
      BY <2>1, <3>1
    <3> QED
      BY <3>2, FS_Singleton
  <2> QED
    BY <2>2, <2>3
<1>4. Selected = concurrent /\ concurrent # {}
  <2> HIDE DEF first, concurrent
  <2> QED
    BY <1>1, <1>3
<1>5. Cardinality(concurrent) <= MaxParallelism
  <2>1. concurrent \subseteq ReadyStages
        /\ \A n \in concurrent : Cardinality({m \in ReadyStages : m < n}) < MaxParallelism
    OBVIOUS
  <2> HIDE DEF concurrent
  <2> QED
    BY <1>4, <2>1, SelectionIsBounded
<1>6. ASSUME NEW n \in concurrent
      PROVE  IsRuntimeParallelCandidate(n) /\ compiled.inputs[n] \cap concurrent = {}
  <2>1. n \in ReadyStages /\ runtimeCandidatesUpTo(n) /\ n <= n
    BY <1>2
  <2>2. IsRuntimeParallelCandidate(n)
    BY <2>1
  <2>3. compiled.inputs[n] \subseteq values
    BY <2>2 DEF IsRuntimeParallelCandidate
  <2>4. concurrent \subseteq pending
    BY <1>2
  <2> QED
    BY <2>2, <2>3, <2>4
<1> HIDE DEF concurrent
<1> QED
  BY <1>4, <1>5, <1>6

LEMMA NextOverlap ==
  ASSUME ScheduleInv, OverlapIsSafe, [Next]_vars
  PROVE  OverlapIsSafe'
<1>0. compiled' = compiled
  BY PlanIsFixed
<1>1. ASSUME wave' = wave, values \subseteq values'
      PROVE  OverlapIsSafe'
  BY <1>0, <1>1 DEF OverlapIsSafe, IsRuntimeParallelCandidate, IsStaticParallelCandidate
<1>2. ASSUME NEW hits \in SUBSET Selected, NEW refused \in SUBSET Selected,
             StartWave(hits, refused)
      PROVE  OverlapIsSafe'
  <2>1. wave' = Selected /\ values' = values /\ values \cap pending = {}
    BY <1>2 DEF StartWave, Active, ScheduleInv, ValuesInv
  <2> QED
    BY <1>0, <2>1, SelectedOverlap
    DEF ScheduleInv, OverlapIsSafe, IsRuntimeParallelCandidate, IsStaticParallelCandidate
<1>3. CASE DrainWave
  <2>1. wave' = {}
    BY <1>3 DEF DrainWave
  <2> QED
    BY <2>1, FS_EmptySet DEF OverlapIsSafe
<1>4. (~\E hits, refused \in SUBSET Selected : StartWave(hits, refused)) /\ ~DrainWave
        => wave' = wave /\ values \subseteq values'
  BY DEF Next, vars, runVars, controlVars, Schedule, SettleOne, StopLoop, ThrowFromLoop,
    RunSynchronous, RenderTooLarge, DrainFailedWave, Return, Settle, Emit, CancelRun,
    DeadlinePasses
<1> QED
  BY <1>1, <1>2, <1>3, <1>4

(* Stages overlap only as snapshotted candidates that do not read each     *)
(* other, and at most maxParallelism of them (run-policy.js, selected).    *)
THEOREM OverlapsAreSafe == Spec => []OverlapIsSafe
<1>1. Init => OverlapIsSafe
  BY FS_EmptySet DEF Init, OverlapIsSafe
<1>2. ScheduleInv /\ OverlapIsSafe /\ [Next]_vars => OverlapIsSafe'
  BY NextOverlap
<1> QED
  BY <1>1, <1>2, ScheduleIsConsistent, PTL DEF Spec
=============================================================================
