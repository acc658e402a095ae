----------------------------- MODULE Scheduler -----------------------------
(***************************************************************************)
(* The wave scheduler of one run: executeExecutionGraph and callFunction   *)
(* of runtime/worker-entry.js, with the part of runtime/run-policy.js and  *)
(* runtime/channels.js they decide by.                                     *)
(*                                                                         *)
(* Operations are numbered in plan order.  The scheduler is synchronous    *)
(* but for one await, Promise.allSettled of the wave it started; only      *)
(* there do transforms run, emit and settle, in any order, and a cancel    *)
(* arrive.  The clock may pass the deadline anywhere.                      *)
(***************************************************************************)
EXTENDS Integers, Sequences, FiniteSets

CONSTANTS
  Plans,           \* the compiled plans a run may execute
  MaxParallelism,  \* runtimeLimits.maxParallelism, 8 at most in the code
  MaxEvents        \* runtimeLimits.maxChannelEvents, 2048 at most in the code

(* A compiled plan: the kind and the inputs of each operation, the stages  *)
(* whose contract makes them parallel (and cache) candidates, and the      *)
(* operations whose value snapshotCacheValue will refuse.  Edges follow    *)
(* the plan order (validateExecutionGraph).                                *)
IsPlan(p) ==
  /\ p.size \in Nat
  /\ p.kind \in [1..p.size -> {"source", "stage", "merge", "render"}]
  /\ p.inputs \in [1..p.size -> SUBSET (1..p.size)]
  /\ \A n \in 1..p.size : \A m \in p.inputs[n] : m < n
  /\ p.candidates \subseteq {n \in 1..p.size : p.kind[n] = "stage"}
  /\ p.opaque \subseteq 1..p.size

ASSUME SchedulerAssumption ==
  /\ \A p \in Plans : IsPlan(p)
  /\ MaxParallelism \in Nat \ {0}
  /\ MaxEvents \in Nat

VARIABLES
  compiled,            \* compiled: the plan, chosen initially
  phase,               \* "scheduling", at the "wave" await, "returned" or "failed"
  pending,             \* pending
  values,              \* values: the operations that have a value
  wave,                \* prepared: the stages of the current wave
  running,             \* the stages whose transform has been called and not settled
  outcome,             \* the settlement of each started stage
  pendingStageCommits, \* pendingStageCommits
  trace,               \* executionTrace: the step of each recorded stage, 0 if none
  events,              \* channels: the stage that emitted each event
  limitExceeded,       \* resourceStatus is "event-limit-exceeded"
  cancelled,           \* isCancelled()
  expired,             \* the deadline has passed
  error                \* what executeExecutionGraph threw

controlVars == <<cancelled, expired>>
runVars == <<pending, values, wave, running, outcome, pendingStageCommits, trace>>
vars == <<compiled, phase, runVars, events, limitExceeded, controlVars, error>>

-----------------------------------------------------------------------------
(* State *)

Node == 1..compiled.size
Stage == {n \in Node : compiled.kind[n] = "stage"}

Phase == {"scheduling", "wave", "returned", "failed"}
Outcome == {"none", "cache-hit", "succeeded", "failed", "refused"}

(* A stage refused before its transform was called leaves no record.       *)
Failed(o) == o \in {"failed", "refused"}

NoError == [kind |-> "none", node |-> 0]
Error == [kind : {"none", "planning", "cancelled", "deadline", "render-limit",
                  "stage", "diverged"},
          node : Nat]

TypeOK ==
  /\ compiled \in Plans
  /\ phase \in Phase
  /\ pending \subseteq Node
  /\ values \subseteq Node
  /\ wave \subseteq Stage
  /\ running \subseteq wave
  /\ outcome \in [Node -> Outcome]
  /\ pendingStageCommits \subseteq Stage
  /\ trace \in [Node -> Nat]
  /\ events \in Seq(Stage)
  /\ limitExceeded \in BOOLEAN
  /\ cancelled \in BOOLEAN
  /\ expired \in BOOLEAN
  /\ error \in Error

Init ==
  /\ compiled \in Plans
  /\ phase = "scheduling"
  /\ pending = Node
  /\ values = {}
  /\ wave = {} /\ running = {}
  /\ outcome = [n \in Node |-> "none"]
  /\ pendingStageCommits = {}
  /\ trace = [n \in Node |-> 0]
  /\ events = <<>>
  /\ limitExceeded = FALSE
  /\ cancelled = FALSE /\ expired = FALSE
  /\ error = NoError

-----------------------------------------------------------------------------
(* Which operations may go *)

ReadyOperations == {n \in pending : compiled.inputs[n] \subseteq values}

IsStaticParallelCandidate(n) == n \in compiled.candidates

IsRuntimeParallelCandidate(n) ==
  /\ IsStaticParallelCandidate(n)
  /\ compiled.inputs[n] \subseteq values \ compiled.opaque

(* Mutants: no barrier holds later stages back; it holds back itself too.  *)
UnfencedStages == ReadyOperations \cap Stage
StagesBeforeBarrier ==
  {n \in ReadyOperations \cap Stage :
     \A b \in pending \cap Stage : ~IsStaticParallelCandidate(b) => n < b}

(* The ready stages no later than the first pending static barrier.        *)
ReadyStages ==
  {n \in ReadyOperations \cap Stage :
     \A b \in pending \cap Stage : ~IsStaticParallelCandidate(b) => n <= b}

(* The next wave: the longest run of runtime candidates that the ready     *)
(* stages begin with, as far as the limit goes; else the first one alone.  *)
Selected ==
  LET runtimeCandidatesUpTo(n) == \A m \in ReadyStages : m <= n => IsRuntimeParallelCandidate(m)
      concurrent == {n \in ReadyStages :
                       /\ runtimeCandidatesUpTo(n)
                       /\ Cardinality({m \in ReadyStages : m < n}) < MaxParallelism}
  IN  IF concurrent # {} THEN concurrent
      ELSE {n \in ReadyStages : \A m \in ReadyStages : n <= m}

ReadySynchronous == ReadyOperations \ Stage

-----------------------------------------------------------------------------
(* Publishing outcomes in plan order *)

(* What stageOperations.slice(nextStageCommitIndex) records of a set of    *)
(* outcomes, in plan order after the steps already in the trace.           *)
Recorded(commits, result) ==
  LET recordable == {n \in commits : result[n] # "refused"}
      steps == Cardinality({n \in Node : trace[n] # 0})
  IN  [n \in Node |-> IF n \in recordable
                      THEN steps + Cardinality({m \in recordable : m <= n})
                      ELSE trace[n]]

(* Mutant: a wave's outcomes are published at once, gaps or not.           *)
AllOutcomes(commits) == commits

(* flushStageCommits(false): the outcomes no earlier stage is missing from. *)
Committable(commits) ==
  {n \in commits : \A m \in Stage : m < n => m \in commits \/ trace[m] # 0}

(* Mutant: a failure publishes only what has no gap before it.             *)
FlushOnThrowUnforced(commits, result) ==
  /\ trace' = Recorded(Committable(commits), result)
  /\ pendingStageCommits' = commits \ Committable(commits)

(* flushStageCommits(true), in the catch: every outcome there is.          *)
FlushOnThrow(commits, result) ==
  /\ trace' = Recorded(commits, result)
  /\ pendingStageCommits' = {}

-----------------------------------------------------------------------------
(* The control signal *)

Aborted == cancelled \/ expired

(* Mutant: a passed deadline is reported although the run was cancelled.   *)
DeadlineFirst == [kind |-> IF expired THEN "deadline" ELSE "cancelled", node |-> 0]

ControlError == [kind |-> IF cancelled THEN "cancelled" ELSE "deadline", node |-> 0]

(* A message is handled only while the worker awaits a transform.          *)
CancelRun ==
  /\ phase = "wave" /\ running # {}
  /\ ~cancelled
  /\ cancelled' = TRUE
  /\ UNCHANGED <<compiled, phase, runVars, events, limitExceeded, expired, error>>

DeadlinePasses ==
  /\ phase \in {"scheduling", "wave"}
  /\ ~expired
  /\ expired' = TRUE
  /\ UNCHANGED <<compiled, phase, runVars, events, limitExceeded, cancelled, error>>

-----------------------------------------------------------------------------
(* The scheduling loop *)

Throw(reason) ==
  /\ phase' = "failed"
  /\ error' = reason
  /\ UNCHANGED <<compiled, events, limitExceeded>>

(* An error of the loop itself: nothing is running.                        *)
ThrowFromLoop(reason) ==
  /\ Throw(reason)
  /\ FlushOnThrow(pendingStageCommits, outcome)
  /\ UNCHANGED <<pending, values, wave, running, outcome, controlVars>>

(* No ready set, or none that may be executed.                             *)
NothingReady == ReadySynchronous = {} /\ ReadyStages = {}

StopLoop ==
  /\ phase = "scheduling" /\ pending # {}
  /\ Aborted \/ NothingReady
  /\ ThrowFromLoop(IF Aborted THEN ControlError ELSE [kind |-> "planning", node |-> 0])

Active == phase = "scheduling" /\ pending # {} /\ ~Aborted

(* Sources, merges and the render that are ready get their values.         *)
RunSynchronous ==
  /\ Active
  /\ ReadySynchronous # {}
  /\ values' = values \cup ReadySynchronous
  /\ pending' = pending \ ReadySynchronous
  /\ UNCHANGED <<compiled, phase, wave, running, outcome, pendingStageCommits, trace,
                 events, limitExceeded, controlVars, error>>

(* checkRender refuses the render.                                         *)
RenderTooLarge ==
  /\ Active
  /\ \E n \in ReadySynchronous : compiled.kind[n] = "render"
  /\ ThrowFromLoop([kind |-> "render-limit", node |-> 0])

(* The wave is prepared and its transforms are called in plan order: hits  *)
(* are not called, refused ones throw before they are.  A barrier is       *)
(* refused when its channel descriptors do not compile; when the clock     *)
(* passes the deadline between two calls, every later one is refused.      *)
StartWave(hits, refused) ==
  /\ Active
  /\ ReadySynchronous = {} /\ ReadyStages # {}
  /\ wave' = Selected
  /\ hits \subseteq {n \in Selected : IsRuntimeParallelCandidate(n)}
  /\ refused \subseteq Selected \ hits
  /\ \/ /\ \A n \in refused : ~IsStaticParallelCandidate(n)
        /\ UNCHANGED expired
     \/ /\ \A m \in refused : \A n \in Selected \ hits : m < n => n \in refused
        /\ refused # {} /\ expired' = TRUE
  /\ running' = Selected \ (hits \cup refused)
  /\ outcome' = [n \in Node |-> IF n \in hits THEN "cache-hit"
                                ELSE IF n \in refused THEN "refused" ELSE outcome[n]]
  /\ phase' = "wave"
  /\ UNCHANGED <<compiled, pending, values, pendingStageCommits, trace, events,
                 limitExceeded, cancelled, error>>

-----------------------------------------------------------------------------
(* Transforms, while the wave is awaited *)

(* Mutant: a context stays usable after its invocation ended.              *)
MayEmitForEver(n) == n \in running \cup values /\ ~IsStaticParallelCandidate(n)

(* The invocation's lease is open.  A candidate's emit throws.             *)
MayEmit(n) == n \in running /\ ~IsStaticParallelCandidate(n)

Emit(n) ==
  /\ phase = "wave" /\ ~Aborted
  /\ n \in Stage /\ MayEmit(n)
  /\ \/ /\ Len(events) < MaxEvents
        /\ events' = Append(events, n)
        /\ UNCHANGED limitExceeded
     \/ /\ Len(events) = MaxEvents
        /\ limitExceeded' = TRUE
        /\ UNCHANGED events
  /\ UNCHANGED <<compiled, phase, runVars, controlVars, error>>

(* A transform returns or throws; what it returns counts only if the run   *)
(* is still active and the contract checks pass.  A transform may catch    *)
(* the error an emit threw at it.                                          *)
Settle(n, result) ==
  /\ phase = "wave" /\ n \in running
  /\ result = "succeeded" => ~Aborted
  /\ running' = running \ {n}
  /\ outcome' = [outcome EXCEPT ![n] = result]
  /\ UNCHANGED <<compiled, phase, pending, values, wave, pendingStageCommits, trace,
                 events, limitExceeded, controlVars, error>>

-----------------------------------------------------------------------------
(* The wave has settled *)

Errors == {n \in wave : Failed(outcome[n])}

(* Mutant: the error that is thrown is the last one.                       *)
LastError == [kind |-> "stage", node |-> CHOOSE n \in Errors : \A m \in Errors : m <= n]

FirstError == [kind |-> "stage", node |-> CHOOSE n \in Errors : \A m \in Errors : n <= m]

WaveFailed == Aborted \/ Errors # {}

(* Mutant: the wave is awaited until one stage fails.                      *)
DrainedAtFirstFailure == phase = "wave" /\ (running = {} \/ Errors # {})

Drained == phase = "wave" /\ running = {}

DrainFailedWave ==
  /\ Drained
  /\ WaveFailed
  /\ values' = values \cup (wave \ Errors)
  /\ FlushOnThrow(pendingStageCommits \cup wave, outcome)
  /\ Throw(IF Aborted THEN ControlError ELSE FirstError)
  /\ UNCHANGED <<pending, wave, running, outcome, controlVars>>

(* Mutant: reused stages stay pending.                                     *)
DrainLeavingHitsPending ==
  LET commits == pendingStageCommits \cup wave IN
  /\ Drained
  /\ ~WaveFailed
  /\ values' = values \cup wave
  /\ trace' = Recorded(Committable(commits), outcome)
  /\ pendingStageCommits' = commits \ Committable(commits)
  /\ pending' = pending \ {n \in wave : outcome[n] = "succeeded"}
  /\ wave' = {}
  /\ phase' = "scheduling"
  /\ UNCHANGED <<compiled, running, outcome, events, limitExceeded, controlVars, error>>

DrainWave ==
  LET commits == pendingStageCommits \cup wave IN
  /\ Drained
  /\ ~WaveFailed
  /\ values' = values \cup wave
  /\ trace' = Recorded(Committable(commits), outcome)
  /\ pendingStageCommits' = commits \ Committable(commits)
  /\ pending' = pending \ wave
  /\ wave' = {}
  /\ phase' = "scheduling"
  /\ UNCHANGED <<compiled, running, outcome, events, limitExceeded, controlVars, error>>

(* The trace must name every planned stage, in plan order.                 *)
MatchesPlan(steps) ==
  \A n \in Stage : steps[n] = Cardinality({m \in Stage : m <= n})

Return ==
  LET commits == Committable(pendingStageCommits)
      steps == Recorded(commits, outcome)
  IN
  /\ phase = "scheduling" /\ pending = {}
  /\ trace' = steps
  /\ pendingStageCommits' = pendingStageCommits \ commits
  /\ IF MatchesPlan(steps)
     THEN phase' = "returned" /\ UNCHANGED error
     ELSE phase' = "failed" /\ error' = [kind |-> "diverged", node |-> 0]
  /\ UNCHANGED <<compiled, pending, values, wave, running, outcome, events,
                 limitExceeded, controlVars>>

-----------------------------------------------------------------------------
(* The specification *)

Schedule ==
  \/ StopLoop
  \/ RunSynchronous
  \/ RenderTooLarge
  \/ \E hits, refused \in SUBSET Selected : StartWave(hits, refused)
  \/ DrainFailedWave
  \/ DrainWave
  \/ Return

SettleOne == \E n \in Stage, result \in {"succeeded", "failed"} : Settle(n, result)

Next ==
  \/ Schedule
  \/ SettleOne
  \/ \E n \in Stage : Emit(n)
  \/ CancelRun
  \/ DeadlinePasses

Spec == Init /\ [][Next]_vars

(* The loop goes on by itself, and transforms are assumed to settle.       *)
FairSpec == Spec /\ WF_vars(Schedule) /\ WF_vars(SettleOne)

-----------------------------------------------------------------------------
(* Properties *)

Started(n) == n \in wave \/ outcome[n] # "none"

(* PROCESS-001, PLAN-005: the public trace is in plan order however the    *)
(* waves settled, and unless the run failed it is a gapless prefix of the  *)
(* plan's stages.                                                          *)
TraceInPlanOrder ==
  \A m, n \in Stage : m < n /\ trace[n] # 0 =>
    \/ trace[m] # 0 /\ trace[m] < trace[n]
    \/ trace[m] = 0 /\ phase = "failed"

(* PLAN-005: a stage that is not a candidate runs alone, after every stage *)
(* before it in the plan and before every one after it, although readiness *)
(* is by data dependencies only: state and effects see plan order.         *)
BarrierFence ==
  \A b \in Stage : Started(b) /\ ~IsStaticParallelCandidate(b) =>
    /\ \A m \in Stage : m < b => m \in values
    /\ phase = "wave" /\ b \in wave => wave = {b} /\ \A n \in Stage : n > b => ~Started(n)

(* Stages that overlap are candidates on snapshotted inputs, no one reads  *)
(* another's value, and the host's limit holds.                            *)
OverlapIsSafe ==
  Cardinality(wave) > 1 =>
    /\ Cardinality(wave) <= MaxParallelism
    /\ \A n \in wave : /\ IsRuntimeParallelCandidate(n)
                       /\ compiled.inputs[n] \cap wave = {}

(* Events are emitted in plan order: none comes from a stage whose         *)
(* invocation ended, or that runs ahead of an earlier one's effects.       *)
EventsInPlanOrder ==
  \A i, j \in 1..Len(events) : i <= j => events[i] <= events[j]

(* RUN-008: a failed run has drained the wave it started, and every stage  *)
(* that was called has exactly one step in the trace.                      *)
FailureDrains ==
  phase = "failed" =>
    /\ running = {} /\ pendingStageCommits = {}
    /\ \A n \in Stage : trace[n] # 0 <=> outcome[n] \in {"cache-hit", "succeeded", "failed"}
    /\ \A i, j \in Stage : trace[i] # 0 /\ trace[i] = trace[j] => i = j

(* RUN-008: the reported error does not depend on the order the siblings   *)
(* settled in: a cancellation that arrived in time, else a passed          *)
(* deadline, else the failure that is first in plan order.                 *)
ErrorIsPlanOrdered ==
  phase = "failed" =>
    /\ cancelled => error.kind = "cancelled"
    /\ expired /\ ~cancelled => error.kind = "deadline"
    /\ error.kind = "stage" =>
         /\ error.node \in Stage /\ Failed(outcome[error.node])
         /\ \A m \in Stage : m < error.node => ~Failed(outcome[m])

(* The errors the scheduler throws at itself never occur: some operation   *)
(* can always go, and the trace is the plan's.                             *)
NeverStuckOrDiverged == error.kind \notin {"planning", "diverged"}

(* A run that returns has executed everything, and none of it failed.      *)
ReturnsOnlyWhole ==
  phase = "returned" =>
    /\ values = Node
    /\ \A n \in Stage : outcome[n] \in {"cache-hit", "succeeded"}

(* Every run ends, whatever fails, is cancelled, hits or is held back.     *)
EveryRunEnds == <>(phase \in {"returned", "failed"})

(* RUN-004: "Backpressure, timeout and cancellation MUST propagate through *)
(* the runtime and sinks; silent event loss is not permitted."  A run that *)
(* returns lost no event to its limit.                                     *)
NoEventLost == phase = "returned" => ~limitExceeded
=============================================================================
