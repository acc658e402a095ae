# Textabana runtime: a TLA+ model of a run, from a host's keystroke to its report

This directory models the Textabana runtime: the hosts that send texts (SDK client, editor bindings, CLI, playground
page), the editor kernel and its dispatcher, what one run makes of a text and its modules (admission, parsing, compilation,
preview), the wave scheduler that executes a plan, the verified stage cache, and the report a run carries of
itself (channel bus, result, identities, adapters, conformance gate). TLC checks the modules on small instances, TLAPS
proves the safety properties of the core for every value of the constants.

Contents: 1 inventory of the system, 2 modules and how they correspond to the code, 3 runs and
bounds, 4 fairness, 5 proofs, 6 disagreements between code and documentation, 7 observations, 8 what is not modelled,
9 plan, 10 how to run it.

## 1. The system

A host (a CodeMirror or Monaco binding, the CLI, the Python client, the playground) talks to one
kernel instance by messages. The kernel is a single JavaScript thread, in a Web Worker or a Node worker:
one handler runs at a time, up to an `await`.

| Component | State it keeps | Operations | What makes it correct |
|---|---|---|---|
| Editor sessions and subscriptions, `runtime/editor-kernel.js` | `editorDocuments` (session, source, revision, published revision, plan baseline, stage cache), `editorSubscriptions` (delivery, credit, queue, cursor, baseline), session counter, parse cache | open, change, analyze, subscribe, credit, cache export and import; `captureEditorRun`, `completeEditorRun` | Only the head of the very session a run was taken from is published; a subscriber's baseline is its document's; chunks come whole, once and in order; a delta brings the host up to date; a parse is of its own text |
| Dispatcher and run queue, `runtime/worker-entry.js` (`onmessage`, `executeRun`) | the promise chain `runQueue`, `queuedRuns`, `activeRuns`, `cancelledRuns`, run counter | run, cancel, and routing of the kernel's commands | Each accepted run is answered once; an accepted cancel is final; a runId is free exactly when its run is over |
| Module admission and loader, `module-admission.js`, `module-loader.js` | the registry of one run | verify, load with includes | A run has the functions of the modules it reaches, each pinned or none |
| Parser, `parser.js` | none between calls but the kernel's parse cache | parse, reuse of a tree, scan a header, serialise | Executable exactly if the markers fit; headers read as the reference reads them; what it publishes verifies |
| Execution graph compiler, `execution-graph.js` | none between calls | compile, check, preview invalidation | Each line goes through its stages; what is called unchanged is |
| Wave scheduler, `runtime/worker-entry.js` (`executeExecutionGraph`, `callFunction`) with `runtime/run-policy.js` | `pending`, `values`, the current wave, `pendingStageCommits`, `executionTrace`, channel events, control signal | select a wave, call, await all, drain, publish, throw | Overlap is only for contract candidates; effects and their events see plan order; trace and error do not depend on settlement order |
| Stage cache, `runtime/stage-cache.js` | versioned store of entries, observations and quarantines; a run's transaction; snapshots of values | begin, resolve, observe, finalize, export, import; snapshot, clone | A hit needs two agreeing runs at distinct committed revisions; evidence is committed onto the store it was gathered against; a snapshot loses nothing |
| Channel bus, `channels.js` | events, descriptors, anchors, source maps, trace of one run | declare, emit, seal | Events name what exists; references resolve |
| Result, identities, adapters, conformance gate | none | build the reply of a run | The result is of the text and not of the instance; projections say what the events say; the gate passes what it should |
| SDK: `client.ts`, `codemirror.ts`, `monaco.ts`, Node transport, worker bridge, CLI `serve`, Python client | pending calls, queue of edits, acknowledged revision | command, dispose, transport error; edit, acknowledge, reject | Each call settles once; edits land in order or the editor resynchronizes |
| Playground, `app/page.tsx` | intent, task queue, kernel document, latched cancels, what is shown | edit, run, cancel, select a fixture; time out | It runs and shows what the user typed last |
| Reference runtime in Python, `reference/` | none | parse, lower, run, admit | It agrees with the program |
| Hosting, build, conformance fixtures | none | — | — |

How they interact: a binding's edit is a `change` message naming the revision it is based on. A `run` message
captures a snapshot of the session synchronously and becomes the next link of the promise chain. When its turn
comes, `executeRun` verifies and loads modules, parses, compiles the plan, lets the scheduler execute it, awaits the semantic
identity, builds the report and then, without an await in between, checks for cancellation, publishes into the session, posts chunks to stream
subscriptions and posts the reply. Between two awaits any other command may arrive.

Hard behaviour, where the properties aim (PROJECT.json lists each at its line):

* interleavings of a running run with edits, session replacement, re-subscription and cancels;
* numeric staleness tests: revision and version numbers stand for texts and stores;
* a reply that cannot be posted after its effects have happened;
* runs, runIds and chunks that outlive what they refer to;
* settlement order of a wave, partial failure of a wave, a deadline that passes between two calls;
* limits enforced by throwing into code that may catch;
* cache evidence gathered against a copy of the store, and carried on in further copies: captured by queued runs,
  exported, imported into another session or another kernel instance;
* termination: one promise chain for all runs, and a scheduling loop that may find nothing ready.
* edits, cancels, time-outs and answers that overtake each other between a host and the kernel;
* markers that cross or miss, recovered locally; the same text edited and re-keyed;
* references to a run's own events inside what must not depend on the run.

## 2. The modules

### EditorSessions.tla — `runtime/editor-kernel.js`

State: `documents`, `editorSubscriptions`, `editorSessionSequence`, the variables `createEditorKernel` closes
over. A document that is not open and a subscription that does not exist have session 0. One action per
command that changes state: `OpenEditorDocument`, `ApplyEditorChange`, `SubscribeEditorDocument`,
`CreditEditorSubscription`, `ImportEditorCache`, and `PublishEditorRun` for what `completeEditorRun` changes.
A command answered with an error changes nothing and is a stuttering step.
Abstractions: a source is an opaque value; a metadata delta is the number of chunks a subscription's channel
filter leaves, chosen by the environment; a stage cache is its version number and the run
that wrote it last; baselines (plan, metadata, anchors move together in the code) are one record of
revision and source.

### EditorKernel.tla — `runtime/worker-entry.js`

Extends EditorSessions with `runQueue` (the promise chain: its head is the executing run unless `phase` is
"idle"), `queuedRuns`, `activeRuns`, `cancelledRuns`, the run counter, and what the host has been told
(`hostReply`, `hostBaseline`, `hostChunks`, `hostCheckpoint`). A run is split at its awaits: `StartRun`
(up to the first), `PlanRun` (modules verified and loaded, plan compiled), `IdentifyResult` (semantic identity
awaited), and the synchronous end, one of `PublishRun`, `ConcludeStaleRun`, `ConcludeRawRun`, or the catch
block `CatchRun` for failures and cancellations. Payload kinds stand for what a message contains that
matters to control: "plain"; "unpostable", whose descriptors hold a value structured clone refuses;
"malformed", with `options: null`.

### PublishedHead.tla — the abstract specification

What the kernel promises about publication, with no runs at all: per document a head that edits advance, and
a published value that is at the moment of publication the head of that same session, text included.
`EditorKernel!Published` is the refinement mapping, `PublishesHead` the property, proved as a theorem.

### Scheduler.tla — `executeExecutionGraph`, `callFunction`, `runtime/run-policy.js`

One run of one compiled plan, chosen initially from the constant `Plans`. Operations are numbered in plan
order with edges to earlier ones, as `validateExecutionGraph` enforces. A stage is a *candidate* when its
contract (pure, total, no channels) makes it one statically; `opaque` names operations whose value
`snapshotCacheValue` refuses, so that it is not one at run time. Steps of the loop are synchronous:
`RunSynchronous`, `StartWave`, `DrainWave`, `DrainFailedWave`, `StopLoop`, `RenderTooLarge`, `Return`. Only
while the wave is awaited do `Emit`, `Settle` and `CancelRun` happen, in any order; `DeadlinePasses` is
possible anywhere, also between two calls of one wave (`StartWave`'s second disjunct). `trace[n]` is the step
number of stage n in the public trace, 0 if it is not there. Cache hits are chosen by the environment among
run-time candidates.

### StageCache.tla — `runtime/stage-cache.js`

The content of one document's store, which EditorKernel reduces to a version. `stageCache`, `checkpoint` (the host's
export) and the `baseline` of each run in `runQueue` are copies of the store: entries and quarantines by key, a key being
a stage node and a hash bucket of the witness. `journal` is the executing run's transaction, as the difference to the store
it captured. `stamp` is an element's place in the iteration order of its JavaScript Map, which eviction follows.
A run is the sequence of its stage resolutions. Each is one action, because plan order and the single thread make
lookup, call and observation atomic for the store: `ReuseStage` (a hit), `SkipObservation`
(collision, quarantined key, output without a snapshot), `QuarantineStage`, `IgnoreSameRevision`, `ObserveStage`. A run
ends with `CommitJournal`, `PublishWithoutCommit` (the gate refused, or another run changed the store) or `AbandonRun`
(failed, cancelled, stale). `RestartKernel` is the host starting another kernel instance and keeping its checkpoint.
`committed` and `kernel` are read by properties only.
Abstractions: a witness is its node and one value for everything else it covers; an evidenceId is its run instance; values have a
size and are equal or not; a stage is retained only if its session has published a plan, which is what an
invalidation preview needs; stages that are not cacheable touch nothing and are left out, as is the branch for a stored
output that cannot be cloned, since only snapshots are stored and imported.

### DocumentParser.tla — `runtime/parser.js`

`parseDocument` one source line at a time, on a record that holds the code's stacks (`activeScopes`, `blockStack`,
local scopes), the program tree, the source lines with their active scopes and blocks, and the recovery nodes. A
line is the grammar's token and what the parser reads from it (a header is its stages with their arguments); the
characters are HeaderScanner's. Nodes, stages and scopes have the code's sequence numbers; the id an interval goes by is
the code's string, because a default id such as `f-2` may be one that another interval was given.

### HeaderScanner.tla — `splitDelimited`, `tokenizeStage`, `parseValueResult`

How the characters of a header become stages, arguments and values: the scan for bars outside of quotes and brackets, the scan for
blanks, the reading of a value; and beside them the reference's one-pass reader (`pipeline` of `scoped_text.py`) as a fold over
the same characters. The only action types another piece of the header.

### Representation.tla — serialisation and `runtime/semantic-contract.js`

`parseDocument`'s public nodes, tree, blocks, scopes and lines, whatever was recovered, and the checks of
`validateSemanticReferences` on them and on the plan.

### ExecutionGraph.tla — `runtime/execution-graph.js`

Scopes sorted and selected, blocks with what they inherit, `@intervals` placements, flushes of text, merges, then the
nodes and edges with their order keys, stage contracts, cache keys, the graph's checks, and `previewPlanInvalidation`
with its net of static keys. A digest is the value it digests.

### ModuleLoader.tla — `runtime/module-admission.js`, `module-loader.js`

Lockfile and manifest checks in their order with the name of each refusal; includes followed depth first
with `loading` and `loaded`; one registry.

### MetadataDelta.tla — `buildEditorMetadataDelta`, `editorAnchorContinuity`

Keyed and ordinal indexing of two results' events, their collections, and the transitions of anchors: retained, moved,
relinked by quote and origin, ambiguous, orphaned, added.

### RunPreparation.tla — the first half of `executeRun`

One document, one edit, two runs: `VerifyModules`, one `ParseLine` per line, loading, `CompilePlan`, the
preview against the first run's plan, the events the stages emit, and the delta. Extends the four modules above.

### ReferenceRuntime.tla — `reference/*.py`

The Python implementation of the same notation, of channel events with anchors and of module admission, as functions of the same
documents. Only that a document is refused is compared, not which error comes first, as SCOPED_TEXT_PROFILE.md allows.
A document the parser takes may still be refused for the stages its lowering plans (`Lowers`), or its run for the
events it emits (`Emits`); the program refuses both by the control of RunPolicy under the limits the suites' runners give
it (`SuiteLimits`), which are the reference's constants.

### ParseCache.tla — `parseEditorSnapshot`, `applyEditorChange`, `analyzeEditorDocument`

`parses` is `editorParseCache` in the iteration order of its Map. A change set is normalised, applied last change first,
and translated to code units (`ParserChanges`), which the next parse uses to keep pieces of the previous tree
(`Fragments`, `ParseWith`: what `TreeFragment.applyChanges` and the incremental parser do, external). A tree is the sequence of
code units it was made from, so that a piece taken from the wrong place shows. A run captured earlier may parse
after its session was replaced.

### CacheValue.tla — snapshots of values

`cacheValueNode`, `decodeCacheNode` and the clones on a heap of objects that may be shared, cyclic or foreign;
around one invocation: input snapshot, the function's writes, the check that the input is what it was, the output's snapshot and its
detached copy. The payloads it emits: `canonicalize` and the copy that `validateChannelPayload` publishes.

### RunPolicy, ChannelBus, ResultEnvelope, Adapters, LabConformance, SemanticIdentity, ResultReport

The second half of `executeRun`. `ChannelBus` is `createChannelBus`: declarations, `emit` with its refusals, anchors,
source maps, payload checks, sealing and the trace. `RunPolicy` has the limits. `ResultEnvelope` makes the result and
the resultId that forgets the run instance; `SemanticIdentity` the chain of identities and the offline verifier; `Adapters` the
projections with every refusal; `LabConformance` the report and its gate. `ResultReport` composes them: a
script says what the transforms of a text emit and what the host asks for; the text is run by two run instances, the second
perhaps from the cache, and either may be cancelled or refused.

### KernelEndpoint, CliServe, HostClient, PlaygroundHost

`KernelEndpoint` is the kernel as a host meets it, behind two ordered channels: open, change, subscribe, run and cancel with their
answers, a run queue, and a worker that may fail. `HostClient` is the SDK's client with its pending calls, dispose and
transport errors, the CodeMirror binding's queue, the Monaco helper, and a host that does what the SDK reference asks of
it; or the Python client behind `CliServe`, the JSONL process. `PlaygroundHost` is the page: debounce, intents, the task queue, latched
cancels, the 8 s time-out, worker faults and what is shown. A text is the sequence of the edits in it.

### Model-checking and proof modules

`MCEditorKernel` adds the model values and the symmetry set; `MCScheduler` the plan shapes;
`MCStageCache` the hash buckets and sizes. `MCRunPreparation` and `MCResultReport` hold families of documents,
projects and scripts, `MCExecuteRun` puts the two halves of `executeRun` into one run, `MCHosts` the client, the page, the parse
cache, the headers and the values. `EditorKernel_proofs`, `EditorStreams_proofs`, `Scheduler_proofs`,
`StageCache_proofs`, `StageCacheLimits_proofs`, `PlaygroundHost_proofs`, `PlaygroundRuns_proofs`, `HostClient_proofs` hold the theorems.

## 3. Runs

| Run | Shows | Instance |
|---|---|---|
| documents | `InFlightAccounting`, `AcceptedCancelIsFinal`, `PublishesHead`, `JournalCommitsOntoCapturedStore`, and `EveryRunIsAnswered` under `FairSpec` | 1 document, 2 texts, 2 runIds, all payloads, 2 sessions, 2 revisions, 3 runs, no subscription |
| streams | `SubscriberInSync`, `HostKnowsBaseline`, `GaplessStream`, `CompletionDeliversPaidChunks` | 2 documents, 1 subscription that may move between them, both delivery modes, 2 chunks per delta, credit cap 2, 2 runs, plain payloads, symmetric identifiers |
| waves | `TraceInPlanOrder`, `BarrierFence`, `EventsInPlanOrder`, `FailureDrains`, `ErrorIsPlanOrdered`, `NeverStuckOrDiverged`, and `EveryRunEnds` under `FairSpec` | 192 plans: a fan of four stages and a nested block of four, with every choice of candidates; parallelism 3, 2 events |
| evidence | `EvidenceIsCommitted`, `HitServesEvidence`, `QuarantineBars`, `VersionNamesContent`, `ReportNamesCommittedEvidence` | 1 stage, 2 contents in one hash bucket, 2 outputs and one without a snapshot, 3 revisions, 1 session, 2 runs, 2 kernel instances, 1 entry, 1 quarantine |
| capacity | `WithinLimits`, `ReportedWritesAreVisible` | 3 stages, 2 outputs of sizes 1 and 2, 2 entries, 3 bytes, 1 quarantine, 2 revisions, 2 runs |
| plan | of documents: `ExecutableIffWellFormed`, `LinesGoThroughTheirStages`, `UnchangedMeansUnchanged`, `LoadsWhatIsPinnedAndReached`, `DeltaBringsTheHostUpToDate`, `ReferenceAgrees`; of replies: `ResultIsOfTheText`, `GateVouches`, `ProjectionsAreSound`, `BundlesVerify` | twelve families of documents and projects, six of scripts; see below |
| hosts | `EditsLand`, `EveryCallSettles`; `RunsWhatItSent`, `CancelReachesRun`, `PageAnswersEveryEdit`; `TextsAreReadAlike`; `SnapshotsAreLossless` | client: 3 edits (2 behind the CLI), 4 calls; page: 2 texts, 3 events; parse cache: texts of up to 3 characters of one or two code units, change sets of one or two changes, 2 of them, 2 sessions, 2 parses kept; headers: 4 of 12 pieces after 3 beginnings; values: heaps of 3 objects and 3 items |
| transport, unpostable, malformed, lost, segments | violations: see section 6 | the smallest instance with the case |

Why the bounds are enough for the interesting cases. Two sessions and two revisions each make "same number,
other text" possible across a replacement. Three runs with two runIds let a runId be reused while another
run is queued; three is also the least number with one executing, one waiting and one to come. Two chunks and
a credit cap of two make deltas split across credits, and queues of two deltas under none. Four stages with a limit of
three let a wave be cut by the limit; a fan gives barriers with ready stages on both sides, the nest gives
readiness out of plan order. Two events reach the limit and go past it. A hit needs two observations and
a third run to serve them: two runs in each of two kernel instances, with the checkpoint carried over, reach it, and so
do a contradiction and a collision of the two contents. Three stages against a limit of two entries, of which
one may use most of the bytes, make a run evict what it has just written; two of them contradicted at once exceed the
quarantine limit.

The families of the run *plan* are chosen by what they exercise, each with every document up to a length over its
lines: markers that nest, cross, miss or repeat (six lines, so that two intervals and a block can cross in every way); ids given
that are another interval's default, before or after it; texts and blocks in two intervals, at the limits of a run; blocks closed by another's
name; intervals with orders, inheritance, selection and placement; edits of running documents, with and without cached
stages; everything that is not a well-formed marker; headers at fault or just not, which needs only their own line;
continuations; modules that include each other, three so that a cycle need not contain the first; packages with what they claim and
what the lockfile pins. The reference's limits are lowered to depth 2, 2 active intervals, 4 stages and 3 events, so that documents stand on both sides of
them: two intervals and a block are three stages, and with a text before it plan five; two texts in two intervals emit four events. The scripts of the other half: channels with every way an emission is refused or refers; stages served from the
cache; what a fixture expects; and tables, notebooks and annotations, each as a well-formed sequence of events with one
or two events altered, left out or doubled, so that every refusal of the adapters is met.

In the run *hosts* three edits let one wait, one be under way and one be rejected; the page's three events let an edit make a task obsolete while a
fault or a cancel comes. Two change sets give an incremental parse of an incremental parse, with a change before the
kept piece; room for two parses lets the base of a change be evicted, and two sessions let a captured run outlive its own. Three objects suffice for a
shared one, for a cycle that avoids the input, and for one under another. Four pieces after a name, an open string or an open list close the string,
escape a mark or a backslash, put a bar, a comma or a bracket inside or outside of it, and go on with another stage.

HostKnowsBaseline is checked for plain payloads only: the unpostable run shows why it cannot hold for all.
In the kernel a further command is always possible, except that the bounds stop it; deadlock is checked there. The other runs
switch the deadlock check off, because a run that returned or failed is over, a text that was run twice is done with, and the bounds of the
cache's and the hosts' instances end a behaviour.

The type invariants and `OverlapIsSafe`, `ReturnsOnlyWhole` and `CapturedTextIsHeadText` are theorems for every value of the constants (section 5), and no run
spends time on them.

Every property has a mutant of the code's definition that TLC must find to violate it (PROJECT.json
"mutants"); the mutated forms stand before the definition they replace and are marked so.

## 4. Fairness

`EditorKernel!FairSpec` is weak fairness of `Execute`: the promise chain starts its next link by itself, and
each await of a run settles. Nothing is assumed of the host. `Scheduler!FairSpec` is weak fairness of the
loop and of `SettleOne`. Both assume that transforms settle: the code has a deadline, but it is tested between
steps and cannot interrupt a transform, and one that never settles blocks the queue for good.

`MCHosts!HostsFairness` is that of the two hosts: the worker goes on with its messages and its runs, the process of the CLI with its
lines and answers, and each event loop delivers what has been posted. The page's debounce timer fires and a command that is not answered in
8 s times out. Users do nothing of necessity: no fairness is assumed of edits, clicks, dispose or faults. That `EveryCallSettles` needs no
fairness of failures matters: a client over a healthy worker gets its answers, and one over a failed worker is told.

## 5. Proofs

All safety properties of the scheduler, the accounting, cancellation, publication and stream properties of the
kernel, what the stage cache promises about its evidence, its limits and its reports, what the SDK's hosts are promised about edits, and what the
page promises about cancels and texts are theorems for every value of the constants; the only assumptions are the named ASSUMEs (`SessionsAssumption`, `KernelAssumption`, `SchedulerAssumption`,
`CacheAssumption`, `PlaygroundAssumption`, `HostClientAssumption`: the ranges of the bounds, sentinel values outside their sets, well-formed plans).

* **EditorKernel_proofs.** `TypeInv == TypeOK /\ RunningRun` is inductive: `RunningRun`, that a busy phase has a run at the
  head of the queue, is what types `current`. `RunInv == TypeInv /\ InFlightAccounting` is inductive; it gives
  `RunsInFlight`, and `CancelIsFinal` from it: a run leaves `cancelledRuns` only through `LeaveQueue`, and the
  steps that reply "succeeded" or "stale" require it not to be there.
  What a run publishes is in its second half: `PublicationInv == RunInv /\ SessionsOrdered /\ SnapshotsHold`. The property alone is not
  inductive: that equal revision numbers mean equal texts is preserved only because a snapshot is never ahead of
  its live session (`SnapshotsHold`), and because a session number is never reused (`SessionsOrdered`). The
  same for the stage cache and its version, where an import may set the version back, but only when no run
  holds a snapshot. From it `CapturedText`, `JournalOnCapturedStore`, and `KernelPublishesHead`: each
  step of the kernel is a step of PublishedHead or stutters.
* **Scheduler_proofs.** `ScheduleInv == TypeOK /\ PhaseInv /\ ValuesInv /\ OutcomeInv /\ FenceInv` is inductive. Its core,
  `FenceInv`, says that while a barrier is pending no later stage has started and once it has started no earlier operation
  is pending; `StartWave` keeps it because the selection stops at the first pending barrier and
  takes a barrier only when it is the first pending operation, which is always ready as its inputs come before it
  (`LeastPendingIsReady`). It yields `BarriersAreFences`, `EmissionFollowsPlan`, `ReturnsAreWhole` and
  `OverlapsAreSafe`. `NumberedInv` says that before a failure the trace is a gapless prefix of the plan, each
  stage at its rank, and that settled stages not in it wait in `pendingStageCommits`; with the
  cardinality lemmas (`CountUpTo`, `RecordedRank`, `FlushedPrefix`, `FlushedAll`) it yields `TraceFollowsPlan`,
  `FailedRunsDrain`, `ErrorFollowsPlan` and `PlansAlwaysExecute`: the two planning errors of the
  loop are unreachable for every acyclic plan.

* **StageCache_proofs.** `IInv == TypeInv /\ CopiesSound /\ JournalSound /\ JournalIdle /\ ReportSound` is inductive.
  `CopiesSound`: in every copy of the store an entry has at most two observations, of different revisions, each backed
  by a committed one, and no quarantined key has an entry. It survives every copying because committing only
  adds (`SoundMonotone`, `CopiesKept`). A commit keeps it because of `JournalSound`, which says of each pending write that its
  last observation is the executing run's own and the one before it committed and of another revision
  (`WriteBecomesSound`), and of each report entry that what it names is committed, or is the run's own observation while the
  journal still holds that write for that very witness. No later stage can overwrite it, because a
  plan resolves a stage once and a key contains its stage (`AppendSound`). A discarded
  write is then safe to report from the captured store because an observed key never collides (`DiscardSound`), and an evicted one
  because the report drops its evidence (`CommitReportSound`). Results: `TypeCorrect`, `EvidenceCommitted`,
  `HitsServeEvidence`, `QuarantineHolds`, `ReportsNameEvidence`.

* **EditorStreams_proofs.** `SyncInv == SubscriberInSync /\ SubscribedDocuments /\ PublishedUpToHead /\ QueueCovers`, on top of
  `PublicationInv`. That a subscriber stands where its document's publication stands is not inductive: a subscription may leave,
  come back and be served by an earlier run after a later one was accepted without it. `QueueCovers` says of each queued run that it captured
  every subscription of its session that has received something, or that what it captured has been published since;
  `PublishedUpToHead` that equal revisions of publication and head mean equal texts. `HostsKnowBaselines` has the hypothesis
  `"unpostable" \notin Payloads`: the run *unpostable* shows that a baseline may otherwise move without the reply that tells of it.
  `NoPaidChunkWaits`, that no stream has both credit and a queue, is kept because credit and queues grow only where a flush follows, and
  a flush ends with one of them used up (`FlushSplits`, `PaidStep`); with the count of what a publication sends
  (`PublishStreams`) it gives `CompletionsDeliverPaidChunks`.
  `StreamsGapless`, that what was sent and what waits are together whole deltas, needs no session: it is kept by every flush, since a
  flush moves a prefix (`FlushSplits`, `GaplessExtends`). Results: `SubscribersInSync`, `HostsKnowBaselines`,
  `StreamsHaveNoGaps`, `CompletionsDeliverPaidChunks`.
* **StageCacheLimits_proofs.** `LimitsInv == CopiesTidy /\ WithinLimits /\ JournalNew /\ QueueOrdered /\ VersionNamesContent`, on top of
  `IInv`. Limits and versions belong together: a commit that writes nothing keeps the version, so its eviction must drop nothing, which it does
  because the store was within the limits before (`EvictionKeepsWhatFits`); one that writes advances the version, so its newest
  write must survive, because it is newer than all of the store (`JournalNew`, `CopiesTidy`) and fits alone (`WritesSurvive`). A waiting run's copy is
  of an older version or the same store (`QueueOrdered`). Results: `StoresStayWithinLimits`, `VersionsNameContents`.
  `WritesInv == IInv /\ LimitsInv /\ JournalClaims` is for `WritesReported`, that a report claims a write exactly where the store
  has it: `JournalClaims` says that a resolution is pending exactly if the journal holds its key, as an entry or, only if the store did
  not, as a quarantine. So after the commit and whatever it evicted, a key of the journal is in the store exactly if it survived
  (`CommittedKey`), what is there under it is this run's and not what the store had before (`JournalEntryIsFresh`), and no other key shows
  anything of this run (`CommitReports`); a run that is discarded claims nothing (`DiscardReports`).
* **HostClient_proofs.** `LandInv == TypesHold /\ Linked /\ Waits(host) /\ Good(host, kernel, Asked, Answered)`, where `Asked` is all that
  is on its way to the worker, in the channel and in the process's input, and `Answered` all that is on its way back. None of what `EditsLand`
  says is inductive by itself: what the text will be depends on what is on the wire, and what the binding sends next on what it believes. Three
  facts carry it. While the binding's chain is accepted its revision is the kernel's, or exactly one acknowledgement that makes it so is on
  its way (`Ahead`), and at most one change has been sent past the queue besides the one the queue sent (`Queue`). Every change on the
  wire starts from a revision the kernel has had, and a first one that starts from the current revision starts from the current text
  (`Changes`): what the queue did not know of is refused, not misapplied. And what opens the document again is the last message the host asked
  for, with a text not behind the kernel's (`Opens`, `Order`), so nothing older can overtake it. The kernel is over two transports, so a
  step is proved on `Asked` and `Answered` once (`Drops`, `Adds`, `Carried`) and each transport, the worker's and the CLI's process, is shown to
  drop and add so; a message that moves from one queue to the next changes neither (`MovesOver`). With a failed worker only what concerns the past
  remains (`Texts`). Result: `EditsAlwaysLand`.
* **PlaygroundHost_proofs.** `CancelInv`: a run that is to be cancelled is in a task with its cancel latched, or has its cancel behind it in
  the outbox or in the channel, or is cancelled in the worker. What makes it inductive is that a run number occurs once in
  tasks, channel and queue (`PageOk`, `QueueDistinct`) and that a task which is dropped has not posted its run; a latched cancel that belongs to
  a dropped task may be forgotten for that reason. That `StartTasks` needs to begin at most two tasks, of which the model makes use, is part
  of it: `TasksNeverStall`. Results: `CancelsReachTheirRuns`, `TasksNeverStall`.
* **PlaygroundRuns_proofs.** `RunsInv`, on top of `CancelInv`. A run names a revision number only, and numbers start again with every open: that it is
  run on the text it was started for is not inductive without what lies between the page and the kernel. `Sound` speaks of the wire, which is the
  channel and behind it the page's outbox: no open is before a run on it, and the revision a run names had its text (`Agrees`); what
  the page knows of the document is true as long as no open is under way that it will answer for (`DocSound`); the
  answer a task waits for is of the kernel's document now, because nothing the page asked for is behind it (`AsksSound`,
  `AnswersSound`). This holds through time-outs, errors and late answers. Without a fault `Unrefused` holds too: all the page has asked for is what its
  task waits for, and fits the kernel's document. Each change the page makes between two answers keeps both (`Flow`). Result: `RunsAreOfTheirTexts`.

Only model-checked, and why:

* every liveness property (`EveryRunIsAnswered`, `EveryRunEnds`, `EveryCallSettles`, `PageAnswersEveryEdit`): outside the prover;
* the properties of the run *plan*: parser, compiler, loader, preparation, result and reference are built on RECURSIVE operators over trees and on
  folds over documents. What they compute for every document is an induction over data, which the installed provers do not do;
* `TextsAreReadAlike` and `SnapshotsAreLossless`, for the same reason: inductions over characters, change sets and heaps.

## 6. Where the code and its documentation disagree

1. **unpostable**: `executeRun` publishes before it posts its reply. If the reply cannot be cloned (a module's
   descriptor holds a function), baselines, cache and cursors have moved and the host is answered with a
   transport error; `editor-kernel.md` (DOCUMENT-002) says a failed run leaves the baseline untouched.
2. **malformed**: with `options: null` the channel bus is built outside `executeRun`'s try and throws; the runId
   stays in `activeRuns` for ever, and an idle kernel refuses every cache import from then on, although the
   integration guide requires only that no run is active or queued.
3. **lost**: the event limit is enforced by throwing into the transform's `emit`. A transform that catches it goes
   on and the run commits without the event; `runs.md` (RUN-004) forbids silent event loss.
4. **transport**: an evidenceId is made of the run instance, the stage node and the output digest, and a new kernel instance
   counts run instances from one again. After a checkpoint is carried to another instance, the first runs of both write
   the same evidenceId, and an entry verified by them names one identifier twice; `runs.md` (RUN-007) and `editor-kernel.md`
   speak of two different observation records. Such a hit does not survive the conformance gate
   (`ProvenanceResolves` in `CommitJournal`), so that its run publishes but its cache journal is discarded.
5. **segments**: a scope's segments are the lines whose active ids include its id (`parser.js:1036-1038`), and an id is free again once
   its interval is closed. Two successive intervals with one `@id` are each given the lines of both, although
   `ir-plan.md` wants segment membership; the plan is built from the lines themselves and is right.

## 7. Observations

Met while modelling, and carved out of a property or left to its comment rather than claimed as faults:

* A host that uses the Monaco helper beside the CodeMirror binding, or calls `change` itself, must wait for its acknowledgement:
  the helper reads the acknowledged revision when it is called and does not queue.
* The adapters' current annotations may show a rejected candidate's text as accepted when a human replacement takes
  its annotationId at revision 0; a replacement may supersede an accepted candidate one-sidedly; `authoredOrder` is not validated
  (`ProjectionsAreSound` excepts the first).
* A data table validates the first lineage event of a record and shows the last; a row's anchors need not be those of its input.
* A report's id and a structural digest depend on the run instance once a data, notebook or annotation adapter is asked for, or a payload
  carries an event id that is not a reference field; a reference to a transient event makes the resultId depend on it. A
  resultId does not cover anchors, source maps and modules.
* Asking for an adapter without the result summary, or emitting on an undeclared channel or on one of an adapter that was not
  asked for, fails the gate, and with it the cache journal is discarded.
* A declaration is ignored when an earlier stage emitted on the channel undeclared; a caught emission error leaves an
  anchor, and perhaps an inferred descriptor, without an event.
* An emission may name a line past the end of the document. The run succeeds; the repository's own offline verifier refuses its
  bundle (`BundlesVerify` excepts it).
* Which of several errors is told first differs between the two implementations.

## 8. What is not modelled

Hosting, build scripts, fixtures and the user interface's rendering have no part in the kernel's behaviour. Of the parser, numbers and
braces in values, columns, the legacy include form. Of the conformance report, the wording of findings and the comparison with golden files; of the semantic
contract, JSON Schema validation. Of the reference runtime, text_core's transforms and payload limits. Of the playground, the panels, the
cancellation of a fixture by itself and results that cannot be posted. Of the stage cache, the validation of a forged checkpoint.

Digest collisions: a version, a cache key's witness or an identity stands for what it is a digest of, except in
`StageCache`, where two witnesses may share a bucket as the 32-bit keys can. Two texts of one document with equal
FNV-1a digests would share a parse; that is outside the model.

Within the modelled parts: in EditorSessions the path of an open document (a changed path acts as replaceSession does), and
the content of deltas, which is MetadataDelta's; wording of replies. Stages in ResultReport run one by one: their overlap is
Scheduler's.

## 9. Plan

Built: the core (EditorSessions, EditorKernel, PublishedHead, Scheduler, StageCache), the streams, the SDK's client and the page with proofs; the two halves of
`executeRun`; the hosts; the parse cache, the headers and the values. Next, in order:

1. **Composition of StageCache and EditorKernel**: that EditorKernel's version-only store is an abstraction of StageCache's
   (a refinement mapping that keeps the version and forgets the content).
2. The kernel that KernelEndpoint shows its hosts, as an abstraction of EditorKernel, so that `EditsAlwaysLand` and `RunsAreOfTheirTexts`
   are about the detailed kernel too.

## 10. Running it

    tlc -workers 2 -config MCEditorKernel_documents.cfg MCEditorKernel
    tlc -workers 2 -config MCScheduler_waves.cfg MCScheduler
    tlc -workers 2 -config MCStageCache_evidence.cfg MCStageCache
    tlc -workers 2 -config MCExecuteRun_plan.cfg MCExecuteRun
    tlc -workers 2 -config MCHosts_hosts.cfg MCHosts
    tlapm Scheduler_proofs.tla

Each passing run takes less than four minutes; PROJECT.json names all of them.

