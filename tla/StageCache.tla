----------------------------- MODULE StageCache -----------------------------
(***************************************************************************)
(* The verified stage cache of one document (runtime/stage-cache.js): the  *)
(* store a session keeps, the run-local journal every editor run gathers   *)
(* against the store it captured, and the step that commits or discards    *)
(* it.  EditorKernel models the queue, the awaits and the cancellation     *)
(* around it and reduces the store to a version; here a run is the         *)
(* sequence of its stage resolutions, and the store has its content.       *)
(*                                                                         *)
(* A stage reads the captured store and the journal only, and both change  *)
(* in plan order on one thread, so resolving a stage, invoking its         *)
(* function and observing the output are one step.  A stored output was    *)
(* snapshotted by this code or checked on import, so cloning it does not   *)
(* fail.  A stage whose contract or input is not cacheable touches nothing *)
(* and is left out.                                                        *)
(***************************************************************************)
EXTENDS Integers, Sequences, FiniteSets

CONSTANTS
  Nodes,           \* stage nodes of the document's plans
  Contents,        \* what else a witness covers: source, modules, arguments, input
  HashOf,          \* [Contents -> hash]: the FNV-1a bucket of a witness
  Values,          \* outputs a stage can produce
  NoValue,         \* an output that cannot be snapshotted
  BytesOf,         \* [Values -> Nat]: an output's bytes, at most MAX_ENTRY_BYTES
  MaxEntries,      \* MAX_ENTRIES
  MaxBytes,        \* MAX_TOTAL_VALUE_BYTES
  MaxQuarantines,  \* MAX_QUARANTINES
  MaxRevision,     \* bound: revisions of one session
  MaxSessions,     \* bound: sessions of one kernel instance
  MaxRuns,         \* bound: runs of one kernel instance
  MaxQueue,        \* bound: runs accepted and not completed
  MaxKernels       \* bound: kernel instances over a behaviour

ASSUME CacheAssumption ==
  /\ MaxEntries \in Nat \ {0} /\ MaxBytes \in Nat /\ MaxQuarantines \in Nat \ {0}
  /\ MaxRevision \in Nat /\ MaxSessions \in Nat /\ MaxRuns \in Nat
  /\ MaxQueue \in Nat /\ MaxKernels \in Nat
  /\ DOMAIN HashOf = Contents
  /\ BytesOf \in [Values -> 0..MaxBytes]
  /\ NoValue \notin Values

VARIABLES
  kernel,       \* kernel instances started so far (read by properties only)
  session,      \* editorSessionSequence; the document's session, 0 if not open
  revision,     \* document.revision
  hasPlan,      \* document.planBaseline is not null
  stageCache,   \* document.stageCache
  runQueue,     \* accepted editor runs with what they captured
  executing,    \* the head of the queue has created its transaction
  runInstance,  \* runInstanceSequence
  journal,      \* the executing run's transaction: what it adds to the capture
  checkpoint,   \* host: the checkpoint it exported last
  report,       \* the report of the run completed last, until another starts
  committed     \* every observation ever committed (read by properties only)

docVars == <<session, revision, hasPlan, stageCache>>
runVars == <<runQueue, executing, runInstance, journal>>
vars == <<kernel, docVars, runVars, checkpoint, report, committed>>

-----------------------------------------------------------------------------
(* State *)

Witness == [node : Nodes, content : Contents]

(* The map key: the node and the witness's hash.  Its length is abstracted *)
(* into the hash.                                                          *)
EntryKey(w) == [node |-> w.node, hash |-> HashOf[w.content]]
Keys == {EntryKey(w) : w \in Witness}

(* evidenceId is made of the run instance, the node and the output digest: *)
(* within one entry, of the run instance.                                  *)
Observation == [revision : Nat, run : Nat]

(* A Map is iterated in insertion order.  stamp is an element's place in   *)
(* it: the store version that wrote it and its place in that journal.      *)
Stamp == Nat \X Nat
Before(s, t) == s[1] < t[1] \/ (s[1] = t[1] /\ s[2] < t[2])

Entry == [witness : Witness, output : Values, observations : Seq(Observation),
          stamp : Stamp]
Quarantine == [witness : Witness, stamp : Stamp]

(* entry.verified is written as this comparison, and checked on import.    *)
Verified(entry) == Len(entry.observations) >= 2

(* A Map from keys to members of S; a store is two of them and a version.  *)
IsMap(m, S) == DOMAIN m \subseteq Keys /\ m \in [DOMAIN m -> S]
NoneMapped == [k \in {} |-> 0]

IsStore(s) ==
  /\ s = [version |-> s.version, entries |-> s.entries, quarantined |-> s.quarantined]
  /\ s.version \in Nat /\ IsMap(s.entries, Entry) /\ IsMap(s.quarantined, Quarantine)

EmptyStore == [version |-> 0, entries |-> NoneMapped, quarantined |-> NoneMapped]
EmptyJournal == [entries |-> NoneMapped, quarantined |-> NoneMapped, resolutions |-> <<>>]

(* cache.verification is what evidence says: two or more are verified.     *)
Resolution == [witness : Witness, hit : BOOLEAN, output : Values \cup {NoValue},
               evidence : Seq(Observation), writePending : BOOLEAN, write : BOOLEAN]

-----------------------------------------------------------------------------
(* Budgets *)

(* The bytes the outputs of S take: a byte is an entry's key and its place *)
(* in the entry's output.                                                  *)
Bytes(entries, S) ==
  Cardinality({b \in S \X (1..MaxBytes) : b[2] <= BytesOf[entries[b[1]].output]})

Fits(entries, S) == Cardinality(S) <= MaxEntries /\ Bytes(entries, S) <= MaxBytes

(* The part of a map that is not older than k.                             *)
NotOlder(m, k) == {j \in DOMAIN m : ~Before(m[j].stamp, m[k].stamp)}

(* Mutant: only the number of entries is bounded.                          *)
EvictByCount(entries) ==
  [k \in {j \in DOMAIN entries : Cardinality(NotOlder(entries, j)) <= MaxEntries}
     |-> entries[k]]

(* The oldest are dropped until the rest fits.                             *)
EvictEntries(entries) ==
  [k \in {j \in DOMAIN entries : Fits(entries, NotOlder(entries, j))} |-> entries[k]]
EvictQuarantines(quarantined) ==
  [k \in {j \in DOMAIN quarantined :
            Cardinality(NotOlder(quarantined, j)) <= MaxQuarantines} |-> quarantined[k]]

-----------------------------------------------------------------------------
(* Looking a stage up in the store its run captured *)

txn == Head(runQueue)
captured == txn.baseline

InQuarantine(s, w) == EntryKey(w) \in DOMAIN s.quarantined
Holds(s, w) ==
  /\ EntryKey(w) \in DOMAIN s.entries
  /\ s.entries[EntryKey(w)].witness = w
Collides(s, w) ==
  /\ EntryKey(w) \in DOMAIN s.entries
  /\ s.entries[EntryKey(w)].witness # w

(* A retained stage reads its entry unless the key is quarantined.         *)
Read(w, retained) == retained /\ ~InQuarantine(captured, w) /\ Holds(captured, w)

(* Mutant: an entry on probation serves a hit.                             *)
HitOnProbation(w, retained) == Read(w, retained)

Hits(w, retained) == Read(w, retained) /\ Verified(captured.entries[EntryKey(w)])

EvidenceRead(w, retained) ==
  IF Read(w, retained) THEN captured.entries[EntryKey(w)].observations ELSE <<>>

-----------------------------------------------------------------------------
(* The document, the run queue and the checkpoint around the cache *)

Init ==
  /\ kernel = 1
  /\ session = 0 /\ revision = 0 /\ hasPlan = FALSE /\ stageCache = EmptyStore
  /\ runQueue = <<>> /\ executing = FALSE /\ runInstance = 0 /\ journal = EmptyJournal
  /\ checkpoint = EmptyStore
  /\ report = <<>>
  /\ committed = {}

IsOpen == session # 0

(* Any open that is not "unchanged": a new session with an empty store.    *)
OpenEditorDocument ==
  /\ session < MaxSessions
  /\ session' = session + 1
  /\ revision' = 1
  /\ hasPlan' = FALSE
  /\ stageCache' = EmptyStore
  /\ UNCHANGED <<kernel, runVars, checkpoint, report, committed>>

ApplyEditorChange ==
  /\ IsOpen
  /\ revision < MaxRevision
  /\ revision' = revision + 1
  /\ UNCHANGED <<kernel, session, hasPlan, stageCache, runVars, checkpoint, report,
                 committed>>

CaptureEditorRun ==
  [session |-> session, revision |-> revision, hasPlan |-> hasPlan, baseline |-> stageCache]

SubmitRun ==
  /\ IsOpen
  /\ Len(runQueue) < MaxQueue
  /\ runInstance + Len(runQueue) < IF executing THEN MaxRuns + 1 ELSE MaxRuns
  /\ runQueue' = Append(runQueue, CaptureEditorRun)
  /\ UNCHANGED <<kernel, docVars, executing, runInstance, journal, checkpoint, report,
                 committed>>

StartRun ==
  /\ runQueue # <<>> /\ ~executing
  /\ executing' = TRUE
  /\ runInstance' = runInstance + 1
  /\ report' = <<>>
  /\ UNCHANGED <<kernel, docVars, runQueue, journal, checkpoint, committed>>

ExportEditorCache ==
  /\ IsOpen
  /\ checkpoint' = stageCache
  /\ UNCHANGED <<kernel, docVars, runVars, report, committed>>

(* Mutant: a checkpoint may be imported while runs wait.                   *)
ImportUnlessExecuting == ~executing

ImportAllowed == runQueue = <<>>

(* The store takes the checkpoint's content and version.                   *)
ImportEditorCache ==
  /\ IsOpen
  /\ ImportAllowed
  /\ stageCache' = checkpoint
  /\ UNCHANGED <<kernel, session, revision, hasPlan, runVars, checkpoint, report, committed>>

(* The host starts another kernel instance and keeps its checkpoint.       *)
RestartKernel ==
  /\ kernel < MaxKernels
  /\ kernel' = kernel + 1
  /\ session' = 0 /\ revision' = 0 /\ hasPlan' = FALSE /\ stageCache' = EmptyStore
  /\ runQueue' = <<>> /\ executing' = FALSE /\ runInstance' = 0 /\ journal' = EmptyJournal
  /\ report' = <<>>
  /\ UNCHANGED <<checkpoint, committed>>

-----------------------------------------------------------------------------
(* Resolving a stage *)

(* A plan has each stage once; its invalidation preview retains a stage    *)
(* only against the plan that the session published last.                  *)
Unresolved(w) == \A i \in 1..Len(journal.resolutions) :
                   journal.resolutions[i].witness.node # w.node
MayResolve(w, retained) == executing /\ Unresolved(w) /\ (retained => txn.hasPlan)

Resolved(w, hit, output, evidence, writePending) ==
  Append(journal.resolutions,
         [witness |-> w, hit |-> hit, output |-> output, evidence |-> evidence,
          writePending |-> writePending, write |-> FALSE])

(* m with k mapped to e.                                                   *)
With(m, k, e) == [j \in DOMAIN m \cup {k} |-> IF j = k THEN e ELSE m[j]]

NextStamp == <<captured.version + 1, Len(journal.resolutions) + 1>>
OnlyJournal == UNCHANGED <<kernel, docVars, runQueue, executing, runInstance, checkpoint,
                           report, committed>>

(* The verified output stands in for a call of the function.               *)
ReuseStage(w) ==
  /\ MayResolve(w, TRUE)
  /\ Hits(w, TRUE)
  /\ LET entry == captured.entries[EntryKey(w)] IN
     journal' = [journal EXCEPT
       !.resolutions = Resolved(w, TRUE, entry.output, entry.observations, FALSE)]
  /\ OnlyJournal

(* The function is called; observeStageCache sees its output.              *)
Invokes(w, retained) == MayResolve(w, retained) /\ ~Hits(w, retained)

Observable(w, output) ==
  output # NoValue /\ ~InQuarantine(captured, w) /\ ~Collides(captured, w)

Mismatch(w, output) ==
  Holds(captured, w) /\ captured.entries[EntryKey(w)].output # output

(* Mutant: the same revision advances the evidence.                        *)
NeverSeen(w) == FALSE

SeenThisRevision(w) ==
  /\ Holds(captured, w)
  /\ \E i \in 1..Len(captured.entries[EntryKey(w)].observations) :
       captured.entries[EntryKey(w)].observations[i].revision = txn.revision

(* The key collides, is quarantined, or the output cannot be snapshotted.  *)
SkipObservation(w, retained, output) ==
  /\ Invokes(w, retained)
  /\ ~Observable(w, output)
  /\ journal' = [journal EXCEPT
       !.resolutions = Resolved(w, FALSE, output, EvidenceRead(w, retained), FALSE)]
  /\ OnlyJournal

(* The output contradicts the entry: its key is to be quarantined.         *)
QuarantineStage(w, retained, output) ==
  /\ Invokes(w, retained)
  /\ Observable(w, output)
  /\ Mismatch(w, output)
  /\ journal' = [journal EXCEPT
       !.quarantined = With(@, EntryKey(w), [witness |-> w, stamp |-> NextStamp]),
       !.resolutions = Resolved(w, FALSE, output, EvidenceRead(w, retained), TRUE)]
  /\ OnlyJournal

IgnoreSameRevision(w, retained, output) ==
  /\ Invokes(w, retained)
  /\ Observable(w, output)
  /\ ~Mismatch(w, output)
  /\ SeenThisRevision(w)
  /\ journal' = [journal EXCEPT
       !.resolutions = Resolved(w, FALSE, output,
                                captured.entries[EntryKey(w)].observations, FALSE)]
  /\ OnlyJournal

(* slice(-2)                                                               *)
LastTwo(s) == IF Len(s) <= 2 THEN s ELSE SubSeq(s, Len(s) - 1, Len(s))

ObserveStage(w, retained, output) ==
  LET earlier == IF Holds(captured, w) THEN captured.entries[EntryKey(w)].observations
                                       ELSE <<>>
      observations == Append(earlier, [revision |-> txn.revision, run |-> runInstance])
  IN
  /\ Invokes(w, retained)
  /\ Observable(w, output)
  /\ ~Mismatch(w, output)
  /\ ~SeenThisRevision(w)
  /\ journal' = [journal EXCEPT
       !.entries = With(@, EntryKey(w),
                        [witness |-> w, output |-> output,
                         observations |-> LastTwo(observations), stamp |-> NextStamp]),
       !.resolutions = Resolved(w, FALSE, output, observations, TRUE)]
  /\ OnlyJournal

ResolveStage ==
  \E w \in Witness :
    \/ ReuseStage(w)
    \/ \E retained \in BOOLEAN, output \in Values \cup {NoValue} :
         \/ SkipObservation(w, retained, output)
         \/ QuarantineStage(w, retained, output)
         \/ IgnoreSameRevision(w, retained, output)
         \/ ObserveStage(w, retained, output)

-----------------------------------------------------------------------------
(* Completing a run: finalizeStageCacheTransaction and its caller *)

HeadMatches == txn.session = session /\ txn.revision = revision

BaselineIsCurrent == stageCache.version = captured.version

(* Mutant: a journal's quarantines leave the entries where they are.       *)
MergeKeepingQuarantined ==
  [k \in DOMAIN stageCache.entries \cup DOMAIN journal.entries |->
     IF k \in DOMAIN journal.entries THEN journal.entries[k] ELSE stageCache.entries[k]]

(* The store with the journal applied, before eviction.                    *)
MergedQuarantines ==
  [k \in DOMAIN stageCache.quarantined \cup DOMAIN journal.quarantined |->
     IF k \in DOMAIN journal.quarantined THEN journal.quarantined[k]
                                         ELSE stageCache.quarantined[k]]
MergedEntries ==
  LET written == DOMAIN journal.entries \ DOMAIN MergedQuarantines IN
  [k \in (DOMAIN stageCache.entries \ DOMAIN journal.quarantined) \cup written |->
     IF k \in written THEN journal.entries[k] ELSE stageCache.entries[k]]

(* The keys of the journal that are in the store it makes.                 *)
SurvivingEntries == DOMAIN journal.entries \cap DOMAIN EvictEntries(MergedEntries)
SurvivingQuarantines ==
  DOMAIN journal.quarantined \cap DOMAIN EvictQuarantines(MergedQuarantines)
Survives(r) == EntryKey(r.witness) \in SurvivingEntries \cup SurvivingQuarantines

NextVersion ==
  IF SurvivingEntries \cup SurvivingQuarantines # {}
  THEN stageCache.version + 1 ELSE stageCache.version

(* What a report claims once its run's journal is discarded or committed.  *)
(* Mutant: a discarded write keeps the evidence it would have added.       *)
DiscardFlagOnly(r) == [r EXCEPT !.writePending = FALSE]

DiscardWrite(r) ==
  IF r.writePending
  THEN [r EXCEPT !.writePending = FALSE,
                 !.evidence = IF EntryKey(r.witness) \in DOMAIN captured.entries
                              THEN captured.entries[EntryKey(r.witness)].observations
                              ELSE <<>>]
  ELSE r

(* Mutant: a write that was evicted at once is reported all the same.      *)
CommitEveryWrite(r) == [r EXCEPT !.writePending = FALSE, !.write = r.writePending]

CommitWrite(r) ==
  IF r.writePending /\ ~Survives(r)
  THEN [r EXCEPT !.writePending = FALSE, !.evidence = <<>>]
  ELSE [r EXCEPT !.writePending = FALSE, !.write = r.writePending]

(* The observation the executing run made of key k.                        *)
FreshObservation(k) ==
  [kernel |-> kernel, session |-> txn.session, revision |-> txn.revision,
   run |-> runInstance, witness |-> journal.entries[k].witness,
   output |-> journal.entries[k].output]

Finished ==
  /\ runQueue' = Tail(runQueue)
  /\ executing' = FALSE
  /\ journal' = EmptyJournal
  /\ UNCHANGED <<kernel, session, revision, runInstance, checkpoint>>

(* RUNTIME-CACHE-PROVENANCE: a hit names two different observations.       *)
ProvenanceResolves ==
  \A i \in 1..Len(journal.resolutions) : journal.resolutions[i].hit =>
    /\ Len(journal.resolutions[i].evidence) = 2
    /\ journal.resolutions[i].evidence[1].run # journal.resolutions[i].evidence[2].run

(* Published and accepted by the gate, onto the store that was captured.   *)
CommitJournal ==
  /\ executing
  /\ HeadMatches
  /\ ProvenanceResolves
  /\ BaselineIsCurrent
  /\ Finished
  /\ hasPlan' = TRUE
  /\ stageCache' = [version |-> NextVersion,
                    entries |-> EvictEntries(MergedEntries),
                    quarantined |-> EvictQuarantines(MergedQuarantines)]
  /\ report' = [i \in 1..Len(journal.resolutions) |-> CommitWrite(journal.resolutions[i])]
  /\ committed' = committed \cup {FreshObservation(k) : k \in SurvivingEntries}

Discarded ==
  /\ Finished
  /\ UNCHANGED <<stageCache, committed>>
  /\ report' = [i \in 1..Len(journal.resolutions) |-> DiscardWrite(journal.resolutions[i])]

(* Published, but the gate or an adapter's mutation refused the evidence,  *)
(* or another run has changed the store.                                   *)
PublishWithoutCommit ==
  /\ executing
  /\ HeadMatches
  /\ Discarded
  /\ hasPlan' = TRUE

(* Failed or cancelled at any stage, or stale: the head moved or the       *)
(* session was replaced.                                                   *)
AbandonRun ==
  /\ executing
  /\ Discarded
  /\ UNCHANGED hasPlan

Next ==
  \/ OpenEditorDocument \/ ApplyEditorChange
  \/ SubmitRun \/ StartRun \/ ResolveStage
  \/ CommitJournal \/ PublishWithoutCommit \/ AbandonRun
  \/ ExportEditorCache \/ ImportEditorCache \/ RestartKernel

Spec == Init /\ [][Next]_vars

-----------------------------------------------------------------------------
(* Properties *)

(* The copies of the store: the document's, the host's, the waiting runs'. *)
Copies == {stageCache, checkpoint} \cup {runQueue[i].baseline : i \in 1..Len(runQueue)}

(* Every part of the state has its type.                                   *)
TypeOK ==
  /\ kernel \in Nat /\ session \in Nat /\ revision \in Nat /\ hasPlan \in BOOLEAN
  /\ IsStore(stageCache) /\ IsStore(checkpoint)
  /\ \A i \in 1..Len(runQueue) :
       /\ runQueue[i].session \in Nat /\ runQueue[i].revision \in Nat
       /\ runQueue[i].hasPlan \in BOOLEAN /\ IsStore(runQueue[i].baseline)
  /\ executing \in BOOLEAN /\ runInstance \in Nat
  /\ IsMap(journal.entries, Entry) /\ IsMap(journal.quarantined, Quarantine)
  /\ journal.resolutions \in Seq(Resolution)
  /\ report \in Seq(Resolution)
  /\ committed \subseteq [kernel : Nat, session : Nat, revision : Nat, run : Nat,
                         witness : Witness, output : Values]

(* Every copy of the store keeps to the three limits the report names.     *)
WithinLimits ==
  \A s \in Copies : /\ Fits(s.entries, DOMAIN s.entries)
                    /\ Cardinality(DOMAIN s.quarantined) <= MaxQuarantines

(* The committed observations an entry's evidence stands for.              *)
Backing(witness, output, observation) ==
  {h \in committed : /\ h.witness = witness /\ h.output = output
                     /\ h.revision = observation.revision /\ h.run = observation.run}

(* RUN-005: an entry that is verified, wherever it was carried - captured  *)
(* by waiting runs, exported, imported into another session or kernel      *)
(* instance - rests on committed observations of exactly its witness and   *)
(* output, made by different runs of different revisions.                  *)
EvidenceIsCommitted ==
  \A s \in Copies : \A k \in DOMAIN s.entries :
    LET e == s.entries[k] IN
    /\ \A i \in 1..Len(e.observations) :
         Backing(e.witness, e.output, e.observations[i]) # {}
    /\ \A i, j \in 1..Len(e.observations) :
         e.observations[i].revision = e.observations[j].revision => i = j

(* RUN-005: what a hit serves was produced, for exactly that witness, by   *)
(* two committed runs of different revisions - despite hash collisions,    *)
(* queued runs, edits, replaced sessions, evictions and imports since.     *)
HitServesEvidence ==
  \A i \in 1..Len(journal.resolutions) :
    LET r == journal.resolutions[i] IN
    r.hit => \E g, h \in committed :
               /\ g.witness = r.witness /\ h.witness = r.witness
               /\ g.output = r.output /\ h.output = r.output
               /\ g.revision # h.revision

(* A key in quarantine has no entry, in any copy of the store: an output   *)
(* that was contradicted cannot be served while its quarantine lasts.      *)
QuarantineBars ==
  \A s \in Copies : DOMAIN s.entries \cap DOMAIN s.quarantined = {}

(* A waiting run whose baseline has the version of its session's store has *)
(* its content too: the version comparison that lets a journal be written  *)
(* is sound, although an import sets the version to an older one.          *)
VersionNamesContent ==
  \A i \in 1..Len(runQueue) :
    (runQueue[i].session = session /\ runQueue[i].baseline.version = stageCache.version)
      => runQueue[i].baseline = stageCache

(* RUN-006: the evidence an execution report names, whether its run was    *)
(* committed, discarded or partly evicted, is evidence some run committed. *)
ReportNamesCommittedEvidence ==
  \A i \in 1..Len(report) : \A j \in 1..Len(report[i].evidence) :
    \E h \in committed : /\ h.witness = report[i].witness
                         /\ h.revision = report[i].evidence[j].revision
                         /\ h.run = report[i].evidence[j].run

(* RUN-006: a run that completes reports a write exactly where the store   *)
(* now holds what it wrote: its observation last, or a new quarantine.     *)
Wrote(w) ==
  LET k == EntryKey(w)
      fresh == [revision |-> txn.revision, run |-> runInstance]
  IN
  \/ /\ k \in DOMAIN stageCache'.entries
     /\ stageCache'.entries[k].observations[Len(stageCache'.entries[k].observations)] = fresh
     /\ k \in DOMAIN stageCache.entries => stageCache'.entries[k] # stageCache.entries[k]
  \/ k \in DOMAIN stageCache'.quarantined \ DOMAIN stageCache.quarantined

ReportedWritesAreVisible ==
  [][executing /\ ~executing' /\ kernel' = kernel =>
       \A i \in 1..Len(journal.resolutions) :
         report'[i].write <=> Wrote(journal.resolutions[i].witness)]_vars

(* RUN-007: a materialization names two different observation records:     *)
(* their evidenceIds differ.                                               *)
EvidenceIsUnique ==
  \A i \in 1..Len(journal.resolutions) :
    LET r == journal.resolutions[i] IN
    r.hit => r.evidence[1].run # r.evidence[2].run
=============================================================================
