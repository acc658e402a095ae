--------------------------- MODULE LabConformance ---------------------------
(***************************************************************************)
(* runtime/lab-conformance.js: the report a run carries of itself.  Its    *)
(* gate is what the editor kernel asks before it keeps the run's cache     *)
(* journal (runtime/editor-kernel.js:710).  inspection is what the parser  *)
(* made of the source and plan what the compiler made of that, Nothing     *)
(* before they did.                                                        *)
(***************************************************************************)
EXTENDS Adapters

CancelledCode == "TBA-RUN-CANCELLED-LAB"

-----------------------------------------------------------------------------
(* What a fixture is expected to do.  The golden fixture, whose structure  *)
(* is compared with a digest written down, is left out.                    *)

FailureCase(caseId, code) == [caseId |-> caseId, outcome |-> "failed", code |-> code]

ConformanceCases ==
  "failed-run" :> FailureCase("negative-undeclared-channel", TypeError)
  @@ "negative-unknown-function" :> FailureCase("negative-unknown-function", RunError)
  @@ "negative-unclosed-block" :> FailureCase("negative-unclosed-block", "TBA-PARSE-BLOCK-UNCLOSED-LAB")
  @@ "cancellation-probe" :>
       [caseId |-> "cooperative-cancellation", outcome |-> "cancelled", code |-> CancelledCode]

ExpectedOf(fixture) ==
  IF fixture \in DOMAIN ConformanceCases THEN ConformanceCases[fixture]
  ELSE [caseId |-> IF fixture = "ad-hoc" THEN "ad-hoc-success" ELSE "unregistered",
        outcome |-> "succeeded", code |-> ""]

-----------------------------------------------------------------------------
(* Requirements: "passed", "failed" or "not-run", by their id.             *)

Checked(id, holds) == id :> (IF holds THEN "passed" ELSE "failed")
NotRun(id) == id :> "not-run"

Failed(requirements) == {id \in DOMAIN requirements : requirements[id] = "failed"}

ProfileResult(profile, support, applicable, requirements) ==
  LET status == IF ~applicable THEN "not-run"
                ELSE IF Failed(requirements) # {} THEN "failed"
                ELSE IF \A id \in DOMAIN requirements : requirements[id] = "passed" THEN "passed"
                ELSE "not-run"
      derived == CASE status = "failed" -> "unsupported"
                   [] status = "not-run" -> ""
                   [] OTHER -> support
  IN  [profile |-> profile, status |-> status, derivedSupport |-> derived,
       claimable |-> status = "passed" /\ derived = "playground-subset", requirements |-> requirements]

(* Every event leads to its anchor, its source map and its activity.       *)
CommittedBindingsResolve(result) ==
  \A event \in EventsOf(result.channelSnapshots) :
    /\ Bound(result, event) /\ event.provenanceRef \in KnownActivities(result)
    /\ MappingOf(result, event).inputAnchorRefs \subseteq DOMAIN result.anchors
    /\ MappingOf(result, event).generatingActivity = event.provenanceRef

(* Mutant: two observations may be one.                                    *)
CacheProvenanceRecorded(result) ==
  LET entities == result.entities
      served == {a \in ToSet(result.activities) : a.type = "cache-materialization"}
      entity(ref, type, node) == ref \in DOMAIN entities
                                   /\ entities[ref].type = type /\ entities[ref].node = node
  IN  \A a \in served :
        /\ entity(a.cacheEntryRef, "cached-stage-output", a.node)
        /\ Len(a.evidenceRefs) = 2
        /\ entities[a.cacheEntryRef].evidenceRefs = a.evidenceRefs
        /\ \A ref \in ToSet(a.evidenceRefs) : entity(ref, "cache-observation", a.node)

(* Every stage the cache served rests on two observations of its own.      *)
CacheProvenanceResolves(result) ==
  LET entities == result.entities
      served == {a \in ToSet(result.activities) : a.type = "cache-materialization"}
      entity(ref, type, node) == ref \in DOMAIN entities
                                   /\ entities[ref].type = type /\ entities[ref].node = node
  IN  \A a \in served :
        /\ entity(a.cacheEntryRef, "cached-stage-output", a.node)
        /\ Len(a.evidenceRefs) = 2 /\ a.evidenceRefs[1] # a.evidenceRefs[2]
        /\ entities[a.cacheEntryRef].evidenceRefs = a.evidenceRefs
        /\ \A ref \in ToSet(a.evidenceRefs) : entity(ref, "cache-observation", a.node)

-----------------------------------------------------------------------------
(* buildStructuralSnapshot: what two runs of one text have in common, but  *)
(* for the references in payloads and in what the adapters put out, which  *)
(* is digested as it is.                                                   *)
OutputDigest(projection) ==
  LET output == projection.output
  IN  IF ~output.sound THEN "none"
      ELSE [data |-> output.data, payloads |-> output.payloads, refs |-> output.refs]

StructuralSnapshot(result, inspection, plan, trace, adapterRun) ==
  LET snapshots == result.channelSnapshots
      stable(event) == [sequence |-> event.sequence, channel |-> event.channel, node |-> event.node,
                        target |-> event.target, payload |-> event.payload, mapping |-> event.mapping]
  IN  [source |-> result.source, ir |-> inspection, plan |-> plan,
       executionTrace |-> [i \in DOMAIN trace |-> trace[i].node],
       resultId |-> result.resultId, status |-> result.status, diagnostics |-> result.diagnostics,
       channels |-> [name \in DOMAIN snapshots |->
         [descriptor |-> snapshots[name].descriptor,
          events |-> [i \in DOMAIN snapshots[name].events |-> stable(snapshots[name].events[i])]]],
       anchors |-> [id \in DOMAIN result.anchors |->
         [version |-> result.anchors[id].version, line |-> result.anchors[id].line,
          target |-> result.anchors[id].target, node |-> result.anchors[id].node]],
       sourceMaps |-> [i \in DOMAIN result.sourceMaps |->
         [inputs |-> result.sourceMaps[i].inputAnchorRefs, mapping |-> result.sourceMaps[i].mapping,
          selector |-> result.sourceMaps[i].outputSelector]],
       projections |-> [i \in DOMAIN adapterRun.projections |->
         [adapter |-> adapterRun.projections[i].adapter, status |-> adapterRun.projections[i].status,
          id |-> adapterRun.projections[i].projectionId, output |-> OutputDigest(adapterRun.projections[i])]],
       adapters |-> adapterRun.status]

-----------------------------------------------------------------------------
(* buildConformanceReport                                                  *)

IsSuccessful(result) == result.status = "succeeded" /\ result.committed

IsTerminalWithoutCommit(result) ==
  /\ result.status # "succeeded" /\ ~result.committed /\ ~result.render
  /\ result.channelSnapshots = Nothing /\ result.anchors = Nothing
  /\ result.sourceMaps = <<>> /\ result.activities = <<>>

(* The first projection of an adapter of the profile succeeded.            *)
HasProjection(adapterRun, profile, resultId) ==
  LET of == SelectSeq(adapterRun.projections, LAMBDA p : AdapterManifests[p.adapter].profile = profile)
  IN  of # <<>> /\ of[1].status = "succeeded" /\ of[1].sourceResultRef = resultId

(* The trace has a successful entry for each stage of the plan.            *)
TraceIsWhole(plan, trace) == Field(plan, "stages", 0) = Len(trace) /\ plan # Nothing

LanguageRequirements(result, inspection, plan, trace) ==
  IF ~IsSuccessful(result) THEN NotRun("LANG-ACTIVE-SUCCESS")
  ELSE Checked("LANG-SOURCE-IR", inspection # Nothing /\ Field(inspection, "version", "") = result.source)
         @@ Checked("LANG-DETERMINISTIC-PLAN", TraceIsWhole(plan, trace))
         @@ Checked("LANG-SYNTAX-ERASED", Field(inspection, "executable", FALSE))

RuntimeRequirements(result) ==
  Checked("RUNTIME-ATOMIC-TERMINAL", IsSuccessful(result) \/ IsTerminalWithoutCommit(result))
  @@ Checked("RUNTIME-DESCRIPTORS", IsSuccessful(result) =>
       \A name \in DOMAIN result.channelSnapshots : result.channelSnapshots[name].descriptor.declared)
  @@ Checked("RUNTIME-CACHE-PROVENANCE", CacheProvenanceResolves(result))

EditorRequirements(result) ==
  IF ~IsSuccessful(result) \/ EventsOf(result.channelSnapshots) = {} THEN NotRun("EDITOR-EVENTS")
  ELSE Checked("EDITOR-BINDINGS", CommittedBindingsResolve(result))
         @@ Checked("EDITOR-POSITIONS", \A e \in EventsOf(result.channelSnapshots) : e.line > 0)

AdapterRequirements(result, adapterRun) ==
  LET ended(status) == {p \in ToSet(adapterRun.projections) : p.status = status}
  IN  IF ~IsSuccessful(result) THEN NotRun("ADAPTER-POST-COMMIT")
      ELSE Checked("ADAPTER-IMMUTABLE", adapterRun.immutable)
             @@ Checked("ADAPTER-REFERENCE", HasProjection(adapterRun, "adapter-contract/1", result.resultId))
             @@ Checked("ADAPTER-CONTRACT-BOUNDARY",
                  \A p \in ended("succeeded") : AdapterManifests[p.adapter].support # "contract-only")
             @@ Checked("ADAPTER-NO-FAILED-PROJECTION", ended("failed") = {})

(* A channel of a domain is in the result.                                 *)
DomainChannels ==
  "data/1" :> {"data.datasets", "data.input.records", "data.output.records", "data.lineage", "data.aggregates"}
  @@ "notebook/1" :> {"notebook.snapshot", "notebook.cells", "notebook.outputs", "notebook.state"}
  @@ "annotation/1" :> {"annotation.set", "annotation.candidates", "annotation.reviews", "annotation.revisions"}

DomainApplies(result, profile) ==
  IsSuccessful(result) /\ DomainChannels[profile] \cap DOMAIN result.channelSnapshots # {}

DomainRequirements(result, adapterRun, profile, id) ==
  IF DomainApplies(result, profile) THEN Checked(id, HasProjection(adapterRun, profile, result.resultId))
  ELSE NotRun(id)

Profiles(result, inspection, plan, trace, adapterRun) ==
  LET domain(profile, id) ==
        ProfileResult(profile, "playground-subset", DomainApplies(result, profile),
                      DomainRequirements(result, adapterRun, profile, id))
      subset(profile, applicable, requirements) ==
        ProfileResult(profile, "playground-subset", applicable, requirements)
      successful == IsSuccessful(result)
  IN  <<subset("language-core/0.4", successful, LanguageRequirements(result, inspection, plan, trace)),
        subset("runtime-json/1", TRUE, RuntimeRequirements(result)),
        subset("editor/1", successful /\ EventsOf(result.channelSnapshots) # {}, EditorRequirements(result)),
        subset("adapter-contract/1", successful, AdapterRequirements(result, adapterRun)),
        domain("data/1", "DATA-PROJECTION"), domain("notebook/1", "NOTEBOOK-PROJECTION"),
        domain("annotation/1", "ANNOTATION-PROJECTION"),
        ProfileResult("ml-lineage/1", "contract-only", TRUE,
          Checked("ML-CONTRACT-ONLY", ~HasProjection(adapterRun, "ml-lineage/1", result.resultId)))>>

StageRequirements(result, inspection, plan, trace, adapterRun) ==
  Checked("STAGE-SOURCE", result.source # "") @@ Checked("STAGE-IR", inspection # Nothing)
  @@ (IF IsSuccessful(result)
      THEN Checked("STAGE-PLAN", TraceIsWhole(plan, trace)) @@ Checked("STAGE-PROJECTION", adapterRun.immutable)
      ELSE NotRun("STAGE-PLAN") @@ NotRun("STAGE-PROJECTION"))
  @@ Checked("STAGE-RESULT", IsSuccessful(result) \/ IsTerminalWithoutCommit(result))

(* A case that expects a cancellation, or saw one, wants it to be atomic.  *)
CaseRequirements(result, expected) ==
  LET codes == ToSet(result.diagnostics)
      cancelled == result.status = "cancelled" /\ CancelledCode \in codes /\ IsTerminalWithoutCommit(result)
  IN  Checked("CASE-OUTCOME", result.status = expected.outcome)
        @@ (IF expected.code = "" THEN Nothing ELSE Checked("CASE-DIAGNOSTIC", expected.code \in codes))
        @@ (IF "cancelled" \in {expected.outcome, result.status}
            THEN Checked("CANCELLATION-ATOMIC", cancelled) ELSE Nothing)

ConformanceReport(fixture, result, snapshot, expected, profiles, stages) ==
  LET blockers == Failed(CaseRequirements(result, expected)) \cup Failed(stages)
                    \cup UNION {Failed(profiles[i].requirements) : i \in DOMAIN profiles}
  IN  [reportId |-> [case |-> expected.caseId, fixture |-> fixture, resultId |-> result.resultId,
                     structure |-> snapshot,
                     profiles |-> [i \in DOMAIN profiles |->
                       [status |-> profiles[i].status, support |-> profiles[i].derivedSupport]],
                     gate |-> blockers],
       gate |-> IF blockers = {} THEN "passed" ELSE "failed", blockers |-> blockers,
       claimable |-> {profiles[i].profile : i \in {i \in DOMAIN profiles : profiles[i].claimable}}]

BuildConformanceReport(fixture, result, inspection, plan, trace, adapterRun) ==
  ConformanceReport(fixture, result, StructuralSnapshot(result, inspection, plan, trace, adapterRun),
                    ExpectedOf(fixture), Profiles(result, inspection, plan, trace, adapterRun),
                    StageRequirements(result, inspection, plan, trace, adapterRun))

(* What the editor kernel asks before it keeps the run's journal.          *)
PostCommitAccepted(adapterRun, report) == adapterRun.immutable /\ report.gate = "passed"

=============================================================================
