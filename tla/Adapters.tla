------------------------------ MODULE Adapters ------------------------------
(***************************************************************************)
(* runtime/adapters.js: the adapters' manifests and runAdapters, which     *)
(* makes of a committed result the projections its host asked for.  A      *)
(* field that a payload leaves out reads as "" here, as String(x || "")    *)
(* makes of it there; proper stands for the digests, model and prompt      *)
(* names, confidence and MIME representations a payload must carry.        *)
(***************************************************************************)
EXTENDS ResultEnvelope

-----------------------------------------------------------------------------
(* Manifests                                                               *)

Manifest(profile, kind, channels, optional, capabilities) ==
  [profile |-> profile, support |-> "playground-subset", schemas |-> {"textabana.result/lab-v1"},
   channels |-> channels, optional |-> optional, produces |-> kind, required |-> capabilities,
   fidelity |-> "selective", requiresSourceResult |-> TRUE]

AdapterManifests ==
  "result-summary" :> Manifest("adapter-contract/1", "result-summary", Nothing, Nothing,
    {"atomic-success-result", "typed-channel-descriptors"})
  @@ "data-table" :> Manifest("data/1", "table",
    "data.datasets" :> "dataset" @@ "data.input.records" :> "data-record"
      @@ "data.output.records" :> "data-record" @@ "data.lineage" :> "data-lineage",
    "data.aggregates" :> "data-aggregate",
    {"stable-record-id", "source-map", "derived-multi-input-source-map", "json-record-projection"})
  @@ "notebook" :> Manifest("notebook/1", "notebook-view",
    "notebook.snapshot" :> "notebook-snapshot" @@ "notebook.cells" :> "notebook-cell"
      @@ "notebook.outputs" :> "notebook-output" @@ "notebook.state" :> "notebook-state", Nothing,
    {"stable-cell-id", "whole-snapshot", "mime-bundle", "stale-output-detection"})
  @@ "annotation-review" :> Manifest("annotation/1", "annotation-review-bundle",
    "annotation.set" :> "annotation-set" @@ "annotation.candidates" :> "annotation-candidate"
      @@ "annotation.reviews" :> "annotation-review" @@ "annotation.revisions" :> "annotation-revision",
    Nothing,
    {"stable-annotation-id", "immutable-candidate", "review-revision", "anchor-target",
     "w3c-web-annotation", "label-studio-task-subset"})
  @@ "ml-lineage" :> [Manifest("ml-lineage/1", "ml-lineage-bundle", Nothing, Nothing,
                               {"model-invocation-provenance"})
                      EXCEPT !.support = "contract-only", !.schemas = @ \cup {"textabana.result/v1"}]

(* Those of the runtime's capabilities that some manifest names.           *)
ImplementedCapabilities ==
  UNION {AdapterManifests[id].required : id \in DOMAIN AdapterManifests \ {"ml-lineage"}}

ValidManifest(manifest) ==
  /\ manifest.profile # "" /\ manifest.schemas # {} /\ manifest.produces # ""
  /\ manifest.support \in {"playground-subset", "contract-only", "unsupported"}
  /\ manifest.fidelity \in {"lossless", "selective", "lossy"}
  /\ manifest.fidelity # "lossless" => manifest.requiresSourceResult

-----------------------------------------------------------------------------
(* What the projections read of a result                                   *)

On(result, channel) ==
  IF channel \in DOMAIN result.channelSnapshots THEN result.channelSnapshots[channel].events ELSE <<>>

Given(event, name) == Field(event.payload.data, name, "")

Each(events, Holds(_)) == \A i \in DOMAIN events : Holds(events[i])

(* The source map of an event that has the selector.                       *)
Mapped(result, event, selector, mappings) ==
  \E m \in ToSet(result.sourceMaps) :
    /\ m.outputRef = event.eventId /\ m.mapping \in mappings
    /\ \A name \in DOMAIN selector : Field(m.outputSelector, name, "") = selector[name]

MappingOf(result, event) == CHOOSE m \in ToSet(result.sourceMaps) : m.outputRef = event.eventId

HasInput(result, event, input) == input.target.anchorRef \in MappingOf(result, event).inputAnchorRefs

KnownActivities(result) == {a.activityId : a \in ToSet(result.activities)}

(* Its anchor is in the result and what made it in its provenance.         *)
Bound(result, event) ==
  /\ event.target.anchorRef \in DOMAIN result.anchors
  /\ \E m \in ToSet(result.sourceMaps) :
       m.outputRef = event.eventId /\ m.generatingActivity \in KnownActivities(result)

Distinct(events, name) ==
  /\ Each(events, LAMBDA e : Given(e, name) # "")
  /\ IsInjective([i \in DOMAIN events |-> Given(events[i], name)])

Ids(events, name) == [i \in DOMAIN events |-> Given(events[i], name)]

References(result, consumed) ==
  LET maps == {m \in ToSet(result.sourceMaps) : m.outputRef \in {e.eventId : e \in consumed}}
  IN  [events |-> {e.eventId : e \in consumed},
       anchors |-> {e.target.anchorRef : e \in consumed} \cup UNION {m.inputAnchorRefs : m \in maps},
       mappings |-> {m.mappingId : m \in maps},
       activities |-> {e.provenanceRef : e \in consumed} \cup {m.generatingActivity : m \in maps}]

(* A projection's output: what it says, the payloads it passes on and the  *)
(* references it makes.                                                    *)
ProjectionOutput(data, payloads, refs, references) ==
  [sound |-> TRUE, data |-> data, payloads |-> payloads, refs |-> refs, references |-> references]

(* The adapter throws.                                                     *)
Unsound == [sound |-> FALSE]

Payloads(events) == [i \in DOMAIN events |-> events[i].payload]

-----------------------------------------------------------------------------
(* buildResultSummaryProjection                                            *)

ResultSummary(result) ==
  LET snapshots == result.channelSnapshots
  IN  ProjectionOutput([resultId |-> result.resultId, source |-> result.source,
              channels |-> [name \in DOMAIN snapshots |->
                [schemaRef |-> snapshots[name].descriptor.schemaRef,
                 events |-> Len(snapshots[name].events)]],
              anchors |-> Cardinality(DOMAIN result.anchors),
              sourceMaps |-> Len(result.sourceMaps), activities |-> Len(result.activities)],
             <<>>, <<>>,
             [events |-> {e.eventId : e \in EventsOf(snapshots)}, anchors |-> DOMAIN result.anchors,
              mappings |-> {m.mappingId : m \in ToSet(result.sourceMaps)},
              activities |-> KnownActivities(result)])

-----------------------------------------------------------------------------
(* buildDataTableProjection                                                *)

OutputOf(event) == Field(event.payload.data, "output", Nothing)

ColumnHolds(event, field) ==
  LET values == event.payload.data.values
  IN  /\ field.name \in DOMAIN values
      /\ \/ values[field.name] = "null" /\ field.nullable
         \/ field.type \notin {"integer", "utf8"}
         \/ values[field.name] = field.type

(* The lineage that is checked is a record's first.                        *)
RowHolds(result, event, fields, lineage, inputs) ==
  LET own == SelectSeq(lineage, LAMBDA l : Field(OutputOf(l), "recordId", "") = Given(event, "recordId"))
  IN  /\ \A i \in DOMAIN fields : ColumnHolds(event, fields[i])
      /\ own # <<>>
      /\ Len(own[1].payload.data.inputRecordIds) = 2
      /\ ToSet(own[1].payload.data.inputRecordIds) \subseteq {Given(e, "recordId") : e \in ToSet(inputs)}
      /\ Mapped(result, event, [datasetId |-> Given(event, "datasetId"),
                                recordId |-> Given(event, "recordId")], {"derived"})
      /\ Cardinality(MappingOf(result, event).inputAnchorRefs) = 2
      /\ MappingOf(result, event).inputAnchorRefs \subseteq DOMAIN result.anchors

CellLineageHolds(result, event, rows, fields) ==
  /\ Field(OutputOf(event), "recordId", "") \in {Given(r, "recordId") : r \in ToSet(rows)}
  /\ Field(OutputOf(event), "columnName", "") \in {f.name : f \in ToSet(fields)}
  /\ Field(event.payload.data, "inputs", {}) # {} /\ "" \notin event.payload.data.inputs
  /\ Mapped(result, event, [columnName |-> OutputOf(event).columnName], {"derived"})

(* A row of the table; the lineage it shows is a record's last.            *)
TableRow(event, lineage) ==
  LET own == SelectSeq(lineage, LAMBDA l : OutputOf(l).recordId = Given(event, "recordId"))
  IN  [recordId |-> Given(event, "recordId"), anchorRef |-> event.target.anchorRef,
       inputRecordIds |-> Last(own).payload.data.inputRecordIds, lineage |-> Last(own).sequence]

DataTable(result) ==
  LET datasets == On(result, "data.datasets")
      outputs == SelectSeq(datasets, LAMBDA e : Given(e, "role") = "output")
      dataset == outputs[1].payload.data
      rows == SelectSeq(On(result, "data.output.records"),
                        LAMBDA e : Given(e, "datasetId") = dataset.datasetId)
      lineage(granularity) == SelectSeq(On(result, "data.lineage"), LAMBDA e :
        Field(OutputOf(e), "datasetId", "") = dataset.datasetId /\ Given(e, "granularity") = granularity)
      aggregates == On(result, "data.aggregates")
      inputs == On(result, "data.input.records")
      sound ==
        /\ Len(outputs) = 1
        /\ dataset.recordCount = Len(rows) /\ Distinct(rows, "recordId")
        /\ Each(rows, LAMBDA e : RowHolds(result, e, dataset.fields, lineage("record"), inputs))
        /\ Each(lineage("cell"), LAMBDA e : CellLineageHolds(result, e, rows, dataset.fields))
        /\ Each(aggregates, LAMBDA e :
             Given(e, "mapping") = "derived" /\ Mapped(result, e, Nothing, {"derived"}))
      consumed == ToSet(datasets) \cup ToSet(inputs) \cup ToSet(rows) \cup ToSet(aggregates)
                    \cup {e \in ToSet(On(result, "data.lineage")) :
                            Field(OutputOf(e), "datasetId", "") = dataset.datasetId}
  IN  IF ~sound THEN Unsound
      ELSE ProjectionOutput([dataset |-> dataset, rows |-> [i \in DOMAIN rows |-> TableRow(rows[i], lineage("record"))]],
                  Payloads(rows \o lineage("record") \o lineage("cell") \o aggregates),
                  FoldLeft(LAMBDA refs, e :
                    refs \o <<e.eventId, MappingOf(result, e).mappingId, e.provenanceRef>>, <<>>, rows),
                  References(result, consumed))

-----------------------------------------------------------------------------
(* buildNotebookProjection                                                 *)

StateProfileHolds(state, snapshot) ==
  /\ state.requestedProfile \in {"fresh", "session", "attached"}
  /\ state.profile = snapshot.profile
  /\ IF state.requestedProfile = "fresh"
     THEN state.executionSupport = "playground-subset" /\ state.kernelState = "not-used"
     ELSE state.executionSupport = "contract-only" /\ state.kernelState = "external-unverified"

(* Mutant: an output is fresh because it says so.                          *)
FreshCellHolds(result, snapshot, index, cell, output) ==
  LET notebookId == snapshot.notebookId
      selector == [type |-> "CellSelector", notebookId |-> notebookId, cellId |-> Given(cell, "cellId")]
      bound(event) == Given(event, "notebookId") = notebookId
                        /\ Given(event, "snapshotId") = snapshot.snapshotId
  IN  /\ bound(cell) /\ bound(output) /\ cell.payload.data.index = index
      /\ Given(output, "status") = "fresh" /\ Field(output.payload.data, "proper", TRUE)
      /\ Bound(result, cell) /\ Bound(result, output)
      /\ Mapped(result, cell, selector, {"exact", "derived", "synthetic"})
      /\ Mapped(result, output, selector, {"derived"})
      /\ HasInput(result, output, cell)

CellHolds(result, snapshot, index, cell, output) ==
  LET notebookId == snapshot.notebookId
      selector == [type |-> "CellSelector", notebookId |-> notebookId, cellId |-> Given(cell, "cellId")]
      bound(event) == Given(event, "notebookId") = notebookId
                        /\ Given(event, "snapshotId") = snapshot.snapshotId
  IN  /\ bound(cell) /\ bound(output) /\ cell.payload.data.index = index
      /\ Given(output, "sourceDigest") = Given(cell, "sourceDigest")
      /\ Given(output, "status") = "fresh" /\ Field(output.payload.data, "proper", TRUE)
      /\ Bound(result, cell) /\ Bound(result, output)
      /\ Mapped(result, cell, selector, {"exact", "derived", "synthetic"})
      /\ Mapped(result, output, selector, {"derived"})
      /\ HasInput(result, output, cell)

Notebook(result) ==
  LET snapshots == On(result, "notebook.snapshot")
      states == On(result, "notebook.state")
      cells == On(result, "notebook.cells")
      outputs == On(result, "notebook.outputs")
      snapshot == snapshots[1].payload.data
      state == states[1].payload.data
      outputOf(cell) == {o \in ToSet(outputs) : Given(o, "cellId") = Given(cell, "cellId")}
      lastOutput(cell) == CHOOSE o \in outputOf(cell) : \A p \in outputOf(cell) : p.sequence <= o.sequence
      sound ==
        /\ Len(snapshots) = 1 /\ Len(states) = 1
        /\ snapshot.wholeSnapshot /\ state.wholeSnapshot
        /\ snapshot.notebookId # "" /\ snapshot.snapshotId # ""
        /\ state.notebookId = snapshot.notebookId /\ state.snapshotId = snapshot.snapshotId
        /\ StateProfileHolds(state, snapshot)
        /\ cells # <<>> /\ Distinct(cells, "cellId")
        /\ snapshot.cellCount = Len(cells) /\ snapshot.cellIds = Ids(cells, "cellId")
        /\ Len(outputs) = Len(cells)
        /\ \A i \in DOMAIN cells :
             outputOf(cells[i]) # {} /\ CellHolds(result, snapshot, i - 1, cells[i], lastOutput(cells[i]))
        /\ Cardinality({Given(o, "cellId") : o \in ToSet(outputs)}) = Len(cells)
      output(i) == lastOutput(cells[i])
  IN  IF ~sound THEN Unsound
      ELSE ProjectionOutput([notebookId |-> snapshot.notebookId, snapshotId |-> snapshot.snapshotId,
                   stateProfile |-> state.requestedProfile,
                   cells |-> [i \in DOMAIN cells |->
                     [cellId |-> Given(cells[i], "cellId"), sourceDigest |-> Given(cells[i], "sourceDigest"),
                      outputSourceDigest |-> Given(output(i), "sourceDigest"),
                      output |-> output(i).sequence, anchorRef |-> output(i).target.anchorRef]]],
                  Payloads(snapshots \o states \o cells \o outputs),
                  FoldLeft(LAMBDA refs, c :
                    refs \o <<lastOutput(c).eventId, MappingOf(result, lastOutput(c)).mappingId,
                              lastOutput(c).provenanceRef>>, <<>>, cells),
                  References(result, ToSet(snapshots \o states \o cells \o outputs)))

-----------------------------------------------------------------------------
(* buildAnnotationReviewProjection                                         *)

BindingHolds(result, event, setId, revision, mappings) ==
  LET annotation == Given(event, "annotationId")
  IN  /\ Bound(result, event)
      /\ Field(result.anchors[event.target.anchorRef].target, "setId", "") = setId
      /\ Field(result.anchors[event.target.anchorRef].target, "annotationId", "") = annotation
      /\ Mapped(result, event, [type |-> "AnnotationSelector", setId |-> setId,
                               annotationId |-> annotation], mappings)
      /\ Field(MappingOf(result, event).outputSelector, "revision", -1) = revision

(* What a model proposed, with nothing of its review in it.                *)
CandidateHolds(result, event, setId) ==
  LET candidate == event.payload.data
  IN  /\ candidate.setId = setId /\ candidate.origin = "ai" /\ candidate.status = "candidate"
      /\ candidate.revision = 0 /\ Field(candidate, "proper", TRUE)
      /\ {"decision", "reviewer", "supersededBy"} \cap DOMAIN candidate = {}
      /\ BindingHolds(result, event, setId, 0, {"exact"})

ReviewHolds(result, event, setId, candidates) ==
  LET review == event.payload.data
  IN  \E candidate \in ToSet(candidates) :
        /\ Given(candidate, "annotationId") = Given(event, "annotationId")
        /\ review.setId = setId /\ review.revision = 1 /\ Given(event, "reviewer") # ""
        /\ review.decision \in {"accept", "reject", "supersede"} /\ Field(review, "proper", TRUE)
        /\ Field(event.payload.refs, "candidateEventRef", <<>>) = candidate.eventId
        /\ BindingHolds(result, event, setId, 1, {"derived"})
        /\ HasInput(result, event, candidate)

IsReplacement(event) == Given(event, "origin") = "human" /\ event.payload.data.revision = 0

ReplacementHolds(result, event, setId) ==
  /\ Given(event, "supersedes") # "" /\ Given(event, "state") = "accepted"
  /\ BindingHolds(result, event, setId, 0, {"exact"})

Decided == "accept" :> "accepted" @@ "reject" :> "rejected" @@ "supersede" :> "superseded"

(* A revision that says what a review decided.                             *)
DecisionHolds(result, event, setId, candidates, reviews) ==
  \E candidate \in ToSet(candidates), review \in ToSet(reviews) :
    /\ Given(candidate, "annotationId") = Given(event, "annotationId")
    /\ Given(review, "annotationId") = Given(event, "annotationId")
    /\ Given(event, "origin") = "human-review" /\ event.payload.data.revision = 1
    /\ Field(event.payload.refs, "reviewEventRef", <<>>) = review.eventId
    /\ Field(event.payload.refs, "basedOnEventRef", <<>>) = candidate.eventId
    /\ Given(event, "state") = Decided[Given(review, "decision")]
    /\ BindingHolds(result, event, setId, 1, {"derived"})

(* A superseding review and its replacement name each other.               *)
SupersedeHolds(result, review, replacements) ==
  IF Given(review, "decision") # "supersede" THEN Given(review, "supersededBy") = ""
  ELSE \E replacement \in ToSet(replacements) :
         /\ Given(replacement, "annotationId") = Given(review, "supersededBy")
         /\ Given(replacement, "supersedes") = Given(review, "annotationId")
         /\ HasInput(result, review, replacement)

(* Following supersedes from a replacement never comes back.               *)
ChainsEnd(replacements) ==
  LET ids == {Given(r, "annotationId") : r \in ToSet(replacements)}
  IN  \A circle \in SUBSET ids \ {{}} :
        \E r \in ToSet(replacements) :
          Given(r, "annotationId") \in circle /\ Given(r, "supersedes") \notin circle

SetHolds(set, candidates, reviews, revisions, replacements, current) ==
  LET replacementOrder == SelectSeq(set.authoredOrder,
        LAMBDA id : id \in {Given(r, "annotationId") : r \in ToSet(replacements)})
  IN  /\ set.candidateIds = Ids(candidates, "annotationId")
      /\ set.annotationIds = Ids(candidates, "annotationId") \o replacementOrder
      /\ set.currentIds = current
      /\ set.candidateCount = Len(candidates) /\ set.reviewCount = Len(reviews)
      /\ set.revisionCount = Len(revisions)

(* What is shown of an annotation: a candidate, if there is one of that    *)
(* id, else the replacement.                                               *)
CurrentAnnotation(id, candidates, replacements) ==
  LET of(events) == SelectSeq(events, LAMBDA e : Given(e, "annotationId") = id)
      shown == Head(of(candidates) \o of(replacements))
  IN  [annotationId |-> id, state |-> "accepted", body |-> Given(shown, "body"),
       revision |-> IF of(candidates) = <<>> THEN 0 ELSE 1,
       supersedes |-> IF of(candidates) = <<>> THEN Given(shown, "supersedes") ELSE ""]

(* The export as Web Annotations: each candidate with what its review made *)
(* of it, then the replacements.  The Label Studio tasks repeat the chain. *)
ExportItems(candidates, decisionOf, replacements) ==
  [i \in DOMAIN candidates |->
    [annotationId |-> Given(candidates[i], "annotationId"), revision |-> 1,
     body |-> Given(candidates[i], "body"), state |-> Given(decisionOf[i], "state")]]
  \o [i \in DOMAIN replacements |->
    [annotationId |-> Given(replacements[i], "annotationId"), revision |-> 0,
     body |-> Given(replacements[i], "body"), state |-> "accepted"]]

AnnotationReview(result) ==
  LET sets == On(result, "annotation.set")
      candidates == On(result, "annotation.candidates")
      reviews == On(result, "annotation.reviews")
      revisions == On(result, "annotation.revisions")
      replacements == SelectSeq(revisions, IsReplacement)
      decisions == SelectSeq(revisions, LAMBDA e : ~IsReplacement(e))
      set == sets[1].payload.data
      of(events, id) == CHOOSE e \in ToSet(events) : Given(e, "annotationId") = id
      accepted(id) == \E r \in ToSet(reviews) : Given(r, "annotationId") = id /\ Given(r, "decision") = "accept"
      replaced(id) == \E r \in ToSet(replacements) : Given(r, "annotationId") = id
      current == SelectSeq(set.authoredOrder, LAMBDA id : replaced(id) \/ accepted(id))
      authored == SelectSeq(set.authoredOrder, replaced)
      sound ==
        /\ Len(sets) = 1 /\ candidates # <<>> /\ set.setId # "" /\ set.wholeSnapshot
        /\ Distinct(candidates, "annotationId")
        /\ Each(candidates, LAMBDA e : CandidateHolds(result, e, set.setId))
        /\ Distinct(reviews, "annotationId") /\ Distinct(reviews, "reviewId")
        /\ Each(reviews, LAMBDA e : ReviewHolds(result, e, set.setId, candidates))
        /\ Len(reviews) = Len(candidates)
        /\ Distinct(revisions, "revisionId")
        /\ Each(revisions, LAMBDA e : Given(e, "annotationId") # "" /\ Given(e, "setId") = set.setId
                                       /\ Field(e.payload.data, "proper", TRUE))
        /\ Distinct(replacements, "annotationId") /\ Distinct(decisions, "annotationId")
        /\ Each(replacements, LAMBDA e : ReplacementHolds(result, e, set.setId))
        /\ Each(decisions, LAMBDA e : DecisionHolds(result, e, set.setId, candidates, reviews))
        /\ Len(decisions) = Len(candidates)
        /\ Each(reviews, LAMBDA e : SupersedeHolds(result, e, replacements))
        /\ ChainsEnd(replacements)
        /\ SetHolds(set, candidates, reviews, revisions, replacements, current)
      decisionOf == [i \in DOMAIN candidates |-> of(decisions, Given(candidates[i], "annotationId"))]
      reviewOf == [i \in DOMAIN candidates |-> of(reviews, Given(candidates[i], "annotationId"))]
  IN  IF ~sound THEN Unsound
      ELSE ProjectionOutput([setId |-> set.setId,
                   reviewChain |-> [i \in DOMAIN candidates |->
                     [annotationId |-> Given(candidates[i], "annotationId"),
                      decision |-> Given(reviewOf[i], "decision"), state |-> Given(decisionOf[i], "state"),
                      replacement |-> Given(reviewOf[i], "supersededBy")]],
                   current |-> [i \in DOMAIN current |->
                     CurrentAnnotation(current[i], candidates, replacements)],
                   items |-> ExportItems(candidates, decisionOf,
                     [i \in DOMAIN authored |-> of(replacements, authored[i])])],
                  Payloads(candidates \o reviews \o revisions),
                  [i \in DOMAIN candidates |-> candidates[i].eventId]
                    \o [i \in DOMAIN candidates |-> reviewOf[i].eventId]
                    \o [i \in DOMAIN candidates |-> decisionOf[i].eventId],
                  References(result, ToSet(sets \o candidates \o reviews \o revisions)))

-----------------------------------------------------------------------------
(* runAdapters                                                             *)

AdapterImplementations == {"result-summary", "data-table", "notebook", "annotation-review"}

AdapterOutput(result, id) ==
  CASE id = "result-summary" -> ResultSummary(result)
    [] id = "data-table" -> DataTable(result)
    [] id = "notebook" -> Notebook(result)
    [] id = "annotation-review" -> AnnotationReview(result)

(* The projectionId is made of an output that names no run instance.       *)
AdapterProjectionSeed(result, id, output) ==
  LET replacements == OperationalReferenceMap(result.instance, result.channelSnapshots,
                                              result.sourceMaps, result.activities)
  IN  [kind |-> "succeeded", adapter |-> id, resultId |-> result.resultId, data |-> output.data,
       payloads |-> [i \in DOMAIN output.payloads |-> NormalizedPayload(output.payloads[i], replacements)],
       refs |-> NormalizeReferences(output.refs, replacements)]

NoReferences == [events |-> {}, anchors |-> {}, mappings |-> {}, activities |-> {}]

UnsupportedProjection(result, id, status) ==
  [adapter |-> id, sourceResultRef |-> result.resultId, status |-> status, output |-> Unsound,
   projectionId |-> [kind |-> status, adapter |-> id, resultId |-> result.resultId],
   references |-> NoReferences]

(* What a projection refers to is in the result.                           *)
ValidateProjection(projection, result) ==
  /\ projection.sourceResultRef = result.resultId
  /\ projection.references.events \subseteq {e.eventId : e \in EventsOf(result.channelSnapshots)}
  /\ projection.references.anchors \subseteq DOMAIN result.anchors
  /\ projection.references.mappings \subseteq {m.mappingId : m \in ToSet(result.sourceMaps)}
  /\ projection.references.activities \subseteq KnownActivities(result)

Compatible(result, manifest) ==
  \A channel \in DOMAIN manifest.channels :
    /\ channel \in DOMAIN result.channelSnapshots
    /\ result.channelSnapshots[channel].descriptor.schemaRef = manifest.channels[channel]

(* Why an adapter is not run at all.                                       *)
Refusal(result, id, capabilities) ==
  LET manifest == AdapterManifests[id]
  IN  IF id \notin DOMAIN AdapterManifests THEN "TBA-ADAPTER-UNKNOWN-LAB"
      ELSE IF ~ValidManifest(manifest) THEN "TBA-ADAPTER-MANIFEST-LAB"
      ELSE IF manifest.support # "playground-subset" THEN "TBA-ADAPTER-CONTRACT-ONLY-LAB"
      ELSE IF "textabana.result/lab-v1" \notin manifest.schemas THEN "TBA-ADAPTER-INPUT-LAB"
      ELSE IF ~(manifest.required \subseteq capabilities) THEN "TBA-ADAPTER-CAPABILITY-LAB"
      ELSE IF ~Compatible(result, manifest) THEN "TBA-ADAPTER-INPUT-LAB"
      ELSE IF id \notin AdapterImplementations THEN "TBA-ADAPTER-IMPLEMENTATION-LAB"
      ELSE ""

Validated(result, id, output, projection) ==
  IF output.sound /\ ValidateProjection(projection, result) THEN projection
  ELSE UnsupportedProjection(result, id, "failed")

Projected(result, id, output) ==
  Validated(result, id, output,
    [adapter |-> id, sourceResultRef |-> result.resultId, status |-> "succeeded", output |-> output,
     projectionId |-> AdapterProjectionSeed(result, id, output), references |-> output.references])

Projection(result, id, refusal) ==
  IF refusal = "" THEN Projected(result, id, AdapterOutput(result, id))
  ELSE UnsupportedProjection(result, id, "unsupported")

(* The adapters asked for, each once; none asked for is the summary.       *)
Requested(asked) ==
  IF asked = <<>> THEN <<"result-summary">>
  ELSE FoldLeft(LAMBDA ids, id : IF id \in ToSet(ids) THEN ids ELSE Append(ids, id), <<>>, asked)

SkippedAdapters(result, asked) ==
  [status |-> "skipped", sourceResultRef |-> result.resultId, requested |-> Requested(asked),
   projections |-> <<>>, diagnostics |-> <<"TBA-ADAPTER-SKIPPED-LAB">>, immutable |-> TRUE]

(* One adapter more; one without a manifest leaves no projection.          *)
Adapted(run, refusal, projection) ==
  LET code == CASE refusal # "" -> <<refusal>>
                [] refusal = "" /\ projection.status = "failed" -> <<"TBA-ADAPTER-PROJECTION-LAB">>
                [] OTHER -> <<>>
  IN  [projections |-> IF refusal \in {"TBA-ADAPTER-UNKNOWN-LAB", "TBA-ADAPTER-MANIFEST-LAB"} THEN run.projections
                       ELSE Append(run.projections, projection),
       diagnostics |-> run.diagnostics \o code]

RunAdapter(run, result, id, refusal) == Adapted(run, refusal, Projection(result, id, refusal))

AdapterRun(result, asked, all) ==
  LET ended(status) == \E p \in ToSet(all.projections) : p.status = status
  IN  [status |-> CASE ended("failed") /\ ~ended("succeeded") -> "failed"
                    [] ~(ended("failed") /\ ~ended("succeeded")) /\ all.diagnostics # <<>> -> "partial"
                    [] OTHER -> "succeeded",
       sourceResultRef |-> result.resultId, requested |-> Requested(asked),
       projections |-> all.projections, diagnostics |-> all.diagnostics, immutable |-> TRUE]

RunAdapters(result, asked, capabilities) ==
  IF ~result.committed THEN SkippedAdapters(result, asked)
  ELSE AdapterRun(result, asked,
         FoldLeft(LAMBDA run, id : RunAdapter(run, result, id, Refusal(result, id, capabilities)),
                  [projections |-> <<>>, diagnostics |-> <<>>], Requested(asked)))

=============================================================================
