----------------------------- MODULE ChannelBus -----------------------------
(***************************************************************************)
(* createChannelBus of runtime/channels.js: what a run's transforms emit,  *)
(* the descriptors of their channels, the anchors they are bound to, the   *)
(* source maps and the trace of the run's stages.                          *)
(*                                                                         *)
(* An operational reference is a tuple with its kind and the number of the *)
(* run instance; 0 stands for "$semantic".  A payload is data and, by      *)
(* name, the references in it.  An emission is what a transform calls emit *)
(* with; optional fields are those its call may leave out.                 *)
(***************************************************************************)
EXTENDS RunPolicy, Sequences, FiniteSets, SequencesExt, TLC

NoError == "no error"
TypeError == "TBA-TYPE-CHANNEL-LAB"
RunError == "TBA-RUN-LAB"
LimitError == "TBA-RUN-EVENT-LIMIT-LAB"

Field(r, name, otherwise) == IF name \in DOMAIN r THEN r[name] ELSE otherwise
Nothing == [x \in {} |-> x]

-----------------------------------------------------------------------------
(* Descriptors                                                             *)

Declared == [schemaRef |-> "playground", persistence |-> "durable", required |-> FALSE,
             declared |-> TRUE, schema |-> FALSE]

InferChannelDescriptor == [Declared EXCEPT !.schemaRef = "inferred", !.declared = FALSE]

(* The first declaration of a channel counts, and an emission on it before *)
(* any is one.                                                             *)
Declare(b, channel, descriptor) ==
  IF channel \in DOMAIN b.descriptors \cup {"", "render"} THEN b
  ELSE [b EXCEPT !.descriptors = (channel :> descriptor) @@ @]

CreateChannelBus(run) ==
  [run |-> run,               \* instance, version of the document, strict
   control |-> run.control,
   descriptors |-> "system.out" :> Declared
                     @@ "diagnostics" :> [Declared EXCEPT !.persistence = "transient"],
   anchors |-> Nothing, events |-> <<>>, sourceMaps |-> <<>>, trace |-> <<>>,
   fault |-> NoError]

-----------------------------------------------------------------------------
(* The identities of a stage's execution.  A stage served from the cache   *)
(* has an activity of another kind.                                        *)
Execution(run, node, mode) ==
  [node |-> node, runRef |-> <<"run", run.instance>>,
   stageId |-> <<"stage", run.instance, node>>,
   invocationId |-> <<"invocation", run.instance, node>>,
   activityId |-> <<"activity", run.instance, node, mode>>]

RecordStage(b, execution, cache) ==
  [b EXCEPT !.trace = Append(@, [functionInvoked |-> cache = Nothing, cache |-> cache] @@ execution)]

-----------------------------------------------------------------------------
(* emit                                                                    *)

RowId(b, execution, at) == Field(at, "rowId", <<b.run.version, execution.node, at.line>>)

(* An annotation, a cell or a row keeps its anchor over versions; a line   *)
(* does not.                                                               *)
AnchorId(b, execution, at) ==
  CASE "annotationId" \in DOMAIN at -> <<"annotation", Field(at, "setId", "annotations"), at.annotationId>>
    [] "annotationId" \notin DOMAIN at /\ "cellId" \in DOMAIN at ->
         <<"cell", Field(at, "notebookId", "notebook"), at.cellId>>
    [] {"annotationId", "cellId"} \cap DOMAIN at = {} /\ at.mode = "row" ->
         <<"row", RowId(b, execution, at)>>
    [] OTHER -> <<"line", b.run.version, at.line, Field(at, "column", 1)>>

Domains == {"setId", "annotationId", "notebookId", "cellId"}

CreateBusAnchor(b, execution, at) ==
  [anchorId |-> AnchorId(b, execution, at), version |-> b.run.version, line |-> at.line,
   target |-> [name \in Domains \cap DOMAIN at |-> at[name]],
   stageId |-> execution.stageId, invocationId |-> execution.invocationId, node |-> execution.node]

(* What an emission's place says of the output it made.                    *)
OutputSelector(at) ==
  LET given(names) == names \subseteq DOMAIN at
      optional(name) == [n \in {name} \cap DOMAIN at |-> at[n]]
  IN  CASE given({"setId", "annotationId"}) ->
             [type |-> "AnnotationSelector", setId |-> at.setId, annotationId |-> at.annotationId]
               @@ optional("revision")
        [] ~given({"setId", "annotationId"}) /\ given({"datasetId", "recordId"}) ->
             [type |-> "DataSelector", datasetId |-> at.datasetId, recordId |-> at.recordId]
               @@ optional("columnName")
        [] ~given({"setId", "annotationId"}) /\ ~given({"datasetId", "recordId"})
             /\ given({"notebookId", "cellId"}) ->
             [type |-> "CellSelector", notebookId |-> at.notebookId, cellId |-> at.cellId]
        [] OTHER -> [type |-> "none"]

(* A reference a transform took from an event emit gave it.                *)
Taken(b, reference) ==
  LET event == b.events[reference.of]
  IN  CASE reference.kind = "event" -> event.eventId
        [] reference.kind = "activity" -> event.provenanceRef
        [] reference.kind = "run" -> event.runRef

(* One to an event that was never made is undefined, and left out.         *)
Payload(b, e) ==
  LET refs == Field(e, "refs", Nothing)
  IN  [data |-> e.data,
       refs |-> [name \in {n \in DOMAIN refs : refs[n].of \in DOMAIN b.events} |-> Taken(b, refs[name])]]

(* The anchors of earlier events; there is none of an event nobody made.   *)
InputAnchors(b, e, own) ==
  IF "inputs" \notin DOMAIN e THEN {own}
  ELSE {IF i \in DOMAIN b.events THEN b.events[i].target.anchorRef ELSE <<"no anchor">> : i \in e.inputs}

NameError(b, e) ==
  CASE e.channel = "" -> TypeError
    [] e.channel \in {"render", "system.err"} -> RunError
    [] b.run.strict /\ e.channel \notin DOMAIN b.descriptors -> TypeError
    [] OTHER -> NoError

(* A payload that breaks its channel's schema; without one, only a strict  *)
(* run wants it to be JSON.                                                *)
BreaksSchema(b, e) == ~Field(e, "valid", TRUE) /\ (b.descriptors[e.channel].schema \/ b.run.strict)

BusEvent(b, execution, e, anchorId) ==
  LET sequence == Len(b.events) + 1
  IN  [eventId |-> <<"event", b.run.instance, b.run.version, sequence>>, sequence |-> sequence,
       runRef |-> execution.runRef, documentVersion |-> b.run.version,
       channel |-> e.channel, line |-> e.at.line, payload |-> Payload(b, e),
       target |-> [anchorRef |-> anchorId, rowId |-> RowId(b, execution, e.at)] @@ e.at,
       mapping |-> Field(e, "mapping", "exact"),
       node |-> execution.node, stageId |-> execution.stageId,
       invocationId |-> execution.invocationId, provenanceRef |-> execution.activityId]

SourceMap(event, inputs, at) ==
  [mappingId |-> <<"mapping">> \o Tail(event.eventId), outputRef |-> event.eventId,
   inputAnchorRefs |-> inputs, mapping |-> event.mapping,
   generatingActivity |-> event.provenanceRef, outputSelector |-> OutputSelector(at)]

(* An error leaves what was done before it; the anchor, in place of one    *)
(* with its id, is made before the inputs are looked at.                   *)
EmitOnBus(b, execution, e) ==
  LET described == Declare(b, e.channel, InferChannelDescriptor)
      anchor == CreateBusAnchor(b, execution, e.at)
      anchored == [described EXCEPT !.anchors = (anchor.anchorId :> anchor) @@ @]
      inputs == InputAnchors(b, e, anchor.anchorId)
      event == BusEvent(b, execution, e, anchor.anchorId)
      faulty(bus, code) == [bus EXCEPT !.fault = code, !.control = MarkError(@, code)]
  IN  CASE NameError(b, e) # NoError -> faulty(b, NameError(b, e))
        [] NameError(b, e) = NoError /\ BreaksSchema(described, e) -> faulty(described, TypeError)
        [] NameError(b, e) = NoError /\ ~BreaksSchema(described, e) /\ AtEventLimit(b.control) ->
             faulty(described, LimitError)
        [] NameError(b, e) = NoError /\ ~BreaksSchema(described, e) /\ ~AtEventLimit(b.control)
             /\ (inputs = {} \/ ~(inputs \subseteq DOMAIN anchored.anchors)) ->
             faulty(anchored, RunError)
        [] OTHER -> [anchored EXCEPT !.events = Append(@, event),
                                     !.sourceMaps = Append(@, SourceMap(event, inputs, e.at)),
                                     !.control = RecordChannelEvent(@)]

(* A transform may catch the error of an emission; otherwise it ends.      *)
EmissionDone(b, execution, e) ==
  LET after == EmitOnBus(b, execution, e)
  IN  IF b.fault # NoError THEN b
      ELSE IF Field(e, "caught", FALSE) THEN [after EXCEPT !.fault = NoError] ELSE after

(* callFunction: its descriptors are declared before the transform runs,   *)
(* and a transform that fails is in the trace too.                         *)
InvokeStage(b, node, stage) ==
  LET execution == Execution(b.run, node, "invocation")
      declared == FoldLeft(LAMBDA bus, d : Declare(bus, d.channel, d.descriptor), b, stage.declares)
  IN  RecordStage(FoldLeft(LAMBDA bus, e : EmissionDone(bus, execution, e), declared, stage.emissions),
                  execution, Nothing)

(* A stage the cache serves emits nothing.                                 *)
MaterializeStage(b, node, evidence) ==
  RecordStage(b, Execution(b.run, node, "cache-materialization"),
              [cacheEntryId |-> <<"entry", node>>, evidence |-> evidence])

=============================================================================
