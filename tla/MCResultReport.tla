--------------------------- MODULE MCResultReport ---------------------------
(* Small scripts for TLC, by what their transforms emit.                   *)
EXTENDS ResultReport

Stage(declares, emissions) == [declares |-> declares, emissions |-> emissions]
Pure == Stage(<<>>, <<>>)
UnknownStage == [unknown |-> TRUE] @@ Pure

Descriptor(schemaRef) == [Declared EXCEPT !.schemaRef = schemaRef]
Declaration(channel, schemaRef) == [channel |-> channel, descriptor |-> Descriptor(schemaRef)]

OnLine(line) == [mode |-> "line", line |-> line]
OnRow(line, rowId) == [mode |-> "row", line |-> line, rowId |-> rowId]
Says(channel, at, data) == [channel |-> channel, at |-> at, data |-> data]

Script(stages, asked) ==
  [stages |-> stages, asked |-> asked, fixture |-> "ad-hoc", strict |-> FALSE, lines |-> 2,
   limits |-> Nothing, executable |-> TRUE]

(* The emissions with one of them replaced by an alternative.  One that is *)
(* left out leaves a transient event, for others to keep their numbers.    *)
Removed == Says("diagnostics", OnLine(1), Nothing)
Varied(emissions, alternatives(_)) ==
  {emissions} \cup UNION {{[emissions EXCEPT ![i] = other] : other \in alternatives(i) \cup {Removed}} :
                           i \in DOMAIN emissions}

But(e, name, value) == [e EXCEPT !.data = (name :> value) @@ @]

-----------------------------------------------------------------------------
(* Channels: what an emission may name, break and refer to.                *)

Out == Says("system.out", OnLine(1), "out")
Refer(kind) == [refs |-> [to |-> [kind |-> kind, of |-> 1]]]
Emissions ==
  {Out, Says("diagnostics", OnLine(2), "warning"), Says("notes", OnLine(2), "note"),
   Says("notes", OnRow(2, "r"), "note"), Says("data.lineage", OnLine(1), Nothing),
   Says("system.out", OnLine(3), "past the end"), Says("diagnostics", OnLine(3), "past the end"),
   Says("", OnLine(1), "nowhere"), Says("render", OnLine(1), "text"),
   [valid |-> FALSE] @@ Out, [valid |-> FALSE, caught |-> TRUE] @@ Says("notes", OnLine(2), "note"),
   [inputs |-> {}] @@ Out, [inputs |-> {0}, caught |-> TRUE] @@ Says("system.out", OnLine(2), "out"),
   [inputs |-> {1}, mapping |-> "derived"] @@ Says("system.out", OnLine(2), "out")}
  \cup {Refer(kind) @@ Out : kind \in {"event", "activity", "run"}}

Strict == [schemaRef |-> "notes", persistence |-> "durable", required |-> TRUE, declared |-> TRUE, schema |-> TRUE]

ChannelScripts ==
  {[Script(<<Stage(declares, <<first, second>>), last>>, <<>>)
      EXCEPT !.strict = strict, !.limits = limits] :
     declares \in {<<>>, <<[channel |-> "notes", descriptor |-> Strict]>>},
     first \in {Out, Says("diagnostics", OnLine(1), "warning"), Says("notes", OnLine(1), "note")},
     second \in Emissions, strict \in BOOLEAN,
     last \in {Pure, Stage(<<>>, <<Refer("event") @@ Out>>),
               Stage(<<Declaration("notes", "late")>>,
                     <<[inputs |-> {1}] @@ Says("diagnostics", OnRow(2, "r"), "warning")>>)},
     limits \in {Nothing, [maxChannelEvents |-> 1]}}

(* Stages the cache may serve, beside one it may not.                      *)
ServedScripts ==
  {Script(stages, asked) : asked \in {<<>>, <<"data-table">>},
     stages \in {<<Pure, Pure>>, <<Pure, Stage(<<>>, <<Refer("activity") @@ Out>>), Pure>>}}

(* Fixtures, and what makes a run fail.                                    *)
CaseScripts ==
  {[Script(stages, asked) EXCEPT !.fixture = fixture, !.strict = TRUE, !.executable = executable,
                                 !.limits = limits] :
     fixture \in DOMAIN ConformanceCases \cup {"ad-hoc", "other"}, executable \in BOOLEAN,
     stages \in {<<Stage(<<>>, <<Out>>)>>, <<Stage(<<>>, <<Out>>), UnknownStage>>,
                 <<Stage(<<>>, <<Says("notes", OnLine(1), "note")>>)>>},
     asked \in {<<>>, <<"ml-lineage", "result-summary", "no-such-adapter">>},
     limits \in {Nothing, [maxStageResolutions |-> 1], [maxChannelEvents |-> 0]}}

-----------------------------------------------------------------------------
(* Tables                                                                  *)

DataChannels ==
  <<Declaration("data.datasets", "dataset"), Declaration("data.input.records", "data-record"),
    Declaration("data.output.records", "data-record"), Declaration("data.lineage", "data-lineage"),
    Declaration("data.aggregates", "data-aggregate")>>

Record == "datasetId" :> "d" @@ "recordId" :> "x"
Lineage(granularity) == [granularity |-> granularity, output |-> Record]
Table ==
  <<Says("data.datasets", OnLine(1),
      [role |-> "output", datasetId |-> "d", recordCount |-> 1,
       fields |-> <<[name |-> "c", nullable |-> FALSE, type |-> "integer"]>>]),
    Says("data.input.records", OnRow(1, "a"), [recordId |-> "a"]),
    Says("data.input.records", OnRow(2, "b"), [recordId |-> "b"]),
    [inputs |-> {2, 3}, mapping |-> "derived"]
      @@ Says("data.output.records", Record @@ OnRow(1, "x"), [values |-> [c |-> "integer"]] @@ Record),
    [refs |-> [outputEventRef |-> [kind |-> "event", of |-> 4]]]
      @@ Says("data.lineage", OnLine(1), [inputRecordIds |-> <<"a", "b">>] @@ Lineage("record")),
    [mapping |-> "derived"]
      @@ Says("data.lineage", "columnName" :> "c" @@ Record @@ OnLine(1),
              [inputs |-> {"c"}, output |-> "columnName" :> "c" @@ Record, granularity |-> "cell"]),
    [mapping |-> "derived"] @@ Says("data.aggregates", OnLine(2), [mapping |-> "derived"])>>

TableAlternatives(i) ==
  CASE i = 1 -> {But(Table[1], "recordCount", 2), But(Table[1], "role", "input"),
                 But(Table[1], "fields", <<[name |-> "c", nullable |-> TRUE, type |-> "utf8"]>>),
                 But(Table[1], "fields", <<[name |-> "e", nullable |-> TRUE, type |-> "utf8"]>>)}
    [] i = 3 -> {[Table[3] EXCEPT !.at.rowId = "a"], But(Table[3], "recordId", "a"), Table[4]}
    [] i = 4 -> {[Table[4] EXCEPT !.mapping = "exact"], [Table[4] EXCEPT !.inputs = {2}],
                 [Table[4] EXCEPT !.at.recordId = "y"], But(Table[4], "recordId", ""),
                 But(Table[4], "values", [c |-> "null"])}
    [] i = 5 -> {But(Table[5], "inputRecordIds", <<"a">>), But(Table[5], "inputRecordIds", <<"a", "z">>),
                 But(Table[5], "output", [Record EXCEPT !.recordId = "y"])}
    [] i = 6 -> {[Table[6] EXCEPT !.at.columnName = "e"], But(Table[6], "inputs", {}), Table[5],
                 But(Table[5], "inputRecordIds", <<"y", "z">>),
                 But(Table[6], "output", "columnName" :> "e" @@ Record)}
    [] i = 7 -> {[Table[7] EXCEPT !.mapping = "exact"], But(Table[7], "mapping", "exact"), Table[4],
                 [Table[1] EXCEPT !.data.recordCount = 0]}
    [] OTHER -> {}

TableScripts ==
  {[Script(<<Stage(declares, emissions)>>, asked) EXCEPT !.strict = strict] :
     emissions \in Varied(Table, TableAlternatives),
     asked \in {<<"data-table", "result-summary", "data-table">>, <<"data-table">>}, strict \in {TRUE},
     declares \in {DataChannels}}
  \cup {Script(<<Stage(<<Declaration("data.datasets", "other")>>, Table)>>, <<"result-summary", "data-table">>),
        Script(<<Stage(DataChannels, Table)>>, <<>>)}

-----------------------------------------------------------------------------
(* Notebooks of two cells                                                  *)

NotebookChannels ==
  <<Declaration("notebook.snapshot", "notebook-snapshot"), Declaration("notebook.cells", "notebook-cell"),
    Declaration("notebook.outputs", "notebook-output"), Declaration("notebook.state", "notebook-state")>>

Bond == [notebookId |-> "n", snapshotId |-> "s"]
Cell(id) == "notebookId" :> "n" @@ "cellId" :> id @@ OnLine(IF id = "a" THEN 1 ELSE 2)
CellEvent(id, index) ==
  Says("notebook.cells", Cell(id), [cellId |-> id, index |-> index, sourceDigest |-> id] @@ Bond)
OutputEvent(id, cell) ==
  [inputs |-> {cell}, mapping |-> "derived"]
    @@ Says("notebook.outputs", Cell(id), [cellId |-> id, sourceDigest |-> id, status |-> "fresh"] @@ Bond)
Cells ==
  <<CellEvent("a", 0), CellEvent("b", 1), OutputEvent("a", 1), OutputEvent("b", 2),
    Says("notebook.snapshot", OnLine(1),
      [wholeSnapshot |-> TRUE, profile |-> "p", cellCount |-> 2, cellIds |-> <<"a", "b">>] @@ Bond),
    Says("notebook.state", OnLine(1),
      [wholeSnapshot |-> TRUE, profile |-> "p", requestedProfile |-> "fresh",
       executionSupport |-> "playground-subset", kernelState |-> "not-used"] @@ Bond)>>

NotebookAlternatives(i) ==
  CASE i = 1 -> {CellEvent("b", 1), [Cells[1] EXCEPT !.at.cellId = "b"], But(Cells[1], "sourceDigest", "new")}
    [] i = 2 -> {CellEvent("a", 0), But(Cells[2], "index", 0), But(Cells[2], "snapshotId", "t")}
    [] i = 3 -> {OutputEvent("b", 2), OutputEvent("b", 1), But(Cells[3], "status", "stale"),
                 [Cells[3] EXCEPT !.inputs = {2}], [Cells[3] EXCEPT !.mapping = "exact"],
                 But(Cells[3], "proper", FALSE)}
    [] i = 4 -> {OutputEvent("a", 1), But(Cells[4], "sourceDigest", "a")}
    [] i = 5 -> {But(Cells[5], "cellIds", <<"b", "a">>), But(Cells[5], "wholeSnapshot", FALSE), Cells[6]}
    [] i = 6 -> {But(Cells[6], "requestedProfile", "session"), But(Cells[6], "snapshotId", "t"),
                 [Cells[6] EXCEPT !.data = [requestedProfile |-> "attached", executionSupport |-> "contract-only",
                                            kernelState |-> "external-unverified"] @@ @]}

(* The cells in another order than their numbers, and two edits at once.   *)
NotebookScripts ==
  {[Script(<<Stage(NotebookChannels, emissions)>>, asked) EXCEPT !.strict = TRUE] :
     emissions \in Varied(Cells, NotebookAlternatives)
       \cup UNION {{[Cells EXCEPT ![3] = x, ![4] = y] : x \in NotebookAlternatives(3)} : y \in NotebookAlternatives(4)},
     asked \in {<<"result-summary", "notebook">>}}
  \cup {Script(<<Stage(NotebookChannels, SubSeq(Cells, 1, 2)), Pure,
                 Stage(NotebookChannels, SubSeq(Cells, 3, 6))>>, <<"notebook", "result-summary">>)}

-----------------------------------------------------------------------------
(* Annotations: two candidates, their reviews and what came of them.       *)

AnnotationChannels ==
  <<Declaration("annotation.set", "annotation-set"), Declaration("annotation.candidates", "annotation-candidate"),
    Declaration("annotation.reviews", "annotation-review"),
    Declaration("annotation.revisions", "annotation-revision")>>

Annotation(id, revision) ==
  [mode |-> "line", line |-> IF id = "b" THEN 2 ELSE 1, setId |-> "s", annotationId |-> id, revision |-> revision]
Of(id, revision) == [setId |-> "s", annotationId |-> id, revision |-> revision]
Ref(event) == [kind |-> "event", of |-> event]

Candidate(id) ==
  Says("annotation.candidates", Annotation(id, 0),
       [origin |-> "ai", status |-> "candidate", body |-> id] @@ Of(id, 0))
Replacement(id, old) ==
  Says("annotation.revisions", Annotation(id, 0),
       [origin |-> "human", state |-> "accepted", supersedes |-> old, revisionId |-> "human", body |-> "new"]
         @@ Of(id, 0))
Review(id, decision, candidate, inputs, new) ==
  [inputs |-> inputs, mapping |-> "derived", refs |-> [candidateEventRef |-> Ref(candidate)]]
    @@ Says("annotation.reviews", Annotation(id, 1),
            [reviewId |-> id, decision |-> decision, reviewer |-> "someone", supersededBy |-> new] @@ Of(id, 1))
Revision(id, decision, candidate, review) ==
  [mapping |-> "derived", refs |-> [reviewEventRef |-> Ref(review), basedOnEventRef |-> Ref(candidate)]]
    @@ Says("annotation.revisions", Annotation(id, 1),
            [origin |-> "human-review", state |-> Decided[decision], revisionId |-> id] @@ Of(id, 1))

(* The decisions on the candidates a and b; a replacement new, if any, of  *)
(* old; and what a set of them must say.                                   *)
Reviewed(onA, onB, new, old) ==
  LET replaced == new # ""
      by(id, decision) == IF decision = "supersede" THEN new ELSE ""
      decision == "a" :> onA @@ "b" :> onB
      ids == <<"a", "b">> \o (IF replaced /\ new \notin {"a", "b"} THEN <<new>> ELSE <<>>)
      inputs(i, d) == IF d = "supersede" THEN {i, 3} ELSE {i}
  IN  <<Candidate("a"), Candidate("b"), IF replaced THEN Replacement(new, old) ELSE Removed,
        Review("a", onA, 1, inputs(1, onA), by("a", onA)), Review("b", onB, 2, inputs(2, onB), by("b", onB)),
        Revision("a", onA, 1, 4), Revision("b", onB, 2, 5),
        Says("annotation.set", OnLine(1),
          [setId |-> "s", wholeSnapshot |-> TRUE, authoredOrder |-> ids, candidateIds |-> <<"a", "b">>,
           annotationIds |-> <<"a", "b">> \o (IF replaced THEN <<new>> ELSE <<>>),
           currentIds |-> SelectSeq(ids, LAMBDA id : IF id = new THEN TRUE ELSE decision[id] = "accept"),
           candidateCount |-> 2, reviewCount |-> 2, revisionCount |-> IF replaced THEN 3 ELSE 2])>>

Reviews ==
  {Reviewed(onA, onB, new, old) : onA \in {"accept", "reject"}, onB \in DOMAIN Decided,
     new \in {"", "new", "a"}, old \in {"a", "b", "new"}}

Superseded == Reviewed("accept", "supersede", "new", "b")
AnnotationAlternatives(i) ==
  CASE i = 1 -> {Candidate("b"), But(Superseded[1], "decision", "accept"), But(Superseded[1], "proper", FALSE),
                 [Superseded[1] EXCEPT !.at.revision = 1], But(Superseded[1], "origin", "human")}
    [] i = 3 -> {Replacement("new", "a"), [Superseded[3] EXCEPT !.at.annotationId = "other"]}
    [] i = 4 -> {Review("a", "accept", 2, {1}, ""), Review("a", "accept", 1, {2}, ""), Review("b", "accept", 2, {2}, ""),
                 Review("a", "reject", 1, {1}, ""), Review("a", "accept", 1, {1}, "new"),
                 But(Superseded[4], "reviewId", "b"), But(Superseded[4], "reviewer", "")}
    [] i = 5 -> {Review("b", "supersede", 2, {2}, "new"), Review("b", "supersede", 2, {2, 3}, "a"),
                 Review("b", "supersede", 2, {2, 3}, "")}
    [] i = 6 -> {Revision("a", "reject", 1, 4), Revision("a", "accept", 2, 4), Revision("a", "accept", 1, 5),
                 But(Superseded[6], "revisionId", "b"), But(Superseded[6], "revisionId", "")}
    [] i = 7 -> {Revision("a", "accept", 1, 4), Replacement("b", "a")}
    [] i = 8 -> {But(Superseded[8], "currentIds", <<"a">>), But(Superseded[8], "candidateCount", 1),
                 But(Superseded[8], "authoredOrder", <<"new", "a", "b">>),
                 But(Superseded[8], "wholeSnapshot", FALSE), But(Superseded[8], "annotationIds", <<"a">>)}
    [] OTHER -> {}

AnnotationScripts ==
  {[Script(<<Stage(AnnotationChannels, emissions)>>, <<"annotation-review", "result-summary">>)
      EXCEPT !.strict = TRUE] :
     emissions \in Reviews \cup Varied(Superseded, AnnotationAlternatives)}

MCScripts ==
  [channels |-> ChannelScripts, served |-> ServedScripts, cases |-> CaseScripts, tables |-> TableScripts,
   notebooks |-> NotebookScripts, annotations |-> AnnotationScripts]
=============================================================================
