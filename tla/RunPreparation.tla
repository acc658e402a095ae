---------------------------- MODULE RunPreparation ----------------------------
(***************************************************************************)
(* What executeRun of runtime/worker-entry.js does before the wave         *)
(* scheduler starts and after it ended well: admit the modules, parse the  *)
(* document, load what it includes, compile the plan, preview what of the  *)
(* committed plan it invalidates; then publish the result and its delta.   *)
(* The document is edited once and run again.                              *)
(*                                                                         *)
(* The stages' own execution is Scheduler's; here they only emit.          *)
(***************************************************************************)
EXTENDS ExecutionGraph, ModuleLoader, MetadataDelta

(* Corpora: the families of input TLC reads, by name.  A corpus is the     *)
(* lines every document starts with, the lines that may follow, how many of them, the  *)
(* lines an edit may put in, and the projects (modules, lock, grants).     *)
CONSTANTS Corpora,
          Emission,    \* of each function: "line", "note", "row" or "none"
          Channels     \* the channels of the subscription, {"*"} for all

ASSUME CorporaAssumption ==
  \A name \in DOMAIN Corpora :
    LET c == Corpora[name] IN c.length \in Nat /\ Len(c.prefix) + c.length > 0

Functions == DOMAIN Emission

VARIABLES corpus, project,
          phase,          \* how far the run has come
          fault,          \* what ended it
          document,       \* the parser's state
          loader, plan, preview,
          events,         \* what the stages emitted
          delta,          \* the collections and the anchor transitions
          baseline        \* the committed result's plan, events and document

vars == <<corpus, project, phase, fault, document, loader, plan, preview, events, delta, baseline>>

NoBaseline == [plan |-> EmptyGraph, events |-> <<>>, document |-> EmptyDocument]
NoPreview == InvalidationPreview(EmptyGraph, EmptyGraph, {})
NoDelta == [collections |-> Collections(<<>>, <<>>), transitions |-> <<>>]

Init ==
  /\ corpus \in DOMAIN Corpora
  /\ project \in Corpora[corpus].projects
  /\ phase = "submitted" /\ fault = NoFault
  /\ document = EmptyDocument
  /\ loader = EmptyLoader /\ plan = EmptyGraph /\ preview = NoPreview
  /\ events = <<>> /\ delta = NoDelta /\ baseline = NoBaseline

-----------------------------------------------------------------------------

Advance(next, f) ==
  /\ phase' = IF f = NoFault THEN next ELSE "failed"
  /\ fault' = f

Verify ==
  /\ phase = "submitted"
  /\ Advance("reading", VerifyModulePackages(project.modules, project.lock, project.grants))
  /\ document' = FoldLeft(ParseLine, EmptyDocument, Corpora[corpus].prefix)
  /\ UNCHANGED <<corpus, project, loader, plan, preview, events, delta, baseline>>

ReadLine(l) ==
  /\ phase = "reading"
  /\ Len(document.source) < Len(Corpora[corpus].prefix) + Corpora[corpus].length
  /\ document' = ParseLine(document, l)
  /\ UNCHANGED <<corpus, project, phase, fault, loader, plan, preview, events, delta, baseline>>

EndOfDocument ==
  /\ phase = "reading"
  /\ document.source # <<>>
  /\ document' = Finish(document)
  /\ Advance("parsed", IF Executable(document') THEN NoFault ELSE "syntax")
  /\ UNCHANGED <<corpus, project, loader, plan, preview, events, delta, baseline>>

Includes ==
  LET included == SelectSeq(document.directives, LAMBDA d : d.kind = "include")
  IN  [i \in DOMAIN included |-> included[i].path]

Load ==
  /\ phase = "parsed"
  /\ loader' = LoadModules(Includes, project.modules)
  /\ Advance("loaded", loader'.fault)
  /\ UNCHANGED <<corpus, project, document, plan, preview, events, delta, baseline>>

(* What the compiler knows of the loaded modules; a function no module     *)
(* gave has none.                                                          *)
Resolved ==
  [moduleOf |-> [f \in Functions |->
                  IF f \in DOMAIN loader.registry THEN loader.registry[f] ELSE NoName],
   moduleSet |-> [i \in DOMAIN loader.loaded |->
                   <<loader.loaded[i], Content(FileOf(project.modules, loader.loaded[i]))>>],
   scopeOrder |-> ScopeOrder(document)]

(* The functions whose stages a cache may serve.                           *)
CacheCandidates == {f \in DOMAIN loader.registry : Emission[f] = "none"}

Compile ==
  /\ phase = "loaded"
  /\ plan' = CompileExecutionGraph(document, Resolved)
  /\ preview' = InvalidationPreview(plan', baseline.plan, CacheCandidates)
  /\ Advance("planned", IF IsExecutionGraph(plan') THEN NoFault ELSE "invalid graph")
  /\ UNCHANGED <<corpus, project, document, loader, events, delta, baseline>>

TextOf(doc) == [i \in DOMAIN doc.source |-> doc.source[i].text]

(* What a stage emits: at each of its lines, or once.                      *)
EmitOfStage(emitted, node) ==
  LET s == node.detail
      origin == [function |-> s.function, module |-> s.ownKey.module,
                 modality |-> s.context.modality, scopeId |-> s.context.scopeId]
      at(mode, line, rowId) == [mode |-> mode, line |-> line, rowId |-> rowId]
      first == s.context.lines[1]
      text == TextOf(document)
  IN  CASE Emission[s.function] = "none" -> emitted
        [] Emission[s.function] = "line" ->
             FoldLeft(LAMBDA e, line : Emit(e, text, "system.out", at("line", line, NoRow), origin),
                      emitted, [i \in 1..(s.context.lines[2] - first + 1) |-> first + i - 1])
        [] Emission[s.function] = "note" ->
             Emit(emitted, text, "notes", at("line", first, NoRow), origin)
        [] Emission[s.function] = "row" ->
             Emit(emitted, text, "notes", at("row", first, <<s.function>>), origin)

StagesInOrder == SelectSeq(plan.nodes, LAMBDA node : node.kind = "stage")

(* A stage whose function no module gave ends the run.                     *)
Execute ==
  /\ phase = "planned"
  /\ IF \E i \in Stages(plan) : plan.nodes[i].detail.function \notin DOMAIN loader.registry
     THEN Advance("executed", "function") /\ UNCHANGED events
     ELSE Advance("executed", NoFault) /\ events' = FoldLeft(EmitOfStage, <<>>, StagesInOrder)
  /\ UNCHANGED <<corpus, project, document, loader, plan, preview, delta, baseline>>

SelectedEditorEvents(emitted) ==
  SelectSeq(emitted, LAMBDA event : "*" \in Channels \/ event.channel \in Channels)

BuildEditorMetadataDelta(previous, current) ==
  [collections |-> Collections(IndexedEditorEvents(previous), IndexedEditorEvents(current)),
   transitions |-> EditorAnchorContinuity(Anchors(previous), Anchors(current))]

Publish ==
  /\ phase = "executed"
  /\ phase' = "published"
  /\ delta' = BuildEditorMetadataDelta(SelectedEditorEvents(baseline.events),
                                       SelectedEditorEvents(events))
  /\ UNCHANGED <<corpus, project, fault, document, loader, plan, preview, events, baseline>>

(* The result becomes the baseline; a line is replaced and the document    *)
(* parsed again.                                                           *)
EditAndRunAgain(i, l) ==
  /\ phase = "published" /\ baseline = NoBaseline
  /\ l # document.source[i]
  /\ baseline' = [plan |-> plan, events |-> events, document |-> document]
  /\ document' = Finish(FoldLeft(ParseLine, EmptyDocument, [document.source EXCEPT ![i] = l]))
  /\ Advance("parsed", IF Executable(document') THEN NoFault ELSE "syntax")
  /\ loader' = EmptyLoader /\ plan' = EmptyGraph /\ preview' = NoPreview
  /\ events' = <<>> /\ delta' = NoDelta
  /\ UNCHANGED <<corpus, project>>

Next ==
  \/ Verify
  \/ \E l \in Corpora[corpus].lines : ReadLine(l)
  \/ EndOfDocument \/ Load \/ Compile \/ Execute \/ Publish
  \/ \E i \in DOMAIN document.source : \E l \in Corpora[corpus].edits : EditAndRunAgain(i, l)

Spec == Init /\ [][Next]_vars

-----------------------------------------------------------------------------
(* Which documents can run                                                 *)

(* The length of the fence open before each line, 0 outside.               *)
FenceBefore(lines) ==
  LET after[i \in 0..Len(lines)] ==
        IF i = 0 THEN 0 ELSE
        LET fence == lines[i].lexical = "FenceLine"
        IN  IF after[i - 1] = 0 THEN (IF fence THEN lines[i].length ELSE 0)
            ELSE IF fence /\ lines[i].length >= after[i - 1] THEN 0 ELSE after[i - 1]
  IN  [i \in 1..Len(lines) |-> after[i - 1]]

LinesOfKind(lines, kind) ==
  {i \in DOMAIN lines : lines[i].lexical = kind /\ FenceBefore(lines)[i] = 0}

(* A way to close what is opened: each block by a line with its name, each *)
(* interval by a line that calls it, later.                                *)
Pairings(lines, opens, closes, calls(_, _)) ==
  {m \in [opens -> closes] :
    /\ \A i \in opens : i < m[i] /\ calls(i, m[i])
    /\ \A i, j \in opens : m[i] = m[j] => i = j
    /\ \A c \in closes : \E i \in opens : m[i] = c}

Nested(m) == \A i, j \in DOMAIN m : i < j /\ j < m[i] => m[j] < m[i]

(* The block a line is in, by its opening line; 0 for none.                *)
Enclosing(blocks, i) == {b \in DOMAIN blocks : b < i /\ i < blocks[b]}
Innermost(blocks, i) ==
  IF Enclosing(blocks, i) = {} THEN 0
  ELSE CHOOSE b \in Enclosing(blocks, i) : \A c \in Enclosing(blocks, i) : c <= b

StageOf(lines, i) == lines[i].header.parts[1]

(* Which interval of a document is at a line: intervals are numbered.      *)
NumberOf(opens, i) == Cardinality({j \in opens : j <= i})

(* Its id, given or by its name and number; these may coincide.            *)
IntervalId(lines, opens, i) ==
  LET args == StageOf(lines, i).args
      given == {k \in DOMAIN args : args[k].key = "@id"}
  IN  IF given # {} THEN args[CHOOSE k \in given : TRUE].value.value
      ELSE StageOf(lines, i).name \o "-" \o ToString(NumberOf(opens, i))

Names(lines, opens, i) == {StageOf(lines, i).name, IntervalId(lines, opens, i)}

IntervalsFit(lines, opens, blocks, m) ==
  /\ \A i \in opens : Innermost(blocks, i) = Innermost(blocks, m[i])
  (* A close ends the interval opened last of those it may mean.           *)
  /\ \A i, j \in opens : i < j /\ j < m[i] /\ m[i] < m[j] =>
       lines[m[i]].target \notin Names(lines, opens, j)
  (* No two open intervals have one id.                                    *)
  /\ \A i, j \in opens : i < j /\ j < m[i] =>
       IntervalId(lines, opens, i) # IntervalId(lines, opens, j)

(* What may stand in a header: each stage's arguments are named once, and  *)
(* the system's are those of its place and of their kind.                  *)
KindOfArgument(place) ==
  CASE place = "scope" -> [keys |-> {"@id", "@order"}, virtual |-> FALSE]
    [] place = "block-first" -> [keys |-> {"@inherit", "@intervals", "@cross"}, virtual |-> FALSE]
    [] place = "placement" -> [keys |-> {"only", "except", "order"}, virtual |-> TRUE]
    [] place = "block-stage" -> [keys |-> {}, virtual |-> FALSE]

Policies ==
  [inherit |-> {"default", "none", "explicit", "only", "except"}, cross |-> {"error"},
   order |-> {"asc", "desc"}]

ArgumentIsProper(key, value, virtual) ==
  CASE key = "@id" -> value.kind = "string"
    [] key = "@order" -> value.kind = "number"
    [] key \in {"@intervals", "only", "except"} /\ (virtual \/ key = "@intervals") -> value.kind = "list"
    [] key = "@inherit" -> value.kind = "string" /\ value.value \in Policies.inherit
    [] key = "@cross" -> value.kind = "string" /\ value.value \in Policies.cross
    [] key = "order" /\ virtual -> value.kind = "string" /\ value.value \in Policies.order
    [] OTHER -> value.kind # "malformed"

StageIsProper(part, place) ==
  LET kind == KindOfArgument(IF place = "block-stage" /\ part.name = "@intervals"
                             THEN "placement" ELSE place)
      keys == [k \in DOMAIN part.args |-> part.args[k].key]
  IN  /\ part.name # NoName
      /\ part.name \in Virtual <=> kind.virtual
      /\ \A k \in DOMAIN keys :
           /\ keys[k] # NoName
           /\ \A j \in DOMAIN keys : keys[j] = keys[k] => j = k
           /\ keys[k] \in Controls \/ kind.virtual => keys[k] \in kind.keys
           /\ ArgumentIsProper(keys[k], part.args[k].value, kind.virtual)
      /\ kind.virtual => ~({"only", "except"} \subseteq ToSet(keys))

HeaderIsProper(header, place) ==
  /\ header.balanced
  /\ \A k \in DOMAIN header.parts :
       StageIsProper(header.parts[k], IF k = 1 THEN place ELSE "block-stage")

IsWellFormed(lines) ==
  LET bo == LinesOfKind(lines, "BlockOpenLine")
      io == LinesOfKind(lines, "IntervalOpenLine")
      more == LinesOfKind(lines, "PipelineContinuationLine")
      named(i, j) == lines[j].target = StageOf(lines, i).name
      called(i, j) == lines[j].target \in Names(lines, io, i)
  IN  /\ LinesOfKind(lines, "InvalidMarkerLine") = {}
      /\ \A i \in LinesOfKind(lines, "DirectiveLine") : lines[i].valid
      /\ \A i \in io : Len(lines[i].header.parts) = 1 /\ HeaderIsProper(lines[i].header, "scope")
      /\ \A i \in bo : HeaderIsProper(lines[i].header, "block-first")
      /\ \A i \in more : HeaderIsProper(lines[i].header, "block-stage")
      /\ \A i \in more : i - 1 \in bo \cup more
      /\ \E blocks \in Pairings(lines, bo, LinesOfKind(lines, "BlockCloseLine"), named) :
           /\ Nested(blocks)
           /\ \E m \in Pairings(lines, io, LinesOfKind(lines, "IntervalCloseLine"), called) :
                IntervalsFit(lines, io, blocks, m)

(* A block and the blocks it is in.                                        *)
AndAround(c) ==
  LET outward[b \in 0..Len(document.blocks)] ==
        IF b = 0 THEN {} ELSE {b} \cup outward[document.blocks[b].parent]
  IN  outward[c]

(* A document runs if and only if its markers fit: every block is closed   *)
(* by its name and blocks nest, every interval is closed within its block  *)
(* by a line that means it and no interval opened later, no two open       *)
(* intervals share an id, and no marker, directive or header is malformed. *)
(* The parser's stacks, recovery nodes, displaced blocks and local scopes  *)
(* (runtime/parser.js:403-1055) never let a document through that does     *)
(* not, nor refuse one that does; and a block it calls executable holds no *)
(* recovery, however deep.                                                 *)
ExecutableIffWellFormed ==
  /\ phase \in {"parsed", "loaded"} => IsWellFormed(document.source)
  /\ fault = "syntax" =>
       /\ ~IsWellFormed(document.source)
       /\ \A b \in DOMAIN document.blocks : document.blocks[b].executable =>
            \A c \in DOMAIN document.blocks :
              b \in AndAround(c) =>
                \A k \in DOMAIN document.children[c + 1] : document.children[c + 1][k].kind # "Recovery"

(* The segments of an interval are lines between its markers: what the     *)
(* specification says of scopes (docs/reference/specification/ir-plan.md:  *)
(* 66, "Intervals MUST be represented as scopes and segment membership")   *)
(* and readers of the intermediate representation take from it.  The       *)
(* parser collects them by the interval's id (runtime/parser.js:1034-1051),*)
(* which a later interval may have again.                                  *)
SegmentsBelongToScope ==
  phase = "parsed" =>
    \A k \in DOMAIN document.scopes :
      \A i \in Segments(document, k) :
        document.scopes[k].openLine < i /\ i < document.scopes[k].closeLine

-----------------------------------------------------------------------------
(* What a plan means                                                       *)

Successor(i) == CHOOSE j \in Successors(plan, {i}) : TRUE

(* The stages from a node of the plan to the end.                          *)
PathFrom(start) ==
  LET path[i \in DOMAIN plan.nodes] ==
        IF plan.nodes[i].kind = "render" THEN <<>>
        ELSE LET s == plan.nodes[i].detail
                 rest == path[Successor(i)]
             IN  IF plan.nodes[i].kind = "stage"
                 THEN << <<s.function, s.context.modality, s.context.scopeId>> >> \o rest ELSE rest
  IN  path[start]

(* The source node that holds a line.                                      *)
SourceOf(i) ==
  {k \in DOMAIN plan.nodes :
    plan.nodes[k].kind = "source" /\ i \in plan.nodes[k].detail.lines[1]..plan.nodes[k].detail.lines[2]}

(* What the notation says.  The intervals around a line of a block, in the *)
(* order of the stages they stand for.                                     *)
IntervalsAround(i, b) ==
  LET p == document
      around == {k \in DOMAIN p.scopes : p.scopes[k].blockId = b
                                          /\ p.scopes[k].openLine < i /\ i < p.scopes[k].closeLine}
  IN  [set |-> around, rank |-> [k \in around |-> OrderOf(p.scopes[k].stage, k)]]

InOrder(around, chosen, direction) ==
  SetToSortSeq(chosen, LAMBDA j, k :
    \/ around.rank[j] = around.rank[k] /\ j < k
    \/ direction = "asc" /\ around.rank[j] < around.rank[k]
    \/ direction = "desc" /\ around.rank[j] > around.rank[k])

Chosen(around, mode, selection) ==
  CASE mode = "default" -> around.set
    [] mode \in {"none", "explicit"} -> {}
    [] mode = "only" -> {k \in around.set : selection \cap Called(document.scopes[k]) # {}}
    [] mode = "except" -> {k \in around.set : selection \cap Called(document.scopes[k]) = {}}

IntervalStages(ks) ==
  [i \in DOMAIN ks |-> <<document.scopes[ks[i]].name, "interval", document.scopes[ks[i]].id>>]

(* A block's value goes through its pipeline and then through the          *)
(* intervals around it, or through those it takes where it names them.     *)
BlockStages(b) ==
  LET block == document.blocks[b]
      around == IntervalsAround(block.openLine, block.parent)
      placed(stage) == InOrder(around, Chosen(around, ChoiceOf(stage), SelectionOf(stage)),
                               SortOf(stage, ScopeOrder(document)))
      steps == [i \in DOMAIN block.pipeline |->
                 LET stage == block.pipeline[i]
                 IN  IF stage.name = "@intervals" THEN IntervalStages(placed(stage))
                     ELSE << <<stage.name, "block", NoName>> >>]
      first == block.pipeline[1]
      inherited == InOrder(around, Chosen(around, InheritOf(first), ListOf(first, "@intervals")),
                           ScopeOrder(document))
  IN  FlattenSeq(steps)
        \o (IF \E i \in DOMAIN block.pipeline : block.pipeline[i].name = "@intervals"
            THEN <<>> ELSE IntervalStages(inherited))

BlockOfLine(i) ==
  LET around == {b \in DOMAIN document.blocks :
                  document.blocks[b].headerEndLine < i /\ i < document.blocks[b].closeLine}
  IN  IF around = {} THEN 0 ELSE CHOOSE b \in around : \A c \in around : c <= b

StagesOfLine(i) ==
  LET outward[b \in 0..Len(document.blocks)] ==
        IF b = 0 THEN <<>> ELSE BlockStages(b) \o outward[document.blocks[b].parent]
      b == BlockOfLine(i)
      around == IntervalsAround(i, b)
  IN  IntervalStages(InOrder(around, around.set, ScopeOrder(document))) \o outward[b]

ContentLines == {i \in DOMAIN document.sourceLines : document.sourceLines[i].content}

(* Every line of text is in one source of the plan and reaches the output  *)
(* through the stages the notation gives it: the intervals open at it, and *)
(* outward through each block, its pipeline and the intervals it is in, in *)
(* their order (runtime/execution-graph.js:374-543).  Texts keep their     *)
(* order.                                                                  *)
LinesGoThroughTheirStages ==
  phase = "planned" =>
    /\ \A i \in ContentLines :
         \E k \in DOMAIN plan.nodes : SourceOf(i) = {k} /\ PathFrom(k) = StagesOfLine(i)
    /\ FlattenSeq([k \in DOMAIN plan.nodes |->
                    IF plan.nodes[k].kind = "source" THEN plan.nodes[k].detail.text ELSE <<>>])
         = FlattenSeq([i \in DOMAIN document.source |->
                        IF i \in ContentLines THEN document.source[i].text ELSE <<>>])

-----------------------------------------------------------------------------
(* What an edit leaves alone                                               *)

(* What a node computes, whatever its functions do.                        *)
ValueOf(g, resolved, start) ==
  LET inputs(i) == g.nodes[i].inputs
      value[i \in DOMAIN g.nodes] ==
        CASE g.nodes[i].kind = "source" -> [text |-> g.nodes[i].detail.text]
          [] g.nodes[i].kind = "stage" ->
               [function |-> g.nodes[i].detail.function, arg |-> g.nodes[i].detail.arg,
                module |-> resolved, context |-> g.nodes[i].detail.context,
                input |-> value[inputs(i)[1]]]
          [] OTHER -> [merged |-> [k \in DOMAIN inputs(i) |-> value[inputs(i)[k]]]]
  IN  value[start]

ModuleSetOf(g, i) == g.nodes[i].detail.ownKey.moduleSet

(* The preview gives a verdict on every stage, and a stage it calls        *)
(* unchanged computes what it did in the committed plan: the same function *)
(* of the same modules, with the same argument and context, of the same    *)
(* value (runtime/execution-graph.js:257-372, 734-804).  The cache reads   *)
(* entries of such stages only.                                            *)
UnchangedMeansUnchanged ==
  phase = "planned" =>
    /\ preview.affected \cup preview.unchanged = Stages(plan)
    /\ \A i \in preview.unchanged :
         LET j == NodeOf(baseline.plan, plan.nodes[i].nodeId)
         IN  ValueOf(plan, ModuleSetOf(plan, i), i)
               = ValueOf(baseline.plan, ModuleSetOf(baseline.plan, j), j)

-----------------------------------------------------------------------------
(* Which modules a run may use                                             *)

IncludedBy(paths) ==
  paths \cup UNION {ToSet(FileOf(project.modules, q).includes) :
                     q \in {r \in paths : HasFile(project.modules, r)}}

RECURSIVE Closure(_)
Closure(paths) == IF IncludedBy(paths) = paths THEN paths ELSE Closure(IncludedBy(paths))

IsPinned(module) ==
  LET package == module.package
      entry == [identity |-> package.identity, entrypoint |-> module.path,
                digest |-> Content(module)]
  IN  /\ package.entrypoint = module.path
      /\ package.digest = Content(module)
      /\ package.required \subseteq project.grants
      /\ Cardinality({i \in DOMAIN project.lock : project.lock[i] = entry}) = 1

IsAdmissible ==
  LET modules == ToSet(project.modules)
      packages == {m \in modules : HasPackage(m)}
  IN  \/ packages = {} /\ project.lock = NoLock
      \/ /\ project.lock # NoLock
         /\ \A m \in modules : HasPackage(m) /\ IsPinned(m)
         /\ Cardinality({m.package.identity : m \in modules}) = Len(project.modules)
         /\ Cardinality({project.lock[i].identity : i \in DOMAIN project.lock}) = Len(project.lock)
         /\ Len(project.lock) = Len(project.modules)

IsResolvable ==
  LET included == Closure(ToSet(Includes))
      file(q) == FileOf(project.modules, q)
  IN  /\ Cardinality({m.path : m \in ToSet(project.modules)}) = Len(project.modules)
      /\ \A q \in included : HasFile(project.modules, q)
      /\ \A q \in included : q \notin Closure(ToSet(file(q).includes))
      /\ \A q, r \in included : file(q).functions \cap file(r).functions # {} => q = r
      /\ \A m \in ToSet(project.modules) : HasPackage(m) =>
           m.package.declared = IF m.path \in included THEN m.functions ELSE {}

(* A run gets past the loader if and only if every module is pinned or     *)
(* none claims to be, and what the document includes, directly or not,     *)
(* exists, has no cycle, defines no function twice and, where packaged,    *)
(* exactly what the manifest declares; and then it has the functions of    *)
(* the modules reached, each of its own module, and no others              *)
(* (runtime/module-admission.js:16-82, runtime/module-loader.js:37-56).    *)
LoadsWhatIsPinnedAndReached ==
  /\ phase = "reading" => IsAdmissible
  /\ fault \in {"manifest", "duplicate", "entrypoint", "digest", "lock", "grant"} => ~IsAdmissible
  /\ fault \in {"cycle", "missing", "redefined", "contract", "duplicate path"} => ~IsResolvable
  /\ phase = "loaded" =>
       /\ IsResolvable
       /\ ToSet(loader.loaded) = Closure(ToSet(Includes))
       /\ \A q \in ToSet(loader.loaded) : \A f \in Functions :
            f \in FileOf(project.modules, q).functions
              <=> f \in DOMAIN loader.registry /\ loader.registry[f] = q

-----------------------------------------------------------------------------
(* What the subscriber is told                                             *)

(* A host keeps the events by identity.                                    *)
Mirror(index) ==
  [id \in {index[key].identity : key \in DOMAIN index} |->
    LET key == CHOOSE k \in DOMAIN index : index[k].identity = id
    IN  <<SemanticValue(index[key].event), index[key].event.line>>]

ApplyDelta(mirror, c) ==
  LET gone == {entry.identity : entry \in c.removed}
      puts == c.added \cup c.changed \cup c.moved
      ids(entries) == {entry.identity : entry \in entries}
      put(id) == CHOOSE entry \in puts : entry.identity = id
  IN  [id \in ids(puts) \cup (DOMAIN mirror \ gone) |->
        IF id \in ids(puts) THEN <<SemanticValue(put(id).event), put(id).event.line>>
        ELSE mirror[id]]

MirrorOf(emitted) == Mirror(IndexedEditorEvents(SelectedEditorEvents(emitted)))

AnchorsOf(emitted) == ToSet(Anchors(SelectedEditorEvents(emitted)))

(* A host that had the events of the old result and applies the delta has  *)
(* the events of the new one, whatever was re-keyed by the edit, stands    *)
(* twice under a key, or moved; every old anchor is accounted for once and *)
(* every new one once, and none is linked by resemblance when another      *)
(* resembles it as much (runtime/editor-kernel.js:396-671).                *)
DeltaBringsTheHostUpToDate ==
  phase = "published" =>
    /\ ApplyDelta(MirrorOf(baseline.events), delta.collections) = MirrorOf(events)
    /\ \A a \in AnchorsOf(baseline.events) :
         Cardinality({t \in DOMAIN delta.transitions : a \in delta.transitions[t].from}) = 1
    /\ \A a \in AnchorsOf(events) :
         Cardinality({t \in DOMAIN delta.transitions : a \in delta.transitions[t].to}) = 1
    /\ \A t \in DOMAIN delta.transitions : delta.transitions[t].status = "relinked" =>
         \A a \in delta.transitions[t].from, b \in AnchorsOf(events) :
           Resembles(a, b) /\ b.anchorId \notin IdsOf(SetToSeq(AnchorsOf(baseline.events)))
             => b \in delta.transitions[t].to

=============================================================================
