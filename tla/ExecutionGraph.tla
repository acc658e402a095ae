---------------------------- MODULE ExecutionGraph ----------------------------
(***************************************************************************)
(* runtime/execution-graph.js: the program tree of DocumentParser compiled *)
(* to the nodes and edges the wave scheduler executes, their checks, and   *)
(* the preview of what an edit invalidates.                                *)
(*                                                                         *)
(* A digest is modelled by the value it digests: what two digests being    *)
(* equal shows, equal values show.  A node is referred to by its place in  *)
(* the plan; its nodeId is the logical key it is allocated from.           *)
(***************************************************************************)
EXTENDS DocumentParser

EmptyGraph == [nodes |-> <<>>, edges |-> <<>>, scopeSequence |-> 0]

CountOf(s) == [v \in ToSet(s) |-> Cardinality({i \in DOMAIN s : s[i] = v})]

-----------------------------------------------------------------------------
(* Nodes                                                                   *)

(* allocateId: equal logical keys are told apart by their occurrence.      *)
AllocateId(g, kind, logicalKey) ==
  [kind |-> kind, key |-> logicalKey,
   occurrence |-> Cardinality({i \in DOMAIN g.nodes :
                    g.nodes[i].kind = kind /\ g.nodes[i].nodeId.key = logicalKey}) + 1]

PlanNode(g, kind, logicalKey, inputs, detail, dependency) ==
  [nodeId |-> AllocateId(g, kind, logicalKey), kind |-> kind, inputs |-> inputs,
   detail |-> detail, dependency |-> dependency]

(* A node and the edges into it; the node built last is the current one.   *)
AddPlanNode(g, node, edgeKind) ==
  [g EXCEPT !.nodes = Append(@, node),
            !.edges = @ \o [i \in DOMAIN node.inputs |->
                             [kind |-> edgeKind, from |-> node.inputs[i],
                              to |-> Len(g.nodes) + 1, port |-> i]]]

(* The lines of a run of text.                                             *)
Lines(buffer) == <<buffer[1].line, Last(buffer).line>>

AddSource(g, buffer, container, flushIndex) ==
  LET text == FlattenSeq([i \in DOMAIN buffer |-> buffer[i].text])
      ids == [nodes |-> [i \in DOMAIN buffer |-> <<buffer[i].kind, buffer[i].nodeId>>]]
      dependency == [sources |-> <<text>>, irs |-> <<ids>>,
                     signature |-> [text |-> text, ids |-> ids]]
  IN  AddPlanNode(g, PlanNode(g, "source", <<container, flushIndex>>, <<>>,
                              [text |-> text, lines |-> Lines(buffer)], dependency), "none")

(* keyComponents without inputDigest, which only the run knows; the run    *)
(* profile and the environment are constants.                              *)
StaticKey(dependency, edgeKind, applicationKey, own) ==
  [sourceDigest |-> CountOf(dependency.sources),
   irDigest |-> CountOf(Append(dependency.irs, own.ir)),
   dependencyDigest |-> <<dependency.signature, edgeKind, applicationKey>>,
   own |-> own]

(* What a stage is in itself: its own arguments without the system's, and  *)
(* its context, which is modality, scope, source lines and text.           *)
Authored(args) == [key \in DOMAIN args \ Controls |-> args[key]]

StageIr(stage, context) ==
  [stage |-> <<stage.name, stage.stageId, stage.span, context.modality, context.scopeId>>]

OwnKey(stage, context, project) ==
  [ir |-> StageIr(stage, context), function |-> stage.name, arg |-> Authored(stage.args),
   module |-> project.moduleOf[stage.name], moduleSet |-> project.moduleSet,
   config |-> project.scopeOrder, context |-> context]

AddStage(g, stage, input, context, edgeKind, applicationKey, project) ==
  LET own == OwnKey(stage, context, project)
      dependency == g.nodes[input].dependency
      key == StaticKey(dependency, edgeKind, applicationKey, own)
      detail == [function |-> stage.name, arg |-> Authored(stage.args), context |-> context,
                 ownKey |-> own, staticKey |-> key]
  IN  AddPlanNode(g, PlanNode(g, "stage",
                        <<applicationKey, stage.stageId, context.modality, context.scopeId>>,
                        <<input>>, detail,
                        [dependency EXCEPT !.irs = Append(@, own.ir), !.signature = key]),
                  edgeKind)

AddMerge(g, inputs, container) ==
  LET parts == [i \in DOMAIN inputs |-> g.nodes[inputs[i]].dependency]
      dependency ==
        [sources |-> SetToSeq(UNION {ToSet(parts[i].sources) : i \in DOMAIN parts}),
         irs |-> SetToSeq(UNION {ToSet(parts[i].irs) : i \in DOMAIN parts}),
         signature |-> [inputs |-> [i \in DOMAIN inputs |->
                         [nodeId |-> g.nodes[inputs[i]].nodeId,
                          signature |-> parts[i].signature]]]]
  IN  AddPlanNode(g, PlanNode(g, "merge", <<container>>, inputs,
                              [arity |-> Len(inputs)], dependency), "merge")

-----------------------------------------------------------------------------
(* Scopes                                                                  *)

SortScopes(scopes, direction) ==
  LET before(i, j) ==
        LET a == scopes[i].order
            b == scopes[j].order
        IN  IF a = b THEN i < j ELSE IF direction = "desc" THEN b < a ELSE a < b
      ranked == SetToSortSeq(DOMAIN scopes, before)
  IN  [i \in DOMAIN ranked |-> scopes[ranked[i]]]

SelectScopes(scopes, mode, selection, direction) ==
  LET matches(s) == selection \cap Called(s) # {}
      selected == CASE mode \in {"none", "explicit"} -> <<>>
                    [] mode = "only" -> SelectSeq(scopes, matches)
                    [] mode = "except" -> SelectSeq(scopes, LAMBDA s : ~matches(s))
                    [] mode = "default" -> scopes
  IN  SortScopes(selected, direction)

AtEnd(g) == [g |-> g, current |-> Len(g.nodes)]

(* The stages of the selected scopes, one on the other; h: the graph and   *)
(* the node that stands for the value so far.                              *)
ApplyScopes(h, selected, lines, edgeKind, applicationKey, project) ==
  FoldLeft(LAMBDA r, s :
             AtEnd(AddStage(r.g, s.stage, r.current,
                     [modality |-> "interval", scopeId |-> s.id, lines |-> lines,
                      authored |-> <<>>],
                     edgeKind, applicationKey \o <<"scope", s.scopeId>>, project)),
           h, selected)

-----------------------------------------------------------------------------
(* Containers: c is the state of one compileSequence.                      *)

Output(c, h) == [c EXCEPT !.g = h.g, !.outputs = Append(@, h.current)]

Flush(c, container, project) ==
  LET n == c.flushIndex + 1
  IN  IF c.buffer = <<>> THEN c
      ELSE [Output(c, ApplyScopes(AtEnd(AddSource(c.g, c.buffer, container, n)),
                                  SortScopes(c.scopes, project.scopeOrder), Lines(c.buffer),
                                  "interval", <<container, "flush", n>>, project))
              EXCEPT !.buffer = <<>>, !.flushIndex = n]

OpenScope(c, p, node) ==
  LET n == c.g.scopeSequence + 1
      stage == p.scopes[node.ref].stage
      scope == [name |-> stage.name, id |-> p.scopes[node.ref].id, scopeId |-> node.ref,
                order |-> OrderOf(stage, n), stage |-> stage]
  IN  [c EXCEPT !.g.scopeSequence = n, !.scopes = Append(@, scope)]

(* Mutant: the scope opened last is closed, whichever it is.               *)
CloseLastScope(c, node) == [c EXCEPT !.scopes = Front(@)]

CloseScopeOf(c, node) ==
  [c EXCEPT !.scopes = RemoveAt(@, SelectLastInSeq(@, LAMBDA s : s.scopeId = node.ref))]

(* How a stage that places intervals chooses them.                         *)
ChoiceOf(stage) ==
  IF Has(stage.args, "only") THEN "only" ELSE IF Has(stage.args, "except") THEN "except" ELSE "default"
SelectionOf(stage) == ListOf(stage, "only") \cup ListOf(stage, "except")
SortOf(stage, otherwise) ==
  IF Has(stage.args, "order") THEN stage.args["order"].value ELSE otherwise

(* One stage of a block's pipeline; i is its place in it.                  *)
PipelineStage(h, stage, i, b, ambient, lines, authored, project) ==
  IF stage.name = "@intervals"
  THEN ApplyScopes(h, SelectScopes(ambient, ChoiceOf(stage), SelectionOf(stage),
                                   SortOf(stage, project.scopeOrder)),
                   lines, "interval-injection", <<b, "pipeline", i>>, project)
  ELSE AtEnd(AddStage(h.g, stage, h.current,
               [modality |-> "block", scopeId |-> NoName, lines |-> lines, authored |-> authored],
               "pipeline", <<b, "pipeline", i>>, project))

IntervalsExplicit(block) ==
  \E i \in DOMAIN block.pipeline : block.pipeline[i].name = "@intervals"

(* The scopes around a block are applied to its value unless the block     *)
(* placed them itself.                                                     *)
Inherit(h, block, b, ambient, lines, project) ==
  LET first == block.pipeline[1]
  IN  IF IntervalsExplicit(block) THEN h
      ELSE ApplyScopes(h, SelectScopes(ambient, InheritOf(first), ListOf(first, "@intervals"),
                                       project.scopeOrder),
                       lines, "inheritance", <<b, "inherit">>, project)

(* The lines a block stands for; those of an empty one are its close       *)
(* marker.                                                                 *)
BlockLines(block) ==
  LET first == block.headerEndLine + 1
  IN  <<first, IF block.closeLine - 1 > first THEN block.closeLine - 1 ELSE first>>

RECURSIVE CompileSequence(_, _, _, _)

CompileBlock(c, p, b, project) ==
  LET block == p.blocks[b]
      lines == BlockLines(block)
      authored == SubSeq(p.source, lines[1], lines[2])
      Apply(h, i) == PipelineStage(h, block.pipeline[i], i, b, c.scopes, lines, authored, project)
  IN  Output(c, Inherit(FoldLeft(Apply, CompileSequence(c.g, p, b, project),
                                 [i \in DOMAIN block.pipeline |-> i]),
                        block, b, c.scopes, lines, project))

CompileMarker(c, p, node, project) ==
  CASE node.kind = "Directive" -> c
    [] node.kind = "IntervalOpen" -> OpenScope(c, p, node)
    [] node.kind = "IntervalClose" -> CloseScopeOf(c, node)
    [] node.kind = "Block" -> CompileBlock(c, p, node.ref, project)

CompileNode(c, p, node, container, project) ==
  IF node.kind \in ContentKinds THEN [c EXCEPT !.buffer = Append(@, node)]
  ELSE CompileMarker(Flush(c, container, project), p, node, project)

MergeOutputs(c, container) == AtEnd(AddMerge(c.g, c.outputs, container))

CompileSequence(g, p, container, project) ==
  LET start == [g |-> g, outputs |-> <<>>, buffer |-> <<>>, scopes |-> <<>>, flushIndex |-> 0]
  IN  MergeOutputs(
        Flush(FoldLeft(LAMBDA c, node : CompileNode(c, p, node, container, project),
                       start, p.children[container + 1]), container, project), container)

AddRender(h) ==
  AddPlanNode(h.g, PlanNode(h.g, "render", <<>>, <<h.current>>, [arity |-> 1],
                            h.g.nodes[h.current].dependency), "render")

CompileExecutionGraph(p, project) == AddRender(CompileSequence(EmptyGraph, p, 0, project))

-----------------------------------------------------------------------------
(* validateExecutionGraph, where it is not about the shape of ports        *)

Stages(g) == {i \in DOMAIN g.nodes : g.nodes[i].kind = "stage"}

EdgesInto(g, i) == {e \in ToSet(g.edges) : e.to = i}
Successors(g, S) == {e.to : e \in {f \in ToSet(g.edges) : f.from \in S}}

RECURSIVE ReachableFrom(_, _)
ReachableFrom(g, S) ==
  LET more == S \cup Successors(g, S)
  IN  IF more = S THEN S ELSE ReachableFrom(g, more)

IsExecutionGraph(g) ==
  LET terminal == Len(g.nodes)
  IN  /\ \A i, j \in DOMAIN g.nodes : g.nodes[i].nodeId = g.nodes[j].nodeId => i = j
      /\ \A i \in DOMAIN g.nodes : g.nodes[i].kind = "render" <=> i = terminal
      /\ \A e \in ToSet(g.edges) :
           /\ e.from < e.to
           /\ g.nodes[e.to].kind = CASE e.kind = "merge" -> "merge"
                                      [] e.kind = "render" -> "render"
                                      [] OTHER -> "stage"
      /\ \A i \in DOMAIN g.nodes :
           Cardinality(EdgesInto(g, i)) =
             CASE g.nodes[i].kind = "source" -> 0
               [] g.nodes[i].kind = "merge" -> g.nodes[i].detail.arity
               [] g.nodes[i].kind \in {"stage", "render"} -> 1
      /\ \A i \in DOMAIN g.nodes : terminal \in ReachableFrom(g, {i})

-----------------------------------------------------------------------------
(* buildInvalidationPreview: nodes of two plans are the same when their    *)
(* ids are.  base is the committed plan, g the new one.                    *)

NodeOf(g, id) == CHOOSE i \in DOMAIN g.nodes : g.nodes[i].nodeId = id
HasNode(g, id) == \E i \in DOMAIN g.nodes : g.nodes[i].nodeId = id

Topology(g, i) == {<<e.kind, g.nodes[e.from].nodeId, e.port>> : e \in EdgesInto(g, i)}

ContentChanged(before, after) ==
  CASE after.kind = "source" -> before.detail.text # after.detail.text
    [] after.kind = "stage" -> before.detail.ownKey # after.detail.ownKey
    [] OTHER -> FALSE

(* The nodes whose own content or incoming edges are new.                  *)
ChangedNodes(g, base) ==
  {i \in DOMAIN g.nodes :
    LET id == g.nodes[i].nodeId
        j == NodeOf(base, id)
    IN  \/ ~HasNode(base, id)
        \/ ContentChanged(base.nodes[j], g.nodes[i])
        \/ Topology(base, j) # Topology(g, i)}

RECURSIVE FirstStages(_, _, _)
FirstStages(g, frontier, visited) ==
  LET next == Successors(g, frontier) \ visited
      stages == next \cap Stages(g)
  IN  IF next = {} THEN {}
      ELSE stages \cup FirstStages(g, next \ stages, visited \cup next)

ForcedEffect(g, candidates) == {i \in Stages(g) : g.nodes[i].detail.function \notin candidates}

SameStaticKey(g, base, i) ==
  LET id == g.nodes[i].nodeId
  IN  /\ HasNode(base, id)
      /\ base.nodes[NodeOf(base, id)].detail.staticKey = g.nodes[i].detail.staticKey

(* Mutant: the net that catches what the diff did not explain is gone.     *)
NothingUnexplained(g, base, affected) == {}

UnexplainedChanges(g, base, affected) ==
  {i \in Stages(g) \ affected :
    HasNode(base, g.nodes[i].nodeId) /\ ~SameStaticKey(g, base, i)}

InvalidationPreview(g, base, candidates) ==
  LET changed == ChangedNodes(g, base)
      direct == (changed \cap Stages(g)) \cup FirstStages(g, changed \ Stages(g), changed \ Stages(g))
      roots == direct \cup ForcedEffect(g, candidates)
      affected == ReachableFrom(g, roots) \cap Stages(g)
      unexplained == UnexplainedChanges(g, base, affected)
      all == ReachableFrom(g, roots \cup unexplained) \cap Stages(g)
  IN  [affected |-> all,
       unchanged |-> {i \in Stages(g) \ all : SameStaticKey(g, base, i)},
       removed |-> {j \in Stages(base) : ~HasNode(g, base.nodes[j].nodeId)}]

=============================================================================
