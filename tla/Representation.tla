--------------------------- MODULE Representation ---------------------------
(***************************************************************************)
(* What a run publishes of its parse and its plan, and what the offline    *)
(* verifier, runtime/semantic-contract.js, wants of them when they are     *)
(* part of a bundle of identities.  The parser keeps one object for what   *)
(* it publishes in up to three places: the tree, the flat list of nodes,   *)
(* and the tables of blocks and scopes.  Coordinates are lines.            *)
(***************************************************************************)
EXTENDS RunPreparation

-----------------------------------------------------------------------------
(* The intermediate representation                                         *)

PublicStage(stage) ==
  [stageId |-> stage.stageId, name |-> stage.name, args |-> stage.args, span |-> stage.span]

PublicPipeline(p, b) ==
  [i \in DOMAIN p.blocks[b].pipeline |-> PublicStage(p.blocks[b].pipeline[i])]

OfBlock(p, b) ==
  [blockId |-> b, pipeline |-> PublicPipeline(p, b), openLine |-> p.blocks[b].openLine,
   closeLine |-> p.blocks[b].closeLine, executable |-> p.blocks[b].executable]

OfInterval(p, k) == [scopeId |-> k, id |-> p.scopes[k].id, stage |-> PublicStage(p.scopes[k].stage)]

SerializeNode(p, n) ==
  LET detail == CASE n.kind = "Block" -> OfBlock(p, n.ref)
                  [] n.kind \in {"IntervalOpen", "IntervalClose"} -> OfInterval(p, n.ref)
                  [] n.kind = "Directive" -> [directive |-> p.directives[n.ref]]
                  [] OTHER -> [text |-> n.text]
  IN  [nodeId |-> n.nodeId, kind |-> n.kind, line |-> n.line] @@ detail

(* The hidden property of a line of text is numbered after its line, which *)
(* owns it.                                                                *)
InlineProperties(p, n) ==
  IF n.kind \in {"Text", "Blank"} /\ p.source[n.line].property
  THEN << [nodeId |-> n.nodeId + 1, kind |-> "Property", line |-> n.line, owner |-> n.nodeId] >>
  ELSE <<>>

WithProperties(p, n) == <<SerializeNode(p, n)>> \o InlineProperties(p, n)

(* The flat list.                                                          *)
PublicNodes(p) ==
  FlattenSeq([c \in DOMAIN p.children |->
    FlattenSeq([i \in DOMAIN p.children[c] |-> WithProperties(p, p.children[c][i])])])

(* The tree from a container down, each node with the block it is in.      *)
RECURSIVE AstNodes(_, _)
AstNodes(p, container) ==
  FlattenSeq([i \in DOMAIN p.children[container + 1] |->
    LET n == p.children[container + 1][i]
        nodes == WithProperties(p, n)
    IN  [j \in DOMAIN nodes |-> [node |-> nodes[j], parent |-> container]]
          \o (IF n.kind = "Block" THEN AstNodes(p, n.ref) ELSE <<>>)])

PublicBlocks(p) ==
  [b \in DOMAIN p.blocks |-> OfBlock(p, b) @@ [parent |-> p.blocks[b].parent]]

(* Every diagnostic of the parser is an error.                             *)
IrOf(p) ==
  [nodes |-> PublicNodes(p), ast |-> AstNodes(p, 0), blocks |-> PublicBlocks(p),
   scopes |-> p.scopes, directives |-> p.directives, sourceLines |-> p.sourceLines,
   validity |-> [executable |-> Executable(p), diagnosticCount |-> p.diagnostics]]

-----------------------------------------------------------------------------
(* validateSemanticReferences, of a representation                         *)

OfKind(nodes, kind) == {n \in ToSet(nodes) : n.kind = kind}

(* A node of the tree is in the list as it is in the tree, once, and no    *)
(* other is.                                                               *)
TreeCoversNodes(ir) ==
  LET ids == [i \in DOMAIN ir.nodes |-> ir.nodes[i].nodeId]
      treeIds == [i \in DOMAIN ir.ast |-> ir.ast[i].node.nodeId]
  IN  /\ IsInjective(ids) /\ IsInjective(treeIds)
      /\ {a.node : a \in ToSet(ir.ast)} = ToSet(ir.nodes)

BlocksHold(ir) ==
  /\ \A b \in DOMAIN ir.blocks :
       \E n \in OfKind(ir.nodes, "Block") :
         /\ n.blockId = b /\ <<n.openLine, n.closeLine>> = <<ir.blocks[b].openLine, ir.blocks[b].closeLine>>
         /\ ir.blocks[b].parent \in {0} \cup DOMAIN ir.blocks
  /\ \A a \in ToSet(ir.ast) : a.node.kind = "Block" => ir.blocks[a.node.blockId].parent = a.parent

(* An interval is opened by one node, in the block it belongs to, and      *)
(* closed by one if it says that it was.                                   *)
ScopesHold(ir) ==
  LET of(kind, k) == {n \in OfKind(ir.nodes, kind) : n.scopeId = k /\ n.id = ir.scopes[k].id}
  IN  /\ \A k \in DOMAIN ir.scopes :
           /\ {n.line : n \in of("IntervalOpen", k)} = {ir.scopes[k].openLine}
           /\ {n.line : n \in of("IntervalClose", k)} = {ir.scopes[k].closeLine} \ {0}
           /\ Cardinality(of("IntervalOpen", k)) = 1 /\ Cardinality(of("IntervalClose", k)) <= 1
      /\ \A a \in ToSet(ir.ast) :
           a.node.kind = "IntervalOpen" => ir.scopes[a.node.scopeId].blockId = a.parent

LinesHold(ir) ==
  \A line \in ToSet(ir.sourceLines) :
    line.activeScopeIds \subseteq {ir.scopes[k].id : k \in DOMAIN ir.scopes}

(* The stages of the syntax: one body to an identity.                      *)
SyntaxStages(ir) ==
  UNION {ToSet(n.pipeline) : n \in OfKind(ir.nodes, "Block")}
    \cup {n.stage : n \in OfKind(ir.nodes, "IntervalOpen")}
StagesHold(ir) ==
  \A s, t \in SyntaxStages(ir) : s.stageId = t.stageId => s = t

DirectivesHold(ir) ==
  ToSet(ir.directives) = {n.directive : n \in OfKind(ir.nodes, "Directive")}

ValidityHolds(ir) ==
  /\ ir.validity.diagnosticCount = Cardinality(OfKind(ir.nodes, "Recovery"))
  /\ ir.validity.executable <=> ir.validity.diagnosticCount = 0

VerifyIr(ir) ==
  /\ TreeCoversNodes(ir) /\ BlocksHold(ir) /\ ScopesHold(ir) /\ LinesHold(ir) /\ StagesHold(ir)
  /\ DirectivesHold(ir) /\ ValidityHolds(ir)

-----------------------------------------------------------------------------
(* validateSemanticReferences, of a plan                                   *)

(* A stage of the plan is one of the syntax, with its arguments but for    *)
(* the system's, on lines of the document, in a scope that exists.         *)
PlanStageHolds(s, ir, modules) ==
  /\ \E t \in SyntaxStages(ir) :
       s.ownKey.ir.stage = <<t.name, t.stageId, t.span, s.context.modality, s.context.scopeId>>
         /\ s.function = t.name /\ s.arg = Authored(t.args)
  /\ s.context.scopeId \in {NoName} \cup {ir.scopes[k].id : k \in DOMAIN ir.scopes}
  /\ s.ownKey.module \in {NoName} \cup modules

SourceHolds(lines, ir) == lines[1] <= lines[2] /\ lines[2] <= Len(ir.sourceLines)

VerifyPlan(g, ir, modules) ==
  /\ ir.validity.executable /\ IsExecutionGraph(g)
  /\ \A i \in DOMAIN g.nodes :
       LET node == g.nodes[i]
       IN  /\ node.kind = "stage" => PlanStageHolds(node.detail, ir, modules)
                                       /\ SourceHolds(node.detail.context.lines, ir)
           /\ node.kind = "source" => SourceHolds(node.detail.lines, ir)

-----------------------------------------------------------------------------
(* Property                                                                *)

(* What the parser and the compiler publish the verifier accepts           *)
(* (runtime/semantic-contract.js:84-165): of every document, also one that *)
(* was recovered and will not run, since a failed run's bundle keeps its   *)
(* representation (runtime/worker-entry.js:573, 702); and of every plan.   *)
RepresentationsVerify ==
  /\ phase = "parsed" \/ fault = "syntax" => VerifyIr(IrOf(document))
  /\ phase = "planned" => VerifyPlan(plan, IrOf(document), ToSet(loader.loaded))

=============================================================================
