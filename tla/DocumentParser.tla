---------------------------- MODULE DocumentParser ----------------------------
(***************************************************************************)
(* parseDocument of runtime/parser.js: one step per source line.           *)
(*                                                                         *)
(* A line is a record: its lexical kind (the grammar's token), what the    *)
(* parser reads from it, its text and its width.  A header is its parts    *)
(* between bars, each a name and its arguments, and whether quotes and     *)
(* brackets in it are balanced.  Node, scope, block and stage numbers are  *)
(* sequence numbers; the id an interval goes by is the code's string, for  *)
(* a default id may be one that was given.  The wording of diagnostics and *)
(* the concrete syntax tree are left out.  A document being parsed is one  *)
(* record, so the operators are plain functions of it.                     *)
(***************************************************************************)
EXTENDS Integers, Sequences, FiniteSets, SequencesExt

(* An absent or malformed name: no stage, scope or block is called so.     *)
NoName == "-"

ContentKinds == {"Text", "Blank", "Literal", "Property"}

EmptyDocument ==
  [line |-> 0, offset |-> 0,            \* the current line, its first position
   nodeSequence |-> 0, scopeSequence |-> 0, stageSequence |-> 0,
   children |-> << <<>> >>,             \* of the root and of each block
   blocks |-> <<>>, scopes |-> <<>>,
   activeScopes |-> <<>>, blockStack |-> <<>>,
   directives |-> <<>>,
   source |-> <<>>, sourceLines |-> <<>>,
   fence |-> 0,                         \* the open fence's length, 0 for none
   header |-> 0,                        \* the block whose header may continue
   diagnostics |-> 0]

-----------------------------------------------------------------------------
(* Nodes                                                                   *)

Container(p) == IF p.blockStack = <<>> THEN 0 ELSE Last(p.blockStack)

Node(p, kind, ref, text) ==
  [kind |-> kind, nodeId |-> p.nodeSequence + 1, ref |-> ref, text |-> text, line |-> p.line]

AddTo(p, container, node) ==
  [p EXCEPT !.nodeSequence = @ + 1, !.children[container + 1] = Append(@, node)]

AddNode(p, kind, ref, text) == AddTo(p, Container(p), Node(p, kind, ref, text))

(* A recovery node, and the error that goes with it.                       *)
RecoverIn(p, container) ==
  [AddTo(p, container, Node(p, "Recovery", 0, <<>>)) EXCEPT !.diagnostics = @ + 1]
Recover(p) == RecoverIn(p, Container(p))

ActiveIds(p) == {p.scopes[k].id : k \in ToSet(p.activeScopes)}

WriteSourceLine(p, content) ==
  [p EXCEPT !.sourceLines = Append(@, [content |-> content, activeScopeIds |-> ActiveIds(p)])]

AddText(p, kind, l) == WriteSourceLine(AddNode(p, kind, 0, l.text), TRUE)

(* A hidden property in a line is a node of its own, outside the tree but  *)
(* counted.                                                                *)
TextLine(p, kind, l) ==
  [AddText(p, kind, l) EXCEPT !.nodeSequence = @ + (IF l.property THEN 1 ELSE 0)]

PropertyLine(p, l) == AddText(p, "Property", l)

(* A marker that is none, or one out of place.                             *)
Malformed(p) == WriteSourceLine(Recover(p), FALSE)

-----------------------------------------------------------------------------
(* Stages: [name, args], the arguments a sequence of [key, value]; a value *)
(* is [kind, value] with kind string, number, list or malformed.           *)

ScopeControls == {"@id", "@order"}
BlockControls == {"@inherit", "@intervals", "@cross"}
Controls == ScopeControls \cup BlockControls \cup {"@unknown"}
Virtual == {"@intervals", "@unknown"}

Has(args, key) == key \in DOMAIN args
Is(args, key, kind) == Has(args, key) /\ args[key].kind = kind
IsOneOf(args, key, values) == Is(args, key, "string") /\ args[key].value \in values

(* The arguments kept: the first of each name.                             *)
ArgsOf(arguments) ==
  LET named == {i \in DOMAIN arguments : arguments[i].key # NoName}
      first(key) == CHOOSE i \in named : arguments[i].key = key
                                        /\ \A j \in named : arguments[j].key = key => i <= j
  IN  [key \in {arguments[i].key : i \in named} |-> arguments[first(key)].value]

(* The arguments refused: unnamed, repeated or not a portable value.       *)
ArgumentFaults(arguments) ==
  {i \in DOMAIN arguments :
    \/ arguments[i].key = NoName
    \/ arguments[i].value.kind = "malformed"
    \/ \E j \in 1..(i - 1) : arguments[j].key = arguments[i].key}

UnknownControls(args, context) ==
  LET allowed == CASE context = "scope" -> ScopeControls
                   [] context = "block-first" -> BlockControls
                   [] context = "block-stage" -> {}
  IN  (DOMAIN args \cap Controls) \ allowed

PlacementFaults(args) ==
  {key \in DOMAIN args \ {"only", "except", "order"} : TRUE}
    \cup {key \in {"only", "except"} : Has(args, key) /\ ~Is(args, key, "list")}
    \cup {key \in {"order"} : Has(args, key) /\ ~IsOneOf(args, key, {"asc", "desc"})}
    \cup {key \in {"only+except"} : Has(args, "only") /\ Has(args, "except")}

ControlFaults(name, args, context) ==
  CASE context = "scope" ->
         {key \in {"@id"} : Has(args, key) /\ ~Is(args, key, "string")}
           \cup {key \in {"@order"} : Has(args, key) /\ ~Is(args, key, "number")}
    [] context = "block-first" ->
         {key \in {"@inherit"} : Has(args, key)
            /\ ~IsOneOf(args, key, {"default", "none", "explicit", "only", "except"})}
           \cup {key \in {"@cross"} : Has(args, key) /\ ~IsOneOf(args, key, {"error"})}
           \cup {key \in {"@intervals"} : Has(args, key) /\ ~Is(args, key, "list")}
    [] context = "block-stage" -> IF name = "@intervals" THEN PlacementFaults(args) ELSE {}

(* A virtual stage places intervals, after a block's first stage.          *)
NameFaults(name, context) ==
  {name} \cap (IF context = "block-stage" THEN Virtual \ {"@intervals"} ELSE Virtual)

StageFaults(part, context) ==
  LET args == ArgsOf(part.args)
  IN  Cardinality(ArgumentFaults(part.args)) + Cardinality(UnknownControls(args, context))
        + Cardinality(ControlFaults(part.name, args, context))
        + Cardinality(NameFaults(part.name, context))

RecoverTimes(p, container, n) == FoldLeft(LAMBDA q, i : RecoverIn(q, container), p, [i \in 1..n |-> i])

Span(p, i) == <<p.line, p.offset, i>>

(* A part without a proper name is no stage.  r: the parser, the stages so *)
(* far and whether they can run.                                           *)
ParseStage(r, i, part, context, container) ==
  LET faults == StageFaults(part, context)
      stage == [name |-> part.name, args |-> ArgsOf(part.args),
                stageId |-> r.p.stageSequence + 1, span |-> Span(r.p, i)]
  IN  IF part.name = NoName
      THEN [r EXCEPT !.p = RecoverIn(@, container), !.executable = FALSE]
      ELSE [p |-> RecoverTimes([r.p EXCEPT !.stageSequence = @ + 1], container, faults),
            stages |-> Append(r.stages, stage),
            executable |-> r.executable /\ faults = 0]

ParsePipeline(p, header, context, container) ==
  FoldLeft(LAMBDA r, i : ParseStage(r, i, header.parts[i],
                                    IF i = 1 THEN context ELSE "block-stage", container),
           [p |-> IF header.balanced THEN p ELSE RecoverIn(p, container),
            stages |-> <<>>, executable |-> header.balanced],
           [i \in DOMAIN header.parts |-> i])

(* The system arguments of a stage.                                        *)
IdOf(stage) == IF Is(stage.args, "@id", "string") THEN stage.args["@id"].value ELSE NoName
OrderOf(stage, otherwise) ==
  IF Is(stage.args, "@order", "number") THEN stage.args["@order"].value ELSE otherwise
ListOf(stage, key) == IF Is(stage.args, key, "list") THEN stage.args[key].value ELSE {}
InheritOf(stage) == IF Has(stage.args, "@inherit") THEN stage.args["@inherit"].value ELSE "default"

-----------------------------------------------------------------------------
(* Literals, directives, intervals                                         *)

CloseFence(p, l) ==
  LET closes == l.lexical = "FenceLine" /\ l.length >= p.fence
  IN  [AddText(p, "Literal", l) EXCEPT !.fence = IF closes THEN 0 ELSE @]

OpenFence(p, l) == [AddText(p, "Literal", l) EXCEPT !.fence = l.length]

(* A config directive with a fault is still one, and its only stage takes  *)
(* a number; an unknown directive is none.                                 *)
Directive(p, l) ==
  LET q == IF l.valid THEN p ELSE Recover(p)
      stages == IF l.directive.kind = "config" THEN 1 ELSE 0
      r == [AddNode(q, "Directive", Len(q.directives) + 1, <<>>)
              EXCEPT !.directives = Append(@, l.directive), !.stageSequence = @ + stages]
  IN  WriteSourceLine(IF l.directive.kind = "unknown" THEN q ELSE r, FALSE)

(* The id a scope was given or, by default, its function's name and its    *)
(* number: f-2, which another scope may have been given.                   *)
DefaultId(name, n) == name \o "-" \o ToString(n)
ScopeId(p, stage) ==
  IF IdOf(stage) # NoName THEN IdOf(stage) ELSE DefaultId(stage.name, p.scopeSequence)
Called(scope) == {scope.id, scope.name}

(* Mutant: a default id is taken to be a new one.                          *)
IsDuplicateGivenId(p, stage) == IdOf(stage) # NoName /\ ScopeId(p, stage) \in ActiveIds(p)

IsDuplicateScopeId(p, stage) == ScopeId(p, stage) \in ActiveIds(p)

OpenScopeOf(p, stage, executable) ==
  LET scope == [id |-> ScopeId(p, stage), name |-> stage.name, blockId |-> Container(p),
                order |-> OrderOf(stage, p.scopeSequence),
                openLine |-> p.line, closeLine |-> 0, complete |-> TRUE,
                executable |-> executable, stage |-> stage]
  IN  IF IsDuplicateScopeId(p, stage) THEN Recover(p)
      ELSE AddNode([p EXCEPT !.scopes = Append(@, scope),
                             !.activeScopes = Append(@, Len(p.scopes) + 1)],
                   "IntervalOpen", Len(p.scopes) + 1, <<>>)

(* An interval has one stage; what failed to be any was told already.      *)
OpenParsed(parsed) ==
  LET proper == Len(parsed.stages) = 1 /\ parsed.stages[1].name \notin Virtual
  IN  IF proper
      THEN OpenScopeOf([parsed.p EXCEPT !.scopeSequence = @ + 1], parsed.stages[1], parsed.executable)
      ELSE IF parsed.stages = <<>> THEN parsed.p ELSE Recover(parsed.p)

IntervalOpen(p, l) ==
  WriteSourceLine(OpenParsed(ParsePipeline(p, l.header, "scope", Container(p))), FALSE)

(* The scope opened last among those the target names, 0 if none.          *)
FindScope(p, target) ==
  SelectLastInSeq(p.activeScopes, LAMBDA k : target \in Called(p.scopes[k]))

IntervalClose(p, l) ==
  LET found == FindScope(p, l.target)
      k == p.activeScopes[found]
      crossing == p.blockStack # <<>> /\ p.scopes[k].blockId # Container(p)
  IN  IF found = 0 \/ crossing THEN Malformed(p)
      ELSE WriteSourceLine([AddNode(p, "IntervalClose", k, <<>>)
                              EXCEPT !.scopes[k].closeLine = p.line,
                                     !.activeScopes = RemoveAt(@, found)], FALSE)

-----------------------------------------------------------------------------
(* Blocks                                                                  *)

AddBlock(p, pipeline, executable) ==
  LET b == Len(p.blocks) + 1
      block == [parent |-> Container(p), pipeline |-> pipeline, openLine |-> p.line,
                headerEndLine |-> p.line, closeLine |-> 0, complete |-> TRUE,
                executable |-> executable /\ pipeline # <<>>]
  IN  [AddNode(p, "Block", b, <<>>)
         EXCEPT !.blocks = Append(@, block), !.children = Append(@, <<>>),
                !.blockStack = Append(@, b)]

OpenBlock(parsed) ==
  LET virtual == parsed.stages # <<>> /\ parsed.stages[1].name \in Virtual
  IN  AddBlock(IF virtual THEN Recover(parsed.p) ELSE parsed.p, parsed.stages, parsed.executable)

BlockOpen(p, l) ==
  WriteSourceLine(OpenBlock(ParsePipeline(p, l.header, "block-first", Container(p))), FALSE)

BlockName(block) ==
  IF block.pipeline = <<>> THEN "unknown" ELSE block.pipeline[1].name

(* A line of more stages directly below the header they continue.          *)
ContinueBlock(b, parsed) ==
  [parsed.p EXCEPT !.blocks[b] =
     [@ EXCEPT !.pipeline = @ \o parsed.stages, !.headerEndLine = parsed.p.line,
               !.executable = @ /\ parsed.executable]]

PipelineContinuation(p, l) ==
  IF p.header = 0 THEN Malformed(p)
  ELSE WriteSourceLine(
         ContinueBlock(p.header, ParsePipeline(p, l.header, "block-stage", p.blocks[p.header].parent)),
         FALSE)

(* Mutant: an interval that ends with its block is told the line.          *)
CloseScopeThere(p, k) ==
  [Recover(p) EXCEPT !.scopes[k].complete = FALSE, !.scopes[k].executable = FALSE,
                     !.scopes[k].closeLine = p.line, !.activeScopes = Remove(@, k)]

(* An open interval that must end with its block is an error of its own.   *)
CloseScope(p, k) ==
  [Recover(p) EXCEPT !.scopes[k].complete = FALSE, !.scopes[k].executable = FALSE,
                     !.activeScopes = Remove(@, k)]

CloseLocalScopes(p, b) ==
  LET left == SelectSeq(p.activeScopes, LAMBDA k : p.scopes[k].blockId = b)
  IN  FoldLeft(CloseScope, p, Reverse(left))

Pop(p) == [p EXCEPT !.blockStack = Front(@)]

(* The innermost block is closed by something other than its own marker.   *)
Displace(p) ==
  LET q == Recover(CloseLocalScopes(p, Container(p)))
  IN  Pop([q EXCEPT !.blocks[Container(p)].complete = FALSE,
                    !.blocks[Container(p)].executable = FALSE])

CloseInnermost(p, target) ==
  LET b == Container(p)
      matched == BlockName(p.blocks[b]) = target
  IN  [IF matched THEN Pop(CloseLocalScopes(p, b)) ELSE Displace(p)
         EXCEPT !.blocks[b].closeLine = p.line]

(* The blocks opened within the one that is named are displaced.           *)
BlockClose(p, l) ==
  LET named == SelectLastInSeq(p.blockStack, LAMBDA b : BlockName(p.blocks[b]) = l.target)
      inner == IF named = 0 THEN <<>> ELSE SubSeq(p.blockStack, named + 1, Len(p.blockStack))
  IN  IF l.target = NoName \/ p.blockStack = <<>> THEN Malformed(p)
      ELSE WriteSourceLine(
             CloseInnermost(FoldLeft(LAMBDA q, b : Displace(q), p, inner), l.target), FALSE)

-----------------------------------------------------------------------------
(* Lines and the end of the document                                       *)

ParseLexical(p, l) ==
  CASE p.fence > 0 -> CloseFence(p, l)
    [] p.fence = 0 /\ l.lexical = "FenceLine" -> OpenFence(p, l)
    [] p.fence = 0 /\ l.lexical = "EscapedMarkerLine" -> AddText(p, "Literal", l)
    [] p.fence = 0 /\ l.lexical = "DirectiveLine" -> Directive(p, l)
    [] p.fence = 0 /\ l.lexical = "IntervalOpenLine" -> IntervalOpen(p, l)
    [] p.fence = 0 /\ l.lexical = "IntervalCloseLine" -> IntervalClose(p, l)
    [] p.fence = 0 /\ l.lexical = "BlockOpenLine" -> BlockOpen(p, l)
    [] p.fence = 0 /\ l.lexical = "PipelineContinuationLine" -> PipelineContinuation(p, l)
    [] p.fence = 0 /\ l.lexical = "BlockCloseLine" -> BlockClose(p, l)
    [] p.fence = 0 /\ l.lexical = "InvalidMarkerLine" -> Malformed(p)
    [] p.fence = 0 /\ l.lexical = "PropertyLine" -> PropertyLine(p, l)
    [] p.fence = 0 /\ l.lexical = "BlankLine" -> TextLine(p, "Blank", l)
    [] p.fence = 0 /\ l.lexical = "TextLine" -> TextLine(p, "Text", l)

(* The header more stages may follow.                                      *)
Pass(p, l) ==
  [p EXCEPT !.offset = @ + l.width,
            !.header = CASE l.lexical = "BlockOpenLine" /\ p.fence = 0 -> Len(p.blocks)
                         [] l.lexical = "PipelineContinuationLine" /\ p.fence = 0 -> @
                         [] OTHER -> 0]

ParseLine(p, l) ==
  Pass(ParseLexical([p EXCEPT !.line = @ + 1, !.source = Append(@, l)], l), l)

(* A block that holds a recovery, or a block or interval that cannot run,  *)
(* cannot run; inner blocks were opened later.                             *)
CannotRun(p, n) ==
  CASE n.kind = "Recovery" -> TRUE
    [] n.kind = "Block" -> ~p.blocks[n.ref].executable
    [] n.kind \in {"IntervalOpen", "IntervalClose"} -> ~p.scopes[n.ref].executable
    [] OTHER -> FALSE

Propagate(p) ==
  FoldLeft(LAMBDA q, b : [q EXCEPT !.blocks[b].executable =
             @ /\ \A i \in DOMAIN q.children[b + 1] : ~CannotRun(q, q.children[b + 1][i])],
           p, Reverse([b \in DOMAIN p.blocks |-> b]))

(* What is still open at the end is closed as an error.                    *)
Finish(p) ==
  LET closed == FoldLeft(LAMBDA q, b : Displace(q), p, p.blockStack)
  IN  Propagate(FoldLeft(CloseScope, closed, Reverse(closed.activeScopes)))

Executable(p) == p.diagnostics = 0

(* The lines in the segments of a scope: those where its id was active.    *)
Segments(p, k) ==
  {i \in DOMAIN p.sourceLines :
    p.sourceLines[i].content /\ p.scopes[k].id \in p.sourceLines[i].activeScopeIds}

(* configuration.scopeOrder: the last config directive wins.               *)
ScopeOrder(p) ==
  LET configs == SelectSeq(p.directives, LAMBDA d : d.kind = "config" /\ d.order # NoName)
  IN  IF configs = <<>> THEN "asc" ELSE Last(configs).order

=============================================================================
