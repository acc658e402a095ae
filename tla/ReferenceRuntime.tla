--------------------------- MODULE ReferenceRuntime ---------------------------
(***************************************************************************)
(* The reference implementation in Python, reference/scoped_text.py,       *)
(* channel_core.py and module_admission.py, beside the program: what the   *)
(* conformance suites compare on frozen fixtures, compared on every        *)
(* document here.                                                          *)
(*                                                                         *)
(* A document the reference parses is one record; an error ends it, and    *)
(* only that it is one is kept: which of several errors is told first      *)
(* differs, as SCOPED_TEXT_PROFILE.md says.                                *)
(***************************************************************************)
EXTENDS RunPreparation, RunPolicy

(* How deep blocks may nest, how many intervals may be open, how many      *)
(* stages a document may have and a run may take, and how many events it   *)
(* may emit: 32, 32, 128 and 64, as constants of the reference and as the  *)
(* limits the suites' runners admit documents by and run the program with. *)
CONSTANT ScopedLimits

ASSUME ScopedLimitsAssumption ==
  \A limit \in {"depth", "active", "stages", "events"} : ScopedLimits[limit] \in Nat

-----------------------------------------------------------------------------
(* pipeline: a header's stages, or none if it is refused.                  *)

AllowedControls(context, i) ==
  IF context = "interval" THEN {"@id", "@order"} ELSE IF i = 1 THEN {"@inherit"} ELSE {}

ReferenceValue(key, value) ==
  CASE key = "@order" -> value.kind = "number"
    [] key = "@inherit" -> value.kind = "string" /\ value.value \in {"default", "none"}
    [] OTHER -> value.kind = "string"

ReferenceStage(part, context, i) ==
  LET args == part.args
  IN  /\ part.name \notin Virtual \cup {NoName}
      /\ \A k \in DOMAIN args :
           /\ args[k].key # NoName
           /\ args[k].key \notin {args[j].key : j \in 1..(k - 1)}
           /\ args[k].key \in Controls => args[k].key \in AllowedControls(context, i)
           /\ ReferenceValue(args[k].key, args[k].value)

Pipeline(header, context) ==
  LET proper == /\ header.balanced
                /\ \A i \in DOMAIN header.parts : ReferenceStage(header.parts[i], context, i)
                /\ context = "interval" => Len(header.parts) = 1
      named(args) == [key \in {args[k].key : k \in DOMAIN args} |->
                       args[CHOOSE k \in DOMAIN args : args[k].key = key].value]
  IN  IF proper THEN [i \in DOMAIN header.parts |->
                       [name |-> header.parts[i].name, args |-> named(header.parts[i].args)]]
      ELSE <<>>

-----------------------------------------------------------------------------
(* parse: blocks are numbered, 0 is the root; children holds each block's. *)

Unparsed ==
  [line |-> 0, children |-> << <<>> >>, blocks |-> <<>>, stack |-> <<0>>, active |-> <<>>,
   fence |-> 0, order |-> "asc", authored |-> 0, sequence |-> 0, rejected |-> FALSE]

Reject(r) == [r EXCEPT !.rejected = TRUE]
RejectIf(condition, r) == IF condition THEN Reject(r) ELSE r

Child(r, kind, ref) == [r EXCEPT !.children[Last(r.stack) + 1] = Append(@, [kind |-> kind, ref |-> ref])]

ConfigLine(r, l) ==
  IF l.valid /\ l.directive.kind = "config" /\ l.directive.order # NoName /\ Len(r.stack) = 1
  THEN [Child(r, "config", 0) EXCEPT !.order = l.directive.order]
  ELSE Reject(r)

ControlOf(stage, key, otherwise) ==
  IF key \in DOMAIN stage.args THEN stage.args[key].value ELSE otherwise

OpenLine(r, l) ==
  LET stages == Pipeline(l.header, "interval")
      stage == stages[1]
      n == r.sequence + 1
      alias == ControlOf(stage, "@id", DefaultId(stage.name, n))
      scope == [id |-> alias, stage |-> stage, owner |-> Last(r.stack),
                order |-> ControlOf(stage, "@order", n)]
  IN  IF \/ stages = <<>> \/ \E i \in DOMAIN r.active : r.active[i].id = alias
         \/ Len(r.active) >= ScopedLimits.active
      THEN Reject(r)
      ELSE [Child(r, "open", scope) EXCEPT !.active = Append(@, scope), !.sequence = n,
                                           !.authored = @ + 1]

LastActive(r, target) ==
  SelectLastInSeq(r.active, LAMBDA s : target \in {s.id, s.stage.name})

CloseLine(r, l) ==
  LET i == LastActive(r, l.target)
  IN  IF i = 0 \/ r.active[i].owner # Last(r.stack) THEN Reject(r)
      ELSE [Child(r, "close", r.active[i]) EXCEPT !.active = RemoveAt(@, i)]

OpenBlockLine(r, l) ==
  LET stages == Pipeline(l.header, "block")
      b == Len(r.blocks) + 1
      block == [pipeline |-> stages, line |-> r.line, closeLine |-> 0]
  IN  IF stages = <<>> \/ Len(r.stack) > ScopedLimits.depth THEN Reject(r)
      ELSE [Child(r, "block", b) EXCEPT !.blocks = Append(@, block), !.children = Append(@, <<>>),
                                        !.stack = Append(@, b), !.authored = @ + Len(stages)]

CloseBlockLine(r, l) ==
  LET b == Last(r.stack)
  IN  IF \/ b = 0 \/ l.target # r.blocks[b].pipeline[1].name
         \/ \E i \in DOMAIN r.active : r.active[i].owner = b
      THEN Reject(r)
      ELSE [r EXCEPT !.stack = Front(@), !.blocks[b].closeLine = r.line]

ReferenceMarker(r, l) ==
  CASE l.lexical = "DirectiveLine" -> ConfigLine(r, l)
    [] l.lexical = "IntervalOpenLine" -> OpenLine(r, l)
    [] l.lexical = "IntervalCloseLine" -> CloseLine(r, l)
    [] l.lexical = "BlockOpenLine" -> OpenBlockLine(r, l)
    [] l.lexical = "BlockCloseLine" -> CloseBlockLine(r, l)
    [] l.lexical \in {"PipelineContinuationLine", "InvalidMarkerLine", "PropertyLine"} -> Reject(r)
    [] l.lexical \in {"TextLine", "BlankLine"} -> RejectIf(l.property, Child(r, "text", r.line))

ReferenceLine(before, l) ==
  LET r == [before EXCEPT !.line = @ + 1]
      literal == r.fence > 0 \/ l.lexical \in {"FenceLine", "EscapedMarkerLine"}
      fence == CASE l.lexical # "FenceLine" -> r.fence
                 [] r.fence = 0 -> l.length
                 [] l.length >= r.fence -> 0
                 [] OTHER -> r.fence
      read == IF literal THEN [Child(r, "text", r.line) EXCEPT !.fence = fence]
              ELSE ReferenceMarker(r, l)
  IN  IF before.rejected THEN before ELSE RejectIf(read.authored > ScopedLimits.stages, read)

ReferenceParse(lines) ==
  LET r == FoldLeft(ReferenceLine, Unparsed, lines)
  IN  RejectIf(Len(r.stack) # 1 \/ r.active # <<>>, r)

-----------------------------------------------------------------------------
(* lower and evaluate: the stages in the order they are invoked.           *)

Invocation(stage, modality, id, source) ==
  [function |-> stage.name, arg |-> Authored(stage.args), modality |-> modality, scopeId |-> id,
   lines |-> source]

(* Python's sort keeps the declaration order of equals, reversed or not.   *)
IntervalInvocations(scopes, direction, source) ==
  LET first(i, j) == IF direction = "desc" THEN scopes[i].order > scopes[j].order
                     ELSE scopes[i].order < scopes[j].order
      before(i) == {j \in DOMAIN scopes : first(j, i) \/ (~first(i, j) /\ j < i)}
      at(n) == CHOOSE i \in DOMAIN scopes : Cardinality(before(i)) = n - 1
  IN  [n \in DOMAIN scopes |->
        Invocation(scopes[at(n)].stage, "interval", scopes[at(n)].id, source)]

FlushBuffer(s, direction) ==
  LET source == <<s.buffer[1], Last(s.buffer)>>
  IN  IF s.buffer = <<>> THEN s
      ELSE [s EXCEPT !.ledger = @ \o IntervalInvocations(s.scopes, direction, source), !.buffer = <<>>]

(* inner: the ledger of the block within this one.                         *)
LowerBlock(s, block, r, inner) ==
  LET source == <<block.line + 1, Max({block.line + 1, block.closeLine - 1})>>
      stages == block.pipeline
      pipeline == [i \in DOMAIN stages |-> Invocation(stages[i], "block", NoName, source)]
      inherited == IF ControlOf(stages[1], "@inherit", "default") = "none" THEN <<>>
                   ELSE IntervalInvocations(s.scopes, r.order, source)
  IN  [s EXCEPT !.ledger = @ \o inner \o pipeline \o inherited]

LowerNode(s, node, r, ledgers) ==
  LET f == FlushBuffer(s, r.order)
  IN  CASE node.kind = "text" -> [s EXCEPT !.buffer = Append(@, node.ref)]
        [] node.kind = "config" -> f
        [] node.kind = "open" -> [f EXCEPT !.scopes = Append(@, node.ref)]
        [] node.kind = "close" -> [f EXCEPT !.scopes = Remove(@, node.ref)]
        [] node.kind = "block" -> LowerBlock(f, r.blocks[node.ref], r, ledgers[node.ref])

Ledger(r) ==
  LET of[b \in 0..Len(r.blocks)] ==
        FlushBuffer(FoldLeft(LAMBDA s, node : LowerNode(s, node, r, of),
                             [ledger |-> <<>>, scopes |-> <<>>, buffer |-> <<>>],
                             r.children[b + 1]), r.order).ledger
  IN  of[0]

(* Mutant: the stage that reaches the limit is refused, not the next one.  *)
LowersBelow(ledger) == Len(ledger) < ScopedLimits.stages

(* apply counts every stage it plans, one for each of the ledger, and      *)
(* refuses the run of too many before any is invoked.                      *)
Lowers(ledger) == Len(ledger) <= ScopedLimits.stages

ReferenceAccepts(lines) == ~ReferenceParse(lines).rejected
ReferenceLedger(lines) == Ledger(ReferenceParse(lines))

-----------------------------------------------------------------------------
(* channel_core.run with source maps: events and anchors.                  *)

(* emit refuses the event after the last it may emit, and so the run.      *)
Emits(emitted) == Len(emitted.events) <= ScopedLimits.events

AnchorKey(invocation) ==
  IF Emission[invocation.function] = "row" THEN <<"row", <<invocation.function>> >>
  ELSE <<"line", invocation.lines[1]>>

(* The points of the first lines, their ends counted.                      *)
Points(text, n) == n + Len(FlattenSeq(SubSeq(text, 1, n)))

ReferenceAnchor(text, invocation) ==
  LET line == invocation.lines[1]
  IN  [line |-> line, quote |-> text[line], function |-> invocation.function,
       start |-> Points(text, line - 1)]

(* A later emission replaces an anchor where it stands.                    *)
ReferenceEmit(e, text, invocation) ==
  LET key == AnchorKey(invocation)
      known == SelectInSeq(e.keys, LAMBDA k : k = key)
      at == IF known = 0 THEN Len(e.keys) + 1 ELSE known
      event == [channel |-> IF Emission[invocation.function] = "line" THEN "system.out" ELSE "notes",
                line |-> invocation.lines[1], anchor |-> at]
  IN  [events |-> Append(e.events, event),
       keys |-> IF known = 0 THEN Append(e.keys, key) ELSE e.keys,
       anchors |-> [i \in 1..Max({at, Len(e.keys)}) |->
                     IF i = at THEN ReferenceAnchor(text, invocation) ELSE e.anchors[i]]]

ReferenceEvents(lines, ledger) ==
  LET text == [i \in DOMAIN lines |-> lines[i].text]
      emitting == SelectSeq(ledger, LAMBDA n : Emission[n.function] # "none")
  IN  FoldLeft(LAMBDA e, n : ReferenceEmit(e, text, n),
               [events |-> <<>>, keys |-> <<>>, anchors |-> <<>>], emitting)

-----------------------------------------------------------------------------
(* conformance/scoped-admission.mjs: which documents the program takes for *)
(* the profile, by its own parser.                                         *)

InProfile(stage, allowed) ==
  /\ stage.name \notin Virtual
  /\ \A key \in DOMAIN stage.args :
       /\ key \in Controls => key \in allowed
       /\ stage.args[key].kind = IF key = "@order" THEN "number" ELSE "string"
       /\ key = "@inherit" => stage.args[key].value \in {"default", "none"}

DepthOf(p, b) ==
  LET depth[c \in 0..Len(p.blocks)] == IF c = 0 THEN 0 ELSE 1 + depth[p.blocks[c].parent]
  IN  depth[b]

AdmitScopedText(lines) ==
  LET p == Finish(FoldLeft(ParseLine, EmptyDocument, lines))
      kinds(b) == {node.kind : node \in ToSet(p.children[b + 1])}
      outside(i) == /\ FenceBefore(lines)[i] = 0
                    /\ lines[i].lexical \notin {"FenceLine", "EscapedMarkerLine"}
      pipelines == FlattenSeq([b \in DOMAIN p.blocks |-> p.blocks[b].pipeline])
  IN  /\ \A d \in ToSet(p.directives) : d.kind = "config" /\ d.order # NoName
      /\ \A b \in DOMAIN p.blocks : "Directive" \notin kinds(b) /\ DepthOf(p, b) <= ScopedLimits.depth
      /\ \A i \in DOMAIN lines :
           /\ Cardinality(p.sourceLines[i].activeScopeIds) <= ScopedLimits.active
           /\ outside(i) => /\ lines[i].lexical \notin {"PipelineContinuationLine", "PropertyLine"}
                            /\ ~lines[i].property
      /\ Len(pipelines) + Len(p.scopes) <= ScopedLimits.stages
      /\ \A b \in DOMAIN p.blocks : \A i \in DOMAIN p.blocks[b].pipeline :
           InProfile(p.blocks[b].pipeline[i], IF i = 1 THEN {"@inherit"} ELSE {})
      /\ \A k \in DOMAIN p.scopes : InProfile(p.scopes[k].stage, {"@id", "@order"})
      /\ Executable(p)

-----------------------------------------------------------------------------
(* check_packages of reference/module_admission.py.                        *)

CheckPackages(modules, lock, grants) ==
  LET locked == [id \in {e.identity : e \in ToSet(lock)} |->
                  CHOOSE e \in ToSet(lock) : e.identity = id]
      package(i) == modules[i].package
      faultOf(i) ==
        LET id == package(i).identity
        IN  CASE ~HasPackage(modules[i]) -> "manifest"
              [] \E j \in 1..(i - 1) : package(j).identity = id -> "duplicate"
              [] package(i).entrypoint # modules[i].path -> "entrypoint"
              [] package(i).digest # Content(modules[i]) -> "digest"
              [] \/ id \notin DOMAIN locked
                 \/ locked[id].digest # Content(modules[i])
                 \/ locked[id].entrypoint # modules[i].path -> "lock"
              [] ~(package(i).required \subseteq grants) -> "grant"
              [] OTHER -> NoFault
      bad == {i \in DOMAIN modules : faultOf(i) # NoFault}
  IN  IF lock = NoLock \/ Cardinality(DOMAIN locked) # Len(lock) THEN "lock"
      ELSE IF bad # {} THEN faultOf(Min(bad))
      ELSE IF Len(lock) # Len(modules) THEN "lock"
      ELSE NoFault

-----------------------------------------------------------------------------
(* What the suites compare                                                 *)

(* The bridge puts one include before the document and takes it off what   *)
(* comes back.                                                             *)
Prefix ==
  LET d == document.source[1]
  IN  IF d.lexical = "DirectiveLine" /\ d.directive.kind = "include" THEN 1 ELSE 0

Compared == SubSeq(document.source, Prefix + 1, Len(document.source))

PlanLedger ==
  LET stages == StagesInOrder
      context(i) == stages[i].detail.context
  IN  [i \in DOMAIN stages |->
        [function |-> stages[i].detail.function, arg |-> stages[i].detail.arg,
         modality |-> context(i).modality, scopeId |-> context(i).scopeId,
         lines |-> <<context(i).lines[1] - Prefix, context(i).lines[2] - Prefix>>]]

(* The runner's anchors go by their place in the result's list.            *)
AnchorOrdinal(anchorId) == SelectInSeq(Anchors(events), LAMBDA anchor : anchor.anchorId = anchorId)

ProjectedEvents ==
  [i \in DOMAIN events |-> [channel |-> events[i].channel, line |-> events[i].line - Prefix,
                            anchor |-> AnchorOrdinal(events[i].anchor.anchorId)]]

ProjectedAnchors ==
  LET anchors == Anchors(events)
  IN  [i \in DOMAIN anchors |->
        [line |-> anchors[i].line - Prefix, quote |-> anchors[i].quote,
         function |-> anchors[i].function, start |-> anchors[i].start - Points(TextOf(document), Prefix)]]

(* The reference's functions emit once; a function here that emits at each *)
(* of its lines is one of them where it has one line.                      *)
EmitOnce ==
  \A k \in DOMAIN PlanLedger :
    Emission[PlanLedger[k].function] = "line" => PlanLedger[k].lines[1] = PlanLedger[k].lines[2]

(* What the suites' runners ask of the program's run, and its control once *)
(* the plan is known and so many events were emitted.                      *)
SuiteLimits ==
  [maxParallelism |-> 1, maxStageResolutions |-> ScopedLimits.stages,
   maxChannelEvents |-> ScopedLimits.events]

PlannedControl == RegisterPlan(RunControl(SuiteLimits), Cardinality(Stages(plan)))

WithinStages == PlannedControl.status = "within-limits"
WithinEvents ==
  \A i \in DOMAIN events : ~AtEventLimit([PlannedControl EXCEPT !.channelEvents = i - 1])

PackageFaults == {"manifest", "duplicate", "entrypoint", "digest", "lock", "grant"}

(* The two refuse a run for its stages alike, and if not plan the same.    *)
PlansAgree ==
  LET ledger == ReferenceLedger(Compared)
  IN  /\ Lowers(ledger) <=> WithinStages
      /\ WithinStages => ledger = PlanLedger

(* They refuse it for its events alike, and if not emit the same.          *)
EventsAgree ==
  LET emitted == ReferenceEvents(Compared, ReferenceLedger(Compared))
  IN  /\ Emits(emitted) <=> WithinEvents
      /\ WithinEvents => emitted.events = ProjectedEvents /\ emitted.anchors = ProjectedAnchors

(* The two implementations agree: they take the same documents; they       *)
(* refuse the same runs for the stages planned and for the events emitted, *)
(* at these limits as at those on what a document may hold; they invoke    *)
(* the same stages of the others in the same order with the same           *)
(* arguments, scopes and lines, emit the same events at the same anchors,  *)
(* and refuse the same packages for the same reason                        *)
(* (SCOPED_TEXT_PROFILE.md:21-32, SOURCE_MAP_CORE_PROFILE.md;              *)
(* reference/scoped_text.py:87-246 and channel_core.py:42-144 beside       *)
(* runtime/parser.js, execution-graph.js, run-policy.js and channels.js    *)
(* under the limits of conformance/scoped-text-runner.mjs:27 and           *)
(* channel-core-runner.mjs:95; reference/module_admission.py:73-127 beside *)
(* runtime/module-admission.js).                                           *)
ReferenceAgrees ==
  /\ phase = "parsed" \/ fault = "syntax" => (ReferenceAccepts(Compared) <=> AdmitScopedText(Compared))
  /\ phase = "planned" /\ ReferenceAccepts(Compared) => PlansAgree
  /\ phase = "executed" /\ ReferenceAccepts(Compared) /\ WithinStages /\ EmitOnce => EventsAgree
  /\ /\ phase = "reading" \/ fault \in PackageFaults
     /\ project.lock # NoLock \/ \E m \in ToSet(project.modules) : HasPackage(m)
     => CheckPackages(project.modules, project.lock, project.grants) = fault

=============================================================================
