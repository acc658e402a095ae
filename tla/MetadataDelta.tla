---------------------------- MODULE MetadataDelta ----------------------------
(***************************************************************************)
(* What a committed run tells a subscriber: the events of the new result   *)
(* compared with those of the one before (buildEditorMetadataDelta of      *)
(* runtime/editor-kernel.js), and where the anchors of the old events went *)
(* (editorAnchorContinuity).  Events and anchors are made by emit and      *)
(* createAnchor of runtime/channels.js.                                    *)
(*                                                                         *)
(* A document version is modelled by the text it is a digest of, an        *)
(* identity by the key it is a digest of.                                  *)
(***************************************************************************)
EXTENDS Integers, Sequences, FiniteSets, SequencesExt

-----------------------------------------------------------------------------
(* emit.  A document is the sequence of its lines' texts, each as long as  *)
(* its sequence; line ends count.                                          *)

PositionForLine(text, line) ==
  FoldLeft(LAMBDA sum, t : sum + Len(t) + 1, 0, SubSeq(text, 1, line - 1))

(* An anchor at a line is bound to the version of the document; one at a   *)
(* row that has an id of its own is not.                                   *)
CreateAnchor(text, at, origin) ==
  [anchorId |-> IF at.mode = "row" THEN <<"row", at.rowId>> ELSE <<"line", text, at.line>>,
   line |-> at.line, rowId |-> at.rowId, start |-> PositionForLine(text, at.line),
   quote |-> text[at.line], function |-> origin.function, module |-> origin.module]

(* at: the mode and line the transform gave, and its row id, NoRow if it   *)
(* gave none.                                                              *)
NoRow == <<>>

Emit(events, text, channel, at, origin) ==
  LET placed == [at EXCEPT !.rowId = IF @ = NoRow THEN <<text, origin.function, at.line>> ELSE @]
      anchor == CreateAnchor(text, placed, origin)
  IN  Append(events, [sequence |-> Len(events) + 1, channel |-> channel, rowId |-> placed.rowId,
                      mode |-> at.mode, line |-> at.line, payload |-> text[at.line],
                      origin |-> origin, anchor |-> anchor])

-----------------------------------------------------------------------------
(* Events by key                                                           *)

(* system.out declares the anchor as its key; other channels are keyed by  *)
(* the row.                                                                *)
LogicalKey(event) ==
  <<event.channel, IF event.channel = "system.out" THEN event.anchor.anchorId
                   ELSE <<"row id", event.rowId>> >>

(* Only an event alone under its key keeps an identity over revisions.     *)
IsStable(events, i) ==
  \A j \in DOMAIN events : LogicalKey(events[j]) = LogicalKey(events[i]) => j = i

IndexKey(events, i) ==
  IF IsStable(events, i) THEN LogicalKey(events[i])
  ELSE Append(LogicalKey(events[i]), events[i].sequence)

IndexEntry(events, i) ==
  [event |-> events[i], stable |-> IsStable(events, i),
   identity |-> IF IsStable(events, i) THEN LogicalKey(events[i])
                ELSE <<LogicalKey(events[i]), events[i].payload, events[i].line, events[i].sequence>>]

IndexedEditorEvents(events) ==
  [key \in {IndexKey(events, i) : i \in DOMAIN events} |->
    IndexEntry(events, CHOOSE i \in DOMAIN events : IndexKey(events, i) = key)]

SemanticValue(event) == <<event.channel, event.payload, event.mode, event.origin>>

PlacementValue(event) == event.line

-----------------------------------------------------------------------------
(* The delta: what the host removes, then what it puts.                    *)

Collections(before, after) ==
  LET kept == {key \in DOMAIN after \cap DOMAIN before : before[key].stable /\ after[key].stable}
      changed == {key \in kept : SemanticValue(before[key].event) # SemanticValue(after[key].event)}
      moved == {key \in kept \ changed :
                 PlacementValue(before[key].event) # PlacementValue(after[key].event)}
  IN  [added |-> {after[key] : key \in DOMAIN after \ kept},
       removed |-> {before[key] : key \in DOMAIN before \ kept},
       changed |-> {after[key] : key \in changed},
       moved |-> {after[key] : key \in moved},
       unchanged |-> {after[key] : key \in kept \ (changed \cup moved)}]

-----------------------------------------------------------------------------
(* Anchors: one per id, in the order they were first made, as they were    *)
(* made last.                                                              *)

Anchors(events) ==
  LET firsts == SelectSeq([i \in DOMAIN events |-> i], LAMBDA i :
        \A j \in 1..(i - 1) : events[j].anchor.anchorId # events[i].anchor.anchorId)
      last(id) == SelectLastInSeq(events, LAMBDA event : event.anchor.anchorId = id)
  IN  [k \in DOMAIN firsts |-> events[last(events[firsts[k]].anchor.anchorId)].anchor]

IdsOf(anchors) == {anchors[k].anchorId : k \in DOMAIN anchors}

SameAnchor(before, current) == CHOOSE after \in ToSet(current) : after.anchorId = before.anchorId

Resembles(before, after) ==
  /\ before.quote # <<>>
  /\ after.quote = before.quote
  /\ after.function = before.function
  /\ after.module = before.module

Moved(before, after) == before.line # after.line \/ before.start # after.start

Transition(status, from, to) == [status |-> status, from |-> from, to |-> to]

(* Mutant: a candidate taken by an earlier anchor may be taken again.      *)
RelinkTaken(c, before, after) == Resembles(before, after)

(* c: the anchors of the new result not yet accounted for.                 *)
IsCandidate(c, before, after) == after \in c.unused /\ Resembles(before, after)

(* An anchor whose id is gone is linked to the only one that resembles it. *)
Relink(c, before, current) ==
  LET candidates == {after \in ToSet(current) : IsCandidate(c, before, after)}
      status == CASE Cardinality(candidates) = 1 -> "relinked"
                  [] Cardinality(candidates) > 1 -> "ambiguous"
                  [] candidates = {} -> "orphaned"
      to == IF status = "relinked" THEN candidates ELSE {}
  IN  [unused |-> c.unused \ to,
       transitions |-> Append(c.transitions, Transition(status, {before}, to))]

EditorAnchorContinuity(previous, current) ==
  LET same == SelectSeq(previous, LAMBDA a : a.anchorId \in IdsOf(current))
      gone == SelectSeq(previous, LAMBDA a : a.anchorId \notin IdsOf(current))
      kept == [k \in DOMAIN same |->
                LET after == SameAnchor(same[k], current)
                IN  Transition(IF Moved(same[k], after) THEN "moved" ELSE "retained",
                               {same[k]}, {after})]
      fresh == {after \in ToSet(current) : after.anchorId \notin IdsOf(previous)}
      relinked == FoldLeft(LAMBDA c, before : Relink(c, before, current),
                           [unused |-> fresh, transitions |-> kept], gone)
  IN  relinked.transitions
        \o SetToSeq({Transition("added", {}, {after}) : after \in relinked.unused})

=============================================================================
