----------------------------- MODULE ParseCache -----------------------------
(***************************************************************************)
(* The parse cache of the editor kernel and the incremental parse it feeds *)
(* (runtime/editor-kernel.js:14-39, runtime/parser.js:286-328).  A host    *)
(* speaks of a text in code points, the parser in UTF-16 code units: a     *)
(* change is kept in both, and the next parse takes from the previous tree *)
(* what lies between the changes.                                          *)
(*                                                                         *)
(* A tree is the sequence of code units it was made from, so that a piece  *)
(* of it taken from the wrong place shows.  A document version stands for  *)
(* its text: two texts of one digest are not modelled.  documentId and     *)
(* path are those of the session.                                          *)
(***************************************************************************)
EXTENDS Integers, Sequences, FiniteSetsExt, SequencesExt

CONSTANTS
  Narrow,         \* characters of one code unit
  Wide,           \* characters of two
  OpenTexts,      \* texts a host opens the document with
  MaxLength,      \* bound: code points of a text
  MaxOpens,       \* bound: sessions
  MaxChangeSets,  \* bound: changes over all sessions
  CacheSize       \* parses the cache keeps, 32 in the code

ASSUME ParseCacheAssumption ==
  /\ Narrow \cap Wide = {} /\ OpenTexts \subseteq Seq(Narrow \cup Wide)
  /\ MaxLength \in Nat /\ MaxOpens \in Nat /\ MaxChangeSets \in Nat /\ CacheSize \in Nat

VARIABLES
  head,       \* the document session of editorDocuments
  parses,     \* editorParseCache, oldest entry first
  captured,   \* the snapshot of the run that has not begun to parse
  answer      \* what the last step parsed, and the snapshot it is a parse of

parseCacheVars == <<head, parses, captured, answer>>

-----------------------------------------------------------------------------
(* Code points and code units                                              *)

UnitsOf(c) == IF c \in Wide THEN <<<<c, 1>>, <<c, 2>>>> ELSE <<<<c, 1>>>>
Units(text) == FlattenSeq([i \in DOMAIN text |-> UnitsOf(text[i])])

Between(text, from, to) == SubSeq(text, from + 1, to)

(* Mutant: every character is one code unit.                               *)
CodePointAsUnit(text, offset) == offset

CodePointToCodeUnit(text, offset) == Len(Units(Between(text, 0, offset)))

-----------------------------------------------------------------------------
(* Change sets, in the order of the code: ascending and disjoint           *)

AnyChange(text) ==
  { c \in [from : 0..Len(text), to : 0..Len(text), insert : {<<>>} \cup {<<x>> : x \in Narrow \cup Wide}] :
      c.from <= c.to }

NormalizedChanges(text) ==
  { <<c>> : c \in AnyChange(text) }
    \cup { cc \in AnyChange(text) \X AnyChange(text) :
             cc[1].from < cc[2].from /\ cc[1].to <= cc[2].from }

(* The text with the last change applied first, so that no change moves    *)
(* the place of another.                                                   *)
Edited(text, changes) ==
  FoldRight(LAMBDA c, t : Between(t, 0, c.from) \o c.insert \o Between(t, c.to, Len(t)),
            changes, text)

Growth(text, c) == Len(Units(c.insert)) - Len(Units(Between(text, c.from, c.to)))

PriorInserted(text, changes, i) ==
  MapThenSumSet(LAMBDA j : Growth(text, changes[j]), 1..(i - 1))

ParserChanges(text, changes) ==
  [ i \in DOMAIN changes |->
      LET fromA == CodePointToCodeUnit(text, changes[i].from)
          fromB == fromA + PriorInserted(text, changes, i)
      IN  [fromA |-> fromA, toA |-> CodePointToCodeUnit(text, changes[i].to),
           fromB |-> fromB, toB |-> fromB + Len(Units(changes[i].insert))] ]

-----------------------------------------------------------------------------
(* Parsing                                                                 *)

NoChange == [base |-> <<>>, parserChanges |-> <<>>]
NoParse == [session |-> 0, tree |-> <<>>]

(* TreeFragment.applyChanges: what lies between two changes of the old     *)
(* tree, placed where it is in the new text.                               *)
Fragments(tree, changes) ==
  { LET pos == IF k = 0 THEN 0 ELSE changes[k].toA
        next == IF k = Len(changes) THEN Len(tree) ELSE changes[k + 1].fromA
        offset == IF k = 0 THEN 0 ELSE changes[k].toA - changes[k].toB
    IN  [from |-> pos - offset, to |-> next - offset, offset |-> offset] : k \in 0..Len(changes) }

(* The parser takes a kept piece of tree for what it covers, and reads the *)
(* text elsewhere.                                                         *)
ParseWith(units, tree, fragments) ==
  [ p \in DOMAIN units |->
      LET kept == { f \in fragments : f.from < p /\ p <= f.to }
      IN  IF kept = {} THEN units[p] ELSE tree[p + (CHOOSE f \in kept : TRUE).offset] ]

ParseDocument(snapshot, previous) ==
  [session |-> snapshot.session,
   tree |-> ParseWith(Units(snapshot.source), previous.tree,
                      IF previous = NoParse \/ snapshot.lastChange.parserChanges = <<>> THEN {}
                      ELSE Fragments(previous.tree, snapshot.lastChange.parserChanges))]

ParseCacheKey(session, version) == [session |-> session, version |-> version]

HasParse(key) == \E i \in DOMAIN parses : parses[i].key = key
ParseOf(key) ==
  IF HasParse(key) THEN parses[CHOOSE i \in DOMAIN parses : parses[i].key = key].parsed ELSE NoParse

Kept(entries) == IF Len(entries) > CacheSize THEN Tail(entries) ELSE entries

ParseEditorSnapshot(snapshot) ==
  LET key == ParseCacheKey(snapshot.session, snapshot.source)
      previous == IF snapshot.lastChange = NoChange THEN NoParse
                  ELSE ParseOf(ParseCacheKey(snapshot.session, snapshot.lastChange.base))
      parsed == IF HasParse(key) THEN ParseOf(key) ELSE ParseDocument(snapshot, previous)
  IN  /\ answer' = [snapshot |-> snapshot, parsed |-> parsed]
      /\ parses' = IF HasParse(key) THEN parses ELSE Kept(Append(parses, [key |-> key, parsed |-> parsed]))

-----------------------------------------------------------------------------
(* Operations                                                              *)

NoSession == [session |-> 0, edits |-> 0, source |-> <<>>, lastChange |-> NoChange]
NoAnswer == [snapshot |-> NoSession, parsed |-> NoParse]
IsOpened == head.session # 0

ParseCacheInit ==
  /\ head = NoSession /\ captured = NoSession /\ parses = <<>>
  /\ answer = NoAnswer

(* A new session; the parses of the one it replaces are dropped, those a   *)
(* run captured before makes later are not.                                *)
OpenEditorDocument(text) ==
  /\ head.session < MaxOpens
  /\ head' = [session |-> head.session + 1, edits |-> head.edits,
              source |-> text, lastChange |-> NoChange]
  /\ parses' = SelectSeq(parses, LAMBDA e : e.key.session # head.session)
  /\ answer' = NoAnswer
  /\ UNCHANGED captured

(* A change set that leaves the text as it is leaves lastChange too.       *)
ApplyEditorChange(changes) ==
  /\ IsOpened /\ head.edits < MaxChangeSets
  /\ Edited(head.source, changes) # head.source
  /\ Len(Edited(head.source, changes)) <= MaxLength
  /\ head' = [head EXCEPT
       !.source = Edited(@, changes), !.edits = @ + 1,
       !.lastChange = [base |-> head.source, parserChanges |-> ParserChanges(head.source, changes)]]
  /\ answer' = NoAnswer
  /\ UNCHANGED <<parses, captured>>

AnalyzeEditorDocument ==
  /\ IsOpened
  /\ ParseEditorSnapshot(head)
  /\ UNCHANGED <<head, captured>>

CaptureEditorRun ==
  /\ IsOpened /\ captured = NoSession
  /\ captured' = head
  /\ answer' = NoAnswer
  /\ UNCHANGED <<head, parses>>

(* The run begins, whatever became of the document since it was asked for. *)
ExecuteCaptured ==
  /\ captured # NoSession
  /\ ParseEditorSnapshot(captured)
  /\ captured' = NoSession
  /\ UNCHANGED head

ParseCacheNext ==
  \/ \E text \in OpenTexts : OpenEditorDocument(text)
  \/ \E changes \in NormalizedChanges(head.source) : ApplyEditorChange(changes)
  \/ AnalyzeEditorDocument
  \/ CaptureEditorRun
  \/ ExecuteCaptured

ParseCacheSpec == ParseCacheInit /\ [][ParseCacheNext]_parseCacheVars

-----------------------------------------------------------------------------
(* Properties                                                              *)

(* Whatever was parsed before, evicted since or captured in a session that *)
(* was replaced: the parse a run or an analysis gets is the one a fresh    *)
(* parse of its own text and session would give                            *)
(* (runtime/editor-kernel.js:22-39, docs: reuse "incremental-tree").       *)
ParseIsOfItsText ==
  answer.parsed = [session |-> answer.snapshot.session, tree |-> Units(answer.snapshot.source)]

=============================================================================
