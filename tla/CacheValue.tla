----------------------------- MODULE CacheValue -----------------------------
(***************************************************************************)
(* The values that stages hand to the stage cache and to each other:       *)
(* their snapshot as typed JSON (runtime/stage-cache.js:18-185), and its   *)
(* use around one invocation in the worker, which takes a snapshot of the  *)
(* input before and after it and of the output, and detaches the output of *)
(* a stage that ran beside others (runtime/worker-entry.js:39-56,          *)
(* 259-281, 365-384).  Beside them the values that stages emit: their      *)
(* canonical text (runtime/canonical-json.js:2-39) and the copy that is    *)
(* published (runtime/channel-schema.js:58-76).                            *)
(*                                                                         *)
(* A heap is a sequence of objects whose items are numbers, holes or       *)
(* references to objects; object 1 is the stage's input.  An object that   *)
(* is not a plain array or record (a class instance, one with accessors,   *)
(* symbols or extra properties) is of kind "foreign"; what the cache       *)
(* refuses and a channel takes (frozen objects, array subclasses) is left  *)
(* out.                                                                    *)
(* Keys, strings and booleans take the way of the numbers and are left     *)
(* out, the keys with their order being part of the items.                 *)
(***************************************************************************)
EXTENDS Integers, Sequences, FiniteSets, SequencesExt

CONSTANTS
  Standard,      \* kinds of the program's plain objects: "array", "object", "null-object"
  MaxObjects,    \* bound: objects of a heap
  MaxItems,      \* bound: items of all of them
  MaxNodes       \* MAX_ENTRY_BYTES, in nodes of the snapshot

ASSUME CacheValueAssumption ==
  /\ Standard \subseteq {"array", "object", "null-object"}
  /\ MaxObjects \in Nat \ {0} /\ MaxItems \in Nat /\ MaxNodes \in Nat

VARIABLE invocation

Kinds == Standard \cup {"foreign"}
Number(n) == <<"number", n>>
Ref(o) == <<"ref", o>>
Hole == <<"undefined", "">>
Values(linked) == {Number("0"), Number("-0"), Hole} \cup {Ref(o) : o \in 1..linked}

-----------------------------------------------------------------------------
(* Snapshots                                                               *)

(* JSON has no negative zero: it goes as a string.                         *)
NumberPayload(n) == IF n = "-0" THEN "text -0" ELSE n

(* Mutant: only what is on the way counts, as for a witness.               *)
SeenOnPath(before, after, rejectAliases) == before

(* Without aliases what was seen once stays seen; with them only the       *)
(* objects on the way to a value count, so that cycles are found.          *)
SeenAfter(before, after, rejectAliases) == IF rejectAliases THEN after ELSE before

Refused(seen) == [ok |-> FALSE, node |-> <<>>, seen |-> seen]

RECURSIVE CacheValueNode(_, _, _, _)
EncodeItems(heap, o, seen, rejectAliases) ==
  FoldLeft(LAMBDA acc, v :
             IF ~acc.ok THEN acc
             ELSE LET item == CacheValueNode(heap, v, acc.seen, rejectAliases)
                  IN  [item EXCEPT !.node = Append(acc.node, item.node)],
           [ok |-> TRUE, node |-> <<>>, seen |-> seen], heap[o].items)

CacheValueNode(heap, v, seen, rejectAliases) ==
  CASE v = Hole -> Refused(seen)
    [] v[1] = "number" -> [ok |-> TRUE, node |-> <<"number", NumberPayload(v[2])>>, seen |-> seen]
    [] v[1] = "ref" ->
         IF v[2] \in seen \/ heap[v[2]].kind \notin Standard THEN Refused(seen)
         ELSE LET items == EncodeItems(heap, v[2], seen \cup {v[2]}, rejectAliases)
              IN  [ok |-> items.ok, node |-> <<heap[v[2]].kind, items.node>>,
                   seen |-> SeenAfter(seen, items.seen, rejectAliases)]

RECURSIVE DecodeCacheNode(_)
DecodeCacheNode(node) ==
  IF node[1] = "number" THEN Number(IF node[2] = "text -0" THEN "-0" ELSE node[2])
  ELSE <<node[1], [i \in DOMAIN node[2] |-> DecodeCacheNode(node[2][i])]>>

RECURSIVE NodesOf(_)
NodesOf(node) ==
  IF node[1] = "number" THEN 1
  ELSE FoldLeft(LAMBDA n, item : n + NodesOf(item), 1, node[2])

NoSnapshot == [ok |-> FALSE, wire |-> <<>>]
Unlimited == MaxItems * MaxItems + 1

SnapshotTypedValue(heap, v, maxNodes, rejectAliases) ==
  LET encoded == CacheValueNode(heap, v, {}, rejectAliases)
  IN  IF encoded.ok /\ NodesOf(encoded.node) <= maxNodes
      THEN [ok |-> TRUE, wire |-> encoded.node] ELSE NoSnapshot

SnapshotCacheValue(heap, v) == SnapshotTypedValue(heap, v, MaxNodes, TRUE)

(* The plan data of a witness may share objects; its limit is not reached  *)
(* here.                                                                   *)
StageCacheWitness(heap, witnessBase, inputSnapshot) ==
  IF inputSnapshot.ok THEN SnapshotTypedValue(heap, witnessBase, Unlimited, FALSE) ELSE NoSnapshot

(* cloneTypedValue encodes what it decoded and refuses another wire; a     *)
(* decoded value is a tree of its own objects, encoded as it stands.       *)
RECURSIVE EncodeTree(_)
EncodeTree(t) ==
  IF t[1] = "number" THEN <<"number", NumberPayload(t[2])>>
  ELSE <<t[1], [i \in DOMAIN t[2] |-> EncodeTree(t[2][i])]>>
NotDetachable == <<"error", "">>
DetachParallelOutput(heap, v) ==
  LET snapshot == SnapshotTypedValue(heap, v, Unlimited, TRUE)
  IN  IF snapshot.ok /\ EncodeTree(DecodeCacheNode(snapshot.wire)) = snapshot.wire
      THEN DecodeCacheNode(snapshot.wire) ELSE NotDetachable

-----------------------------------------------------------------------------
(* Payloads                                                                *)

(* A record made by the kernel is an ordinary object.                      *)
Prototype(kind) == IF kind = "null-object" THEN "object" ELSE kind

(* JSON.stringify(-0) is "0"; whether a record has a prototype is not      *)
(* seen.  An object is an ancestor while it is visited: it may occur again *)
(* beside itself, but not below.                                           *)
RECURSIVE Canonicalize(_, _, _)
CanonicalItems(heap, o, ancestors) ==
  FoldLeft(LAMBDA acc, v :
             LET item == Canonicalize(heap, v, ancestors)
             IN  [ok |-> acc.ok /\ item.ok, text |-> Append(acc.text, item.text)],
           [ok |-> TRUE, text |-> <<>>], heap[o].items)

Canonicalize(heap, v, ancestors) ==
  CASE v = Hole -> [ok |-> FALSE, text |-> <<>>]
    [] v[1] = "number" -> [ok |-> TRUE, text |-> <<"number", "0">>]
    [] v[1] = "ref" ->
         IF v[2] \in ancestors \/ heap[v[2]].kind \notin Standard THEN [ok |-> FALSE, text |-> <<>>]
         ELSE LET items == CanonicalItems(heap, v[2], ancestors \cup {v[2]})
              IN  [ok |-> items.ok, text |-> <<Prototype(heap[v[2]].kind), items.text>>]

(* What is shared comes out as several copies.                             *)
RECURSIVE Copy(_, _)
Copy(heap, v) ==
  IF v[1] # "ref" THEN v
  ELSE <<Prototype(heap[v[2]].kind), [i \in DOMAIN heap[v[2]].items |-> Copy(heap, heap[v[2]].items[i])]>>

NotLossless == [ok |-> FALSE, payload |-> <<>>]
ValidateChannelPayload(heap, v) ==
  IF Canonicalize(heap, v, {}).ok THEN [ok |-> TRUE, payload |-> Copy(heap, v)] ELSE NotLossless

-----------------------------------------------------------------------------
(* What a value is: the reference the snapshots are compared with          *)

Targets(heap, o) == { heap[o].items[i][2] : i \in { j \in DOMAIN heap[o].items : heap[o].items[j][1] = "ref" } }
Reaches(heap, o) ==
  LET Grown(S, n) == S \cup UNION { Targets(heap, p) : p \in S }
  IN  FoldLeft(Grown, {o}, [n \in DOMAIN heap |-> n])

Uses(heap, objects, p) ==
  { use \in UNION { {p2} \X DOMAIN heap[p2].items : p2 \in objects } :
      heap[use[1]].items[use[2]] = Ref(p) }

IsPlain(heap, o) ==
  \A p \in Reaches(heap, o) :
    heap[p].kind \in Standard /\ \A i \in DOMAIN heap[p].items : heap[p].items[i] # Hole
IsTree(heap, o) ==
  \A p \in Reaches(heap, o) :
    Cardinality(Uses(heap, Reaches(heap, o), p)) = (IF p = o THEN 0 ELSE 1)
IsAcyclic(heap, o) ==
  \A p \in Reaches(heap, o) : \A q \in Targets(heap, p) : p \notin Reaches(heap, q)

(* The value of an acyclic object, whatever of it is shared.               *)
RECURSIVE ValueOf(_, _)
ValueOf(heap, v) ==
  IF v[1] # "ref" THEN v
  ELSE <<heap[v[2]].kind, [i \in DOMAIN heap[v[2]].items |-> ValueOf(heap, heap[v[2]].items[i])]>>

-----------------------------------------------------------------------------
(* One invocation                                                          *)

Heap == invocation.heap
Items(heap) == FoldLeft(LAMBDA n, object : n + Len(object.items), 0, heap)

InputOf(kind) ==
  [heap |-> <<[kind |-> kind, items |-> <<>>]>>, step |-> "building",
   inputSnapshot |-> NoSnapshot, before |-> <<>>,
   output |-> 1, outputSnapshot |-> NoSnapshot, detached |-> NotDetachable]
CacheValueInit == \E kind \in Kinds : invocation = InputOf(kind)

(* A function adds to an object, with an object that is new or not, or     *)
(* writes over what it holds.  What foreign objects hold is never read.    *)
Added(heap, o, v) == [heap EXCEPT ![o].items = Append(@, v)]
Heaps(heap, o) ==
  { Added(heap, o, v) : v \in Values(Len(heap)) }
    \cup { Append(Added(heap, o, Ref(Len(heap) + 1)), [kind |-> kind, items |-> <<>>]) : kind \in Kinds }
    \cup { [heap EXCEPT ![o].items[i] = v] : i \in DOMAIN heap[o].items, v \in Values(Len(heap)) }

FunctionWrites(step, next) ==
  /\ invocation.step = step
  /\ \E o \in { p \in DOMAIN Heap : Heap[p].kind \in Standard } : \E heap \in Heaps(Heap, o) :
       /\ Len(heap) <= MaxObjects /\ Items(heap) <= MaxItems
       /\ invocation' = [invocation EXCEPT !.heap = heap, !.step = next]

(* What made the input before, and at most one write of the stage itself.  *)
EarlierStagesWrite == FunctionWrites("building", "building")
StageWrites == FunctionWrites("invoked", "written")

(* before is what the input was, for the properties.                       *)
PrepareStage ==
  /\ invocation.step = "building"
  /\ invocation' = [invocation EXCEPT
       !.step = "invoked", !.inputSnapshot = SnapshotCacheValue(Heap, Ref(1)),
       !.before = IF IsAcyclic(Heap, 1) THEN ValueOf(Heap, Ref(1)) ELSE <<>>]

InputIsUnchanged(inputSnapshot, inputAfter) ==
  inputSnapshot.ok => inputAfter.ok /\ inputAfter.wire = inputSnapshot.wire

(* The function returns an object; the invocation is refused if it wrote   *)
(* to an input that was cacheable.                                         *)
ValidateSuccess ==
  /\ invocation.step \in {"invoked", "written"}
  /\ \E output \in DOMAIN Heap :
       invocation' =
         IF InputIsUnchanged(invocation.inputSnapshot, SnapshotCacheValue(Heap, Ref(1)))
         THEN [invocation EXCEPT
                 !.step = "succeeded", !.output = output,
                 !.outputSnapshot = SnapshotCacheValue(Heap, Ref(output)),
                 !.detached = DetachParallelOutput(Heap, Ref(output))]
         ELSE [invocation EXCEPT !.step = "failed"]

CacheValueNext == EarlierStagesWrite \/ StageWrites \/ PrepareStage \/ ValidateSuccess

CacheValueSpec == CacheValueInit /\ [][CacheValueNext]_invocation

-----------------------------------------------------------------------------
(* Properties                                                              *)

IsValue(heap, o) == IsPlain(heap, o) /\ IsTree(heap, o)

(* The value as JSON has it: no negative zero and one kind of record.      *)
RECURSIVE AsJson(_)
AsJson(t) ==
  IF t[1] = "number" THEN Number("0")
  ELSE <<Prototype(t[1]), [i \in DOMAIN t[2] |-> AsJson(t[2][i])]>>

(* A payload is published exactly when it is plain and without cycles,     *)
(* shared objects or not, as a value of its own that is the emitted one up *)
(* to the kind of its records, and two are told apart by their canonical   *)
(* text exactly when JSON tells them apart.                                *)
PayloadsAreDetached(heap) ==
  LET validated == [o \in DOMAIN heap |-> ValidateChannelPayload(heap, Ref(o))]
      sound == {o \in DOMAIN heap : IsPlain(heap, o) /\ IsAcyclic(heap, o)}
  IN  /\ \A o \in DOMAIN heap : validated[o].ok <=> o \in sound
      /\ \A o, p \in sound :
           /\ AsJson(validated[o].payload) = AsJson(ValueOf(heap, Ref(o)))
           /\ Canonicalize(heap, Ref(o), {}).text = Canonicalize(heap, Ref(p), {}).text
                <=> AsJson(ValueOf(heap, Ref(o))) = AsJson(ValueOf(heap, Ref(p)))

(* A snapshot is taken of plain trees only and of all that fit, a witness  *)
(* of plan data without cycles; a copy made from a snapshot is the value that was *)
(* returned, and a stage succeeds exactly when a cacheable input is the    *)
(* value it was before, whatever objects input and output share and        *)
(* however the function rewrote them (runtime/stage-cache.js:137-177,      *)
(* runtime/worker-entry.js:365-377); and what it emits on the way is       *)
(* detached (runtime/channel-schema.js:58-76).                             *)
SnapshotsAreLossless ==
  /\ invocation.step \in {"invoked", "written"} => PayloadsAreDetached(Heap)
  /\ invocation.step = "invoked" =>
       \A base \in DOMAIN Heap :
         LET witness == StageCacheWitness(Heap, Ref(base), invocation.inputSnapshot)
         IN  /\ witness.ok <=>
                  invocation.inputSnapshot.ok /\ IsPlain(Heap, base) /\ IsAcyclic(Heap, base)
             /\ witness.ok => DecodeCacheNode(witness.wire) = ValueOf(Heap, Ref(base))
  /\ invocation.step = "succeeded" =>
       /\ invocation.detached # NotDetachable <=> IsValue(Heap, invocation.output)
       /\ invocation.detached # NotDetachable =>
            invocation.detached = ValueOf(Heap, Ref(invocation.output))
       /\ invocation.outputSnapshot.ok =>
            DecodeCacheNode(invocation.outputSnapshot.wire) = invocation.detached
       /\ invocation.inputSnapshot.ok =>
            IsValue(Heap, 1) /\ ValueOf(Heap, Ref(1)) = invocation.before
  /\ invocation.step = "failed" =>
       ~IsValue(Heap, 1) \/ ValueOf(Heap, Ref(1)) # invocation.before

=============================================================================
