------------------------- MODULE HostClient_proofs -------------------------
(***************************************************************************)
(* The edits of a document bound to the worker, for every value of         *)
(* HostClient's constants: every one lands on the kernel's text in order,  *)
(* whatever is refused, overtaken by a reset, or lost with the transport.  *)
(***************************************************************************)
EXTENDS HostClient, FiniteSetTheorems, SequenceTheorems, TLAPS

(* What is on its way to the worker, and what on its way back.             *)
Asked == toKernel \o stdin
Answered == stdout \o toHost

(* What a message or a call asks for, of what decides the text.            *)
IsAsk(m) == m.type \in {"open", "change"}
IsChange(m) == m.type = "change"
IsOpen(m) == m.type = "open"

(* A change that is not settled, of the session the host opened last; one  *)
(* that the binding has not sent; the last edit that waits in no queue.    *)
Live(h, p) ==
  /\ p \in h.pending /\ IsChange(h.calls[p])
  /\ \A q \in p..Len(h.calls) : ~IsOpen(h.calls[q])
Direct(h, p) == Live(h, p) /\ p # h.sent
LastOut(h) == h.edits - Len(h.queue)

(* A change or an open that was accepted, and the host does not know yet.  *)
OkChange(h, m) == m.ok /\ m.requestId \in h.pending /\ IsChange(h.calls[m.requestId])
OkOpen(h, m) == m.ok /\ m.requestId \in h.pending /\ IsOpen(h.calls[m.requestId])
NoneOk(h, a) == \A j \in 1..Len(a) : ~OkChange(h, a[j])

(* The edit a message carries: the call it was sent for knows.             *)
EditOf(h, m) == h.calls[m.requestId].edit

-----------------------------------------------------------------------------

(* The parts of the invariant, over the host h, the kernel k, the messages *)
(* w on their way to it and the answers a on their way back.               *)

(* The host by itself: only an accepted chain sends and queues, and what   *)
(* opens the document again is the last thing the host asked.              *)
Shape(h) ==
  /\ h.rejected => h.sent = 0 /\ h.queue = <<>>
  /\ h.disposed => h.rejected /\ h.pending = {}
  /\ h.pending \subseteq 1..Len(h.calls)
  /\ \A i \in 1..Len(h.calls) : h.calls[i].edit <= h.edits
  /\ h.resync # 0 =>
       /\ h.rejected
       /\ h.resync \in 1..Len(h.calls) /\ IsOpen(h.calls[h.resync])
       /\ h.disposed \/ h.resync \in h.pending
       /\ \A p \in h.pending : IsChange(h.calls[p]) => p < h.resync
  /\ \A p \in h.pending : IsOpen(h.calls[p]) => p = h.resync

(* The edits that wait are the last ones, in order; at most one change     *)
(* went out past the queue, and the one the queue sent is its head.        *)
Queue(h) ==
  ~h.rejected =>
    /\ Len(h.queue) <= h.edits
    /\ \A i \in 1..Len(h.queue) : h.queue[i] = LastOut(h) + i
    /\ \A p, q \in h.pending : Direct(h, p) /\ Direct(h, q) => p = q
    /\ \A p \in h.pending : Direct(h, p) => h.calls[p].edit = LastOut(h)
    /\ h.sent # 0 =>
         /\ Live(h, h.sent) /\ h.queue # <<>> /\ h.calls[h.sent].edit = Head(h.queue)
         /\ \A p \in h.pending : Direct(h, p) => p < h.sent

(* Edits wait only for a change under way.                                 *)
Waits(h) == ~h.rejected /\ h.queue # <<>> => h.sent # 0

(* Every message and every answer belongs to a call.                       *)
Known(h, k, w, a) ==
  /\ \A j \in 1..Len(w) : /\ w[j].requestId \in 1..Len(h.calls)
                          /\ h.calls[w[j].requestId].type = w[j].type
  /\ \A j \in 1..Len(a) : a[j].ok \/ k.up => a[j].requestId \in 1..Len(h.calls)
  /\ \A j \in 1..Len(a) : k.up => a[j].type # "failure"
  /\ \A j \in 1..Len(k.queue) : /\ k.queue[j].requestId \in 1..Len(h.calls)
                                /\ h.calls[k.queue[j].requestId].type = "run"

(* The kernel's text is one the user had, with every acknowledged edit.    *)
Texts(h, k) ==
  /\ k.session # 0 => \E n \in 0..h.edits : k.text = TextAfter(n)
  /\ \A i \in 1..Len(h.calls) :
       IsChange(h.calls[i]) /\ h.calls[i].outcome = "resolved" =>
         k.session # 0 /\ Len(k.text) >= h.calls[i].edit

(* What is on its way is in the order it was asked, nothing follows an     *)
(* open, and a later change starts from no newer a revision.               *)
Order(h, w) ==
  /\ \A i, j \in 1..Len(w) :
       i < j /\ IsAsk(w[i]) /\ IsAsk(w[j]) => w[i].requestId < w[j].requestId
  /\ \A i, j \in 1..Len(w) : i < j /\ IsOpen(w[i]) => ~IsAsk(w[j])
  /\ \A i, j \in 1..Len(w) :
       i < j /\ IsChange(w[i]) /\ IsChange(w[j]) => w[j].baseRevision <= w[i].baseRevision
  /\ \A i, j \in 1..Len(w) :
       i < j /\ IsChange(w[i]) /\ IsOpen(w[j]) => EditOf(h, w[i]) <= EditOf(h, w[j])

(* A change on its way starts from a revision the kernel has had, and, if  *)
(* it is the first at the current one, from the current text.              *)
Changes(h, k, w) ==
  \A j \in 1..Len(w) : IsChange(w[j]) =>
    /\ k.session # 0 /\ EditOf(h, w[j]) >= 1
    /\ w[j].before = TextAfter(EditOf(h, w[j]) - 1) /\ w[j].after = TextAfter(EditOf(h, w[j]))
    /\ w[j].baseRevision <= k.revision
    /\ w[j].baseRevision = k.revision /\ (\A i \in 1..Len(w) : i < j => ~IsChange(w[i])) =>
         k.text = w[j].before

(* An open on its way is the host's last, its text not behind the kernel's. *)
Opens(h, k, w) ==
  \A j \in 1..Len(w) : IsOpen(w[j]) =>
    /\ h.rejected /\ (h.disposed \/ w[j].requestId = h.resync)
    /\ w[j].text = TextAfter(EditOf(h, w[j]))
    /\ k.session # 0 => Len(k.text) <= EditOf(h, w[j])

(* An acknowledgement on its way back tells what the kernel has now.       *)
Back(h, k, w, a) ==
  /\ \A i, j \in 1..Len(a) : i < j /\ OkOpen(h, a[i]) => ~OkChange(h, a[j]) /\ ~OkOpen(h, a[j])
  /\ \A j \in 1..Len(a) : OkOpen(h, a[j]) =>
       /\ k.session # 0 /\ a[j].revision = k.revision /\ a[j].text = k.text
       /\ k.up => \A i \in 1..Len(w) : ~IsAsk(w[i])
  /\ \A j \in 1..Len(a) : OkChange(h, a[j]) => k.session # 0 /\ Len(k.text) >= EditOf(h, a[j])
  /\ k.up => \A j \in 1..Len(a) :
       /\ h.resync # 0 /\ a[j].requestId = h.resync => a[j].ok
       /\ \A i \in 1..Len(w) : IsAsk(w[i]) => w[i].requestId # a[j].requestId

(* While the chain is accepted the host's revision is the kernel's, or the *)
(* acknowledgement that makes it so is on its way.                         *)
Ahead(h, k, a) ==
  /\ k.session # 0 /\ h.revision <= k.revision
  /\ \A j \in 1..Len(a) : OkChange(h, a[j]) =>
       /\ Live(h, a[j].requestId)
       /\ a[j].revision = k.revision /\ h.revision < k.revision
       /\ k.text = TextAfter(EditOf(h, a[j]))
       /\ a[j].requestId = h.sent => \A p \in h.pending : ~Direct(h, p)
  /\ NoneOk(h, a) =>
       /\ k.revision = h.revision
       /\ k.text = TextAfter(IF \E p \in h.pending : Direct(h, p)
                             THEN LastOut(h) - 1 ELSE LastOut(h))

(* While the kernel runs, no change of the chain is lost on its way.       *)
Way(h, w, a) ==
  /\ \A j \in 1..Len(w) : IsChange(w[j]) =>
       /\ Live(h, w[j].requestId) /\ w[j].baseRevision <= h.revision
       /\ w[j].requestId # h.sent => w[j].baseRevision = h.revision
  /\ \A p \in h.pending : Direct(h, p) =>
       \/ \E j \in 1..Len(a) : OkChange(h, a[j]) /\ a[j].requestId = p
       \/ \E j \in 1..Len(w) : IsChange(w[j]) /\ w[j].requestId = p

(* All parts; those about the way there need a kernel that is up.          *)
Good(h, k, w, a) ==
  /\ Shape(h) /\ Queue(h) /\ Known(h, k, w, a) /\ Texts(h, k)
  /\ k.up => Order(h, w) /\ Changes(h, k, w) /\ Opens(h, k, w)
  /\ Back(h, k, w, a)
  /\ ~h.rejected => Ahead(h, k, a)
  /\ ~h.rejected /\ k.up => Way(h, w, a)

(* A worker has no standard streams, and a process that ended no kernel.   *)
Linked ==
  /\ host.link = "worker" => stdin = <<>> /\ stdout = <<>> /\ serve.running
  /\ ~serve.running => ~kernel.up
  /\ host.outbox = <<>>

-----------------------------------------------------------------------------
(* Types                                                                   *)

TextSet == {TextAfter(n) : n \in Nat}
AnyText == TextSet \cup {NoText, Garbled}

OpenMessages == [type : {"open"}, requestId : Nat, replaceSession : {FALSE}, text : TextSet]
ChangeMessages == [type : {"change"}, requestId : Nat, baseRevision : Nat, baseVersion : {NoText},
                   before : TextSet, after : TextSet]
RunMessages == [type : {"run"}, requestId : Nat, runId : Nat, revision : Nat]
CancelMessages == [type : {"cancel"}, requestId : Nat, runId : Nat]
Messages == OpenMessages \cup ChangeMessages \cup RunMessages \cup CancelMessages

Posts == {p \in [type : {"answer", "result", "failure"}, requestId : Nat, runId : Nat,
                 ok : BOOLEAN, revision : Nat, text : AnyText] : p.type = "failure" => ~p.ok}
Runs == [runId : Nat, requestId : Nat, revision : Nat, text : AnyText]
Kernel == [session : Nat, revision : Nat, text : AnyText, queue : Seq(Runs),
           cancelled : SUBSET Nat, up : BOOLEAN]
Call == [type : {"open", "change", "run", "cancel"}, edit : Nat,
         outcome : {"none", "resolved", "rejected", "disposed"}]
Host == [link : Links, calls : Seq(Call), pending : SUBSET Nat, disposed : BOOLEAN,
         closed : BOOLEAN, edits : Nat, revision : Nat, queue : Seq(Nat \ {0}), sent : Nat,
         rejected : BOOLEAN, resync : Nat, outbox : Seq(Messages)]
Serve == [pending : {S \in SUBSET Nat : IsFiniteSet(S)}, ended : BOOLEAN, failed : BOOLEAN,
          running : BOOLEAN]

(* One message more at the end; the first d (none or one) gone.            *)
Adds(s, m, t) ==
  /\ Len(t) = Len(s) + 1 /\ t[Len(s) + 1] = m
  /\ \A i \in 1..Len(s) : t[i] = s[i]
Drops(s, d, t) ==
  /\ d \in {0, 1} /\ Len(t) = Len(s) - d
  /\ \A i \in 1..Len(t) : t[i] = s[i + d]

(* A text of n edits has n; another number of edits is another text.       *)
LEMMA TextLength ==
  ASSUME NEW n \in Nat
  PROVE  TextAfter(n) \in TextSet /\ Len(TextAfter(n)) = n
  BY DEF TextAfter, TextSet

(* What a message is.                                                      *)
LEMMA MessageFields ==
  ASSUME NEW m \in Messages
  PROVE  /\ m.requestId \in Nat
         /\ m.type \in {"open", "change", "run", "cancel"}
         /\ m.type = "open" => m \in OpenMessages
         /\ m.type = "change" => m \in ChangeMessages
         /\ m.type = "run" => m \in RunMessages
         /\ m.type = "cancel" => m \in CancelMessages
  BY DEF Messages, OpenMessages, ChangeMessages, RunMessages, CancelMessages

(* The first message and the rest.                                         *)
LEMMA TailDrops ==
  ASSUME NEW S, NEW s \in Seq(S), s # <<>>
  PROVE  Drops(s, 1, Tail(s)) /\ Tail(s) \in Seq(S) /\ Len(s) >= 1 /\ Head(s) = s[1] /\ s[1] \in S
  BY DEF Drops

(* The same messages.                                                      *)
LEMMA NothingDrops ==
  ASSUME NEW S, NEW s \in Seq(S)
  PROVE  Drops(s, 0, s)
  BY DEF Drops

(* A message at the end.                                                   *)
LEMMA AppendAdds ==
  ASSUME NEW S, NEW s \in Seq(S), NEW m \in S
  PROVE  Adds(s, m, Append(s, m)) /\ Append(s, m) \in Seq(S)
  BY DEF Adds

(* The requestIds of a finite set, in some order.                          *)
LEMMA ToSeq ==
  ASSUME NEW S, IsFiniteSet(S)
  PROVE  Cardinality(S) \in Nat /\ \A i \in 1..Cardinality(S) : SetToSeq(S)[i] \in S
<1>1. Cardinality(S) \in Nat /\ ExistsBijection(1..Cardinality(S), S)
  BY FS_CardinalityType
<1>2. PICK f \in [1..Cardinality(S) -> S] : IsInjective(f)
  BY <1>1 DEF ExistsBijection, Bijection, Injection, IsInjective
<1>3. SetToSeq(S) \in [1..Cardinality(S) -> S]
  BY <1>2 DEF SetToSeq
<1> QED BY <1>1, <1>3

-----------------------------------------------------------------------------
(* The kernel's steps, of what its host cares about                        *)

Typed4(h, k, w, a) == h \in Host /\ k \in Kernel /\ w \in Seq(Messages) /\ a \in Seq(Posts)

(* Lengths are numbers, and flags are flags.                               *)
LEMMA Plain ==
  ASSUME NEW h, NEW k, NEW w, NEW a, Typed4(h, k, w, a)
  PROVE  /\ Len(h.calls) \in Nat /\ Len(h.queue) \in Nat /\ Len(w) \in Nat /\ Len(a) \in Nat
         /\ h.edits \in Nat /\ h.revision \in Nat /\ h.sent \in Nat /\ h.resync \in Nat
         /\ h.pending \subseteq Nat
         /\ h.rejected \in BOOLEAN /\ h.disposed \in BOOLEAN /\ k.up \in BOOLEAN
         /\ k.session \in Nat /\ k.revision \in Nat
         /\ \A i \in 1..Len(w) : w[i] \in Messages /\ w[i].requestId \in Nat
         /\ \A i \in 1..Len(w) : IsChange(w[i]) => w[i].baseRevision \in Nat
         /\ \A i \in 1..Len(a) : /\ a[i] \in Posts /\ a[i].requestId \in Nat
                                 /\ a[i].revision \in Nat /\ a[i].ok \in BOOLEAN
         /\ \A i \in 1..Len(h.calls) : h.calls[i] \in Call /\ h.calls[i].edit \in Nat
<1>1. h.calls \in Seq(Call) /\ h.queue \in Seq(Nat \ {0}) /\ h.pending \subseteq Nat
      /\ h.edits \in Nat /\ h.revision \in Nat /\ h.sent \in Nat /\ h.resync \in Nat
      /\ h.rejected \in BOOLEAN /\ h.disposed \in BOOLEAN
  BY DEF Typed4, Host
<1>2. \A i \in 1..Len(h.calls) : h.calls[i] \in Call
  BY <1>1
<1>3. \A i \in 1..Len(h.calls) : h.calls[i].edit \in Nat
  BY <1>2 DEF Call
<1>4. \A i \in 1..Len(w) : w[i] \in Messages
  BY DEF Typed4
<1>5. \A i \in 1..Len(w) : w[i].requestId \in Nat
  BY <1>4, MessageFields
<1>6. \A i \in 1..Len(w) : IsChange(w[i]) => w[i].baseRevision \in Nat
  BY <1>4, MessageFields DEF IsChange, ChangeMessages
<1>7. \A i \in 1..Len(a) : a[i] \in Posts
  BY DEF Typed4
<1>8. \A i \in 1..Len(a) : a[i].requestId \in Nat /\ a[i].revision \in Nat /\ a[i].ok \in BOOLEAN
  BY <1>7 DEF Posts
<1>9. k.up \in BOOLEAN /\ k.session \in Nat /\ k.revision \in Nat
  BY DEF Typed4, Kernel
<1>10. Len(h.calls) \in Nat /\ Len(h.queue) \in Nat
  BY <1>1
<1>11. Len(w) \in Nat /\ Len(a) \in Nat
  BY DEF Typed4
<1> QED BY <1>1, <1>2, <1>3, <1>4, <1>5, <1>6, <1>7, <1>8, <1>9, <1>10, <1>11

(* An answer to a call that asks nothing of the document.                  *)
LEMMA SayMore ==
  ASSUME NEW h, NEW k, NEW w, NEW a, NEW p \in Posts, NEW b \in Seq(Posts),
         Typed4(h, k, w, a), Good(h, k, w, a), Adds(a, p, b),
         p.requestId \in 1..Len(h.calls), ~IsAsk(h.calls[p.requestId]), p.type # "failure"
  PROVE  Good(h, k, w, b)
<1> USE Plain
<1>1. ~OkChange(h, p) /\ ~OkOpen(h, p)
  BY DEF OkChange, OkOpen, IsAsk, IsChange, IsOpen
<1>2. \A j \in 1..Len(b) : (j \in 1..Len(a) /\ b[j] = a[j]) \/ b[j] = p
  BY DEF Adds
<1>3. \A j \in 1..Len(a) : j \in 1..Len(b) /\ b[j] = a[j]
  BY DEF Adds
<1>4. Known(h, k, w, b)
  BY <1>2 DEF Good, Known
<1>5. \A i, j \in 1..Len(b) : i < j /\ OkOpen(h, b[i]) => ~OkChange(h, b[j]) /\ ~OkOpen(h, b[j])
  BY <1>1, <1>2 DEF Good, Back
<1>6. k.up => /\ h.resync # 0 => p.requestId # h.resync
              /\ \A i \in 1..Len(w) : IsAsk(w[i]) => w[i].requestId # p.requestId
  BY DEF Good, Shape, Known, IsAsk, IsOpen
<1>7. k.up => \A j \in 1..Len(b) :
       /\ h.resync # 0 /\ b[j].requestId = h.resync => b[j].ok
       /\ \A i \in 1..Len(w) : IsAsk(w[i]) => w[i].requestId # b[j].requestId
  <2> SUFFICES ASSUME k.up, NEW j \in 1..Len(b)
               PROVE  /\ h.resync # 0 /\ b[j].requestId = h.resync => b[j].ok
                      /\ \A i \in 1..Len(w) : IsAsk(w[i]) => w[i].requestId # b[j].requestId
    OBVIOUS
  <2>1. CASE j \in 1..Len(a) /\ b[j] = a[j]
    BY <2>1 DEF Good, Back
  <2>2. CASE b[j] = p
    BY <2>2, <1>6
  <2> QED BY <2>1, <2>2, <1>2
<1>8. \A j \in 1..Len(b) : OkOpen(h, b[j]) =>
       /\ k.session # 0 /\ b[j].revision = k.revision /\ b[j].text = k.text
       /\ k.up => \A i \in 1..Len(w) : ~IsAsk(w[i])
  BY <1>1, <1>2 DEF Good, Back
<1>9. \A j \in 1..Len(b) : OkChange(h, b[j]) => k.session # 0 /\ Len(k.text) >= EditOf(h, b[j])
  BY <1>1, <1>2 DEF Good, Back
<1>10. Back(h, k, w, b)
  BY <1>5, <1>7, <1>8, <1>9 DEF Back
<1>11. ~h.rejected => Ahead(h, k, b)
  <2> SUFFICES ASSUME ~h.rejected PROVE Ahead(h, k, b)
    OBVIOUS
  <2>1. Ahead(h, k, a)
    BY DEF Good
  <2>2. NoneOk(h, b) => NoneOk(h, a)
    BY <1>3 DEF NoneOk
  <2> QED BY <1>1, <1>2, <2>1, <2>2 DEF Ahead
<1>12. ~h.rejected /\ k.up => Way(h, w, b)
  BY <1>3 DEF Good, Way
<1> QED BY <1>4, <1>10, <1>11, <1>12 DEF Good

(* What is left keeps its order.                                           *)
LEMMA TailOrder ==
  ASSUME NEW h, NEW w \in Seq(Messages), NEW v \in Seq(Messages),
         Drops(w, 1, v), Len(w) >= 1, Order(h, w)
  PROVE  Order(h, v)
<1>1. Len(v) = Len(w) - 1 /\ Len(v) \in Nat
  BY DEF Drops
<1> SUFFICES ASSUME NEW i \in 1..Len(v), NEW j \in 1..Len(v), i < j
             PROVE  /\ IsAsk(v[i]) /\ IsAsk(v[j]) => v[i].requestId < v[j].requestId
                    /\ IsOpen(v[i]) => ~IsAsk(v[j])
                    /\ IsChange(v[i]) /\ IsChange(v[j]) => v[j].baseRevision <= v[i].baseRevision
                    /\ IsChange(v[i]) /\ IsOpen(v[j]) => EditOf(h, v[i]) <= EditOf(h, v[j])
  BY DEF Order
<1>2. PICK x, y \in 1..Len(w) : x = i + 1 /\ y = j + 1
  BY <1>1
<1>3. v[i] = w[x] /\ v[j] = w[y] /\ x < y
  BY <1>1, <1>2 DEF Drops
<1> QED BY <1>3 DEF Order

(* The first message is read, and asks nothing of the document.            *)
LEMMA HeadGone ==
  ASSUME NEW h, NEW k, NEW w, NEW a, NEW v \in Seq(Messages),
         Typed4(h, k, w, a), Good(h, k, w, a), Drops(w, 1, v), Len(w) >= 1, ~IsAsk(w[1])
  PROVE  Good(h, k, v, a)
<1> USE Plain
<1>1. Len(v) = Len(w) - 1 /\ Len(v) \in Nat
  BY DEF Drops
<1>2. \A j \in 1..Len(v) : j + 1 \in 1..Len(w) /\ v[j] = w[j + 1]
  BY <1>1 DEF Drops
<1>3. Known(h, k, v, a)
  BY <1>2 DEF Good, Known
<1>4. k.up => Order(h, v)
  BY TailOrder DEF Good, Typed4
<1>5. k.up => Changes(h, k, v)
  <2> SUFFICES ASSUME k.up, NEW j \in 1..Len(v), IsChange(v[j])
               PROVE  /\ k.session # 0 /\ EditOf(h, v[j]) >= 1
                      /\ v[j].before = TextAfter(EditOf(h, v[j]) - 1)
                      /\ v[j].after = TextAfter(EditOf(h, v[j]))
                      /\ v[j].baseRevision <= k.revision
                      /\ v[j].baseRevision = k.revision
                         /\ (\A i \in 1..Len(v) : i < j => ~IsChange(v[i])) => k.text = v[j].before
    BY DEF Changes
  <2>1. j + 1 \in 1..Len(w) /\ v[j] = w[j + 1] /\ Changes(h, k, w)
    BY <1>2 DEF Good
  <2>2. (\A i \in 1..Len(v) : i < j => ~IsChange(v[i]))
        => \A i \in 1..Len(w) : i < j + 1 => ~IsChange(w[i])
    <3> SUFFICES ASSUME \A i \in 1..Len(v) : i < j => ~IsChange(v[i]),
                        NEW i \in 1..Len(w), i < j + 1
                 PROVE  ~IsChange(w[i])
      OBVIOUS
    <3>1. CASE i = 1
      BY <3>1 DEF IsAsk, IsChange
    <3>2. CASE i # 1
      <4>1. i - 1 \in 1..Len(v) /\ i - 1 < j /\ v[i - 1] = w[i]
        BY <3>2, <1>1, <1>2
      <4> QED BY <4>1
    <3> QED BY <3>1, <3>2
  <2> QED BY <2>1, <2>2 DEF Changes
<1>6. k.up => Opens(h, k, v)
  BY <1>2 DEF Good, Opens
<1>7. Back(h, k, v, a)
  <2>1. Back(h, k, w, a)
    BY DEF Good
  <2>2. (\A i \in 1..Len(w) : ~IsAsk(w[i])) => \A i \in 1..Len(v) : ~IsAsk(v[i])
    BY <1>2
  <2>3. ASSUME k.up, NEW j \in 1..Len(a), NEW i \in 1..Len(v), IsAsk(v[i])
        PROVE  v[i].requestId # a[j].requestId
    <3>1. i + 1 \in 1..Len(w) /\ v[i] = w[i + 1]
      BY <1>2
    <3> QED BY <2>1, <2>3, <3>1 DEF Back
  <2>4. k.up => \A j \in 1..Len(a) :
       /\ h.resync # 0 /\ a[j].requestId = h.resync => a[j].ok
       /\ \A i \in 1..Len(v) : IsAsk(v[i]) => v[i].requestId # a[j].requestId
    BY <2>1, <2>3 DEF Back
  <2>5. \A j \in 1..Len(a) : OkOpen(h, a[j]) =>
       /\ k.session # 0 /\ a[j].revision = k.revision /\ a[j].text = k.text
       /\ k.up => \A i \in 1..Len(v) : ~IsAsk(v[i])
    BY <2>1, <2>2 DEF Back
  <2> QED BY <2>1, <2>4, <2>5 DEF Back
<1>8. ~h.rejected /\ k.up => Way(h, v, a)
  <2> SUFFICES ASSUME ~h.rejected, k.up PROVE Way(h, v, a)
    OBVIOUS
  <2>1. Way(h, w, a)
    BY DEF Good
  <2>2. \A j \in 1..Len(v) : IsChange(v[j]) =>
       /\ Live(h, v[j].requestId) /\ v[j].baseRevision <= h.revision
       /\ v[j].requestId # h.sent => v[j].baseRevision = h.revision
    <3> SUFFICES ASSUME NEW j \in 1..Len(v), IsChange(v[j])
                 PROVE  /\ Live(h, v[j].requestId) /\ v[j].baseRevision <= h.revision
                        /\ v[j].requestId # h.sent => v[j].baseRevision = h.revision
      OBVIOUS
    <3>1. j + 1 \in 1..Len(w) /\ v[j] = w[j + 1]
      BY <1>2
    <3> QED BY <2>1, <3>1 DEF Way
  <2>3. ASSUME NEW p \in h.pending, Direct(h, p), NEW j \in 1..Len(w),
               IsChange(w[j]), w[j].requestId = p
        PROVE  \E i \in 1..Len(v) : IsChange(v[i]) /\ v[i].requestId = p
    <3>1. j # 1
      BY <2>3 DEF IsAsk, IsChange
    <3>2. j - 1 \in 1..Len(v) /\ v[j - 1] = w[j]
      BY <3>1, <1>1, <1>2
    <3> QED BY <3>2, <2>3
  <2> QED BY <2>1, <2>2, <2>3 DEF Way
<1> QED BY <1>3, <1>4, <1>5, <1>6, <1>7, <1>8 DEF Good

(* The document is as it was.                                              *)
SameDocument(k, l) == l.session = k.session /\ l.revision = k.revision /\ l.text = k.text

(* Runs come and go.                                                       *)
LEMMA SameKernel ==
  ASSUME NEW h, NEW k, NEW w, NEW a, NEW l \in Kernel,
         Typed4(h, k, w, a), Good(h, k, w, a), SameDocument(k, l), l.up = k.up,
         \A j \in 1..Len(l.queue) : /\ l.queue[j].requestId \in 1..Len(h.calls)
                                    /\ h.calls[l.queue[j].requestId].type = "run"
  PROVE  Good(h, l, w, a)
<1>1. Known(h, l, w, a)
  BY DEF Good, Known
<1>2. Texts(h, l)
  BY DEF Good, Texts, SameDocument
<1>3. l.up => Order(h, w) /\ Changes(h, l, w)
  BY DEF Good, Changes, SameDocument
<1>4. l.up => Opens(h, l, w)
  BY DEF Good, Opens, SameDocument
<1>5. Back(h, l, w, a)
  BY DEF Good, Back, SameDocument
<1>6. ~h.rejected => Ahead(h, l, a)
  BY DEF Good, Ahead, SameDocument
<1> QED BY <1>1, <1>2, <1>3, <1>4, <1>5, <1>6 DEF Good

(* What comes back tells as much as before of what was accepted.           *)
SameNews(a, b) ==
  /\ \A j \in 1..Len(b) : b[j].ok => \E i \in 1..Len(a) : a[i] = b[j]
  /\ \A i \in 1..Len(a) : a[i].ok => \E j \in 1..Len(b) : b[j] = a[i]
  /\ \A x, y \in 1..Len(b) : x < y /\ b[x].ok /\ b[y].ok =>
       \E i, j \in 1..Len(a) : i < j /\ a[i] = b[x] /\ a[j] = b[y]

(* The worker is gone; failures are added to what comes back.              *)
LEMMA KernelGone ==
  ASSUME NEW h, NEW k, NEW w, NEW a, NEW l \in Kernel, NEW b \in Seq(Posts),
         NEW v \in Seq(Messages),
         Typed4(h, k, w, a), Good(h, k, w, a), SameDocument(k, l), ~l.up, l.queue = k.queue,
         SameNews(a, b),
         v = w
  PROVE  Good(h, l, v, b)
<1> USE Plain
<1>1. Known(h, l, w, b)
  <2>1. ASSUME NEW j \in 1..Len(b), b[j].ok PROVE b[j].requestId \in 1..Len(h.calls)
    <3>1. PICK i \in 1..Len(a) : a[i] = b[j]
      BY <2>1 DEF SameNews
    <3> QED BY <2>1, <3>1 DEF Good, Known
  <2> QED BY <2>1 DEF Good, Known
<1>2. Texts(h, l)
  BY DEF Good, Texts, SameDocument
<1>3. \A x, y \in 1..Len(b) : x < y /\ OkOpen(h, b[x]) => ~OkChange(h, b[y]) /\ ~OkOpen(h, b[y])
  <2> SUFFICES ASSUME NEW x \in 1..Len(b), NEW y \in 1..Len(b), x < y, OkOpen(h, b[x]),
                      OkChange(h, b[y]) \/ OkOpen(h, b[y])
               PROVE  FALSE
    OBVIOUS
  <2>1. b[x].ok /\ b[y].ok
    BY DEF OkOpen, OkChange
  <2>2. PICK i, j \in 1..Len(a) : i < j /\ a[i] = b[x] /\ a[j] = b[y]
    BY <2>1 DEF SameNews
  <2> QED BY <2>2 DEF Good, Back
<1>4. \A j \in 1..Len(b) : OkOpen(h, b[j]) =>
        k.session # 0 /\ b[j].revision = k.revision /\ b[j].text = k.text
  <2> SUFFICES ASSUME NEW j \in 1..Len(b), OkOpen(h, b[j])
               PROVE  k.session # 0 /\ b[j].revision = k.revision /\ b[j].text = k.text
    OBVIOUS
  <2>1. PICK i \in 1..Len(a) : a[i] = b[j]
    BY DEF SameNews, OkOpen
  <2> QED BY <2>1 DEF Good, Back
<1>5. \A j \in 1..Len(b) : OkChange(h, b[j]) => \E i \in 1..Len(a) : a[i] = b[j]
  BY DEF SameNews, OkChange
<1>6. \A j \in 1..Len(b) : OkChange(h, b[j]) => k.session # 0 /\ Len(k.text) >= EditOf(h, b[j])
  <2> SUFFICES ASSUME NEW j \in 1..Len(b), OkChange(h, b[j])
               PROVE  k.session # 0 /\ Len(k.text) >= EditOf(h, b[j])
    OBVIOUS
  <2>1. PICK i \in 1..Len(a) : a[i] = b[j]
    BY <1>5
  <2> QED BY <2>1 DEF Good, Back
<1>7. Back(h, l, w, b)
  BY <1>3, <1>4, <1>6 DEF Back, SameDocument
<1>8. ~h.rejected => Ahead(h, l, b)
  <2> SUFFICES ASSUME ~h.rejected PROVE Ahead(h, l, b)
    OBVIOUS
  <2>1. Ahead(h, k, a)
    BY DEF Good
  <2>2. NoneOk(h, b) => NoneOk(h, a)
    BY DEF NoneOk, SameNews, OkChange
  <2>3. \A j \in 1..Len(b) : OkChange(h, b[j]) =>
       /\ Live(h, b[j].requestId)
       /\ b[j].revision = k.revision /\ h.revision < k.revision
       /\ k.text = TextAfter(EditOf(h, b[j]))
       /\ b[j].requestId = h.sent => \A p \in h.pending : ~Direct(h, p)
    <3> SUFFICES ASSUME NEW j \in 1..Len(b), OkChange(h, b[j])
                 PROVE  /\ Live(h, b[j].requestId)
                        /\ b[j].revision = k.revision /\ h.revision < k.revision
                        /\ k.text = TextAfter(EditOf(h, b[j]))
                        /\ b[j].requestId = h.sent => \A p \in h.pending : ~Direct(h, p)
      OBVIOUS
    <3>1. PICK i \in 1..Len(a) : a[i] = b[j]
      BY <1>5
    <3> QED BY <3>1, <2>1 DEF Ahead
  <2> QED BY <2>1, <2>2, <2>3 DEF Ahead, SameDocument
<1> QED BY <1>1, <1>2, <1>7, <1>8 DEF Good

-----------------------------------------------------------------------------
(* The kernel answers a change or an open                                  *)

(* What is asked is asked of the calls that are there.                     *)
LEMMA HeadCall ==
  ASSUME NEW h, NEW k, NEW w, NEW a, Typed4(h, k, w, a), Good(h, k, w, a), Len(w) >= 1
  PROVE  /\ w[1].requestId \in 1..Len(h.calls) /\ h.calls[w[1].requestId].type = w[1].type
         /\ EditOf(h, w[1]) \in Nat /\ EditOf(h, w[1]) <= h.edits
<1>1. 1 \in 1..Len(w)
  BY Plain
<1>2. w[1].requestId \in 1..Len(h.calls) /\ h.calls[w[1].requestId].type = w[1].type
  BY <1>1 DEF Good, Known
<1>3. h.calls[w[1].requestId].edit \in Nat /\ h.calls[w[1].requestId].edit <= h.edits
  BY <1>2, Plain DEF Good, Shape
<1> QED BY <1>2, <1>3 DEF EditOf

(* The answer is one more that comes back: what Known says.                *)
LEMMA AnswerKnown ==
  ASSUME NEW h, NEW k, NEW w, NEW a, NEW p \in Posts, NEW b \in Seq(Posts), NEW l \in Kernel,
         NEW v \in Seq(Messages),
         Typed4(h, k, w, a), Good(h, k, w, a), Adds(a, p, b), Drops(w, 1, v), Len(w) >= 1,
         l.queue = k.queue, l.up = k.up,
         p.requestId = w[1].requestId, p.type # "failure"
  PROVE  Known(h, l, v, b)
<1> USE Plain
<1>1. p.requestId \in 1..Len(h.calls)
  BY HeadCall
<1>2. \A j \in 1..Len(b) : (j \in 1..Len(a) /\ b[j] = a[j]) \/ b[j] = p
  BY DEF Adds
<1>3. \A j \in 1..Len(v) : j + 1 \in 1..Len(w) /\ v[j] = w[j + 1]
  BY DEF Drops
<1> QED BY <1>1, <1>2, <1>3 DEF Good, Known

(* An answer that is new: no ask on its way has its requestId, and it says *)
(* yes to the open the host waits for.                                     *)
LEMMA AnswerBack ==
  ASSUME NEW h, NEW k, NEW w, NEW a, NEW p \in Posts, NEW b \in Seq(Posts), NEW v \in Seq(Messages),
         Typed4(h, k, w, a), Good(h, k, w, a), Adds(a, p, b), Drops(w, 1, v), Len(w) >= 1,
         k.up, IsAsk(w[1]), p.requestId = w[1].requestId, IsOpen(w[1]) => p.ok
  PROVE  /\ \A j \in 1..Len(b) :
              /\ h.resync # 0 /\ b[j].requestId = h.resync => b[j].ok
              /\ \A i \in 1..Len(v) : IsAsk(v[i]) => v[i].requestId # b[j].requestId
         /\ \A j \in 1..Len(a) : ~OkOpen(h, a[j])
<1> USE Plain
<1>0. 1 \in 1..Len(w)
  OBVIOUS
<1>1. \A j \in 1..Len(a) : ~OkOpen(h, a[j])
  BY <1>0 DEF Good, Back
<1>2. SUFFICES ASSUME NEW j \in 1..Len(b)
               PROVE  /\ h.resync # 0 /\ b[j].requestId = h.resync => b[j].ok
                      /\ \A i \in 1..Len(v) : IsAsk(v[i]) => v[i].requestId # b[j].requestId
  BY <1>1
<1>3. CASE j \in 1..Len(a) /\ b[j] = a[j]
  <2>1. h.resync # 0 /\ b[j].requestId = h.resync => b[j].ok
    BY <1>3 DEF Good, Back
  <2>2. ASSUME NEW i \in 1..Len(v), IsAsk(v[i]) PROVE v[i].requestId # b[j].requestId
    <3>1. i + 1 \in 1..Len(w) /\ v[i] = w[i + 1]
      BY DEF Drops
    <3> QED BY <1>3, <2>2, <3>1 DEF Good, Back
  <2> QED BY <2>1, <2>2
<1>4. CASE b[j] = p
  <2>1. h.resync # 0 /\ p.requestId = h.resync => p.ok
    <3> SUFFICES ASSUME h.resync # 0, p.requestId = h.resync PROVE p.ok
      OBVIOUS
    <3>1. IsOpen(h.calls[h.resync])
      BY DEF Good, Shape
    <3>2. IsOpen(w[1])
      BY <3>1, HeadCall DEF IsOpen
    <3> QED BY <3>2
  <2>2. ASSUME NEW i \in 1..Len(v), IsAsk(v[i]) PROVE v[i].requestId # p.requestId
    <3>1. i + 1 \in 1..Len(w) /\ v[i] = w[i + 1] /\ 1 < i + 1
      BY DEF Drops
    <3>2. w[1].requestId < w[i + 1].requestId
      BY <1>0, <2>2, <3>1 DEF Good, Order
    <3> QED BY <3>1, <3>2
  <2> QED BY <1>4, <2>1, <2>2
<1> QED BY <1>3, <1>4, Plain DEF Adds

(* A change of a bound editor that reaches the kernel is of the kernel's   *)
(* revision, unless one before it was accepted.                            *)
LEMMA HeadIsAhead ==
  ASSUME NEW h, NEW k, NEW w, NEW a, Typed4(h, k, w, a), Good(h, k, w, a), Len(w) >= 1,
         ~h.rejected, k.up, IsChange(w[1])
  PROVE  /\ Live(h, w[1].requestId)
         /\ w[1].baseRevision = k.revision =>
              /\ h.revision = k.revision /\ NoneOk(h, a)
              /\ w[1].requestId = h.sent => \A p \in h.pending : ~Direct(h, p)
         /\ w[1].baseRevision # k.revision => ~Direct(h, w[1].requestId)
<1> USE Plain
<1>0. 1 \in 1..Len(w) /\ Ahead(h, k, a) /\ Way(h, w, a) /\ Order(h, w) /\ Queue(h)
      /\ Back(h, k, w, a)
  BY DEF Good
<1>1. Live(h, w[1].requestId) /\ w[1].baseRevision <= h.revision
      /\ (w[1].requestId # h.sent => w[1].baseRevision = h.revision)
  BY <1>0 DEF Way
<1>2. h.revision <= k.revision
  BY <1>0 DEF Ahead
<1>3. ASSUME w[1].baseRevision = k.revision
      PROVE  h.revision = k.revision /\ NoneOk(h, a)
  <2>1. h.revision = k.revision
    BY <1>0, <1>1, <1>2, <1>3
  <2> QED BY <1>0, <2>1 DEF Ahead, NoneOk
<1>4. ASSUME w[1].baseRevision = k.revision, w[1].requestId = h.sent, NEW p \in h.pending,
             Direct(h, p)
      PROVE  FALSE
  <2>1. NoneOk(h, a)
    BY <1>3, <1>4
  <2>2. PICK j \in 1..Len(w) : IsChange(w[j]) /\ w[j].requestId = p
    BY <1>0, <1>4, <2>1 DEF Way, NoneOk
  <2>3. p # h.sent
    BY <1>4 DEF Direct
  <2>4. j # 1
    BY <1>4, <2>2, <2>3
  <2>5. w[1].requestId < p
    BY <1>0, <2>2, <2>4 DEF Order, IsAsk, IsChange
  <2>6. p < h.sent
    <3>1. h.sent # 0
      BY <1>1, <1>4 DEF Live, Good, Shape
    <3> QED BY <1>0, <1>4, <3>1 DEF Queue
  <2>7. p \in Nat
    BY <1>4
  <2> QED BY <1>4, <2>5, <2>6, <2>7
<1>5. ASSUME w[1].baseRevision # k.revision, Direct(h, w[1].requestId)
      PROVE  FALSE
  <2>1. w[1].requestId # h.sent /\ w[1].requestId \in h.pending
    BY <1>5 DEF Direct, Live
  <2>2. w[1].baseRevision = h.revision
    BY <1>1, <2>1
  <2>3. ~NoneOk(h, a)
    BY <1>0, <1>5, <2>2 DEF Ahead
  <2>4. PICK j \in 1..Len(a) : OkChange(h, a[j])
    BY <2>3 DEF NoneOk
  <2>5. Live(h, a[j].requestId) /\ a[j].requestId # h.sent
    BY <1>0, <1>5, <2>1, <2>4 DEF Ahead
  <2>6. Direct(h, a[j].requestId) /\ a[j].requestId \in h.pending
    BY <2>5 DEF Direct, Live
  <2>7. a[j].requestId = w[1].requestId
    BY <1>0, <1>5, <2>1, <2>6 DEF Queue
  <2>8. w[1].requestId # a[j].requestId
    BY <1>0 DEF Back, IsAsk, IsChange
  <2> QED BY <2>7, <2>8
<1> QED BY <1>1, <1>3, <1>4, <1>5

(* The first change is refused.                                            *)
LEMMA ChangeRefused ==
  ASSUME NEW h, NEW k, NEW w, NEW a, NEW p \in Posts, NEW b \in Seq(Posts), NEW v \in Seq(Messages),
         Typed4(h, k, w, a), Good(h, k, w, a), Adds(a, p, b), Drops(w, 1, v), Len(w) >= 1,
         k.up, IsChange(w[1]), w[1].baseRevision # k.revision,
         p.requestId = w[1].requestId, p.type # "failure", ~p.ok
  PROVE  Good(h, k, v, b)
<1> USE Plain
<1>0. /\ 1 \in 1..Len(w) /\ IsAsk(w[1]) /\ ~IsOpen(w[1])
      /\ v \in Seq(Messages) /\ Len(v) = Len(w) - 1 /\ Len(v) \in Nat
  BY DEF IsAsk, IsChange, IsOpen, Drops
<1>1. \A j \in 1..Len(b) : (j \in 1..Len(a) /\ b[j] = a[j]) \/ b[j] = p
  BY DEF Adds
<1>2. \A j \in 1..Len(a) : j \in 1..Len(b) /\ b[j] = a[j]
  BY DEF Adds
<1>3. \A j \in 1..Len(v) : j + 1 \in 1..Len(w) /\ v[j] = w[j + 1]
  BY DEF Drops
<1>4. ~OkChange(h, p) /\ ~OkOpen(h, p)
  BY DEF OkChange, OkOpen
<1>5. Order(h, w) /\ Changes(h, k, w) /\ Opens(h, k, w) /\ Back(h, k, w, a)
  BY DEF Good
<1>6. Known(h, k, v, b)
  <2>1. k \in Kernel
    BY DEF Typed4
  <2> QED BY <2>1, AnswerKnown
<1>7. Order(h, v)
  <2>1. w \in Seq(Messages)
    BY DEF Typed4
  <2> QED BY <1>5, <2>1, TailOrder
<1>8. Opens(h, k, v)
  <2> SUFFICES ASSUME NEW j \in 1..Len(v), IsOpen(v[j])
               PROVE  /\ h.rejected /\ (h.disposed \/ v[j].requestId = h.resync)
                      /\ v[j].text = TextAfter(EditOf(h, v[j]))
                      /\ k.session # 0 => Len(k.text) <= EditOf(h, v[j])
    BY DEF Opens
  <2>1. j + 1 \in 1..Len(w) /\ v[j] = w[j + 1]
    BY <1>3
  <2> QED BY <1>5, <2>1 DEF Opens
<1>9. Changes(h, k, v)
  <2> SUFFICES ASSUME NEW j \in 1..Len(v), IsChange(v[j])
               PROVE  /\ k.session # 0 /\ EditOf(h, v[j]) >= 1
                      /\ v[j].before = TextAfter(EditOf(h, v[j]) - 1)
                      /\ v[j].after = TextAfter(EditOf(h, v[j]))
                      /\ v[j].baseRevision <= k.revision
                      /\ v[j].baseRevision # k.revision
    BY DEF Changes
  <2>1. j + 1 \in 1..Len(w) /\ v[j] = w[j + 1] /\ 1 < j + 1
    BY <1>3
  <2>2. w[j + 1].baseRevision <= w[1].baseRevision
    BY <1>0, <1>5, <2>1 DEF Order
  <2>3. w[1].baseRevision <= k.revision
    BY <1>0, <1>5 DEF Changes
  <2>4. v[j].baseRevision \in Nat /\ w[1].baseRevision \in Nat /\ k.revision \in Nat
    BY <1>0, <2>1
  <2>5. v[j].baseRevision # k.revision
    BY <2>1, <2>2, <2>3, <2>4
  <2> QED BY <1>5, <2>1, <2>5 DEF Changes
<1>10. Back(h, k, v, b)
  <2>1. \A x, y \in 1..Len(b) : x < y /\ OkOpen(h, b[x]) => ~OkChange(h, b[y]) /\ ~OkOpen(h, b[y])
    BY <1>1, <1>4, <1>5 DEF Back
  <2>2. /\ \A j \in 1..Len(b) :
              /\ h.resync # 0 /\ b[j].requestId = h.resync => b[j].ok
              /\ \A i \in 1..Len(v) : IsAsk(v[i]) => v[i].requestId # b[j].requestId
        /\ \A j \in 1..Len(a) : ~OkOpen(h, a[j])
    BY <1>0, AnswerBack
  <2>3. \A j \in 1..Len(b) : ~OkOpen(h, b[j])
    BY <2>2, <1>1, <1>4
  <2>4. \A j \in 1..Len(b) : OkChange(h, b[j]) => k.session # 0 /\ Len(k.text) >= EditOf(h, b[j])
    BY <1>1, <1>4, <1>5 DEF Back
  <2> QED BY <2>1, <2>2, <2>3, <2>4 DEF Back
<1>11. ~h.rejected => Ahead(h, k, b)
  <2> SUFFICES ASSUME ~h.rejected PROVE Ahead(h, k, b)
    OBVIOUS
  <2>1. Ahead(h, k, a)
    BY DEF Good
  <2>2. NoneOk(h, b) => NoneOk(h, a)
    BY <1>2 DEF NoneOk
  <2> QED BY <1>1, <1>4, <2>1, <2>2 DEF Ahead
<1>12. ~h.rejected => Way(h, v, b)
  <2> SUFFICES ASSUME ~h.rejected PROVE Way(h, v, b)
    OBVIOUS
  <2>1. Way(h, w, a)
    BY DEF Good
  <2>2. \A j \in 1..Len(v) : IsChange(v[j]) =>
       /\ Live(h, v[j].requestId) /\ v[j].baseRevision <= h.revision
       /\ v[j].requestId # h.sent => v[j].baseRevision = h.revision
    BY <1>3, <2>1 DEF Way
  <2>3. ASSUME NEW q \in h.pending, Direct(h, q), NEW j \in 1..Len(w),
               IsChange(w[j]), w[j].requestId = q
        PROVE  \E i \in 1..Len(v) : IsChange(v[i]) /\ v[i].requestId = q
    <3>1. ~Direct(h, w[1].requestId)
      BY HeadIsAhead
    <3>2. j # 1
      BY <2>3, <3>1
    <3>3. j - 1 \in 1..Len(v) /\ v[j - 1] = w[j]
      BY <1>0, <1>3, <3>2
    <3> QED BY <2>3, <3>3
  <2>4. ASSUME NEW q \in h.pending, Direct(h, q)
        PROVE  \/ \E j \in 1..Len(b) : OkChange(h, b[j]) /\ b[j].requestId = q
               \/ \E j \in 1..Len(v) : IsChange(v[j]) /\ v[j].requestId = q
    <3>1. CASE \E j \in 1..Len(a) : OkChange(h, a[j]) /\ a[j].requestId = q
      BY <1>2, <3>1
    <3>2. CASE \E j \in 1..Len(w) : IsChange(w[j]) /\ w[j].requestId = q
      BY <2>3, <2>4, <3>2
    <3> QED BY <2>1, <2>4, <3>1, <3>2 DEF Way
  <2> QED BY <2>2, <2>4 DEF Way
<1> QED BY <1>6, <1>7, <1>8, <1>9, <1>10, <1>11, <1>12 DEF Good

(* The first change is of the kernel's text.                               *)
LEMMA HeadFits ==
  ASSUME NEW h, NEW k, NEW w, NEW a, Typed4(h, k, w, a), Good(h, k, w, a), Len(w) >= 1,
         k.up, IsChange(w[1]), w[1].baseRevision = k.revision
  PROVE  /\ k.session # 0 /\ k.text = w[1].before /\ EditOf(h, w[1]) >= 1
         /\ w[1].before = TextAfter(EditOf(h, w[1]) - 1) /\ w[1].after = TextAfter(EditOf(h, w[1]))
<1> USE Plain
<1>0. 1 \in 1..Len(w) /\ Changes(h, k, w)
  BY DEF Good
<1>1. \A i \in 1..Len(w) : i < 1 => ~IsChange(w[i])
  OBVIOUS
<1> QED BY <1>0, <1>1 DEF Changes

(* The first change is accepted: the text has one more edit.               *)
LEMMA ChangeAccepted ==
  ASSUME NEW h, NEW k, NEW w, NEW a, NEW p \in Posts, NEW b \in Seq(Posts), NEW v \in Seq(Messages),
         NEW l \in Kernel,
         Typed4(h, k, w, a), Good(h, k, w, a), Adds(a, p, b), Drops(w, 1, v), Len(w) >= 1,
         k.up, IsChange(w[1]), w[1].baseRevision = k.revision,
         l.up = k.up, l.queue = k.queue, l.session = k.session, l.revision = k.revision + 1,
         l.text = w[1].after,
         p.requestId = w[1].requestId, p.type # "failure", p.ok,
         p.revision = l.revision, p.text = l.text
  PROVE  Good(h, l, v, b)
<1> USE Plain
<1>0. /\ 1 \in 1..Len(w) /\ IsAsk(w[1]) /\ ~IsOpen(w[1])
      /\ v \in Seq(Messages) /\ Len(v) = Len(w) - 1 /\ Len(v) \in Nat
      /\ k.revision \in Nat /\ l.revision \in Nat /\ l.revision # k.revision
  BY DEF IsAsk, IsChange, IsOpen, Drops
<1>1. \A j \in 1..Len(b) : (j \in 1..Len(a) /\ b[j] = a[j]) \/ b[j] = p
  BY DEF Adds
<1>2. Len(a) + 1 \in 1..Len(b) /\ b[Len(a) + 1] = p /\ \A j \in 1..Len(a) : j \in 1..Len(b)
      /\ b[j] = a[j]
  BY DEF Adds
<1>3. \A j \in 1..Len(v) : j + 1 \in 1..Len(w) /\ v[j] = w[j + 1]
  BY DEF Drops
<1>4. ~OkOpen(h, p)
  <2>1. h.calls[w[1].requestId].type = w[1].type
    BY <1>0, HeadCall
  <2> QED BY <1>0, <2>1 DEF OkOpen, IsOpen
<1>5. Order(h, w) /\ Changes(h, k, w) /\ Opens(h, k, w) /\ Back(h, k, w, a) /\ Texts(h, k)
  BY DEF Good
<1>6. PICK e \in Nat : /\ e = EditOf(h, w[1]) /\ e >= 1 /\ e <= h.edits
                       /\ k.session # 0 /\ k.text = TextAfter(e - 1) /\ l.text = TextAfter(e)
  <2>1. EditOf(h, w[1]) \in Nat /\ EditOf(h, w[1]) <= h.edits
    BY HeadCall
  <2>2. /\ k.session # 0 /\ EditOf(h, w[1]) >= 1 /\ k.text = TextAfter(EditOf(h, w[1]) - 1)
        /\ l.text = TextAfter(EditOf(h, w[1]))
    BY HeadFits
  <2> QED BY <2>1, <2>2
<1>7. e - 1 \in Nat /\ Len(k.text) = e - 1 /\ Len(l.text) = e
  BY <1>6, TextLength
<1>8. Known(h, l, v, b)
  BY AnswerKnown
<1>9. Texts(h, l)
  <2>1. l.session # 0 /\ e \in 0..h.edits /\ l.text = TextAfter(e)
    BY <1>6
  <2>2. ASSUME NEW i \in 1..Len(h.calls), IsChange(h.calls[i]), h.calls[i].outcome = "resolved"
        PROVE  Len(l.text) >= h.calls[i].edit
    <3>1. Len(k.text) >= h.calls[i].edit
      BY <1>5, <2>2 DEF Texts
    <3>2. PICK n : n = h.calls[i].edit
      OBVIOUS
    <3>3. n \in Nat
      BY <3>2
    <3>4. n <= e
      BY <1>7, <3>1, <3>2, <3>3
    <3> QED BY <1>7, <3>2, <3>3, <3>4
  <2> QED BY <2>1, <2>2 DEF Texts
<1>10. Order(h, v)
  <2>1. w \in Seq(Messages)
    BY DEF Typed4
  <2> QED BY <1>5, <2>1, TailOrder
<1>11. Opens(h, l, v)
  <2> SUFFICES ASSUME NEW j \in 1..Len(v), IsOpen(v[j])
               PROVE  /\ h.rejected /\ (h.disposed \/ v[j].requestId = h.resync)
                      /\ v[j].text = TextAfter(EditOf(h, v[j]))
                      /\ Len(l.text) <= EditOf(h, v[j])
    BY DEF Opens
  <2>1. j + 1 \in 1..Len(w) /\ v[j] = w[j + 1] /\ 1 < j + 1
    BY <1>3
  <2>2. e <= EditOf(h, v[j])
    BY <1>0, <1>5, <1>6, <2>1 DEF Order
  <2> QED BY <1>5, <1>7, <2>1, <2>2 DEF Opens
<1>12. Changes(h, l, v)
  <2> SUFFICES ASSUME NEW j \in 1..Len(v), IsChange(v[j])
               PROVE  /\ l.session # 0 /\ EditOf(h, v[j]) >= 1
                      /\ v[j].before = TextAfter(EditOf(h, v[j]) - 1)
                      /\ v[j].after = TextAfter(EditOf(h, v[j]))
                      /\ v[j].baseRevision <= l.revision
                      /\ v[j].baseRevision # l.revision
    BY DEF Changes
  <2>1. j + 1 \in 1..Len(w) /\ v[j] = w[j + 1]
    BY <1>3
  <2>2. v[j].baseRevision <= k.revision /\ v[j].baseRevision \in Nat
    BY <1>5, <2>1 DEF Changes
  <2>3. v[j].baseRevision <= l.revision /\ v[j].baseRevision # l.revision
    BY <1>0, <2>2
  <2> QED BY <1>5, <2>1, <2>3 DEF Changes
<1>13. Back(h, l, v, b)
  <2>1. /\ \A j \in 1..Len(b) :
              /\ h.resync # 0 /\ b[j].requestId = h.resync => b[j].ok
              /\ \A i \in 1..Len(v) : IsAsk(v[i]) => v[i].requestId # b[j].requestId
        /\ \A j \in 1..Len(a) : ~OkOpen(h, a[j])
    BY <1>0, AnswerBack
  <2>2. \A j \in 1..Len(b) : ~OkOpen(h, b[j])
    BY <2>1, <1>1, <1>4
  <2>3. ASSUME NEW j \in 1..Len(b), OkChange(h, b[j])
        PROVE  l.session # 0 /\ Len(l.text) >= EditOf(h, b[j])
    <3>1. CASE j \in 1..Len(a) /\ b[j] = a[j]
      <4>1. Len(k.text) >= EditOf(h, b[j]) /\ EditOf(h, b[j]) \in Nat
        <5>1. b[j].requestId \in 1..Len(h.calls)
          BY <2>3 DEF OkChange, Good, Shape
        <5>2. EditOf(h, b[j]) \in Nat
          BY <5>1 DEF EditOf
        <5> QED BY <5>2, <1>5, <2>3, <3>1 DEF Back
      <4> QED BY <1>6, <1>7, <4>1
    <3>2. CASE b[j] = p
      <4>1. EditOf(h, b[j]) = e
        BY <3>2, <1>6 DEF EditOf
      <4> QED BY <1>6, <1>7, <4>1
    <3> QED BY <1>1, <3>1, <3>2
  <2> QED BY <2>1, <2>2, <2>3 DEF Back
<1>14. ASSUME ~h.rejected PROVE Ahead(h, l, b) /\ Way(h, v, b)
  <2>1. Ahead(h, k, a) /\ Way(h, w, a)
    BY <1>14 DEF Good
  <2>2. /\ Live(h, w[1].requestId) /\ h.revision = k.revision /\ NoneOk(h, a)
        /\ w[1].requestId = h.sent => \A q \in h.pending : ~Direct(h, q)
    BY <1>14, HeadIsAhead
  <2>3. OkChange(h, p)
    <3>1. w[1].requestId \in h.pending /\ IsChange(h.calls[w[1].requestId])
      BY <2>2 DEF Live
    <3> QED BY <3>1 DEF OkChange
  <2>4. ~NoneOk(h, b)
    BY <1>2, <2>3 DEF NoneOk
  <2>5. \A j \in 1..Len(b) : OkChange(h, b[j]) => b[j] = p
    BY <1>1, <2>2 DEF NoneOk
  <2>6. l.text = TextAfter(EditOf(h, p))
    BY <1>6 DEF EditOf
  <2>7. Ahead(h, l, b)
    <3>1. k.session # 0 /\ l.session # 0 /\ h.revision < l.revision /\ l.revision = p.revision
      BY <1>0, <1>6, <2>2
    <3>2. ASSUME NEW j \in 1..Len(b), OkChange(h, b[j])
          PROVE  /\ Live(h, b[j].requestId) /\ b[j].revision = l.revision
                 /\ l.text = TextAfter(EditOf(h, b[j]))
                 /\ b[j].requestId = h.sent => \A q \in h.pending : ~Direct(h, q)
      <4>1. b[j] = p
        BY <2>5, <3>2
      <4> QED BY <2>2, <2>6, <3>1, <4>1
    <3>3. h.revision <= l.revision
      BY <1>0, <3>1
    <3> QED BY <2>4, <3>1, <3>2, <3>3 DEF Ahead
  <2>8. \A j \in 1..Len(v) : IsChange(v[j]) =>
       /\ Live(h, v[j].requestId) /\ v[j].baseRevision <= h.revision
       /\ v[j].requestId # h.sent => v[j].baseRevision = h.revision
    BY <1>3, <2>1 DEF Way
  <2>9. ASSUME NEW q \in h.pending, Direct(h, q)
        PROVE  \/ \E j \in 1..Len(b) : OkChange(h, b[j]) /\ b[j].requestId = q
               \/ \E j \in 1..Len(v) : IsChange(v[j]) /\ v[j].requestId = q
    <3>1. PICK j \in 1..Len(w) : IsChange(w[j]) /\ w[j].requestId = q
      BY <2>1, <2>2, <2>9 DEF Way, NoneOk
    <3>2. CASE j = 1
      BY <3>1, <3>2, <1>2, <2>3
    <3>3. CASE j # 1
      <4>1. j - 1 \in 1..Len(v) /\ v[j - 1] = w[j]
        BY <1>0, <1>3, <3>3
      <4> QED BY <3>1, <4>1
    <3> QED BY <3>2, <3>3
  <2>10. Way(h, v, b)
    BY <2>8, <2>9 DEF Way
  <2> QED BY <2>7, <2>10
<1> QED BY <1>8, <1>9, <1>10, <1>11, <1>12, <1>13, <1>14 DEF Good

(* The first message is an open: the kernel has the text it was sent.      *)
LEMMA OpenAnswered ==
  ASSUME NEW h, NEW k, NEW w, NEW a, NEW p \in Posts, NEW b \in Seq(Posts), NEW v \in Seq(Messages),
         NEW l \in Kernel,
         Typed4(h, k, w, a), Good(h, k, w, a), Adds(a, p, b), Drops(w, 1, v), Len(w) >= 1,
         k.up, IsOpen(w[1]),
         l.up = k.up, l.queue = k.queue, l.session # 0, l.text = w[1].text,
         p.requestId = w[1].requestId, p.type # "failure", p.ok,
         p.revision = l.revision, p.text = l.text
  PROVE  Good(h, l, v, b)
<1> USE Plain
<1>0. /\ 1 \in 1..Len(w) /\ IsAsk(w[1])
      /\ v \in Seq(Messages) /\ Len(v) = Len(w) - 1 /\ Len(v) \in Nat
  BY DEF IsAsk, IsOpen, Drops
<1>1. \A j \in 1..Len(b) : (j \in 1..Len(a) /\ b[j] = a[j]) \/ b[j] = p
  BY DEF Adds
<1>2. \A j \in 1..Len(a) : j \in 1..Len(b) /\ b[j] = a[j]
  BY DEF Adds
<1>3. \A j \in 1..Len(v) : ~IsAsk(v[j])
  <2> SUFFICES ASSUME NEW j \in 1..Len(v) PROVE ~IsAsk(v[j])
    OBVIOUS
  <2>1. j + 1 \in 1..Len(w) /\ v[j] = w[j + 1] /\ 1 < j + 1
    BY DEF Drops
  <2> QED BY <1>0, <2>1 DEF Good, Order
<1>4. ~OkChange(h, p)
  BY HeadCall, <1>0 DEF OkChange, IsOpen, IsChange
<1>5. Order(h, w) /\ Opens(h, k, w) /\ Back(h, k, w, a) /\ Texts(h, k)
  BY DEF Good
<1>6. PICK e \in Nat : /\ e = EditOf(h, w[1]) /\ e <= h.edits /\ l.text = TextAfter(e)
                       /\ k.session # 0 => Len(k.text) <= e
                       /\ h.rejected
  <2>1. EditOf(h, w[1]) \in Nat /\ EditOf(h, w[1]) <= h.edits
    BY <1>0, HeadCall
  <2>2. /\ h.rejected /\ w[1].text = TextAfter(EditOf(h, w[1]))
        /\ k.session # 0 => Len(k.text) <= EditOf(h, w[1])
    BY <1>0, <1>5 DEF Opens
  <2> QED BY <2>1, <2>2
<1>7. Len(l.text) = e
  BY <1>6, TextLength
<1>8. Known(h, l, v, b)
  BY AnswerKnown
<1>9. k.session # 0 => Len(k.text) \in Nat
  <2> SUFFICES ASSUME k.session # 0 PROVE Len(k.text) \in Nat
    OBVIOUS
  <2>1. PICK n \in 0..h.edits : k.text = TextAfter(n)
    BY <1>5 DEF Texts
  <2> QED BY <2>1, TextLength
<1>10. Texts(h, l)
  <2>1. l.session # 0 /\ e \in 0..h.edits /\ l.text = TextAfter(e)
    BY <1>6
  <2>2. ASSUME NEW i \in 1..Len(h.calls), IsChange(h.calls[i]), h.calls[i].outcome = "resolved"
        PROVE  Len(l.text) >= h.calls[i].edit
    BY <1>5, <1>6, <1>7, <1>9, <2>2 DEF Texts
  <2> QED BY <2>1, <2>2 DEF Texts
<1>11. Order(h, v)
  <2>1. w \in Seq(Messages)
    BY DEF Typed4
  <2> QED BY <1>5, <2>1, TailOrder
<1>12. Opens(h, l, v) /\ Changes(h, l, v)
  BY <1>3 DEF Opens, Changes, IsAsk, IsOpen, IsChange
<1>13. Back(h, l, v, b)
  <2>1. /\ \A j \in 1..Len(b) :
              /\ h.resync # 0 /\ b[j].requestId = h.resync => b[j].ok
              /\ \A i \in 1..Len(v) : IsAsk(v[i]) => v[i].requestId # b[j].requestId
        /\ \A j \in 1..Len(a) : ~OkOpen(h, a[j])
    BY <1>0, AnswerBack
  <2>2. \A x, y \in 1..Len(b) : x < y /\ OkOpen(h, b[x]) => ~OkChange(h, b[y]) /\ ~OkOpen(h, b[y])
    <3> SUFFICES ASSUME NEW x \in 1..Len(b), NEW y \in 1..Len(b), x < y, OkOpen(h, b[x]) PROVE FALSE
      OBVIOUS
    <3>1. x \in 1..Len(a) /\ b[x] = a[x]
      BY DEF Adds
    <3> QED BY <2>1, <3>1
  <2>3. ASSUME NEW j \in 1..Len(b), OkChange(h, b[j])
        PROVE  l.session # 0 /\ Len(l.text) >= EditOf(h, b[j])
    <3>1. j \in 1..Len(a) /\ b[j] = a[j]
      BY <1>1, <1>4, <2>3
    <3>2. b[j].requestId \in 1..Len(h.calls)
      BY <2>3 DEF OkChange, Good, Shape
    <3>3. EditOf(h, b[j]) \in Nat
      BY <3>2 DEF EditOf
    <3>4. k.session # 0 /\ Len(k.text) >= EditOf(h, b[j])
      BY <1>5, <2>3, <3>1 DEF Back
    <3> QED BY <1>6, <1>7, <1>9, <3>3, <3>4
  <2>4. \A j \in 1..Len(b) : OkOpen(h, b[j]) => b[j] = p
    BY <1>1, <2>1
  <2>5. \A j \in 1..Len(b) : OkOpen(h, b[j]) =>
       /\ l.session # 0 /\ b[j].revision = l.revision /\ b[j].text = l.text
       /\ l.up => \A i \in 1..Len(v) : ~IsAsk(v[i])
    BY <1>3, <2>4
  <2> QED BY <2>1, <2>2, <2>3, <2>5 DEF Back
<1> QED BY <1>6, <1>8, <1>10, <1>11, <1>12, <1>13 DEF Good

-----------------------------------------------------------------------------
(* The host's steps                                                        *)

(* The calls that were made are what they were; none is pending again.     *)
Follows(h, g) ==
  /\ Len(h.calls) <= Len(g.calls)
  /\ \A i \in 1..Len(h.calls) :
       g.calls[i].type = h.calls[i].type /\ g.calls[i].edit = h.calls[i].edit
  /\ \A p \in g.pending : p <= Len(h.calls) => p \in h.pending
  /\ h.edits <= g.edits

(* A change is settled well only by a kernel that has it.                  *)
Settles(h, k, g) ==
  \A i \in 1..Len(g.calls) : IsChange(g.calls[i]) /\ g.calls[i].outcome = "resolved" =>
    \/ i <= Len(h.calls) /\ h.calls[i].outcome = "resolved"
    \/ k.session # 0 /\ Len(k.text) >= g.calls[i].edit

Carries(h, k, w, a, g, d, b) ==
  /\ Known(g, k, w, b) /\ Back(g, k, w, b)
  /\ k.up => Order(g, w) /\ Changes(g, k, w)
  /\ \A j \in 1..Len(b) : OkChange(g, b[j]) =>
       j + d \in 1..Len(a) /\ a[j + d] = b[j] /\ OkChange(h, b[j])
       /\ EditOf(g, b[j]) = EditOf(h, b[j])
  /\ \A j \in 1..Len(w) : EditOf(g, w[j]) = EditOf(h, w[j])

(* What is on its way means the same to the host.                          *)
LEMMA Carried ==
  ASSUME NEW h, NEW k, NEW w, NEW a, NEW g \in Host, NEW d, NEW b \in Seq(Posts),
         Typed4(h, k, w, a), Good(h, k, w, a), Drops(a, d, b), Follows(h, g),
         g.resync \in {0, h.resync} \/ g.resync > Len(h.calls)
  PROVE  Carries(h, k, w, a, g, d, b)
<1> USE Plain
<1>0. d \in {0, 1} /\ Typed4(g, k, w, b) /\ Len(g.calls) \in Nat /\ Len(b) \in Nat
  BY DEF Drops, Typed4, Host
<1>1. \A j \in 1..Len(b) : j + d \in 1..Len(a) /\ b[j] = a[j + d]
  BY <1>0 DEF Drops
<1>2. \A j \in 1..Len(b) : b[j].ok \/ k.up => b[j].requestId \in 1..Len(h.calls)
  BY <1>1 DEF Good, Known
<1>3. \A i \in 1..Len(h.calls) : i \in 1..Len(g.calls)
  BY <1>0 DEF Follows
<1>4. Known(g, k, w, b)
  <2>1. \A j \in 1..Len(w) : /\ w[j].requestId \in 1..Len(g.calls)
                             /\ g.calls[w[j].requestId].type = w[j].type
    BY <1>3 DEF Good, Known, Follows
  <2>2. \A j \in 1..Len(k.queue) : /\ k.queue[j].requestId \in 1..Len(g.calls)
                                   /\ g.calls[k.queue[j].requestId].type = "run"
    BY <1>3 DEF Good, Known, Follows
  <2>3. \A j \in 1..Len(b) : k.up => b[j].type # "failure"
    BY <1>1 DEF Good, Known
  <2>4. \A j \in 1..Len(b) : b[j].ok \/ k.up => b[j].requestId \in 1..Len(g.calls)
    BY <1>2, <1>3
  <2> QED BY <2>1, <2>2, <2>3, <2>4 DEF Known
<1>5. \A j \in 1..Len(w) : EditOf(g, w[j]) = EditOf(h, w[j])
  BY DEF Good, Known, Follows, EditOf
<1>6. k.up => Order(g, w)
  BY <1>5 DEF Good, Order
<1>7. k.up => Changes(g, k, w)
  BY <1>5 DEF Good, Changes
<1>8. \A j \in 1..Len(b) : OkChange(g, b[j]) =>
           OkChange(h, b[j]) /\ EditOf(g, b[j]) = EditOf(h, b[j])
  <2> SUFFICES ASSUME NEW j \in 1..Len(b), OkChange(g, b[j])
               PROVE  OkChange(h, b[j]) /\ EditOf(g, b[j]) = EditOf(h, b[j])
    OBVIOUS
  <2>1. b[j].ok /\ b[j].requestId \in 1..Len(h.calls) /\ b[j].requestId \in g.pending
        /\ IsChange(g.calls[b[j].requestId])
    BY <1>2 DEF OkChange
  <2>2. b[j].requestId \in h.pending
    BY <2>1 DEF Follows
  <2> QED BY <2>1, <2>2 DEF Follows, OkChange, IsChange, EditOf
<1>9. \A j \in 1..Len(b) : OkOpen(g, b[j]) => OkOpen(h, b[j])
  <2> SUFFICES ASSUME NEW j \in 1..Len(b), OkOpen(g, b[j])
               PROVE  OkOpen(h, b[j])
    OBVIOUS
  <2>1. b[j].ok /\ b[j].requestId \in 1..Len(h.calls) /\ b[j].requestId \in g.pending
        /\ IsOpen(g.calls[b[j].requestId])
    BY <1>2 DEF OkOpen
  <2>2. b[j].requestId \in h.pending
    BY <2>1 DEF Follows
  <2> QED BY <2>1, <2>2 DEF Follows, OkOpen, IsOpen
<1>10. Back(g, k, w, b)
  <2>0. Back(h, k, w, a)
    BY DEF Good
  <2>1. \A x, y \in 1..Len(b) : x < y /\ OkOpen(g, b[x]) => ~OkChange(g, b[y]) /\ ~OkOpen(g, b[y])
    <3> SUFFICES ASSUME NEW x \in 1..Len(b), NEW y \in 1..Len(b), x < y, OkOpen(h, b[x])
                 PROVE  ~OkChange(h, b[y]) /\ ~OkOpen(h, b[y])
      BY <1>8, <1>9
    <3>1. PICK i, j \in 1..Len(a) : i = x + d /\ j = y + d
      BY <1>1
    <3>2. i < j /\ a[i] = b[x] /\ a[j] = b[y]
      BY <1>0, <1>1, <3>1
    <3> QED BY <2>0, <3>2 DEF Back
  <2>2. ASSUME NEW j \in 1..Len(b), OkOpen(g, b[j])
        PROVE  /\ k.session # 0 /\ b[j].revision = k.revision /\ b[j].text = k.text
               /\ k.up => \A i \in 1..Len(w) : ~IsAsk(w[i])
    <3>1. PICK i \in 1..Len(a) : a[i] = b[j]
      BY <1>1
    <3> QED BY <2>0, <2>2, <3>1, <1>9 DEF Back
  <2>3. ASSUME NEW j \in 1..Len(b), OkChange(g, b[j])
        PROVE  k.session # 0 /\ Len(k.text) >= EditOf(g, b[j])
    <3>1. PICK i \in 1..Len(a) : a[i] = b[j]
      BY <1>1
    <3> QED BY <2>0, <2>3, <3>1, <1>8 DEF Back
  <2>4. ASSUME k.up, NEW j \in 1..Len(b)
        PROVE  /\ g.resync # 0 /\ b[j].requestId = g.resync => b[j].ok
               /\ \A i \in 1..Len(w) : IsAsk(w[i]) => w[i].requestId # b[j].requestId
    <3>1. PICK i \in 1..Len(a) : a[i] = b[j]
      BY <1>1
    <3>2. b[j].requestId \in 1..Len(h.calls)
      BY <1>2, <2>4
    <3> QED BY <2>0, <2>4, <3>1, <3>2 DEF Back
  <2> QED BY <2>1, <2>2, <2>3, <2>4 DEF Back
<1> QED BY <1>1, <1>4, <1>5, <1>6, <1>7, <1>8, <1>10 DEF Carries

(* And so does the kernel's text.                                          *)
LEMMA TextsCarried ==
  ASSUME NEW h, NEW k, NEW w, NEW a, NEW g \in Host,
         Typed4(h, k, w, a), Good(h, k, w, a), Follows(h, g), Settles(h, k, g)
  PROVE  Texts(g, k)
<1> USE Plain
<1>0. Texts(h, k) /\ g.edits \in Nat /\ Len(g.calls) \in Nat
  BY DEF Good, Host
<1>1. ASSUME k.session # 0 PROVE \E n \in 0..g.edits : k.text = TextAfter(n)
  <2>1. PICK n \in 0..h.edits : k.text = TextAfter(n)
    BY <1>0, <1>1 DEF Texts
  <2>2. n \in 0..g.edits
    BY <1>0 DEF Follows
  <2> QED BY <2>1, <2>2
<1>2. ASSUME NEW i \in 1..Len(g.calls), IsChange(g.calls[i]), g.calls[i].outcome = "resolved"
      PROVE  k.session # 0 /\ Len(k.text) >= g.calls[i].edit
  <2>1. CASE i <= Len(h.calls) /\ h.calls[i].outcome = "resolved"
    <3>1. i \in 1..Len(h.calls) /\ IsChange(h.calls[i]) /\ h.calls[i].edit = g.calls[i].edit
      BY <1>2, <2>1 DEF Follows, IsChange
    <3> QED BY <1>0, <2>1, <3>1 DEF Texts
  <2> QED BY <1>2, <2>1 DEF Settles
<1> QED BY <1>1, <1>2 DEF Texts

(* No ask is made or settled; a bound editor may have queued an edit.      *)
Keeps(h, g) ==
  /\ g.rejected = h.rejected /\ g.disposed = h.disposed /\ g.sent = h.sent
  /\ g.resync = h.resync /\ g.revision = h.revision
  /\ g.pending \subseteq 1..Len(g.calls)
  /\ \A p \in 1..Len(h.calls) : IsAsk(h.calls[p]) => (p \in g.pending <=> p \in h.pending)
  /\ \A i \in 1..Len(g.calls) : i > Len(h.calls) => ~IsAsk(g.calls[i]) /\ g.calls[i].edit <= g.edits
  /\ g.disposed => g.pending = {}
  /\ g.rejected => g.queue = <<>>
  /\ ~g.rejected =>
       /\ Len(g.queue) <= g.edits /\ LastOut(g) = LastOut(h)
       /\ \A i \in 1..Len(g.queue) : g.queue[i] = LastOut(g) + i
       /\ h.queue # <<>> => g.queue # <<>> /\ Head(g.queue) = Head(h.queue)

(* The live changes are the same.                                          *)
LEMMA SameLive ==
  ASSUME NEW h \in Host, NEW g \in Host, Shape(h), Follows(h, g), Keeps(h, g)
  PROVE  /\ \A p \in h.pending : Live(h, p) => p \in g.pending /\ Live(g, p)
         /\ \A p \in g.pending : Live(g, p) => p \in h.pending /\ Live(h, p)
<1>0. Len(h.calls) \in Nat /\ Len(g.calls) \in Nat /\ h.pending \subseteq Nat
      /\ g.pending \subseteq Nat
      /\ Len(h.calls) <= Len(g.calls) /\ h.pending \subseteq 1..Len(h.calls)
  <2>1. Len(h.calls) \in Nat /\ h.pending \subseteq Nat
    BY DEF Host
  <2>2. Len(g.calls) \in Nat /\ g.pending \subseteq Nat
    BY DEF Host
  <2>3. Len(h.calls) <= Len(g.calls)
    BY DEF Follows
  <2>4. h.pending \subseteq 1..Len(h.calls)
    BY DEF Shape
  <2> QED BY <2>1, <2>2, <2>3, <2>4
<1>1. ASSUME NEW p \in h.pending, Live(h, p) PROVE p \in g.pending /\ Live(g, p)
  <2>1. p \in 1..Len(h.calls) /\ IsChange(h.calls[p]) /\ IsChange(g.calls[p])
    BY <1>0, <1>1 DEF Live, Follows, IsChange
  <2>2. p \in g.pending
    BY <1>0, <2>1 DEF Keeps, IsAsk, IsChange
  <2>3. ASSUME NEW q \in p..Len(g.calls) PROVE ~IsOpen(g.calls[q])
    <3>1. CASE q > Len(h.calls)
      BY <1>0, <2>1, <3>1 DEF Keeps, IsAsk, IsOpen
    <3>2. CASE q <= Len(h.calls)
      BY <1>0, <1>1, <2>1, <3>2 DEF Live, Follows, IsOpen
    <3> QED BY <1>0, <2>1, <3>1, <3>2
  <2> QED BY <2>1, <2>2, <2>3 DEF Live
<1>2. ASSUME NEW p \in g.pending, Live(g, p) PROVE p \in h.pending /\ Live(h, p)
  <2>1. p \in 1..Len(g.calls) /\ IsChange(g.calls[p])
    BY <1>0, <1>2 DEF Live, Keeps
  <2>2. p <= Len(h.calls)
    BY <1>0, <2>1 DEF Keeps, IsAsk, IsChange
  <2>3. p \in h.pending /\ p \in 1..Len(h.calls)
    BY <1>0, <2>1, <2>2 DEF Follows
  <2>4. IsChange(h.calls[p])
    BY <2>1, <2>3 DEF Follows, IsChange
  <2>5. ASSUME NEW q \in p..Len(h.calls) PROVE ~IsOpen(h.calls[q])
    <3>1. q \in 1..Len(h.calls) /\ q \in p..Len(g.calls)
      BY <1>0, <2>3
    <3> QED BY <1>2, <3>1 DEF Live, Follows, IsOpen
  <2> QED BY <2>3, <2>4, <2>5 DEF Live
<1> QED BY <1>1, <1>2

(* Calls of other kinds, answers to them, edits that wait.                 *)
LEMMA Steady ==
  ASSUME NEW h, NEW k, NEW w, NEW a, NEW g \in Host, NEW d, NEW b \in Seq(Posts),
         Typed4(h, k, w, a), Good(h, k, w, a), Drops(a, d, b), Follows(h, g), Settles(h, k, g),
         Keeps(h, g), d = 1 => ~OkChange(h, a[1])
  PROVE  Good(g, k, w, b)
<1> USE Plain
<1>0. /\ h \in Host /\ Shape(h) /\ d \in {0, 1} /\ Len(b) \in Nat /\ Len(g.calls) \in Nat
      /\ g.resync = h.resync /\ Len(b) = Len(a) - d
  BY DEF Typed4, Good, Drops, Keeps, Host
<1>1. /\ \A p \in h.pending : Live(h, p) => p \in g.pending /\ Live(g, p)
      /\ \A p \in g.pending : Live(g, p) => p \in h.pending /\ Live(h, p)
  BY <1>0, SameLive
<1>2. /\ \A p \in h.pending : Direct(h, p) => p \in g.pending /\ Direct(g, p)
      /\ \A p \in g.pending : Direct(g, p) => p \in h.pending /\ Direct(h, p)
  BY <1>1 DEF Direct, Keeps
<1>3. /\ Known(g, k, w, b) /\ Back(g, k, w, b)
      /\ k.up => Order(g, w) /\ Changes(g, k, w)
      /\ \A j \in 1..Len(b) : OkChange(g, b[j]) =>
           j + d \in 1..Len(a) /\ a[j + d] = b[j] /\ OkChange(h, b[j])
           /\ EditOf(g, b[j]) = EditOf(h, b[j])
      /\ \A j \in 1..Len(w) : EditOf(g, w[j]) = EditOf(h, w[j])
  <2>1. Carries(h, k, w, a, g, d, b)
    BY <1>0, Carried
  <2> QED BY <2>1 DEF Carries
<1>4. Texts(g, k)
  BY TextsCarried
<1>5. Shape(g)
  <2>1. g.rejected => g.sent = 0 /\ g.queue = <<>>
    BY <1>0 DEF Shape, Keeps
  <2>2. g.disposed => g.rejected /\ g.pending = {}
    BY <1>0 DEF Shape, Keeps
  <2>3. ASSUME NEW i \in 1..Len(g.calls) PROVE g.calls[i].edit <= g.edits
    <3>1. CASE i > Len(h.calls)
      BY <3>1 DEF Keeps
    <3>2. CASE i <= Len(h.calls)
      <4>1. i \in 1..Len(h.calls) /\ g.calls[i].edit = h.calls[i].edit /\ h.calls[i].edit \in Nat
        BY <3>2 DEF Follows
      <4>2. g.edits \in Nat /\ h.edits <= g.edits
        BY DEF Host, Follows
      <4> QED BY <1>0, <4>1, <4>2 DEF Shape
    <3> QED BY <1>0, <3>1, <3>2
  <2>4. ASSUME NEW p \in g.pending, IsAsk(g.calls[p])
        PROVE  p \in 1..Len(h.calls) /\ p \in h.pending /\ h.calls[p].type = g.calls[p].type
    <3>1. p \in 1..Len(g.calls) /\ ~(p > Len(h.calls))
      BY <1>0, <2>4 DEF Keeps
    <3>2. p \in 1..Len(h.calls)
      BY <1>0, <3>1
    <3> QED BY <3>2 DEF Follows
  <2>5. ASSUME g.resync # 0
        PROVE  /\ g.rejected
               /\ g.resync \in 1..Len(g.calls) /\ IsOpen(g.calls[g.resync])
               /\ g.disposed \/ g.resync \in g.pending
               /\ \A p \in g.pending : IsChange(g.calls[p]) => p < g.resync
    <3>1. /\ h.rejected /\ h.resync \in 1..Len(h.calls) /\ IsOpen(h.calls[h.resync])
          /\ h.disposed \/ h.resync \in h.pending
          /\ \A p \in h.pending : IsChange(h.calls[p]) => p < h.resync
      BY <1>0, <2>5 DEF Shape
    <3>2. g.resync \in 1..Len(g.calls) /\ IsOpen(g.calls[g.resync])
      <4>1. g.calls[h.resync].type = h.calls[h.resync].type
        BY <3>1 DEF Follows
      <4>2. Len(h.calls) <= Len(g.calls) /\ Len(h.calls) \in Nat
        BY DEF Follows
      <4>3. h.resync \in 1..Len(g.calls)
        BY <1>0, <3>1, <4>2
      <4> QED BY <1>0, <3>1, <4>1, <4>3 DEF IsOpen
    <3>3. g.disposed \/ g.resync \in g.pending
      BY <1>0, <3>1 DEF Keeps, IsAsk, IsOpen
    <3>4. \A p \in g.pending : IsChange(g.calls[p]) => p < g.resync
      BY <1>0, <2>4, <3>1 DEF IsChange, IsAsk
    <3> QED BY <3>1, <3>2, <3>3, <3>4 DEF Keeps
  <2>6. \A p \in g.pending : IsOpen(g.calls[p]) => p = g.resync
    BY <1>0, <2>4 DEF Shape, IsOpen, IsAsk
  <2>7. g.pending \subseteq 1..Len(g.calls)
    BY DEF Keeps
  <2> QED BY <2>1, <2>2, <2>3, <2>5, <2>6, <2>7 DEF Shape
<1>6. k.up => Opens(g, k, w)
  BY <1>3 DEF Good, Opens, Keeps
<1>7. ASSUME ~g.rejected PROVE Queue(g) /\ Ahead(g, k, b) /\ (k.up => Way(g, w, b))
  <2>0. ~h.rejected /\ LastOut(g) = LastOut(h) /\ g.sent = h.sent /\ g.revision = h.revision
    BY <1>7 DEF Keeps
  <2>1. Queue(h) /\ Ahead(h, k, a) /\ (k.up => Way(h, w, a))
    BY <2>0 DEF Good
  <2>2. \A p \in h.pending : Direct(h, p) => g.calls[p].edit = h.calls[p].edit
    BY <1>0 DEF Shape, Follows
  <2>3. h.sent # 0 => Live(g, g.sent) /\ g.calls[g.sent].edit = h.calls[h.sent].edit
    <3> SUFFICES ASSUME h.sent # 0
                 PROVE  Live(g, g.sent) /\ g.calls[g.sent].edit = h.calls[h.sent].edit
      OBVIOUS
    <3>1. h.sent \in h.pending /\ Live(h, h.sent)
      BY <2>0, <2>1 DEF Queue, Live
    <3>2. h.sent \in 1..Len(h.calls)
      BY <1>0, <3>1 DEF Shape
    <3> QED BY <1>1, <2>0, <3>1, <3>2 DEF Follows
  <2>4. Queue(g)
    <3>1. \A p, q \in g.pending : Direct(g, p) /\ Direct(g, q) => p = q
      BY <1>2, <2>0, <2>1 DEF Queue
    <3>2. \A p \in g.pending : Direct(g, p) => g.calls[p].edit = LastOut(g)
      BY <1>2, <2>0, <2>1, <2>2 DEF Queue
    <3>3. g.sent # 0 => /\ Live(g, g.sent) /\ g.queue # <<>> /\ g.calls[g.sent].edit = Head(g.queue)
                        /\ \A p \in g.pending : Direct(g, p) => p < g.sent
      BY <1>2, <1>7, <2>0, <2>1, <2>3 DEF Queue, Keeps
    <3> QED BY <1>7, <3>1, <3>2, <3>3 DEF Queue, Keeps
  <2>5. NoneOk(g, b) => NoneOk(h, a)
    <3> SUFFICES ASSUME NoneOk(g, b), NEW j \in 1..Len(a), OkChange(h, a[j]) PROVE FALSE
      BY DEF NoneOk
    <3>1. j - d \in 1..Len(b) /\ b[j - d] = a[j]
      BY <1>0 DEF Drops
    <3>2. a[j].requestId \in 1..Len(h.calls) /\ a[j].requestId \in h.pending
      BY <1>0 DEF OkChange, Shape
    <3>3. OkChange(g, a[j])
      BY <3>2 DEF OkChange, Keeps, Follows, IsChange, IsAsk
    <3> QED BY <3>1, <3>3 DEF NoneOk
  <2>6. ASSUME NEW j \in 1..Len(b), OkChange(g, b[j])
        PROVE  /\ Live(g, b[j].requestId)
               /\ b[j].revision = k.revision /\ g.revision < k.revision
               /\ k.text = TextAfter(EditOf(g, b[j]))
               /\ b[j].requestId = g.sent => \A p \in g.pending : ~Direct(g, p)
    <3>1. PICK i \in 1..Len(a) : a[i] = b[j] /\ OkChange(h, a[i])
          /\ EditOf(g, b[j]) = EditOf(h, a[i])
      BY <1>3, <2>6
    <3>2. b[j].requestId \in h.pending
      BY <3>1 DEF OkChange
    <3> QED BY <1>1, <1>2, <2>0, <2>1, <3>1, <3>2 DEF Ahead
  <2>7. NoneOk(g, b) =>
        /\ k.revision = g.revision
        /\ k.text = TextAfter(IF \E p \in g.pending : Direct(g, p)
                              THEN LastOut(g) - 1 ELSE LastOut(g))
    <3>1. (\E p \in g.pending : Direct(g, p)) <=> (\E p \in h.pending : Direct(h, p))
      BY <1>2
    <3> QED BY <2>0, <2>1, <2>5, <3>1 DEF Ahead
  <2>8. Ahead(g, k, b)
    BY <2>0, <2>1, <2>6, <2>7 DEF Ahead
  <2>9. ASSUME k.up PROVE Way(g, w, b)
    <3>1. \A j \in 1..Len(w) : IsChange(w[j]) =>
           /\ Live(g, w[j].requestId) /\ w[j].baseRevision <= g.revision
           /\ w[j].requestId # g.sent => w[j].baseRevision = g.revision
      BY <1>1, <2>0, <2>1, <2>9 DEF Way, Live
    <3>2. ASSUME NEW p \in g.pending, Direct(g, p)
          PROVE  \/ \E j \in 1..Len(b) : OkChange(g, b[j]) /\ b[j].requestId = p
                 \/ \E j \in 1..Len(w) : IsChange(w[j]) /\ w[j].requestId = p
      <4>1. p \in h.pending /\ Direct(h, p)
        BY <1>2, <3>2
      <4>2. CASE \E j \in 1..Len(a) : OkChange(h, a[j]) /\ a[j].requestId = p
        <5>1. PICK j \in 1..Len(a) : OkChange(h, a[j]) /\ a[j].requestId = p
          BY <4>2
        <5>2. j - d \in 1..Len(b) /\ b[j - d] = a[j]
          BY <1>0, <5>1 DEF Drops
        <5>3. IsChange(g.calls[p])
          BY <3>2 DEF Direct, Live
        <5>4. OkChange(g, a[j])
          BY <5>1, <5>3 DEF OkChange
        <5> QED BY <5>1, <5>2, <5>4
      <4> QED BY <2>1, <2>9, <4>1, <4>2 DEF Way
    <3> QED BY <3>1, <3>2 DEF Way
  <2> QED BY <2>4, <2>8, <2>9
<1>8. Queue(g)
  BY <1>7 DEF Queue
<1> QED BY <1>3, <1>4, <1>5, <1>6, <1>7, <1>8 DEF Good

(* The chain of edits is rejected, whatever was settled or disposed of.    *)
Rejects(h, g) ==
  /\ g.rejected /\ g.sent = 0 /\ g.queue = <<>>
  /\ h.disposed => g.disposed
  /\ g.disposed => g.pending = {}
  /\ g.pending \subseteq 1..Len(h.calls)
  /\ \A i \in 1..Len(g.calls) : i > Len(h.calls) => g.calls[i].edit <= g.edits
  /\ g.resync \in {0, h.resync}
  /\ h.resync # 0 /\ h.resync \in g.pending => g.resync = h.resync
  /\ g.resync # 0 => g.disposed \/ g.resync \in g.pending

(* Once the chain is rejected, what is left of it keeps the invariant.     *)
LEMMA Rejected ==
  ASSUME NEW h, NEW k, NEW w, NEW a, NEW g \in Host, NEW d, NEW b \in Seq(Posts),
         Typed4(h, k, w, a), Good(h, k, w, a), Drops(a, d, b), Follows(h, g), Settles(h, k, g),
         Rejects(h, g),
         k.up /\ ~g.disposed /\ g.resync # h.resync => \A j \in 1..Len(w) : ~IsOpen(w[j])
  PROVE  Good(g, k, w, b)
<1> USE Plain
<1>0. Shape(h) /\ Len(g.calls) \in Nat /\ g.pending \subseteq Nat /\ g.edits \in Nat
  BY DEF Good, Host
<1>1. Carries(h, k, w, a, g, d, b)
  BY Carried DEF Rejects
<1>2. Texts(g, k)
  BY TextsCarried
<1>3. Shape(g)
  <2>1. ASSUME NEW i \in 1..Len(g.calls) PROVE g.calls[i].edit <= g.edits
    <3>1. CASE i > Len(h.calls)
      BY <3>1 DEF Rejects
    <3>2. CASE i <= Len(h.calls)
      <4>1. i \in 1..Len(h.calls) /\ g.calls[i].edit = h.calls[i].edit /\ h.calls[i].edit \in Nat
        BY <3>2 DEF Follows
      <4>2. h.edits <= g.edits
        BY DEF Follows
      <4> QED BY <1>0, <4>1, <4>2 DEF Shape
    <3> QED BY <1>0, <3>1, <3>2
  <2>2. ASSUME NEW p \in g.pending
        PROVE  /\ p \in 1..Len(h.calls) /\ p \in 1..Len(g.calls) /\ p \in h.pending
               /\ g.calls[p].type = h.calls[p].type
    <3>1. p \in 1..Len(h.calls)
      BY DEF Rejects
    <3> QED BY <1>0, <3>1 DEF Follows
  <2>3. \A p \in g.pending : IsOpen(g.calls[p]) => p = g.resync
    <3> SUFFICES ASSUME NEW p \in g.pending, IsOpen(g.calls[p]) PROVE p = g.resync
      OBVIOUS
    <3>1. p = h.resync
      BY <1>0, <2>2 DEF Shape, IsOpen
    <3>2. p # 0
      BY <2>2
    <3> QED BY <3>1, <3>2 DEF Rejects
  <2>4. ASSUME g.resync # 0
        PROVE  /\ g.resync \in 1..Len(g.calls) /\ IsOpen(g.calls[g.resync])
               /\ g.disposed \/ g.resync \in g.pending
               /\ \A p \in g.pending : IsChange(g.calls[p]) => p < g.resync
    <3>1. g.resync = h.resync /\ h.resync # 0
      BY <2>4 DEF Rejects
    <3>2. /\ h.resync \in 1..Len(h.calls) /\ IsOpen(h.calls[h.resync])
          /\ \A p \in h.pending : IsChange(h.calls[p]) => p < h.resync
      BY <1>0, <3>1 DEF Shape
    <3>3. h.resync \in 1..Len(g.calls) /\ IsOpen(g.calls[h.resync])
      BY <1>0, <3>2 DEF Follows, IsOpen
    <3> QED BY <2>2, <2>4, <3>1, <3>2, <3>3 DEF Rejects, IsChange
  <2>5. g.pending \subseteq 1..Len(g.calls)
    BY <2>2
  <2> QED BY <2>1, <2>3, <2>4, <2>5 DEF Shape, Rejects
<1>4. k.up => Opens(g, k, w)
  BY <1>1 DEF Good, Opens, Rejects, Carries
<1>5. g.rejected
  BY DEF Rejects
<1>6. Queue(g)
  BY <1>5 DEF Queue
<1> QED BY <1>1, <1>2, <1>3, <1>4, <1>5, <1>6 DEF Good, Carries

(* Only the settled call is pending no more; nothing else is called.       *)
Settled(h, id, g) ==
  /\ id \in h.pending /\ g.pending = h.pending \ {id}
  /\ Len(g.calls) = Len(h.calls) /\ Follows(h, g)
  /\ g.edits = h.edits /\ g.disposed = h.disposed /\ ~h.disposed

(* The kernel has what the editor shows: it is bound again.                *)
LEMMA Bound ==
  ASSUME NEW h, NEW k, NEW w, NEW a, NEW g \in Host, NEW b \in Seq(Posts),
         Typed4(h, k, w, a), Good(h, k, w, a), Drops(a, 1, b), Len(a) >= 1, Settles(h, k, g),
         Settled(h, a[1].requestId, g), h.resync = a[1].requestId, a[1].ok,
         a[1].text = TextAfter(h.edits),
         g.resync = 0, ~g.rejected, g.sent = 0, g.queue = <<>>, g.revision = a[1].revision
  PROVE  Good(g, k, w, b)
<1> USE Plain
<1>0. /\ Shape(h) /\ Back(h, k, w, a) /\ 1 \in 1..Len(a) /\ Len(g.calls) = Len(h.calls)
      /\ Follows(h, g) /\ g.resync \in {0, h.resync}
      /\ h.pending \subseteq Nat /\ g.pending = h.pending \ {h.resync} /\ g.edits = h.edits
      /\ h.resync \in h.pending /\ h.resync \in 1..Len(h.calls) /\ h.resync # 0
      /\ ~g.disposed /\ g.edits \in Nat
  BY DEF Good, Settled, Shape, Host
<1>1. Carries(h, k, w, a, g, 1, b)
  BY <1>0, Carried
<1>2. Texts(g, k)
  BY <1>0, TextsCarried
<1>3. IsOpen(h.calls[h.resync]) /\ OkOpen(h, a[1])
  BY <1>0 DEF Shape, OkOpen
<1>4. /\ k.session # 0 /\ g.revision = k.revision /\ k.text = TextAfter(g.edits)
      /\ k.up => \A i \in 1..Len(w) : ~IsAsk(w[i])
  BY <1>0, <1>3 DEF Back
<1>5. \A j \in 1..Len(b) : ~OkChange(g, b[j])
  <2> SUFFICES ASSUME NEW j \in 1..Len(b), OkChange(g, b[j]) PROVE FALSE
    OBVIOUS
  <2>1. j + 1 \in 1..Len(a) /\ OkChange(h, a[j + 1]) /\ 1 < j + 1
    BY <1>1 DEF Carries
  <2> QED BY <1>0, <1>3, <2>1 DEF Back
<1>6. \A p \in g.pending : ~IsOpen(g.calls[p]) /\ ~Live(g, p)
  <2> SUFFICES ASSUME NEW p \in g.pending PROVE ~IsOpen(g.calls[p]) /\ ~Live(g, p)
    OBVIOUS
  <2>1. p \in h.pending /\ p # h.resync /\ p \in 1..Len(h.calls)
        /\ g.calls[p].type = h.calls[p].type
    BY <1>0 DEF Shape, Follows
  <2>2. ~IsOpen(g.calls[p])
    BY <1>0, <2>1 DEF Shape, IsOpen
  <2>3. ASSUME Live(g, p) PROVE FALSE
    <3>1. IsChange(h.calls[p])
      BY <2>1, <2>3 DEF Live, IsChange
    <3>2. h.resync \in p..Len(g.calls)
      BY <1>0, <2>1, <3>1 DEF Shape
    <3>3. IsOpen(g.calls[h.resync])
      BY <1>0, <1>3 DEF Follows, IsOpen
    <3> QED BY <2>3, <3>2, <3>3 DEF Live
  <2> QED BY <2>2, <2>3
<1>7. Shape(g)
  <2>1. \A i \in 1..Len(g.calls) : g.calls[i].edit <= g.edits
    BY <1>0 DEF Shape, Follows
  <2> QED BY <1>0, <1>6, <2>1 DEF Shape
<1>8. k.up => Opens(g, k, w) /\ Way(g, w, b)
  <2> SUFFICES ASSUME k.up PROVE Opens(g, k, w) /\ Way(g, w, b)
    OBVIOUS
  <2>1. \A i \in 1..Len(w) : ~IsOpen(w[i]) /\ ~IsChange(w[i])
    BY <1>4 DEF IsAsk, IsOpen, IsChange
  <2> QED BY <1>6, <2>1 DEF Opens, Way, Direct
<1>9. LastOut(g) = g.edits
  BY <1>0 DEF LastOut
<1>10. Queue(g)
  BY <1>0, <1>6 DEF Queue, Direct
<1>11. Ahead(g, k, b)
  BY <1>0, <1>4, <1>5, <1>6, <1>9 DEF Ahead, Direct
<1> QED BY <1>1, <1>2, <1>7, <1>8, <1>10, <1>11 DEF Good, Carries

(* A live change is settled: the others are as live as they were.          *)
LEMMA OtherLive ==
  ASSUME NEW h \in Host, NEW g \in Host, NEW id, Shape(h), Settled(h, id, g)
  PROVE  /\ \A p \in g.pending : p \in h.pending /\ p # id /\ p \in 1..Len(h.calls)
         /\ \A p \in g.pending : Live(g, p) <=> Live(h, p)
         /\ \A p \in h.pending : p # id => p \in g.pending
<1>0. /\ Len(h.calls) \in Nat /\ Len(g.calls) = Len(h.calls) /\ h.pending \subseteq 1..Len(h.calls)
      /\ g.pending = h.pending \ {id} /\ Follows(h, g)
  BY DEF Host, Shape, Settled
<1>1. ASSUME NEW p \in g.pending PROVE Live(g, p) <=> Live(h, p)
  <2>1. p \in 1..Len(h.calls) /\ p \in h.pending
    BY <1>0
  <2>2. \A q \in p..Len(h.calls) : IsOpen(g.calls[q]) <=> IsOpen(h.calls[q])
    BY <1>0, <2>1 DEF Follows, IsOpen
  <2>3. IsChange(g.calls[p]) <=> IsChange(h.calls[p])
    BY <2>1, <1>0 DEF Follows, IsChange
  <2> QED BY <1>0, <2>1, <2>2, <2>3 DEF Live
<1> QED BY <1>0, <1>1

(* The shape of a bound host after a change is settled.                    *)
LEMMA SettledShape ==
  ASSUME NEW h, NEW k, NEW w, NEW a, NEW g \in Host, NEW id,
         Typed4(h, k, w, a), Good(h, k, w, a), Settled(h, id, g),
         ~h.rejected, ~g.rejected, g.resync = h.resync
  PROVE  /\ Shape(g)
         /\ k.up => Opens(g, k, w)
<1> USE Plain
<1>0. Shape(h) /\ h \in Host /\ h.resync = 0 /\ Follows(h, g) /\ Len(g.calls) = Len(h.calls)
      /\ ~g.disposed /\ g.edits = h.edits
  BY DEF Good, Shape, Typed4, Settled
<1>1. /\ \A p \in g.pending : p \in h.pending /\ p # id /\ p \in 1..Len(h.calls)
      /\ \A p \in g.pending : Live(g, p) <=> Live(h, p)
      /\ \A p \in h.pending : p # id => p \in g.pending
  BY <1>0, OtherLive
<1>2. \A i \in 1..Len(g.calls) : g.calls[i].edit <= g.edits
  BY <1>0 DEF Shape, Follows
<1>3. \A p \in g.pending : ~IsOpen(g.calls[p])
  <2> SUFFICES ASSUME NEW p \in g.pending, IsOpen(g.calls[p]) PROVE FALSE
    OBVIOUS
  <2>1. IsOpen(h.calls[p]) /\ p \in h.pending /\ p # 0
    BY <1>0, <1>1 DEF Follows, IsOpen
  <2> QED BY <1>0, <2>1 DEF Shape
<1>4. g.pending \subseteq 1..Len(g.calls)
  BY <1>0, <1>1
<1>5. Shape(g)
  BY <1>0, <1>2, <1>3, <1>4 DEF Shape
<1>6. k.up => Opens(g, k, w)
  <2> SUFFICES ASSUME k.up, NEW j \in 1..Len(w), IsOpen(w[j]) PROVE FALSE
    BY DEF Opens
  <2> QED BY DEF Good, Opens
<1> QED BY <1>5, <1>6

(* The kernel accepted what the binding sent: the next one waits its turn. *)
LEMMA SentAccepted ==
  ASSUME NEW h, NEW k, NEW w, NEW a, NEW g \in Host, NEW b \in Seq(Posts),
         Typed4(h, k, w, a), Good(h, k, w, a), Drops(a, 1, b), Len(a) >= 1, Settles(h, k, g),
         Settled(h, a[1].requestId, g), h.sent = a[1].requestId, a[1].ok, ~h.rejected,
         g.resync = h.resync, ~g.rejected, g.sent = 0, g.queue = Tail(h.queue),
         g.revision = a[1].revision
  PROVE  Good(g, k, w, b) /\ g.edits = h.edits
<1> USE Plain
<1> DEFINE id == a[1].requestId
<1>0. /\ Shape(h) /\ Queue(h) /\ Ahead(h, k, a) /\ Back(h, k, w, a) /\ 1 \in 1..Len(a)
      /\ h \in Host /\ g.edits = h.edits /\ Follows(h, g) /\ Len(g.calls) = Len(h.calls)
      /\ id \in h.pending /\ id # 0 /\ g.edits \in Nat
  <2>1. /\ Shape(h) /\ Queue(h) /\ Ahead(h, k, a) /\ Back(h, k, w, a) /\ 1 \in 1..Len(a)
        /\ h \in Host
    BY DEF Good, Typed4
  <2>2. /\ g.edits = h.edits /\ Follows(h, g) /\ Len(g.calls) = Len(h.calls)
        /\ id \in h.pending
    BY DEF Settled
  <2>3. id # 0
    BY <2>1, <2>2 DEF Shape
  <2> QED BY <2>1, <2>2, <2>3 DEF Host
<1>1. Carries(h, k, w, a, g, 1, b)
  BY <1>0, Carried
<1>2. Texts(g, k)
  BY <1>0, TextsCarried
<1>3. /\ \A p \in g.pending : p \in h.pending /\ p # id /\ p \in 1..Len(h.calls)
      /\ \A p \in g.pending : Live(g, p) <=> Live(h, p)
      /\ \A p \in h.pending : p # id => p \in g.pending
  BY <1>0, OtherLive
<1>4. Shape(g) /\ (k.up => Opens(g, k, w))
  BY SettledShape
<1>5. Live(h, id) /\ OkChange(h, a[1]) /\ h.queue # <<>> /\ EditOf(h, a[1]) = Head(h.queue)
  BY <1>0 DEF Queue, Live, OkChange, EditOf
<1>6. /\ g.revision = k.revision /\ h.revision < k.revision /\ k.session # 0
      /\ k.text = TextAfter(EditOf(h, a[1]))
      /\ \A p \in h.pending : ~Direct(h, p)
  BY <1>0, <1>5 DEF Ahead
<1>7. \A p \in g.pending : ~Live(g, p) /\ ~Direct(g, p)
  BY <1>3, <1>6 DEF Direct
<1>8. h.queue \in Seq(Nat \ {0}) /\ Len(h.queue) >= 1 /\ Head(h.queue) = h.queue[1]
  BY <1>0, <1>5, TailDrops DEF Host
<1>9. Len(g.queue) = Len(h.queue) - 1 /\ \A i \in 1..Len(g.queue) : g.queue[i] = h.queue[i + 1]
  BY <1>5, <1>8, TailDrops DEF Drops
<1>10. LastOut(g) = LastOut(h) + 1 /\ LastOut(h) \in Int /\ Len(g.queue) \in Nat
  BY <1>0, <1>8, <1>9 DEF LastOut
<1>11. k.text = TextAfter(LastOut(g))
  <2>1. h.queue[1] = LastOut(h) + 1
    BY <1>0, <1>8 DEF Queue
  <2> QED BY <1>5, <1>6, <1>8, <1>10, <2>1
<1>12. Queue(g)
  <2>1. ASSUME NEW i \in 1..Len(g.queue) PROVE g.queue[i] = LastOut(g) + i
    <3>1. i + 1 \in 1..Len(h.queue)
      BY <1>8, <1>9
    <3>2. h.queue[i + 1] = LastOut(h) + (i + 1)
      BY <1>0, <3>1 DEF Queue
    <3> QED BY <1>9, <1>10, <3>2
  <2>2. Len(g.queue) <= g.edits
    BY <1>0, <1>8, <1>9 DEF Queue
  <2> QED BY <1>7, <2>1, <2>2 DEF Queue
<1>13. NoneOk(g, b)
  <2> SUFFICES ASSUME NEW j \in 1..Len(b), OkChange(g, b[j]) PROVE FALSE
    BY DEF NoneOk
  <2>1. b[j].requestId \in g.pending /\ j + 1 \in 1..Len(a) /\ OkChange(h, a[j + 1])
        /\ a[j + 1] = b[j]
    BY <1>1 DEF Carries, OkChange
  <2>2. Live(h, b[j].requestId)
    BY <1>0, <2>1 DEF Ahead
  <2> QED BY <1>3, <1>7, <2>1, <2>2
<1>14. Ahead(g, k, b)
  BY <1>6, <1>7, <1>11, <1>13 DEF Ahead, NoneOk
<1>15. k.up => Way(g, w, b)
  <2> SUFFICES ASSUME k.up, NEW j \in 1..Len(w), IsChange(w[j]) PROVE FALSE
    BY <1>7 DEF Way
  <2>1. Live(h, w[j].requestId)
    BY <1>0 DEF Good, Way
  <2>2. w[j].requestId # id
    BY <1>0 DEF Back, IsAsk, IsChange
  <2>3. w[j].requestId \in h.pending
    BY <2>1 DEF Live
  <2> QED BY <1>6, <2>1, <2>2, <2>3 DEF Direct
<1> QED BY <1>0, <1>1, <1>2, <1>4, <1>12, <1>14, <1>15 DEF Good, Carries

(* The kernel accepted a change that is not the binding's.                 *)
LEMMA DirectAccepted ==
  ASSUME NEW h, NEW k, NEW w, NEW a, NEW g \in Host, NEW b \in Seq(Posts),
         Typed4(h, k, w, a), Good(h, k, w, a), Drops(a, 1, b), Len(a) >= 1, Settles(h, k, g),
         Settled(h, a[1].requestId, g), h.sent # a[1].requestId, a[1].ok, ~h.rejected,
         IsChange(h.calls[a[1].requestId]),
         g.resync = h.resync, ~g.rejected, g.sent = h.sent, g.queue = h.queue,
         g.revision = a[1].revision
  PROVE  Good(g, k, w, b)
<1> USE Plain
<1> DEFINE id == a[1].requestId
<1>0. /\ Shape(h) /\ Queue(h) /\ Ahead(h, k, a) /\ Back(h, k, w, a) /\ 1 \in 1..Len(a)
      /\ h \in Host /\ g.edits = h.edits /\ Follows(h, g) /\ Len(g.calls) = Len(h.calls)
      /\ id \in h.pending /\ id # 0 /\ g.edits \in Nat
  <2>1. /\ Shape(h) /\ Queue(h) /\ Ahead(h, k, a) /\ Back(h, k, w, a) /\ 1 \in 1..Len(a)
        /\ h \in Host
    BY DEF Good, Typed4
  <2>2. /\ g.edits = h.edits /\ Follows(h, g) /\ Len(g.calls) = Len(h.calls)
        /\ id \in h.pending
    BY DEF Settled
  <2>3. id # 0
    BY <2>1, <2>2 DEF Shape
  <2> QED BY <2>1, <2>2, <2>3 DEF Host
<1>1. Carries(h, k, w, a, g, 1, b)
  BY <1>0, Carried
<1>2. Texts(g, k)
  BY <1>0, TextsCarried
<1>3. /\ \A p \in g.pending : p \in h.pending /\ p # id /\ p \in 1..Len(h.calls)
      /\ \A p \in g.pending : Live(g, p) <=> Live(h, p)
      /\ \A p \in h.pending : p # id => p \in g.pending
  BY <1>0, OtherLive
<1>4. Shape(g) /\ (k.up => Opens(g, k, w))
  BY SettledShape
<1>5. OkChange(h, a[1]) /\ LastOut(g) = LastOut(h)
  BY <1>0 DEF OkChange, LastOut
<1>6. /\ Live(h, id) /\ g.revision = k.revision /\ h.revision < k.revision /\ k.session # 0
      /\ k.text = TextAfter(EditOf(h, a[1]))
  BY <1>0, <1>5 DEF Ahead
<1>7. Direct(h, id) /\ \A p \in h.pending : Direct(h, p) => p = id
  BY <1>0, <1>6 DEF Direct, Queue
<1>8. \A p \in g.pending : ~Direct(g, p)
  BY <1>3, <1>7 DEF Direct
<1>9. \A p \in g.pending : Live(g, p) => p = g.sent
  BY <1>8 DEF Direct
<1>10. k.text = TextAfter(LastOut(g))
  BY <1>0, <1>5, <1>6, <1>7 DEF Queue, EditOf
<1>11. Queue(g)
  <2>1. g.sent # 0 => Live(g, g.sent) /\ g.queue # <<>> /\ g.calls[g.sent].edit = Head(g.queue)
    <3> SUFFICES ASSUME g.sent # 0
                 PROVE  Live(g, g.sent) /\ g.queue # <<>> /\ g.calls[g.sent].edit = Head(g.queue)
      OBVIOUS
    <3>1. Live(h, h.sent) /\ h.sent \in h.pending /\ h.sent # id
          /\ h.queue # <<>> /\ h.calls[h.sent].edit = Head(h.queue)
      BY <1>0 DEF Queue, Live
    <3>2. h.sent \in 1..Len(h.calls) /\ h.sent \in g.pending
      BY <1>3, <3>1
    <3> QED BY <1>0, <1>3, <3>1, <3>2 DEF Follows
  <2>2. Len(g.queue) <= g.edits /\ \A i \in 1..Len(g.queue) : g.queue[i] = LastOut(g) + i
    BY <1>0, <1>5 DEF Queue
  <2> QED BY <1>8, <2>1, <2>2 DEF Queue
<1>12. NoneOk(g, b)
  <2> SUFFICES ASSUME NEW j \in 1..Len(b), OkChange(g, b[j]) PROVE FALSE
    BY DEF NoneOk
  <2>1. b[j].requestId \in g.pending /\ j + 1 \in 1..Len(a) /\ OkChange(h, a[j + 1])
        /\ a[j + 1] = b[j]
    BY <1>1 DEF Carries, OkChange
  <2>2. Live(h, b[j].requestId)
    BY <1>0, <2>1 DEF Ahead
  <2>3. b[j].requestId = h.sent
    BY <1>3, <1>9, <2>1, <2>2
  <2> QED BY <1>0, <1>7, <2>1, <2>3 DEF Ahead
<1>13. Ahead(g, k, b)
  BY <1>6, <1>8, <1>10, <1>12 DEF Ahead, NoneOk
<1>14. k.up => Way(g, w, b)
  <2> SUFFICES ASSUME k.up, NEW j \in 1..Len(w), IsChange(w[j])
               PROVE  /\ Live(g, w[j].requestId) /\ w[j].baseRevision <= g.revision
                      /\ w[j].requestId = g.sent
    BY <1>8 DEF Way
  <2>1. Live(h, w[j].requestId) /\ w[j].baseRevision <= h.revision
    BY <1>0 DEF Good, Way
  <2>2. w[j].requestId # id
    BY <1>0 DEF Back, IsAsk, IsChange
  <2>3. w[j].requestId \in g.pending
    BY <1>3, <2>1, <2>2 DEF Live
  <2>4. w[j].baseRevision <= g.revision
    <3>1. g.revision \in Nat /\ w[j].baseRevision \in Nat
      BY DEF Host
    <3>2. h.revision \in Nat /\ k.revision \in Nat
      BY DEF Typed4, Host, Kernel
    <3>3. PICK x, y, z : x = w[j].baseRevision /\ y = h.revision /\ z = k.revision
      OBVIOUS
    <3>4. x \in Nat /\ y \in Nat /\ z \in Nat /\ x <= y /\ y < z
      BY <1>6, <2>1, <3>1, <3>2, <3>3
    <3>5. x <= z
      BY ONLY <3>4
    <3> QED BY <1>6, <3>3, <3>5
  <2> QED BY <1>3, <1>9, <2>1, <2>3, <2>4
<1> QED BY <1>1, <1>2, <1>4, <1>11, <1>13, <1>14 DEF Good, Carries

-----------------------------------------------------------------------------
(* What the host posts                                                     *)

(* A message that asks nothing of the document.                            *)
LEMMA PostQuiet ==
  ASSUME NEW h, NEW k, NEW w, NEW a, NEW m \in Messages, NEW v \in Seq(Messages),
         Typed4(h, k, w, a), Good(h, k, w, a), Adds(w, m, v), ~IsAsk(m),
         m.requestId \in 1..Len(h.calls), h.calls[m.requestId].type = m.type
  PROVE  Good(h, k, v, a)
<1> USE Plain
<1>0. ~IsOpen(m) /\ ~IsChange(m) /\ Len(v) \in Nat
  BY DEF IsAsk, IsOpen, IsChange
<1>1. \A j \in 1..Len(v) : (j \in 1..Len(w) /\ v[j] = w[j]) \/ v[j] = m
  BY DEF Adds
<1>2. \A j \in 1..Len(w) : j \in 1..Len(v) /\ v[j] = w[j]
  BY DEF Adds
<1>3. \A j \in 1..Len(v) : IsAsk(v[j]) => j \in 1..Len(w) /\ v[j] = w[j]
  BY <1>1
<1>4. \A j \in 1..Len(v) : IsOpen(v[j]) \/ IsChange(v[j]) => j \in 1..Len(w) /\ v[j] = w[j]
  BY <1>0, <1>1
<1>5. Known(h, k, v, a)
  BY <1>1 DEF Good, Known
<1>6. k.up => Order(h, v)
  BY <1>3, <1>4 DEF Good, Order
<1>7. k.up => Changes(h, k, v)
  <2> SUFFICES ASSUME k.up, NEW j \in 1..Len(v), IsChange(v[j])
               PROVE  /\ k.session # 0 /\ EditOf(h, v[j]) >= 1
                      /\ v[j].before = TextAfter(EditOf(h, v[j]) - 1)
                      /\ v[j].after = TextAfter(EditOf(h, v[j]))
                      /\ v[j].baseRevision <= k.revision
                      /\ v[j].baseRevision = k.revision
                         /\ (\A i \in 1..Len(v) : i < j => ~IsChange(v[i])) => k.text = v[j].before
    BY DEF Changes
  <2>1. j \in 1..Len(w) /\ v[j] = w[j] /\ Changes(h, k, w)
    BY <1>4 DEF Good
  <2>2. (\A i \in 1..Len(v) : i < j => ~IsChange(v[i]))
        => \A i \in 1..Len(w) : i < j => ~IsChange(w[i])
    BY <1>2
  <2> QED BY <2>1, <2>2 DEF Changes
<1>8. k.up => Opens(h, k, v)
  BY <1>4 DEF Good, Opens
<1>9. Back(h, k, v, a)
  <2>1. Back(h, k, w, a)
    BY DEF Good
  <2>2. (\A i \in 1..Len(w) : ~IsAsk(w[i])) => \A i \in 1..Len(v) : ~IsAsk(v[i])
    BY <1>3
  <2>3. k.up => \A j \in 1..Len(a) :
       /\ h.resync # 0 /\ a[j].requestId = h.resync => a[j].ok
       /\ \A i \in 1..Len(v) : IsAsk(v[i]) => v[i].requestId # a[j].requestId
    BY <1>3, <2>1 DEF Back
  <2>4. \A j \in 1..Len(a) : OkOpen(h, a[j]) =>
       /\ k.session # 0 /\ a[j].revision = k.revision /\ a[j].text = k.text
       /\ k.up => \A i \in 1..Len(v) : ~IsAsk(v[i])
    BY <2>1, <2>2 DEF Back
  <2> QED BY <2>1, <2>3, <2>4 DEF Back
<1>10. ~h.rejected /\ k.up => Way(h, v, a)
  <2> SUFFICES ASSUME ~h.rejected, k.up PROVE Way(h, v, a)
    OBVIOUS
  <2>1. Way(h, w, a)
    BY DEF Good
  <2>2. \A j \in 1..Len(v) : IsChange(v[j]) =>
       /\ Live(h, v[j].requestId) /\ v[j].baseRevision <= h.revision
       /\ v[j].requestId # h.sent => v[j].baseRevision = h.revision
    BY <1>4, <2>1 DEF Way
  <2>3. \A p \in h.pending : Direct(h, p) =>
       \/ \E j \in 1..Len(a) : OkChange(h, a[j]) /\ a[j].requestId = p
       \/ \E j \in 1..Len(v) : IsChange(v[j]) /\ v[j].requestId = p
    BY <1>2, <2>1 DEF Way
  <2> QED BY <2>2, <2>3 DEF Way
<1> QED BY <1>5, <1>6, <1>7, <1>8, <1>9, <1>10 DEF Good

(* A message to a worker that is gone is lost.                             *)
LEMMA PostLost ==
  ASSUME NEW h, NEW k, NEW w \in Seq(Messages), NEW a, NEW m, NEW v,
         Typed4(h, k, v, a), Good(h, k, v, a), Adds(w, m, v), ~k.up
  PROVE  Good(h, k, w, a)
<1>1. \A j \in 1..Len(w) : j \in 1..Len(v) /\ v[j] = w[j]
  BY Plain DEF Adds
<1>2. Known(h, k, w, a)
  BY <1>1 DEF Good, Known
<1>3. Back(h, k, w, a)
  BY DEF Good, Back
<1> QED BY <1>2, <1>3 DEF Good

(* A call is made.                                                         *)
Calls(h, g, c, m) ==
  /\ Adds(h.calls, c, g.calls) /\ c.outcome = "none" /\ c.type = m.type
  /\ m.requestId = Len(h.calls) + 1
  /\ g.pending = h.pending \cup {m.requestId}
  /\ ~h.disposed /\ ~g.disposed

CallMade(h, g, c, m) ==
  /\ Follows(h, g)
  /\ Len(h.calls) \in Nat /\ Len(g.calls) = Len(h.calls) + 1
  /\ m.requestId = Len(g.calls) /\ g.calls[m.requestId] = c /\ m.requestId \notin h.pending
  /\ \A p \in g.pending : (p \in h.pending /\ p \in 1..Len(h.calls)) \/ p = m.requestId
  /\ \A p \in h.pending : p \in g.pending /\ p \in 1..Len(h.calls)
  /\ g.pending \subseteq 1..Len(g.calls)
  /\ \A i \in 1..Len(h.calls) : g.calls[i] = h.calls[i]

(* The old calls, and the new one.                                         *)
LEMMA Called ==
  ASSUME NEW h \in Host, NEW g \in Host, NEW c, NEW m, NEW k,
         Shape(h), Calls(h, g, c, m), h.edits <= g.edits
  PROVE  CallMade(h, g, c, m) /\ Settles(h, k, g)
<1>1. Len(h.calls) \in Nat /\ h.pending \subseteq 1..Len(h.calls)
  BY DEF Host, Shape
<1>2. /\ Len(g.calls) = Len(h.calls) + 1 /\ g.calls[Len(h.calls) + 1] = c
      /\ \A i \in 1..Len(h.calls) : g.calls[i] = h.calls[i]
  BY DEF Calls, Adds
<1>3. g.pending = h.pending \cup {m.requestId} /\ m.requestId = Len(h.calls) + 1
      /\ c.outcome = "none"
  BY DEF Calls
<1>4. \A p \in h.pending : p \in g.pending /\ p \in 1..Len(h.calls)
  BY <1>1, <1>3
<1>5. \A p \in g.pending : (p \in h.pending /\ p \in 1..Len(h.calls)) \/ p = m.requestId
  BY <1>3, <1>4
<1>6. m.requestId \notin h.pending
  BY <1>1, <1>3
<1>7. g.pending \subseteq 1..Len(g.calls)
  BY <1>1, <1>2, <1>3, <1>5
<1>8. Follows(h, g)
  BY <1>1, <1>2, <1>3, <1>5 DEF Follows
<1>9. Settles(h, k, g)
  <2> SUFFICES ASSUME NEW i \in 1..Len(g.calls), g.calls[i].outcome = "resolved"
               PROVE  i <= Len(h.calls) /\ h.calls[i].outcome = "resolved"
    BY DEF Settles
  <2>1. i # Len(h.calls) + 1
    BY <1>2, <1>3
  <2>2. i \in 1..Len(h.calls)
    BY <1>1, <1>2, <2>1
  <2> QED BY <1>1, <1>2, <2>2
<1> QED BY <1>1, <1>2, <1>3, <1>4, <1>5, <1>6, <1>7, <1>8, <1>9 DEF CallMade

(* The host opens what its editor shows.                                   *)
LEMMA PostOpen ==
  ASSUME NEW h, NEW k, NEW w, NEW a, NEW g \in Host, NEW c \in Call, NEW m \in Messages,
         NEW v \in Seq(Messages),
         Typed4(h, k, w, a), Good(h, k, w, a), Adds(w, m, v), Calls(h, g, c, m), IsOpen(m),
         m.text = TextAfter(h.edits), c.edit = h.edits, g.edits = h.edits,
         h.rejected, h.resync = 0, g.rejected, g.sent = 0, g.queue = <<>>, g.resync = m.requestId
  PROVE  Good(g, k, v, a)
<1> USE Plain
<1> DEFINE id == m.requestId
<1>0. /\ h \in Host /\ Shape(h) /\ a \in Seq(Posts) /\ Len(v) = Len(w) + 1 /\ v[Len(v)] = m
      /\ IsOpen(c) /\ IsAsk(m) /\ ~IsChange(m) /\ ~h.disposed /\ ~g.disposed
  BY DEF Typed4, Good, Adds, Calls, IsOpen, IsAsk, IsChange
<1>1. /\ Follows(h, g) /\ Settles(h, k, g)
      /\ Len(h.calls) \in Nat /\ Len(g.calls) = Len(h.calls) + 1
      /\ id = Len(g.calls) /\ g.calls[id] = c /\ id \notin h.pending
      /\ \A p \in g.pending : (p \in h.pending /\ p \in 1..Len(h.calls)) \/ p = id
      /\ \A p \in h.pending : p \in g.pending /\ p \in 1..Len(h.calls)
      /\ g.pending \subseteq 1..Len(g.calls)
      /\ \A i \in 1..Len(h.calls) : g.calls[i] = h.calls[i]
  <2>1. CallMade(h, g, c, m) /\ Settles(h, k, g)
    BY <1>0, Called
  <2> QED BY <2>1 DEF CallMade
<1>2. id \in g.pending /\ id \in 1..Len(g.calls) /\ id # 0 /\ id > Len(h.calls)
  BY <1>1 DEF Calls
<1>3. Carries(h, k, w, a, g, 0, a)
  <2>1. Drops(a, 0, a)
    BY <1>0, NothingDrops
  <2> QED BY <1>0, <1>1, <1>2, <2>1, Carried
<1>4. Texts(g, k)
  BY <1>1, TextsCarried
<1>5. \A j \in 1..Len(v) : (j \in 1..Len(w) /\ v[j] = w[j]) \/ (j = Len(v) /\ v[j] = m)
  BY <1>0 DEF Adds
<1>6. \A p \in h.pending : ~IsOpen(h.calls[p])
  <2> SUFFICES ASSUME NEW p \in h.pending, IsOpen(h.calls[p]) PROVE FALSE
    OBVIOUS
  <2>1. p # 0
    BY <1>1
  <2> QED BY <1>0, <2>1 DEF Shape
<1>7. k.up => \A j \in 1..Len(w) : ~IsOpen(w[j])
  <2> SUFFICES ASSUME k.up, NEW j \in 1..Len(w), IsOpen(w[j]) PROVE FALSE
    OBVIOUS
  <2>1. w[j].requestId = 0
    BY <1>0 DEF Good, Opens
  <2>2. w[j].requestId \in 1..Len(h.calls)
    BY DEF Good, Known
  <2> QED BY <2>1, <2>2
<1>8. Known(g, k, v, a)
  <2>1. Known(g, k, w, a)
    BY <1>3 DEF Carries
  <2>2. m.requestId \in 1..Len(g.calls) /\ g.calls[m.requestId].type = m.type
    BY <1>1, <1>2 DEF Calls
  <2> QED BY <1>5, <2>1, <2>2 DEF Known
<1>9. EditOf(g, m) = h.edits
  BY <1>1 DEF EditOf
<1>10. k.up => Order(g, v)
  <2> SUFFICES ASSUME k.up, NEW i \in 1..Len(v), NEW j \in 1..Len(v), i < j
               PROVE  /\ IsAsk(v[i]) /\ IsAsk(v[j]) => v[i].requestId < v[j].requestId
                      /\ IsOpen(v[i]) => ~IsAsk(v[j])
                      /\ IsChange(v[i]) /\ IsChange(v[j]) => v[j].baseRevision <= v[i].baseRevision
                      /\ IsChange(v[i]) /\ IsOpen(v[j]) => EditOf(g, v[i]) <= EditOf(g, v[j])
    BY DEF Order
  <2>1. i \in 1..Len(w) /\ v[i] = w[i]
    BY <1>0, <1>5
  <2>2. CASE j \in 1..Len(w) /\ v[j] = w[j]
    BY <1>3, <2>1, <2>2 DEF Carries, Order
  <2>3. CASE v[j] = m
    <3>1. w[i].requestId \in 1..Len(h.calls)
      BY <2>1 DEF Good, Known
    <3>2. EditOf(g, w[i]) <= h.edits
      <4>1. EditOf(g, w[i]) = EditOf(h, w[i])
        BY <1>3, <2>1 DEF Carries
      <4> QED BY <1>0, <3>1, <4>1 DEF Shape, EditOf
    <3>3. w[i].requestId < id
      BY <1>1, <1>2, <3>1
    <3> QED BY <1>0, <1>7, <1>9, <2>1, <2>3, <3>2, <3>3
  <2> QED BY <1>5, <2>2, <2>3
<1>11. k.up => Changes(g, k, v)
  <2> SUFFICES ASSUME k.up, NEW j \in 1..Len(v), IsChange(v[j])
               PROVE  /\ k.session # 0 /\ EditOf(g, v[j]) >= 1
                      /\ v[j].before = TextAfter(EditOf(g, v[j]) - 1)
                      /\ v[j].after = TextAfter(EditOf(g, v[j]))
                      /\ v[j].baseRevision <= k.revision
                      /\ v[j].baseRevision = k.revision
                         /\ (\A i \in 1..Len(v) : i < j => ~IsChange(v[i])) => k.text = v[j].before
    BY DEF Changes
  <2>1. j \in 1..Len(w) /\ v[j] = w[j] /\ Changes(g, k, w)
    BY <1>0, <1>3, <1>5 DEF Carries
  <2>2. (\A i \in 1..Len(v) : i < j => ~IsChange(v[i]))
        => \A i \in 1..Len(w) : i < j => ~IsChange(w[i])
    BY <1>0 DEF Adds
  <2> QED BY <2>1, <2>2 DEF Changes
<1>12. k.up => Opens(g, k, v)
  <2> SUFFICES ASSUME k.up, NEW j \in 1..Len(v), IsOpen(v[j])
               PROVE  /\ v[j].requestId = g.resync
                      /\ v[j].text = TextAfter(EditOf(g, v[j]))
                      /\ k.session # 0 => Len(k.text) <= EditOf(g, v[j])
    BY DEF Opens
  <2>1. v[j] = m
    BY <1>5, <1>7
  <2>2. k.session # 0 => Len(k.text) <= h.edits
    <3> SUFFICES ASSUME k.session # 0 PROVE Len(k.text) <= h.edits
      OBVIOUS
    <3>1. PICK n \in 0..h.edits : k.text = TextAfter(n)
      BY DEF Good, Texts
    <3> QED BY <3>1, TextLength
  <2> QED BY <1>9, <2>1, <2>2
<1>13. Back(g, k, v, a)
  <2>1. Back(g, k, w, a)
    BY <1>3 DEF Carries
  <2>2. ASSUME NEW j \in 1..Len(a) PROVE ~OkOpen(g, a[j])
    <3> SUFFICES ASSUME OkOpen(g, a[j]) PROVE FALSE
      OBVIOUS
    <3>1. a[j].requestId \in 1..Len(h.calls) /\ a[j].requestId \in g.pending
      BY DEF OkOpen, Good, Known
    <3>2. a[j].requestId \in h.pending
      BY <1>1, <1>2, <3>1
    <3>3. IsOpen(h.calls[a[j].requestId])
      BY <1>1, <3>1 DEF OkOpen
    <3> QED BY <1>6, <3>2, <3>3
  <2>3. ASSUME k.up, NEW j \in 1..Len(a)
        PROVE  /\ g.resync # 0 /\ a[j].requestId = g.resync => a[j].ok
               /\ \A i \in 1..Len(v) : IsAsk(v[i]) => v[i].requestId # a[j].requestId
    <3>1. a[j].requestId \in 1..Len(h.calls)
      BY <2>3 DEF Good, Known
    <3>2. a[j].requestId # id
      BY <1>1, <1>2, <3>1
    <3>3. ASSUME NEW i \in 1..Len(v), IsAsk(v[i]) PROVE v[i].requestId # a[j].requestId
      BY <1>5, <2>1, <2>3, <3>2, <3>3 DEF Back
    <3> QED BY <3>2, <3>3
  <2>4. \A j \in 1..Len(a) : OkChange(g, a[j]) => k.session # 0 /\ Len(k.text) >= EditOf(g, a[j])
    BY <2>1 DEF Back
  <2> QED BY <2>2, <2>3, <2>4 DEF Back
<1>14. Shape(g)
  <2>1. ASSUME NEW i \in 1..Len(g.calls) PROVE g.calls[i].edit <= g.edits
    <3>1. CASE i = id
      BY <1>1, <3>1
    <3>2. CASE i # id
      <4>1. i \in 1..Len(h.calls)
        BY <1>1, <3>2
      <4> QED BY <1>0, <1>1, <4>1 DEF Shape
    <3> QED BY <3>1, <3>2
  <2>2. \A p \in g.pending : IsChange(g.calls[p]) => p < g.resync
    BY <1>0, <1>1, <1>2 DEF IsOpen, IsChange
  <2>3. \A p \in g.pending : IsOpen(g.calls[p]) => p = g.resync
    BY <1>1, <1>6
  <2>4. IsOpen(g.calls[g.resync]) /\ g.resync \in 1..Len(g.calls) /\ g.resync \in g.pending
    BY <1>0, <1>1, <1>2
  <2>5. g.pending \subseteq 1..Len(g.calls)
    BY <1>1
  <2> QED BY <1>0, <2>1, <2>2, <2>3, <2>4, <2>5 DEF Shape
<1> QED BY <1>4, <1>8, <1>10, <1>11, <1>12, <1>13, <1>14 DEF Good, Queue

(* A bound host posts the change of an edit to what it last sent.          *)
CallsChange(h, g, c, m) ==
  /\ Calls(h, g, c, m) /\ IsChange(m)
  /\ ~h.rejected /\ ~g.rejected /\ h.sent = 0
  /\ g.revision = h.revision /\ g.resync = h.resync /\ h.edits <= g.edits
  /\ m.baseRevision = h.revision
  /\ LastOut(h) \in Nat /\ c.edit = LastOut(h) + 1 /\ c.edit <= g.edits
  /\ m.before = TextAfter(LastOut(h)) /\ m.after = TextAfter(LastOut(h) + 1)

(* It is live, and so are the others.                                      *)
ChangeMade(h, g, m) ==
  /\ Live(g, m.requestId) /\ m.requestId \in g.pending
  /\ \A p \in h.pending : p \in g.pending /\ p < m.requestId /\ (Live(g, p) <=> Live(h, p))
  /\ \A p \in g.pending : p \in h.pending \/ p = m.requestId

(* A change that was just asked is live, and no other change became live.  *)
LEMMA MadeLive ==
  ASSUME NEW h \in Host, NEW g \in Host, NEW c, NEW m, Shape(h), CallsChange(h, g, c, m)
  PROVE  ChangeMade(h, g, m)
<1> DEFINE id == m.requestId
<1>1. /\ Len(h.calls) \in Nat /\ Len(g.calls) = Len(h.calls) + 1
      /\ id = Len(g.calls) /\ g.calls[id] = c /\ id \notin h.pending
      /\ \A p \in g.pending : (p \in h.pending /\ p \in 1..Len(h.calls)) \/ p = id
      /\ \A p \in h.pending : p \in g.pending /\ p \in 1..Len(h.calls)
      /\ \A i \in 1..Len(h.calls) : g.calls[i] = h.calls[i]
  <2>1. Calls(h, g, c, m) /\ h.edits <= g.edits
    BY DEF CallsChange
  <2>2. CallMade(h, g, c, m)
    BY <2>1, Called
  <2> QED BY <2>2 DEF CallMade
<1>2. id \in g.pending /\ IsChange(c) /\ ~IsOpen(c)
  BY DEF CallsChange, Calls, IsChange, IsOpen
<1>3. Live(g, id)
  <2>1. \A q \in id..Len(g.calls) : q = id
    BY <1>1
  <2> QED BY <1>1, <1>2, <2>1 DEF Live
<1>4. ASSUME NEW p \in h.pending PROVE p < id /\ (Live(g, p) <=> Live(h, p))
  <2>1. p \in 1..Len(h.calls) /\ p \in g.pending /\ g.calls[p] = h.calls[p]
    BY <1>1
  <2>2. p < id
    BY <1>1, <2>1
  <2>3. ASSUME Live(h, p), NEW q \in p..Len(g.calls) PROVE ~IsOpen(g.calls[q])
    <3>1. CASE q = id
      BY <1>1, <1>2, <3>1
    <3>2. CASE q # id
      <4>1. q \in p..Len(h.calls) /\ q \in 1..Len(h.calls)
        BY <1>1, <2>1, <3>2
      <4>2. g.calls[q] = h.calls[q] /\ ~IsOpen(h.calls[q])
        BY <1>1, <2>3, <4>1 DEF Live
      <4> QED BY <4>2
    <3> QED BY <3>1, <3>2
  <2>4. Live(h, p) => Live(g, p)
    BY <2>1, <2>3 DEF Live
  <2>5. ASSUME Live(g, p), NEW q \in p..Len(h.calls) PROVE ~IsOpen(h.calls[q])
    <3>1. q \in 1..Len(h.calls) /\ q \in p..Len(g.calls)
      BY <1>1, <2>1
    <3>2. g.calls[q] = h.calls[q] /\ ~IsOpen(g.calls[q])
      BY <1>1, <2>5, <3>1 DEF Live
    <3> QED BY <3>2
  <2>6. Live(g, p) => Live(h, p)
    BY <2>1, <2>5 DEF Live
  <2> QED BY <2>2, <2>4, <2>6
<1> QED BY <1>1, <1>2, <1>3, <1>4 DEF ChangeMade

(* What holds of the new change whoever made it.                           *)
LEMMA PostChange ==
  ASSUME NEW h, NEW k, NEW w, NEW a, NEW g \in Host, NEW c \in Call, NEW m \in Messages,
         NEW v \in Seq(Messages),
         Typed4(h, k, w, a), Good(h, k, w, a), Adds(w, m, v), CallsChange(h, g, c, m)
  PROVE  /\ Shape(g) /\ Known(g, k, v, a) /\ Texts(g, k) /\ Back(g, k, v, a)
         /\ k.up => Order(g, v) /\ Changes(g, k, v) /\ Opens(g, k, v)
<1> USE Plain
<1> DEFINE id == m.requestId
<1>0. /\ h \in Host /\ Shape(h) /\ a \in Seq(Posts) /\ Len(v) = Len(w) + 1 /\ v[Len(v)] = m
      /\ IsChange(c) /\ IsAsk(m) /\ IsChange(m) /\ ~IsOpen(m) /\ ~h.disposed /\ ~g.disposed
      /\ h.resync = 0 /\ g.resync = 0 /\ ~h.rejected /\ ~g.rejected
  BY DEF Typed4, Good, Adds, Calls, CallsChange, IsOpen, IsAsk, IsChange, Shape
<1>1. /\ Follows(h, g) /\ Settles(h, k, g)
      /\ Len(h.calls) \in Nat /\ Len(g.calls) = Len(h.calls) + 1
      /\ id = Len(g.calls) /\ g.calls[id] = c /\ id \notin h.pending
      /\ \A p \in g.pending : (p \in h.pending /\ p \in 1..Len(h.calls)) \/ p = id
      /\ \A p \in h.pending : p \in g.pending /\ p \in 1..Len(h.calls)
      /\ g.pending \subseteq 1..Len(g.calls)
      /\ \A i \in 1..Len(h.calls) : g.calls[i] = h.calls[i]
  <2>1. Calls(h, g, c, m) /\ h.edits <= g.edits
    BY DEF CallsChange
  <2>2. CallMade(h, g, c, m) /\ Settles(h, k, g)
    BY <1>0, <2>1, Called
  <2> QED BY <2>2 DEF CallMade
<1>2. id \in 1..Len(g.calls) /\ id # 0 /\ id > Len(h.calls)
  BY <1>1
<1>3. Carries(h, k, w, a, g, 0, a)
  <2>1. Drops(a, 0, a)
    BY <1>0, NothingDrops
  <2> QED BY <1>0, <1>1, <2>1, Carried
<1>4. Texts(g, k)
  BY <1>1, TextsCarried
<1>5. \A j \in 1..Len(v) : (j \in 1..Len(w) /\ v[j] = w[j]) \/ (j = Len(v) /\ v[j] = m)
  BY <1>0 DEF Adds
<1>6. k.up => \A j \in 1..Len(v) : ~IsOpen(v[j])
  <2> SUFFICES ASSUME k.up, NEW j \in 1..Len(w), IsOpen(w[j]) PROVE FALSE
    BY <1>0, <1>5
  <2> QED BY <1>0 DEF Good, Opens
<1>7. Known(g, k, v, a)
  <2>1. Known(g, k, w, a)
    BY <1>3 DEF Carries
  <2>2. m.requestId \in 1..Len(g.calls) /\ g.calls[m.requestId].type = m.type
    BY <1>1, <1>2 DEF CallsChange, Calls
  <2> QED BY <1>5, <2>1, <2>2 DEF Known
<1>8. EditOf(g, m) = LastOut(h) + 1 /\ LastOut(h) \in Nat
  BY <1>1 DEF EditOf, CallsChange
<1>9. k.up => Order(g, v)
  <2> SUFFICES ASSUME k.up, NEW i \in 1..Len(v), NEW j \in 1..Len(v), i < j
               PROVE  /\ IsAsk(v[i]) /\ IsAsk(v[j]) => v[i].requestId < v[j].requestId
                      /\ IsChange(v[i]) /\ IsChange(v[j]) => v[j].baseRevision <= v[i].baseRevision
    BY <1>6 DEF Order
  <2>1. i \in 1..Len(w) /\ v[i] = w[i]
    BY <1>0, <1>5
  <2>2. CASE j \in 1..Len(w) /\ v[j] = w[j]
    BY <1>3, <2>1, <2>2 DEF Carries, Order
  <2>3. CASE v[j] = m
    <3>1. w[i].requestId \in 1..Len(h.calls)
      BY <2>1 DEF Good, Known
    <3>2. w[i].requestId < id
      BY <1>1, <1>2, <3>1
    <3>3. ASSUME IsChange(w[i]) PROVE w[i].baseRevision = h.revision
      <4>1. Way(h, w, a) /\ h.sent = 0
        BY <1>0 DEF Good, CallsChange
      <4>2. w[i].requestId # 0
        BY <3>1
      <4> QED BY <2>1, <3>3, <4>1, <4>2 DEF Way
    <3>4. IsChange(w[i]) => m.baseRevision <= w[i].baseRevision
      BY <3>3 DEF CallsChange
    <3> QED BY <2>1, <2>3, <3>2, <3>4
  <2> QED BY <1>5, <2>2, <2>3
<1>10. k.up => Changes(g, k, v)
  <2> SUFFICES ASSUME k.up, NEW j \in 1..Len(v), IsChange(v[j])
               PROVE  /\ k.session # 0 /\ EditOf(g, v[j]) >= 1
                      /\ v[j].before = TextAfter(EditOf(g, v[j]) - 1)
                      /\ v[j].after = TextAfter(EditOf(g, v[j]))
                      /\ v[j].baseRevision <= k.revision
                      /\ v[j].baseRevision = k.revision
                         /\ (\A i \in 1..Len(v) : i < j => ~IsChange(v[i])) => k.text = v[j].before
    BY DEF Changes
  <2>1. CASE j \in 1..Len(w) /\ v[j] = w[j]
    <3>1. Changes(g, k, w)
      BY <1>3 DEF Carries
    <3>2. (\A i \in 1..Len(v) : i < j => ~IsChange(v[i]))
          => \A i \in 1..Len(w) : i < j => ~IsChange(w[i])
      BY <1>0 DEF Adds
    <3> QED BY <2>1, <3>1, <3>2 DEF Changes
  <2>2. CASE j = Len(v) /\ v[j] = m
    <3>1. Ahead(h, k, a) /\ Way(h, w, a) /\ h.sent = 0 /\ m.baseRevision = h.revision
          /\ m.before = TextAfter(LastOut(h)) /\ m.after = TextAfter(LastOut(h) + 1)
      BY <1>0 DEF Good, CallsChange
    <3>2. ASSUME h.revision = k.revision, \A i \in 1..Len(v) : i < j => ~IsChange(v[i])
          PROVE  k.text = m.before
      <4>1. NoneOk(h, a)
        BY <3>1, <3>2 DEF Ahead, NoneOk
      <4>2. \A i \in 1..Len(w) : ~IsChange(w[i])
        BY <1>0, <2>2, <3>2 DEF Adds
      <4>3. \A p \in h.pending : ~Direct(h, p)
        BY <3>1, <4>1, <4>2 DEF Way, NoneOk
      <4> QED BY <3>1, <4>1, <4>3 DEF Ahead
    <3>3. k.session # 0 /\ h.revision <= k.revision
      BY <3>1 DEF Ahead
    <3>4. EditOf(g, m) >= 1 /\ EditOf(g, m) - 1 = LastOut(h)
      <4>1. PICK n \in Nat : n = LastOut(h)
        BY <1>8
      <4>2. EditOf(g, m) = n + 1
        BY <1>8, <4>1
      <4> QED BY <4>1, <4>2
    <3> QED BY <1>8, <2>2, <3>1, <3>2, <3>3, <3>4
  <2> QED BY <1>5, <2>1, <2>2
<1>11. k.up => Opens(g, k, v)
  BY <1>6 DEF Opens
<1>12. Back(g, k, v, a)
  <2>1. Back(g, k, w, a)
    BY <1>3 DEF Carries
  <2>2. ASSUME NEW j \in 1..Len(a) PROVE ~OkOpen(g, a[j])
    <3> SUFFICES ASSUME OkOpen(g, a[j]) PROVE FALSE
      OBVIOUS
    <3>1. a[j].requestId \in 1..Len(h.calls) /\ a[j].requestId \in g.pending /\ a[j].requestId # 0
      BY DEF OkOpen, Good, Known
    <3>2. a[j].requestId \in h.pending
      BY <1>1, <1>2, <3>1
    <3>3. IsOpen(h.calls[a[j].requestId])
      BY <1>1, <3>1 DEF OkOpen
    <3> QED BY <1>0, <3>1, <3>2, <3>3 DEF Shape
  <2>3. ASSUME k.up, NEW j \in 1..Len(a), NEW i \in 1..Len(v), IsAsk(v[i])
        PROVE  v[i].requestId # a[j].requestId
    <3>1. a[j].requestId \in 1..Len(h.calls)
      BY <2>3 DEF Good, Known
    <3>2. a[j].requestId # id
      BY <1>1, <1>2, <3>1
    <3>3. CASE i \in 1..Len(w) /\ v[i] = w[i]
      BY <2>1, <2>3, <3>3 DEF Back
    <3>4. CASE v[i] = m
      BY <3>2, <3>4
    <3> QED BY <1>5, <3>3, <3>4
  <2>4. \A j \in 1..Len(a) : OkChange(g, a[j]) => k.session # 0 /\ Len(k.text) >= EditOf(g, a[j])
    BY <2>1 DEF Back
  <2> QED BY <1>0, <2>2, <2>3, <2>4 DEF Back
<1>13. Shape(g)
  <2>1. ASSUME NEW i \in 1..Len(g.calls) PROVE g.calls[i].edit <= g.edits
    <3>1. CASE i = id
      BY <1>1, <3>1 DEF CallsChange
    <3>2. CASE i # id
      <4>1. i \in 1..Len(h.calls)
        BY <1>1, <3>2
      <4>2. h.calls[i].edit <= h.edits /\ h.edits <= g.edits /\ h.edits \in Nat /\ g.edits \in Nat
            /\ h.calls[i].edit \in Nat /\ g.calls[i] = h.calls[i]
        BY <1>0, <1>1, <4>1 DEF Shape, CallsChange, Host
      <4> QED BY <4>2
    <3> QED BY <3>1, <3>2
  <2>2. ASSUME NEW p \in g.pending PROVE ~IsOpen(g.calls[p])
    <3>1. CASE p = id
      BY <1>0, <1>1, <3>1 DEF IsOpen, IsChange
    <3>2. CASE p # id
      <4>1. p \in h.pending /\ p \in 1..Len(h.calls) /\ p # 0
        BY <1>1, <3>2
      <4> QED BY <1>0, <1>1, <4>1 DEF Shape
    <3> QED BY <3>1, <3>2
  <2>3. g.pending \subseteq 1..Len(g.calls)
    BY <1>1
  <2> QED BY <1>0, <2>1, <2>2, <2>3 DEF Shape
<1> QED BY <1>4, <1>7, <1>9, <1>10, <1>11, <1>12, <1>13

(* The binding sends the head of its queue.                                *)
LEMMA PostSent ==
  ASSUME NEW h, NEW k, NEW w, NEW a, NEW g \in Host, NEW c \in Call, NEW m \in Messages,
         NEW v \in Seq(Messages),
         Typed4(h, k, w, a), Good(h, k, w, a), Adds(w, m, v), CallsChange(h, g, c, m),
         h.queue # <<>>, g.queue = h.queue, g.edits = h.edits, g.sent = m.requestId
  PROVE  Good(g, k, v, a)
<1> USE Plain
<1> DEFINE id == m.requestId
<1>0. /\ h \in Host /\ Shape(h) /\ Queue(h) /\ Ahead(h, k, a)
      /\ ~h.rejected /\ ~g.rejected /\ h.sent = 0 /\ g.revision = h.revision
      /\ Known(h, k, w, a)
  BY DEF Good, Typed4, CallsChange
<1>1. /\ Live(g, id) /\ id \in g.pending
      /\ \A p \in h.pending : p \in g.pending /\ p < id /\ (Live(g, p) <=> Live(h, p))
      /\ \A p \in g.pending : p \in h.pending \/ p = id
  <2>1. ChangeMade(h, g, m)
    BY <1>0, MadeLive
  <2> QED BY <2>1 DEF ChangeMade
<1>2. /\ \A p \in h.pending : p # 0
      /\ \A p \in h.pending : p \in 1..Len(h.calls)
  BY <1>0 DEF Shape
<1>3. /\ \A p \in g.pending : Direct(g, p) => p \in h.pending /\ Direct(h, p)
      /\ \A p \in h.pending : Direct(h, p) => p \in g.pending /\ Direct(g, p) /\ p < id
  <2>1. \A p \in h.pending : p # id
    BY <1>1
  <2> QED BY <1>0, <1>1, <1>2, <2>1 DEF Direct
<1>4. /\ id = Len(h.calls) + 1 /\ g.calls[id] = c /\ \A p \in h.pending : g.calls[p] = h.calls[p]
  BY <1>2 DEF CallsChange, Calls, Adds
<1>5. LastOut(g) = LastOut(h)
  BY DEF LastOut
<1>6. Queue(g)
  <2>1. c.edit = Head(g.queue)
    <3>1. h.queue \in Seq(Nat \ {0}) /\ Len(h.queue) >= 1 /\ Head(h.queue) = h.queue[1]
      BY <1>0, TailDrops DEF Host
    <3>2. h.queue[1] = LastOut(h) + 1
      BY <1>0, <3>1 DEF Queue
    <3> QED BY <3>1, <3>2 DEF CallsChange
  <2>2. \A i \in 1..Len(g.queue) : g.queue[i] = LastOut(g) + i
    BY <1>0, <1>5 DEF Queue
  <2>3. \A p, q \in g.pending : Direct(g, p) /\ Direct(g, q) => p = q
    BY <1>0, <1>3 DEF Queue
  <2>4. \A p \in g.pending : Direct(g, p) => g.calls[p].edit = LastOut(g)
    BY <1>0, <1>3, <1>4, <1>5 DEF Queue
  <2>5. \A p \in g.pending : Direct(g, p) => p < g.sent
    BY <1>3
  <2>6. Len(g.queue) <= g.edits
    BY <1>0 DEF Queue
  <2> QED BY <1>1, <1>4, <2>1, <2>2, <2>3, <2>4, <2>5, <2>6 DEF Queue
<1>7. \A j \in 1..Len(a) : OkChange(g, a[j]) =>
        /\ OkChange(h, a[j]) /\ a[j].requestId \in h.pending /\ a[j].requestId # id
        /\ EditOf(g, a[j]) = EditOf(h, a[j])
  <2> SUFFICES ASSUME NEW j \in 1..Len(a), OkChange(g, a[j])
               PROVE  /\ OkChange(h, a[j]) /\ a[j].requestId \in h.pending /\ a[j].requestId # id
                      /\ EditOf(g, a[j]) = EditOf(h, a[j])
    OBVIOUS
  <2>1. a[j].ok /\ a[j].requestId \in 1..Len(h.calls) /\ a[j].requestId \in g.pending
    BY <1>0 DEF OkChange, Known
  <2>2. a[j].requestId \in h.pending /\ a[j].requestId # id
    BY <1>1, <1>4, <2>1
  <2>3. g.calls[a[j].requestId] = h.calls[a[j].requestId]
    BY <1>4, <2>2
  <2> QED BY <2>1, <2>2, <2>3 DEF OkChange, EditOf
<1>8. \A j \in 1..Len(a) : OkChange(h, a[j]) => OkChange(g, a[j])
  BY <1>1, <1>4 DEF OkChange
<1>9. Ahead(g, k, a)
  <2>1. NoneOk(g, a) => NoneOk(h, a)
    BY <1>8 DEF NoneOk
  <2>2. (\E p \in g.pending : Direct(g, p)) <=> (\E p \in h.pending : Direct(h, p))
    BY <1>3
  <2>3. \A j \in 1..Len(a) : OkChange(g, a[j]) =>
       /\ Live(g, a[j].requestId)
       /\ a[j].revision = k.revision /\ g.revision < k.revision
       /\ k.text = TextAfter(EditOf(g, a[j]))
       /\ a[j].requestId # g.sent
    BY <1>0, <1>1, <1>7 DEF Ahead
  <2>4. NoneOk(g, a) =>
       /\ k.revision = g.revision
       /\ k.text = TextAfter(IF \E p \in g.pending : Direct(g, p)
                             THEN LastOut(g) - 1 ELSE LastOut(g))
    BY <1>0, <1>5, <2>1, <2>2 DEF Ahead
  <2> QED BY <1>0, <2>3, <2>4 DEF Ahead
<1>10. k.up => Way(g, v, a)
  <2> SUFFICES ASSUME k.up PROVE Way(g, v, a)
    OBVIOUS
  <2>1. Way(h, w, a)
    BY <1>0 DEF Good
  <2>2. ASSUME NEW j \in 1..Len(v), IsChange(v[j])
        PROVE  /\ Live(g, v[j].requestId) /\ v[j].baseRevision <= g.revision
               /\ v[j].baseRevision = g.revision
    <3>1. CASE j \in 1..Len(w) /\ v[j] = w[j]
      <4>1. Live(h, w[j].requestId) /\ w[j].requestId \in h.pending
        BY <2>1, <2>2, <3>1 DEF Way, Live
      <4>2. w[j].baseRevision <= h.revision
        BY <2>1, <2>2, <3>1 DEF Way
      <4>3. w[j].requestId # h.sent
        BY <1>0, <1>2, <4>1
      <4>4. w[j].baseRevision = h.revision
        BY <2>1, <2>2, <3>1, <4>3 DEF Way
      <4> QED BY <1>0, <1>1, <3>1, <4>1, <4>2, <4>4
    <3>2. CASE v[j] = m
      BY <1>0, <1>1, <3>2 DEF CallsChange
    <3> QED BY <3>1, <3>2, Plain DEF Adds
  <2>3. ASSUME NEW p \in g.pending, Direct(g, p)
        PROVE  \/ \E j \in 1..Len(a) : OkChange(g, a[j]) /\ a[j].requestId = p
               \/ \E j \in 1..Len(v) : IsChange(v[j]) /\ v[j].requestId = p
    <3>1. p \in h.pending /\ Direct(h, p)
      BY <1>3, <2>3
    <3>2. \A j \in 1..Len(w) : j \in 1..Len(v) /\ v[j] = w[j]
      BY DEF Adds
    <3> QED BY <1>8, <2>1, <3>1, <3>2 DEF Way
  <2> QED BY <2>2, <2>3 DEF Way
<1>11. /\ Shape(g) /\ Known(g, k, v, a) /\ Texts(g, k) /\ Back(g, k, v, a)
       /\ k.up => Order(g, v) /\ Changes(g, k, v) /\ Opens(g, k, v)
  BY PostChange
<1> QED BY <1>6, <1>9, <1>10, <1>11 DEF Good

(* A change that goes past the binding, when none is on its way.           *)
LEMMA PostDirect ==
  ASSUME NEW h, NEW k, NEW w, NEW a, NEW g \in Host, NEW c \in Call, NEW m \in Messages,
         NEW v \in Seq(Messages),
         Typed4(h, k, w, a), Good(h, k, w, a), Adds(w, m, v), CallsChange(h, g, c, m),
         \A p \in h.pending : ~IsChange(h.calls[p]),
         h.queue = <<>>, g.queue = <<>>, g.edits = h.edits + 1, g.sent = 0
  PROVE  Good(g, k, v, a)
<1> USE Plain
<1> DEFINE id == m.requestId
<1>0. /\ h \in Host /\ Shape(h) /\ Queue(h) /\ Ahead(h, k, a)
      /\ ~h.rejected /\ ~g.rejected /\ h.sent = 0 /\ g.revision = h.revision
      /\ Known(h, k, w, a)
  BY DEF Good, Typed4, CallsChange
<1>1. /\ Live(g, id) /\ id \in g.pending
      /\ \A p \in h.pending : p \in g.pending /\ p < id /\ (Live(g, p) <=> Live(h, p))
      /\ \A p \in g.pending : p \in h.pending \/ p = id
  <2>1. ChangeMade(h, g, m)
    BY <1>0, MadeLive
  <2> QED BY <2>1 DEF ChangeMade
<1>2. \A p \in h.pending : ~Live(h, p) /\ ~Direct(h, p)
  BY DEF Live, Direct
<1>3. id # 0 /\ id = Len(h.calls) + 1 /\ g.calls[id] = c
  BY DEF CallsChange, Calls, Adds
<1>4. Direct(g, id) /\ \A p \in g.pending : Direct(g, p) => p = id
  BY <1>1, <1>2, <1>3 DEF Direct
<1>5. LastOut(h) = h.edits /\ LastOut(g) = h.edits + 1
  BY DEF LastOut
<1>6. Queue(g)
  <2>1. g.calls[id].edit = LastOut(g)
    BY <1>3, <1>5 DEF CallsChange
  <2>2. Len(g.queue) = 0 /\ g.edits \in Nat
    BY DEF Host
  <2> QED BY <1>4, <2>1, <2>2 DEF Queue
<1>7. NoneOk(h, a)
  BY DEF NoneOk, OkChange
<1>8. \A j \in 1..Len(a) : ~OkChange(g, a[j])
  <2> SUFFICES ASSUME NEW j \in 1..Len(a), OkChange(g, a[j]) PROVE FALSE
    OBVIOUS
  <2>1. a[j].ok /\ a[j].requestId \in 1..Len(h.calls) /\ a[j].requestId \in g.pending
        /\ IsChange(g.calls[a[j].requestId])
    BY <1>0 DEF OkChange, Known
  <2>2. a[j].requestId # id
    BY <1>3, <2>1
  <2>3. a[j].requestId \in h.pending
    BY <1>1, <2>1, <2>2
  <2>4. g.calls[a[j].requestId] = h.calls[a[j].requestId]
    BY <2>1 DEF CallsChange, Calls, Adds
  <2> QED BY <2>1, <2>3, <2>4
<1>9. Ahead(g, k, a)
  <2>1. k.revision = h.revision /\ k.session # 0 /\ k.text = TextAfter(h.edits)
    BY <1>0, <1>2, <1>5, <1>7 DEF Ahead
  <2>2. LastOut(g) - 1 = h.edits
    BY <1>5
  <2>3. k.text = TextAfter(IF \E p \in g.pending : Direct(g, p) THEN LastOut(g) - 1 ELSE LastOut(g))
    BY <1>1, <1>4, <2>1, <2>2
  <2> QED BY <1>0, <1>8, <2>1, <2>3 DEF Ahead
<1>10. k.up => Way(g, v, a)
  <2> SUFFICES ASSUME k.up PROVE Way(g, v, a)
    OBVIOUS
  <2>1. Way(h, w, a)
    BY <1>0 DEF Good
  <2>2. Len(v) \in 1..Len(v) /\ v[Len(v)] = m /\ IsChange(m)
        /\ m.baseRevision = g.revision /\ m.baseRevision <= g.revision
    BY <1>0 DEF Adds, CallsChange
  <2>3. ASSUME NEW j \in 1..Len(v), IsChange(v[j]) PROVE v[j] = m
    <3>1. CASE j \in 1..Len(w) /\ v[j] = w[j]
      BY <1>2, <2>1, <2>3, <3>1 DEF Way, Live
    <3> QED BY <3>1, Plain DEF Adds
  <2> QED BY <1>1, <1>4, <2>2, <2>3 DEF Way
<1>11. /\ Shape(g) /\ Known(g, k, v, a) /\ Texts(g, k) /\ Back(g, k, v, a)
       /\ k.up => Order(g, v) /\ Changes(g, k, v) /\ Opens(g, k, v)
  BY PostChange
<1> QED BY <1>6, <1>9, <1>10, <1>11 DEF Good

-----------------------------------------------------------------------------
(* The client's calls                                                      *)

(* What a handler leaves, with what it posts under way.                    *)
Handles(g, k, w, b) ==
  /\ g \in Host /\ Waits(g)
  /\ \/ g.outbox = <<>> /\ Good(g, k, w, b)
     \/ \E m \in Messages :
          /\ g.outbox = <<m>>
          /\ \A v \in Seq(Messages) : Adds(w, m, v) => Good(g, k, v, b)

(* The host but for its calls.                                             *)
SameHost(h, g) ==
  /\ g.link = h.link /\ g.disposed = h.disposed /\ g.closed = h.closed /\ g.edits = h.edits
  /\ g.revision = h.revision /\ g.queue = h.queue /\ g.sent = h.sent
  /\ g.rejected = h.rejected /\ g.resync = h.resync

(* A call that is refused is settled at once.                              *)
Refuses(h, g, c, m) ==
  /\ Adds(h.calls, c, g.calls) /\ c.outcome = "rejected" /\ c.type = m.type
  /\ g.pending = h.pending /\ g.outbox = h.outbox /\ SameHost(h, g)
Makes(h, g, c, m) ==
  /\ Calls(h, g, c, m) /\ g.outbox = Append(h.outbox, m) /\ SameHost(h, g)

(* A command refuses at once, or makes exactly one call and one message.   *)
LEMMA CommandMakes ==
  ASSUME NEW h \in Host, NEW m \in Messages, NEW e \in Nat, m.requestId = Len(h.calls) + 1
  PROVE  /\ Command(h, m, e) \in Host
         /\ \E c \in Call :
              /\ c.edit = e
              /\ IF h.disposed \/ h.closed THEN Refuses(h, Command(h, m, e), c, m)
                 ELSE Makes(h, Command(h, m, e), c, m)
<1> DEFINE out == IF h.disposed \/ h.closed THEN "rejected" ELSE "none"
<1>1. PICK c \in Call : c = [type |-> m.type, edit |-> e, outcome |-> out]
  <2>1. m.type \in {"open", "change", "run", "cancel"}
    BY MessageFields
  <2>2. out \in {"none", "resolved", "rejected", "disposed"}
    OBVIOUS
  <2> HIDE DEF out
  <2>3. [type |-> m.type, edit |-> e, outcome |-> out] \in Call
    BY <2>1, <2>2 DEF Call
  <2> QED BY <2>3
<1>2. c.type = m.type /\ c.edit = e /\ c.outcome = out
  BY <1>1
<1>3. h.calls \in Seq(Call) /\ h.pending \in SUBSET Nat /\ h.outbox \in Seq(Messages)
  BY DEF Host
<1>4. PICK calls \in Seq(Call) : calls = Append(h.calls, c) /\ Adds(h.calls, c, calls)
  BY <1>3, AppendAdds
<1>5. CASE h.disposed \/ h.closed
  <2>1. Command(h, m, e) = [h EXCEPT !.calls = calls]
    BY <1>1, <1>3, <1>4, <1>5 DEF Command
  <2>2. Command(h, m, e) \in Host
    BY <2>1 DEF Host
  <2>3. Refuses(h, Command(h, m, e), c, m)
    BY <1>2, <1>4, <1>5, <2>1 DEF Host, Refuses, SameHost
  <2> QED BY <1>2, <1>5, <2>2, <2>3
<1>6. CASE ~(h.disposed \/ h.closed)
  <2>1. PICK pending \in SUBSET Nat : pending = h.pending \cup {m.requestId}
    BY <1>3, MessageFields
  <2>2. PICK outbox \in Seq(Messages) : outbox = Append(h.outbox, m)
    BY <1>3, AppendAdds
  <2>3. Command(h, m, e) = [h EXCEPT !.calls = calls, !.pending = pending, !.outbox = outbox]
    BY <1>1, <1>4, <1>6, <2>1, <2>2 DEF Command
  <2>4. Command(h, m, e) \in Host
    BY <2>3 DEF Host
  <2>5. /\ Command(h, m, e).calls = calls /\ Command(h, m, e).pending = pending
        /\ Command(h, m, e).outbox = outbox /\ SameHost(h, Command(h, m, e))
    BY <2>3 DEF Host, SameHost
  <2>6. Makes(h, Command(h, m, e), c, m)
    BY <1>2, <1>4, <1>6, <2>1, <2>2, <2>5 DEF Makes, Calls, SameHost
  <2> QED BY <1>2, <1>6, <2>4, <2>6
<1> QED BY <1>5, <1>6

(* One message in an empty outbox.                                         *)
LEMMA OnlyOne ==
  ASSUME NEW m
  PROVE  Append(<<>>, m) = <<m>>
  OBVIOUS

(* A refused call leaves what was on its way.                              *)
LEMMA RefusedFollows ==
  ASSUME NEW h \in Host, NEW g \in Host, NEW c \in Call, NEW m, NEW k, Shape(h), Refuses(h, g, c, m)
  PROVE  /\ Follows(h, g) /\ Settles(h, k, g)
         /\ Len(g.calls) = Len(h.calls) + 1 /\ Len(h.calls) \in Nat
         /\ g.calls[Len(h.calls) + 1] = c
         /\ \A i \in 1..Len(h.calls) : g.calls[i] = h.calls[i]
         /\ g.pending \subseteq 1..Len(h.calls)
<1>1. Len(h.calls) \in Nat /\ h.pending \subseteq 1..Len(h.calls) /\ h.edits \in Nat
  BY DEF Host, Shape
<1>2. /\ Len(g.calls) = Len(h.calls) + 1 /\ g.calls[Len(h.calls) + 1] = c
      /\ \A i \in 1..Len(h.calls) : g.calls[i] = h.calls[i]
      /\ g.pending = h.pending /\ g.edits = h.edits /\ c.outcome = "rejected"
  BY DEF Refuses, Adds, SameHost
<1>3. Follows(h, g)
  BY <1>1, <1>2 DEF Follows
<1>4. Settles(h, k, g)
  <2> SUFFICES ASSUME NEW i \in 1..Len(g.calls), g.calls[i].outcome = "resolved"
               PROVE  i <= Len(h.calls) /\ h.calls[i].outcome = "resolved"
    BY DEF Settles
  <2>1. i # Len(h.calls) + 1
    BY <1>2
  <2>2. i \in 1..Len(h.calls)
    BY <1>1, <1>2, <2>1
  <2> QED BY <1>1, <1>2, <2>2
<1> QED BY <1>1, <1>2, <1>3, <1>4

(* The host before a handler.                                              *)
Ready(h, k, w, a) == Typed4(h, k, w, a) /\ Good(h, k, w, a) /\ h.outbox = <<>>

(* A run or a cancel.                                                      *)
LEMMA QuietCommand ==
  ASSUME NEW h, NEW k, NEW w, NEW a, NEW m \in Messages,
         Ready(h, k, w, a), Waits(h), ~IsAsk(m), m.requestId = Len(h.calls) + 1
  PROVE  Handles(Command(h, m, 0), k, w, a)
<1> DEFINE g == Command(h, m, 0)
<1>0. /\ Typed4(h, k, w, a) /\ Good(h, k, w, a) /\ h.outbox = <<>> /\ h \in Host /\ Shape(h)
      /\ w \in Seq(Messages) /\ a \in Seq(Posts) /\ Len(h.calls) \in Nat /\ h.edits \in Nat
      /\ (~h.rejected => Queue(h))
  BY DEF Ready, Typed4, Good, Host
<1>1. g \in Host /\ \E c \in Call :
              /\ c.edit = 0
              /\ IF h.disposed \/ h.closed THEN Refuses(h, g, c, m) ELSE Makes(h, g, c, m)
  BY <1>0, CommandMakes
<1>2. PICK c \in Call :
              /\ c.edit = 0
              /\ IF h.disposed \/ h.closed THEN Refuses(h, g, c, m) ELSE Makes(h, g, c, m)
  BY <1>1
<1>3. SameHost(h, g)
  BY <1>2 DEF Refuses, Makes
<1> HIDE DEF g
<1>4. Drops(a, 0, a)
  BY <1>0, NothingDrops
<1>5. ASSUME Follows(h, g), Settles(h, k, g),
             Len(g.calls) = Len(h.calls) + 1, g.calls[Len(h.calls) + 1] = c, c.type = m.type,
             \A i \in 1..Len(h.calls) : g.calls[i] = h.calls[i],
             g.pending \subseteq 1..Len(g.calls), g.disposed => g.pending = {},
             \A p \in 1..Len(h.calls) : p \in g.pending <=> p \in h.pending
      PROVE  Good(g, k, w, a)
  <2>1. LastOut(g) = LastOut(h) /\ (h.rejected => h.queue = <<>>)
    BY <1>0, <1>3 DEF LastOut, SameHost, Shape
  <2>2. \A i \in 1..Len(g.calls) : i > Len(h.calls) =>
             ~IsAsk(g.calls[i]) /\ g.calls[i].edit <= g.edits
    <3> SUFFICES ASSUME NEW i \in 1..Len(g.calls), i > Len(h.calls)
                 PROVE  ~IsAsk(g.calls[i]) /\ g.calls[i].edit <= g.edits
      OBVIOUS
    <3>1. i = Len(h.calls) + 1
      BY <1>0, <1>5
    <3> QED BY <1>0, <1>2, <1>3, <1>5, <3>1 DEF IsAsk, SameHost
  <2>3. Keeps(h, g)
    BY <1>0, <1>3, <1>5, <2>1, <2>2 DEF Keeps, SameHost, Queue
  <2> QED BY <1>0, <1>1, <1>4, <1>5, <2>3, Steady DEF g
<1>6. Waits(g)
  BY <1>3 DEF Waits, SameHost
<1>7. CASE h.disposed \/ h.closed
  <2>1. Refuses(h, g, c, m)
    BY <1>2, <1>7
  <2>2. /\ Follows(h, g) /\ Settles(h, k, g)
        /\ Len(g.calls) = Len(h.calls) + 1 /\ Len(h.calls) \in Nat
        /\ g.calls[Len(h.calls) + 1] = c
        /\ \A i \in 1..Len(h.calls) : g.calls[i] = h.calls[i]
        /\ g.pending \subseteq 1..Len(h.calls)
    BY <1>0, <1>1, <2>1, RefusedFollows DEF g
  <2>3. g.pending = h.pending /\ g.outbox = <<>> /\ c.type = m.type
    BY <1>0, <2>1 DEF Refuses
  <2>4. g.pending \subseteq 1..Len(g.calls)
    BY <2>2
  <2>5. g.disposed => g.pending = {}
    BY <1>0, <1>3, <2>3 DEF SameHost, Shape
  <2>6. Good(g, k, w, a)
    BY <1>5, <2>2, <2>3, <2>4, <2>5
  <2> QED BY <1>1, <1>6, <2>3, <2>6 DEF Handles, g
<1>8. CASE ~(h.disposed \/ h.closed)
  <2>1. Makes(h, g, c, m)
    BY <1>2, <1>8
  <2>2. Calls(h, g, c, m) /\ h.edits <= g.edits /\ g \in Host
    BY <1>0, <1>1, <1>3, <2>1 DEF Makes, SameHost, g
  <2>3. CallMade(h, g, c, m) /\ Settles(h, k, g)
    BY <1>0, <2>2, Called
  <2>4. /\ Follows(h, g) /\ Len(g.calls) = Len(h.calls) + 1 /\ g.calls[Len(h.calls) + 1] = c
        /\ \A i \in 1..Len(h.calls) : g.calls[i] = h.calls[i]
        /\ g.pending \subseteq 1..Len(g.calls)
        /\ \A p \in 1..Len(h.calls) : p \in g.pending <=> p \in h.pending
    BY <2>3 DEF CallMade
  <2>5. c.type = m.type /\ ~g.disposed
    BY <2>2 DEF Calls
  <2>6. Good(g, k, w, a)
    BY <1>5, <2>3, <2>4, <2>5
  <2>7. g.outbox = <<m>>
    BY <1>0, <2>1, OnlyOne DEF Makes
  <2>8. ASSUME NEW v \in Seq(Messages), Adds(w, m, v) PROVE Good(g, k, v, a)
    <3>1. Typed4(g, k, w, a)
      BY <1>0, <2>2 DEF Typed4
    <3>2. m.requestId \in 1..Len(g.calls) /\ g.calls[m.requestId].type = m.type
      BY <1>0, <2>4, <2>5
    <3> QED BY <2>6, <2>8, <3>1, <3>2, PostQuiet
  <2> QED BY <1>6, <2>2, <2>7, <2>8 DEF Handles, g
<1> QED BY <1>7, <1>8

-----------------------------------------------------------------------------
(* The binding                                                             *)

(* What RejectChain leaves.                                                *)
LEMMA ChainRejected ==
  ASSUME NEW g \in Host
  PROVE  /\ RejectChain(g) \in Host
         /\ RejectChain(g).calls = g.calls /\ RejectChain(g).pending = g.pending
         /\ RejectChain(g).disposed = g.disposed /\ RejectChain(g).edits = g.edits
         /\ RejectChain(g).resync = g.resync /\ RejectChain(g).outbox = g.outbox
         /\ RejectChain(g).link = g.link /\ RejectChain(g).closed = g.closed
         /\ RejectChain(g).revision = g.revision
         /\ RejectChain(g).sent = 0 /\ RejectChain(g).queue = <<>> /\ RejectChain(g).rejected
<1>1. <<>> \in Seq(Nat \ {0}) /\ 0 \in Nat /\ TRUE \in BOOLEAN
  OBVIOUS
<1>2. RejectChain(g) \in Host
  BY <1>1 DEF RejectChain, Host
<1> QED BY <1>2 DEF RejectChain, Host

(* A call that is refused, and the chain with it.                          *)
LEMMA RefusedRejected ==
  ASSUME NEW h, NEW k, NEW w, NEW a, NEW g \in Host, NEW r \in Host, NEW c \in Call, NEW m,
         Typed4(h, k, w, a), Good(h, k, w, a), Refuses(h, g, c, m), c.edit <= h.edits,
         r.calls = g.calls, r.pending = g.pending, r.edits = g.edits, r.disposed = g.disposed,
         r.rejected, r.sent = 0, r.queue = <<>>, r.resync = h.resync
  PROVE  Good(r, k, w, a)
<1>0. h \in Host /\ Shape(h) /\ a \in Seq(Posts)
  BY DEF Typed4, Good
<1>1. /\ Follows(h, g) /\ Settles(h, k, g)
      /\ Len(g.calls) = Len(h.calls) + 1 /\ Len(h.calls) \in Nat
      /\ g.calls[Len(h.calls) + 1] = c
      /\ \A i \in 1..Len(h.calls) : g.calls[i] = h.calls[i]
      /\ g.pending \subseteq 1..Len(h.calls)
  BY <1>0, RefusedFollows
<1>2. Follows(h, r) /\ Settles(h, k, r)
  BY <1>1 DEF Follows, Settles
<1>3. Drops(a, 0, a)
  BY <1>0, NothingDrops
<1>4. g.pending = h.pending /\ g.disposed = h.disposed /\ g.edits = h.edits
  BY DEF Refuses, SameHost
<1>5. \A i \in 1..Len(r.calls) : i > Len(h.calls) => r.calls[i].edit <= r.edits
  <2> SUFFICES ASSUME NEW i \in 1..Len(r.calls), i > Len(h.calls) PROVE r.calls[i].edit <= r.edits
    OBVIOUS
  <2>1. i = Len(h.calls) + 1
    BY <1>1
  <2> QED BY <1>1, <1>4, <2>1
<1>6. Rejects(h, r)
  BY <1>0, <1>1, <1>4, <1>5 DEF Rejects, Shape
<1>7. k.up /\ ~r.disposed /\ r.resync # h.resync => \A j \in 1..Len(w) : ~IsOpen(w[j])
  OBVIOUS
<1> QED BY <1>0, <1>2, <1>3, <1>6, <1>7, Rejected

(* The message of a change.                                                *)
ChangeOf(h, e) ==
  [type |-> "change", requestId |-> NextId(h), baseRevision |-> h.revision,
   baseVersion |-> NoText, before |-> TextAfter(e - 1), after |-> TextAfter(e)]

(* The change the binding asks for, as a message.                          *)
LEMMA ChangeIs ==
  ASSUME NEW h \in Host, NEW e \in Nat \ {0}
  PROVE  /\ ChangeOf(h, e) \in Messages /\ ChangeOf(h, e).requestId = Len(h.calls) + 1
         /\ IsChange(ChangeOf(h, e)) /\ ChangeOf(h, e).baseRevision = h.revision
         /\ ChangeOf(h, e).before = TextAfter(e - 1) /\ ChangeOf(h, e).after = TextAfter(e)
         /\ Change(h, e) = Command(h, ChangeOf(h, e), e)
<1>1. Len(h.calls) + 1 \in Nat /\ h.revision \in Nat
  BY DEF Host
<1>2. TextAfter(e) \in TextSet
  BY TextLength
<1>3. TextAfter(e - 1) \in TextSet
  <2>1. e - 1 \in Nat
    OBVIOUS
  <2> QED BY <2>1, TextLength
<1>4. ChangeOf(h, e) \in ChangeMessages
  BY <1>1, <1>2, <1>3 DEF ChangeOf, ChangeMessages, NextId
<1>5. ChangeOf(h, e) \in Messages
  BY <1>4 DEF Messages
<1>6. Change(h, e) = Command(h, ChangeOf(h, e), e)
  BY DEF Change, ChangeOf
<1> QED BY <1>5, <1>6 DEF ChangeOf, IsChange, NextId

(* What follows of the queue is sent in its turn.                          *)
LEMMA SendsNext ==
  ASSUME NEW h, NEW k, NEW w, NEW a, Ready(h, k, w, a)
  PROVE  Handles(SendNext(h), k, w, a)
<1>0. Typed4(h, k, w, a) /\ Good(h, k, w, a) /\ h.outbox = <<>> /\ h \in Host /\ Shape(h)
      /\ w \in Seq(Messages) /\ Len(h.calls) \in Nat /\ h.edits \in Nat
  BY DEF Ready, Typed4, Good, Host
<1>1. CASE h.rejected \/ h.sent # 0 \/ h.queue = <<>>
  <2>1. SendNext(h) = h /\ Waits(h)
    BY <1>1 DEF SendNext, Waits
  <2> QED BY <1>0, <2>1 DEF Handles
<1>2. CASE ~(h.rejected \/ h.sent # 0 \/ h.queue = <<>>)
  <2>1. /\ Queue(h) /\ h.queue \in Seq(Nat \ {0}) /\ Len(h.queue) >= 1
        /\ Head(h.queue) = h.queue[1] /\ h.queue[1] \in Nat \ {0}
    BY <1>0, <1>2, TailDrops DEF Good, Host
  <2>2. PICK e \in Nat \ {0} : e = Head(h.queue) /\ e = LastOut(h) + 1
    BY <1>2, <2>1 DEF Queue
  <2>3. e <= h.edits /\ LastOut(h) \in Nat /\ e - 1 = LastOut(h)
    <3>1. Len(h.queue) <= h.edits
      BY <1>2, <2>1 DEF Queue
    <3>2. PICK n \in Nat : n = h.edits - Len(h.queue)
      BY <1>0, <2>1, <3>1
    <3>3. LastOut(h) = n
      BY <3>2 DEF LastOut
    <3> QED BY <1>0, <2>1, <2>2, <3>2, <3>3
  <2>4. PICK m \in Messages : m = ChangeOf(h, e)
    BY <1>0, ChangeIs
  <2>5. /\ m.requestId = Len(h.calls) + 1 /\ IsChange(m) /\ m.baseRevision = h.revision
        /\ m.before = TextAfter(e - 1) /\ m.after = TextAfter(e)
        /\ Change(h, e) = Command(h, m, e)
    BY <1>0, <2>4, ChangeIs
  <2>6. PICK g \in Host : g = Command(h, m, e)
    BY <1>0, <2>5, CommandMakes
  <2>7. \E c \in Call :
           /\ c.edit = e
           /\ IF h.disposed \/ h.closed THEN Refuses(h, g, c, m) ELSE Makes(h, g, c, m)
    BY <1>0, <2>5, <2>6, CommandMakes
  <2>8. PICK c \in Call :
           /\ c.edit = e
           /\ IF h.disposed \/ h.closed THEN Refuses(h, g, c, m) ELSE Makes(h, g, c, m)
    BY <2>7
  <2>9. SendNext(h) = IF m.requestId \in g.pending THEN [g EXCEPT !.sent = m.requestId]
                      ELSE RejectChain(g)
    BY <1>2, <2>2, <2>5, <2>6 DEF SendNext, NextId
  <2>10. CASE h.disposed \/ h.closed
    <3>1. Refuses(h, g, c, m)
      BY <2>8, <2>10
    <3>2. m.requestId \notin g.pending
      BY <1>0, <2>5, <3>1 DEF Refuses, Shape
    <3>3. PICK r \in Host : r = RejectChain(g)
      BY ChainRejected
    <3>4. /\ r.calls = g.calls /\ r.pending = g.pending /\ r.edits = g.edits
          /\ r.disposed = g.disposed /\ r.rejected /\ r.sent = 0 /\ r.queue = <<>>
          /\ r.resync = g.resync /\ r.outbox = g.outbox
      BY <3>3, ChainRejected
    <3>5. g.resync = h.resync /\ g.outbox = <<>>
      BY <1>0, <3>1 DEF Refuses, SameHost
    <3>6. Good(r, k, w, a)
      BY <1>0, <2>3, <2>8, <3>1, <3>4, <3>5, RefusedRejected
    <3>7. Waits(r)
      BY <3>4 DEF Waits
    <3> QED BY <2>9, <3>2, <3>3, <3>4, <3>5, <3>6, <3>7 DEF Handles
  <2>11. CASE ~(h.disposed \/ h.closed)
    <3>1. Makes(h, g, c, m)
      BY <2>8, <2>11
    <3>2. Calls(h, g, c, m) /\ SameHost(h, g) /\ g.outbox = <<m>>
      BY <1>0, <3>1, OnlyOne DEF Makes
    <3>3. m.requestId \in g.pending /\ m.requestId \in Nat
      BY <1>0, <2>5, <3>2 DEF Calls
    <3>4. PICK r \in Host : r = [g EXCEPT !.sent = m.requestId]
      BY <3>3 DEF Host
    <3>5. /\ r.calls = g.calls /\ r.pending = g.pending /\ r.edits = g.edits
          /\ r.disposed = g.disposed /\ r.rejected = g.rejected /\ r.sent = m.requestId
          /\ r.queue = g.queue /\ r.resync = g.resync /\ r.outbox = g.outbox
          /\ r.revision = g.revision
      BY <3>4 DEF Host
    <3>6. Calls(h, r, c, m)
      BY <3>2, <3>5 DEF Calls
    <3>7. CallsChange(h, r, c, m)
      BY <1>0, <1>2, <2>2, <2>3, <2>5, <2>8, <3>2, <3>5, <3>6 DEF CallsChange, SameHost
    <3>8. r.queue = h.queue /\ r.edits = h.edits /\ h.queue # <<>>
      BY <1>2, <3>2, <3>5 DEF SameHost
    <3>9. \A v \in Seq(Messages) : Adds(w, m, v) => Good(r, k, v, a)
      BY <1>0, <3>5, <3>7, <3>8, PostSent
    <3>10. Waits(r)
      BY <1>0, <2>5, <3>5 DEF Waits
    <3> QED BY <2>9, <3>2, <3>3, <3>4, <3>5, <3>9, <3>10 DEF Handles
  <2> QED BY <2>10, <2>11
<1> QED BY <1>1, <1>2

(* An edit is typed: it waits in the queue of a binding that is not        *)
(* rejected, and may be sent.                                              *)
LEMMA Updates ==
  ASSUME NEW h, NEW k, NEW w, NEW a, NEW t \in Host,
         Ready(h, k, w, a), t = [h EXCEPT !.edits = @ + 1]
  PROVE  Handles(OnUpdate(t, t.edits), k, w, a)
<1>0. Typed4(h, k, w, a) /\ Good(h, k, w, a) /\ h.outbox = <<>> /\ h \in Host /\ Shape(h)
      /\ w \in Seq(Messages) /\ a \in Seq(Posts) /\ k \in Kernel
      /\ Len(h.calls) \in Nat /\ h.edits \in Nat
  BY DEF Ready, Typed4, Good, Host
<1>1. /\ t.calls = h.calls /\ t.pending = h.pending /\ t.edits = h.edits + 1
      /\ t.disposed = h.disposed /\ t.rejected = h.rejected /\ t.sent = h.sent
      /\ t.queue = h.queue /\ t.resync = h.resync /\ t.outbox = h.outbox
      /\ t.revision = h.revision
  BY <1>0 DEF Host
<1>2. ASSUME NEW g \in Host, g.calls = h.calls, g.pending = h.pending, g.edits = h.edits + 1,
             g.disposed = h.disposed, g.rejected = h.rejected, g.sent = h.sent,
             g.resync = h.resync, g.revision = h.revision,
             g.rejected => g.queue = <<>>,
             ~g.rejected =>
               /\ Len(g.queue) <= g.edits /\ LastOut(g) = LastOut(h)
               /\ \A i \in 1..Len(g.queue) : g.queue[i] = LastOut(g) + i
               /\ h.queue # <<>> => g.queue # <<>> /\ Head(g.queue) = Head(h.queue)
      PROVE  Good(g, k, w, a)
  <2>1. Follows(h, g) /\ Settles(h, k, g)
    BY <1>0, <1>2 DEF Follows, Settles
  <2>2. Keeps(h, g)
    BY <1>0, <1>2 DEF Keeps, Shape
  <2>3. Drops(a, 0, a)
    BY <1>0, NothingDrops
  <2> QED BY <1>0, <1>2, <2>1, <2>2, <2>3, Steady
<1>3. CASE h.rejected
  <2>1. OnUpdate(t, t.edits) = t
    BY <1>1, <1>3 DEF OnUpdate
  <2>2. Good(t, k, w, a)
    BY <1>0, <1>1, <1>2, <1>3 DEF Shape
  <2>3. Waits(t) /\ t.outbox = <<>>
    BY <1>0, <1>1, <1>3 DEF Waits
  <2> QED BY <2>1, <2>2, <2>3 DEF Handles
<1>4. CASE ~h.rejected
  <2>1. h.queue \in Seq(Nat \ {0}) /\ Len(h.queue) \in Nat /\ h.edits + 1 \in Nat \ {0}
    BY <1>0 DEF Host
  <2>2. PICK queue \in Seq(Nat \ {0}) :
          queue = Append(h.queue, h.edits + 1) /\ Adds(h.queue, h.edits + 1, queue)
    BY <2>1, AppendAdds
  <2>3. PICK g \in Host : g = [t EXCEPT !.queue = queue]
    BY DEF Host
  <2>4. OnUpdate(t, t.edits) = SendNext(g)
    BY <1>1, <1>4, <2>2, <2>3 DEF OnUpdate
  <2>5. /\ g.calls = h.calls /\ g.pending = h.pending /\ g.edits = h.edits + 1
        /\ g.disposed = h.disposed /\ g.rejected = h.rejected /\ g.sent = h.sent
        /\ g.queue = queue /\ g.resync = h.resync /\ g.outbox = <<>>
        /\ g.revision = h.revision
    BY <1>0, <1>1, <2>3 DEF Host
  <2>6. /\ Queue(h) /\ Len(queue) = Len(h.queue) + 1 /\ queue[Len(h.queue) + 1] = h.edits + 1
        /\ \A i \in 1..Len(h.queue) : queue[i] = h.queue[i]
    BY <1>0, <1>4, <2>2 DEF Good, Adds
  <2>7. Len(h.queue) <= h.edits
        /\ \A i \in 1..Len(h.queue) : h.queue[i] = (h.edits - Len(h.queue)) + i
    BY <1>4, <2>6 DEF Queue, LastOut
  <2>8. LastOut(g) = h.edits - Len(h.queue) /\ LastOut(h) = h.edits - Len(h.queue)
    <3>1. PICK n \in Nat : n = Len(h.queue)
      BY <2>1
    <3>2. g.edits = h.edits + 1 /\ Len(g.queue) = n + 1
      BY <2>5, <2>6, <3>1
    <3>3. (h.edits + 1) - (n + 1) = h.edits - n
      <4>1. PICK e \in Nat : e = h.edits
        BY <1>0 DEF Host
      <4>2. (e + 1) - (n + 1) = e - n
        BY <3>1
      <4> QED BY <4>1, <4>2
    <3> QED BY <3>1, <3>2, <3>3 DEF LastOut
  <2>9. \A i \in 1..Len(queue) : queue[i] = (h.edits - Len(h.queue)) + i
    <3> SUFFICES ASSUME NEW i \in 1..Len(queue) PROVE queue[i] = (h.edits - Len(h.queue)) + i
      OBVIOUS
    <3>1. CASE i \in 1..Len(h.queue)
      BY <2>6, <2>7, <3>1
    <3>2. CASE i = Len(h.queue) + 1
      BY <1>0, <2>1, <2>6, <3>2
    <3> QED BY <2>1, <2>6, <3>1, <3>2
  <2>10. h.queue # <<>> => queue # <<>> /\ Head(queue) = Head(h.queue)
    <3> SUFFICES ASSUME h.queue # <<>> PROVE queue # <<>> /\ Head(queue) = Head(h.queue)
      OBVIOUS
    <3>1. Len(h.queue) >= 1 /\ Head(h.queue) = h.queue[1]
      BY <2>1, TailDrops
    <3>2. queue # <<>> /\ queue[1] = h.queue[1]
      BY <2>1, <2>2, <2>6, <3>1
    <3>3. Head(queue) = queue[1]
      BY <2>2, <3>2, TailDrops
    <3> QED BY <3>1, <3>2, <3>3
  <2>11. Good(g, k, w, a)
    <3>1. /\ Len(g.queue) <= g.edits /\ LastOut(g) = LastOut(h)
          /\ \A i \in 1..Len(g.queue) : g.queue[i] = LastOut(g) + i
      <4>1. Len(g.queue) <= g.edits
        BY <1>0, <2>1, <2>5, <2>6, <2>7
      <4>2. LastOut(g) = LastOut(h)
        BY <2>8
      <4>3. \A i \in 1..Len(g.queue) : g.queue[i] = LastOut(g) + i
        BY <2>5, <2>8, <2>9
      <4> QED BY <4>1, <4>2, <4>3
    <3>2. h.queue # <<>> => g.queue # <<>> /\ Head(g.queue) = Head(h.queue)
      BY <2>5, <2>10
    <3>3. ~g.rejected
      BY <1>4, <2>5
    <3> QED BY <1>2, <2>5, <3>1, <3>2, <3>3
  <2>12. Ready(g, k, w, a)
    BY <1>0, <2>5, <2>11 DEF Ready, Typed4
  <2> QED BY <2>4, <2>12, SendsNext
<1> QED BY <1>3, <1>4

(* An edit goes past the binding.                                          *)
LEMMA Monaco ==
  ASSUME NEW h, NEW k, NEW w, NEW a, NEW t \in Host,
         Ready(h, k, w, a), Waits(h), t = [h EXCEPT !.edits = @ + 1],
         ~h.rejected, ~h.closed, \A i \in h.pending : h.calls[i].type # "change"
  PROVE  Handles(Change(t, t.edits), k, w, a)
<1>0. Typed4(h, k, w, a) /\ Good(h, k, w, a) /\ h.outbox = <<>> /\ h \in Host /\ Shape(h)
      /\ w \in Seq(Messages) /\ a \in Seq(Posts) /\ Queue(h)
      /\ Len(h.calls) \in Nat /\ h.edits \in Nat
  BY DEF Ready, Typed4, Good, Host
<1>1. /\ t.calls = h.calls /\ t.pending = h.pending /\ t.edits = h.edits + 1
      /\ t.disposed = h.disposed /\ t.closed = h.closed /\ t.rejected = h.rejected
      /\ t.sent = h.sent /\ t.queue = h.queue /\ t.resync = h.resync /\ t.outbox = h.outbox
      /\ t.revision = h.revision
  BY <1>0 DEF Host
<1>2. ~h.disposed
  BY <1>0 DEF Shape
<1>3. h.sent = 0 /\ h.queue = <<>>
  <2>1. h.sent = 0
    BY <1>0 DEF Queue, Live, IsChange
  <2> QED BY <2>1 DEF Waits
<1>4. PICK e \in Nat \ {0} : e = t.edits /\ e - 1 = h.edits
  BY <1>0, <1>1
<1>5. PICK m \in Messages : m = ChangeOf(t, e)
  BY ChangeIs
<1>6. /\ m.requestId = Len(h.calls) + 1 /\ IsChange(m) /\ m.baseRevision = h.revision
      /\ m.before = TextAfter(h.edits) /\ m.after = TextAfter(h.edits + 1)
      /\ Change(t, e) = Command(t, m, e)
  <2>1. /\ m.requestId = Len(t.calls) + 1 /\ IsChange(m) /\ m.baseRevision = t.revision
        /\ m.before = TextAfter(e - 1) /\ m.after = TextAfter(e)
        /\ Change(t, e) = Command(t, m, e)
    BY <1>5, ChangeIs
  <2>2. e - 1 = h.edits /\ e = h.edits + 1
    BY <1>1, <1>4
  <2> QED BY <1>1, <2>1, <2>2
<1>7. PICK g \in Host : g = Command(t, m, e)
  BY <1>1, <1>6, CommandMakes
<1>8. \E c \in Call :
         /\ c.edit = e
         /\ IF t.disposed \/ t.closed THEN Refuses(t, g, c, m) ELSE Makes(t, g, c, m)
  BY <1>1, <1>6, <1>7, CommandMakes
<1>9. PICK c \in Call : c.edit = e /\ Makes(t, g, c, m)
  BY <1>1, <1>2, <1>8
<1>10. /\ Calls(h, g, c, m) /\ SameHost(t, g) /\ g.outbox = <<m>>
  BY <1>0, <1>1, <1>9, OnlyOne DEF Makes, Calls
<1>11. LastOut(h) = h.edits
  BY <1>0, <1>3 DEF LastOut
<1>12. CallsChange(h, g, c, m)
  BY <1>0, <1>1, <1>3, <1>4, <1>6, <1>9, <1>10, <1>11 DEF CallsChange, SameHost
<1>13. g.queue = <<>> /\ g.edits = h.edits + 1 /\ g.sent = 0
  BY <1>1, <1>3, <1>10 DEF SameHost
<1>14. \A p \in h.pending : ~IsChange(h.calls[p])
  BY DEF IsChange
<1>15. \A v \in Seq(Messages) : Adds(w, m, v) => Good(g, k, v, a)
  BY <1>0, <1>3, <1>12, <1>13, <1>14, PostDirect
<1>16. Waits(g)
  BY <1>13 DEF Waits
<1> QED BY <1>4, <1>6, <1>7, <1>10, <1>15, <1>16 DEF Handles

(* The host opens what its editor shows, or is refused.                    *)
LEMMA Resyncs ==
  ASSUME NEW h, NEW k, NEW w, NEW a,
         Ready(h, k, w, a), h.rejected, h.resync = 0
  PROVE  Handles(Resynchronize(h), k, w, a)
<1>0. Typed4(h, k, w, a) /\ Good(h, k, w, a) /\ h.outbox = <<>> /\ h \in Host /\ Shape(h)
      /\ w \in Seq(Messages) /\ a \in Seq(Posts)
      /\ Len(h.calls) \in Nat /\ h.edits \in Nat
  BY DEF Ready, Typed4, Good, Host
<1>1. PICK m \in Messages :
        m = [type |-> "open", requestId |-> NextId(h), replaceSession |-> FALSE,
             text |-> TextAfter(h.edits)]
  <2>1. TextAfter(h.edits) \in TextSet /\ NextId(h) \in Nat
    BY <1>0, TextLength DEF NextId
  <2>2. [type |-> "open", requestId |-> NextId(h), replaceSession |-> FALSE,
         text |-> TextAfter(h.edits)] \in OpenMessages
    BY <2>1 DEF OpenMessages
  <2> QED BY <2>2 DEF Messages
<1>2. /\ m.requestId = Len(h.calls) + 1 /\ IsOpen(m) /\ m.text = TextAfter(h.edits)
      /\ Open(h, h.edits) = Command(h, m, h.edits)
  BY <1>1 DEF Open, NextId, IsOpen
<1>3. PICK g \in Host : g = Command(h, m, h.edits)
  BY <1>0, <1>2, CommandMakes
<1>4. \E c \in Call :
         /\ c.edit = h.edits
         /\ IF h.disposed \/ h.closed THEN Refuses(h, g, c, m) ELSE Makes(h, g, c, m)
  BY <1>0, <1>2, <1>3, CommandMakes
<1>5. PICK c \in Call :
         /\ c.edit = h.edits
         /\ IF h.disposed \/ h.closed THEN Refuses(h, g, c, m) ELSE Makes(h, g, c, m)
  BY <1>4
<1>6. PICK x \in Host : x = RejectChain(g)
  BY ChainRejected
<1>7. /\ x.calls = g.calls /\ x.pending = g.pending /\ x.edits = g.edits
      /\ x.disposed = g.disposed /\ x.rejected /\ x.sent = 0 /\ x.queue = <<>>
      /\ x.outbox = g.outbox
  BY <1>6, ChainRejected
<1>8. PICK id \in Nat : id = IF m.requestId \in g.pending THEN m.requestId ELSE 0
  BY <1>0, <1>2
<1>9. PICK r \in Host : r = [x EXCEPT !.resync = id]
  BY <1>8 DEF Host
<1>10. Resynchronize(h) = r
  BY <1>2, <1>3, <1>6, <1>8, <1>9 DEF Resynchronize, NextId
<1>11. /\ r.calls = g.calls /\ r.pending = g.pending /\ r.edits = g.edits
       /\ r.disposed = g.disposed /\ r.rejected /\ r.sent = 0 /\ r.queue = <<>>
       /\ r.outbox = g.outbox /\ r.resync = id
  BY <1>7, <1>9 DEF Host
<1>12. Waits(r)
  BY <1>11 DEF Waits
<1>13. CASE h.disposed \/ h.closed
  <2>1. Refuses(h, g, c, m)
    BY <1>5, <1>13
  <2>2. m.requestId \notin g.pending
    BY <1>0, <1>2, <2>1 DEF Refuses, Shape
  <2>3. r.resync = h.resync /\ r.outbox = <<>>
    BY <1>0, <1>8, <1>11, <2>1, <2>2 DEF Refuses
  <2>4. Good(r, k, w, a)
    BY <1>0, <1>5, <1>11, <2>1, <2>3, RefusedRejected
  <2> QED BY <1>10, <1>12, <2>3, <2>4 DEF Handles
<1>14. CASE ~(h.disposed \/ h.closed)
  <2>1. Makes(h, g, c, m)
    BY <1>5, <1>14
  <2>2. Calls(h, g, c, m) /\ SameHost(h, g) /\ g.outbox = <<m>>
    BY <1>0, <2>1, OnlyOne DEF Makes
  <2>3. r.resync = m.requestId
    BY <1>8, <1>11, <2>2 DEF Calls
  <2>4. Calls(h, r, c, m) /\ r.edits = h.edits
    BY <1>11, <2>2 DEF Calls, SameHost
  <2>5. \A v \in Seq(Messages) : Adds(w, m, v) => Good(r, k, v, a)
    BY <1>0, <1>2, <1>5, <1>11, <2>3, <2>4, PostOpen
  <2> QED BY <1>10, <1>11, <1>12, <2>2, <2>5 DEF Handles
<1> QED BY <1>13, <1>14

-----------------------------------------------------------------------------
(* What the host hears                                                     *)

(* A run is asked for.                                                     *)
LEMMA RunsAsked ==
  ASSUME NEW h, NEW k, NEW w, NEW a, Ready(h, k, w, a), Waits(h)
  PROVE  Handles(Run(h), k, w, a)
<1>1. h \in Host /\ h.revision \in Nat /\ NextId(h) \in Nat
  BY DEF Ready, Typed4, Host, NextId
<1>2. PICK m \in RunMessages :
        m = [type |-> "run", requestId |-> NextId(h), runId |-> NextId(h), revision |-> h.revision]
  BY <1>1 DEF RunMessages
<1>3. m \in Messages /\ m.requestId = Len(h.calls) + 1 /\ ~IsAsk(m)
  BY <1>2 DEF Messages, IsAsk, NextId
<1>4. Run(h) = Command(h, m, 0)
  BY <1>2 DEF Run
<1> QED BY <1>3, <1>4, QuietCommand

(* A run is cancelled.                                                     *)
LEMMA CancelAsked ==
  ASSUME NEW h, NEW k, NEW w, NEW a, NEW runId \in Nat, Ready(h, k, w, a), Waits(h)
  PROVE  Handles(Cancel(h, runId), k, w, a)
<1>1. h \in Host /\ NextId(h) \in Nat
  BY DEF Ready, Typed4, Host, NextId
<1>2. PICK m \in CancelMessages :
        m = [type |-> "cancel", requestId |-> NextId(h), runId |-> runId]
  BY <1>1 DEF CancelMessages
<1>3. m \in Messages /\ m.requestId = Len(h.calls) + 1 /\ ~IsAsk(m)
  BY <1>2 DEF Messages, IsAsk, NextId
<1>4. Cancel(h, runId) = Command(h, m, 0)
  BY <1>2 DEF Cancel
<1> QED BY <1>3, <1>4, QuietCommand

(* The host once one of its calls is settled.                              *)
SettleOne(h, id, o) == [h EXCEPT !.pending = @ \ {id}, !.calls[id].outcome = o]

(* Settling one call gives a typed host in which that call alone changed.  *)
LEMMA SettledIs ==
  ASSUME NEW h, NEW k, NEW w, NEW a, NEW id \in h.pending, NEW o \in {"resolved", "rejected"},
         Typed4(h, k, w, a), Good(h, k, w, a), ~h.disposed,
         o = "resolved" /\ IsChange(h.calls[id]) =>
           k.session # 0 /\ Len(k.text) >= h.calls[id].edit
  PROVE  LET s == SettleOne(h, id, o)
         IN  /\ s \in Host /\ Settled(h, id, s) /\ Settles(h, k, s)
             /\ SameHost(h, s) /\ s.outbox = h.outbox
             /\ s.calls[id].type = h.calls[id].type
<1>0. h \in Host /\ Shape(h) /\ id \in 1..Len(h.calls) /\ Len(h.calls) \in Nat
      /\ h.calls \in Seq(Call) /\ h.pending \in SUBSET Nat
  BY DEF Typed4, Good, Shape, Host
<1>1. h.calls[id] \in Call
  BY <1>0
<1>2. PICK c \in Call : c = [h.calls[id] EXCEPT !.outcome = o]
  BY <1>1 DEF Call
<1>3. c.type = h.calls[id].type /\ c.edit = h.calls[id].edit /\ c.outcome = o
  BY <1>1, <1>2 DEF Call
<1>4. PICK calls \in Seq(Call) :
        /\ calls = [h.calls EXCEPT ![id] = c] /\ Len(calls) = Len(h.calls)
        /\ calls[id] = c /\ \A i \in 1..Len(h.calls) : i # id => calls[i] = h.calls[i]
  <2>1. h.calls \in [1..Len(h.calls) -> Call]
    BY <1>0
  <2>2. PICK f \in [1..Len(h.calls) -> Call] : f = [h.calls EXCEPT ![id] = c]
    BY <1>0, <2>1
  <2>3. f[id] = c /\ \A i \in 1..Len(h.calls) : i # id => f[i] = h.calls[i]
    BY <1>0, <2>1, <2>2
  <2>4. f \in Seq(Call) /\ Len(f) = Len(h.calls)
    BY <1>0, <2>2
  <2> QED BY <2>2, <2>3, <2>4
<1>5. /\ Len(calls) = Len(h.calls) /\ calls[id] = c
      /\ \A i \in 1..Len(h.calls) : i # id => calls[i] = h.calls[i]
  BY <1>4
<1>6. PICK pending \in SUBSET Nat : pending = h.pending \ {id}
  BY <1>0
<1>7. PICK s \in Host : s = [h EXCEPT !.pending = pending, !.calls = calls]
  BY <1>0 DEF Host
<1>8. SettleOne(h, id, o) = s
  BY <1>2, <1>4, <1>6, <1>7 DEF SettleOne
<1>9. s.pending = pending /\ s.calls = calls /\ s.outbox = h.outbox /\ SameHost(h, s)
  BY <1>0, <1>7 DEF Host, SameHost
<1>10. Follows(h, s)
  <2>1. \A i \in 1..Len(h.calls) :
          s.calls[i].type = h.calls[i].type /\ s.calls[i].edit = h.calls[i].edit
    BY <1>3, <1>5, <1>9
  <2>2. h.edits \in Nat /\ s.edits = h.edits
    BY <1>0, <1>9 DEF Host, SameHost
  <2> QED BY <1>0, <1>5, <1>6, <1>9, <2>1, <2>2 DEF Follows
<1>11. Settled(h, id, s)
  BY <1>5, <1>6, <1>9, <1>10 DEF Settled, SameHost
<1>12. Settles(h, k, s)
  <2> SUFFICES ASSUME NEW i \in 1..Len(s.calls), IsChange(s.calls[i]),
                      s.calls[i].outcome = "resolved"
               PROVE  \/ i <= Len(h.calls) /\ h.calls[i].outcome = "resolved"
                      \/ k.session # 0 /\ Len(k.text) >= s.calls[i].edit
    BY DEF Settles
  <2>1. i \in 1..Len(h.calls) /\ i <= Len(h.calls)
    BY <1>0, <1>5, <1>9
  <2>2. CASE i = id
    BY <1>3, <1>5, <1>9, <2>2 DEF IsChange
  <2>3. CASE i # id
    BY <1>5, <1>9, <2>1, <2>3
  <2> QED BY <2>2, <2>3
<1> QED BY <1>3, <1>5, <1>8, <1>9, <1>11, <1>12

(* The client is disposed of.                                              *)
LEMMA DisposeIs ==
  ASSUME NEW h \in Host, NEW k
  PROVE  /\ Dispose(h) \in Host /\ Follows(h, Dispose(h)) /\ Settles(h, k, Dispose(h))
         /\ Dispose(h).pending = {} /\ Dispose(h).disposed
         /\ Len(Dispose(h).calls) = Len(h.calls) /\ Dispose(h).edits = h.edits
         /\ Dispose(h).resync = h.resync /\ Dispose(h).outbox = h.outbox
<1>0. h.calls \in Seq(Call) /\ Len(h.calls) \in Nat /\ DOMAIN h.calls = 1..Len(h.calls)
      /\ h.edits \in Nat
  BY DEF Host
<1> DEFINE calls == [i \in DOMAIN h.calls |->
                       IF i \in h.pending THEN [h.calls[i] EXCEPT !.outcome = "disposed"]
                       ELSE h.calls[i]]
<1>1. \A i \in 1..Len(h.calls) :
        /\ calls[i] \in Call
        /\ calls[i].type = h.calls[i].type /\ calls[i].edit = h.calls[i].edit
        /\ calls[i].outcome = "resolved" => h.calls[i].outcome = "resolved"
  <2> SUFFICES ASSUME NEW i \in 1..Len(h.calls)
               PROVE  /\ calls[i] \in Call
                      /\ calls[i].type = h.calls[i].type /\ calls[i].edit = h.calls[i].edit
                      /\ calls[i].outcome = "resolved" => h.calls[i].outcome = "resolved"
    OBVIOUS
  <2>1. h.calls[i] \in Call
    BY <1>0
  <2>2. PICK c \in Call : c = [h.calls[i] EXCEPT !.outcome = "disposed"]
    BY <2>1 DEF Call
  <2>3. c.type = h.calls[i].type /\ c.edit = h.calls[i].edit /\ c.outcome = "disposed"
    BY <2>1, <2>2 DEF Call
  <2>4. calls[i] = IF i \in h.pending THEN c ELSE h.calls[i]
    BY <1>0, <2>2
  <2> HIDE DEF calls
  <2> QED BY <2>1, <2>3, <2>4
<1>2. DOMAIN calls = 1..Len(h.calls) /\ calls = [i \in 1..Len(h.calls) |-> calls[i]]
  BY <1>0
<1>3. Dispose(h) = [h EXCEPT !.disposed = TRUE, !.pending = {}, !.calls = calls]
  BY DEF Dispose
<1> HIDE DEF calls
<1>4. calls \in [1..Len(h.calls) -> Call]
  BY <1>1, <1>2
<1>5. calls \in Seq(Call) /\ Len(calls) = Len(h.calls)
  BY <1>0, <1>4
<1>6. PICK g \in Host : g = [h EXCEPT !.disposed = TRUE, !.pending = {}, !.calls = calls]
  BY <1>5 DEF Host
<1>7. /\ g.pending = {} /\ g.disposed /\ g.calls = calls /\ g.edits = h.edits
      /\ g.resync = h.resync /\ g.outbox = h.outbox
  BY <1>6 DEF Host
<1>8. Follows(h, g)
  BY <1>0, <1>1, <1>5, <1>7 DEF Follows
<1>9. Settles(h, k, g)
  <2> SUFFICES ASSUME NEW i \in 1..Len(g.calls), g.calls[i].outcome = "resolved"
               PROVE  i <= Len(h.calls) /\ h.calls[i].outcome = "resolved"
    BY DEF Settles
  <2> QED BY <1>0, <1>1, <1>5, <1>7
<1> QED BY <1>3, <1>5, <1>6, <1>7, <1>8, <1>9

(* A host that disposes of its client, with no message or one read.        *)
LEMMA Disposes ==
  ASSUME NEW h, NEW k, NEW w, NEW a, NEW b \in Seq(Posts), NEW d,
         Ready(h, k, w, a), Drops(a, d, b)
  PROVE  Handles(RejectChain(Dispose(h)), k, w, b)
<1>0. Typed4(h, k, w, a) /\ Good(h, k, w, a) /\ h.outbox = <<>> /\ h \in Host /\ Shape(h)
      /\ h.edits \in Nat /\ Len(h.calls) \in Nat
  BY DEF Ready, Typed4, Good, Host
<1>1. PICK x \in Host : x = Dispose(h)
  BY <1>0, DisposeIs
<1>2. /\ Follows(h, x) /\ Settles(h, k, x) /\ x.pending = {} /\ x.disposed
      /\ Len(x.calls) = Len(h.calls) /\ x.edits = h.edits /\ x.resync = h.resync
      /\ x.outbox = h.outbox
  BY <1>0, <1>1, DisposeIs
<1>3. PICK g \in Host : g = RejectChain(x)
  BY ChainRejected
<1>4. /\ g.calls = x.calls /\ g.pending = x.pending /\ g.disposed = x.disposed
      /\ g.edits = x.edits /\ g.resync = x.resync /\ g.outbox = x.outbox
      /\ g.sent = 0 /\ g.queue = <<>> /\ g.rejected
  BY <1>3, ChainRejected
<1>5. Follows(h, g) /\ Settles(h, k, g)
  BY <1>2, <1>4 DEF Follows, Settles
<1>6. Rejects(h, g)
  BY <1>0, <1>2, <1>4 DEF Rejects
<1>7. k.up /\ ~g.disposed /\ g.resync # h.resync => \A j \in 1..Len(w) : ~IsOpen(w[j])
  BY <1>2, <1>4
<1>8. Good(g, k, w, b)
  BY <1>0, <1>5, <1>6, <1>7, Rejected
<1>9. Waits(g) /\ g.outbox = <<>>
  BY <1>0, <1>2, <1>4 DEF Waits
<1> QED BY <1>1, <1>3, <1>8, <1>9 DEF Handles

(* What a handler may count on.                                            *)
LEMMA ReadyIs ==
  ASSUME NEW h, NEW k, NEW w, NEW a, Ready(h, k, w, a)
  PROVE  /\ Typed4(h, k, w, a) /\ Good(h, k, w, a) /\ h.outbox = <<>>
         /\ h \in Host /\ k \in Kernel /\ w \in Seq(Messages) /\ a \in Seq(Posts)
         /\ Shape(h) /\ Queue(h) /\ Back(h, k, w, a)
         /\ Len(h.calls) \in Nat /\ h.edits \in Nat /\ h.pending \subseteq 1..Len(h.calls)
<1>1. Typed4(h, k, w, a) /\ Good(h, k, w, a) /\ h.outbox = <<>>
  BY DEF Ready
<1>2. h \in Host /\ k \in Kernel /\ w \in Seq(Messages) /\ a \in Seq(Posts)
  BY <1>1 DEF Typed4
<1>3. Shape(h) /\ Queue(h) /\ Back(h, k, w, a)
  BY <1>1 DEF Good
<1>4. Len(h.calls) \in Nat /\ h.edits \in Nat
  BY <1>2 DEF Host
<1>5. h.pending \subseteq 1..Len(h.calls)
  BY <1>3 DEF Shape
<1> QED BY <1>1, <1>2, <1>3, <1>4, <1>5

(* The message it reads.                                                   *)
LEMMA HeadPost ==
  ASSUME NEW a \in Seq(Posts), Len(a) >= 1
  PROVE  /\ 1 \in 1..Len(a) /\ a[1] \in Posts
         /\ a[1].revision \in Nat /\ a[1].requestId \in Nat /\ a[1].ok \in BOOLEAN
<1>1. 1 \in 1..Len(a) /\ a[1] \in Posts
  OBVIOUS
<1> QED BY <1>1 DEF Posts

(* A settled call, of a host that goes on rejected.                        *)
LEMMA SettledRejected ==
  ASSUME NEW h, NEW k, NEW w, NEW a, NEW b \in Seq(Posts), NEW id, NEW g \in Host,
         Typed4(h, k, w, a), Good(h, k, w, a), Drops(a, 1, b), Settled(h, id, g), Settles(h, k, g),
         g.rejected, g.sent = 0, g.queue = <<>>,
         g.resync = IF id = h.resync THEN 0 ELSE h.resync,
         id = h.resync /\ k.up => \A j \in 1..Len(w) : ~IsOpen(w[j])
  PROVE  Good(g, k, w, b)
<1>0. Shape(h) /\ Len(h.calls) \in Nat /\ Len(g.calls) = Len(h.calls) /\ Follows(h, g)
      /\ g.pending = h.pending \ {id} /\ ~h.disposed /\ ~g.disposed
      /\ h.pending \subseteq 1..Len(h.calls)
  <2>1. Shape(h) /\ h \in Host
    BY DEF Typed4, Good
  <2>2. /\ Len(g.calls) = Len(h.calls) /\ Follows(h, g) /\ g.pending = h.pending \ {id}
        /\ ~h.disposed /\ ~g.disposed
    BY DEF Settled
  <2>3. Len(h.calls) \in Nat
    BY <2>1 DEF Host
  <2> QED BY <2>1, <2>2, <2>3 DEF Shape
<1>1. h.resync # 0 /\ h.resync \in g.pending => g.resync = h.resync
  BY <1>0
<1>2. g.resync # 0 => g.resync \in g.pending
  BY <1>0 DEF Shape
<1>3. Rejects(h, g)
  BY <1>0, <1>1, <1>2 DEF Rejects
<1>4. k.up /\ ~g.disposed /\ g.resync # h.resync => \A j \in 1..Len(w) : ~IsOpen(w[j])
  OBVIOUS
<1> QED BY <1>0, <1>3, <1>4, Rejected

(* The chain is rejected by the answer to one of its calls, or while it    *)
(* follows one.                                                            *)
LEMMA ChainStops ==
  ASSUME NEW h, NEW k, NEW w, NEW a, NEW b \in Seq(Posts), NEW id, NEW s \in Host,
         Ready(h, k, w, a), Drops(a, 1, b), Settled(h, id, s), Settles(h, k, s),
         SameHost(h, s), s.outbox = h.outbox, id # h.resync
  PROVE  Handles(RejectChain(s), k, w, b)
<1>0. Typed4(h, k, w, a) /\ Good(h, k, w, a) /\ h.outbox = <<>>
  BY DEF Ready
<1>1. PICK g \in Host : g = RejectChain(s)
  BY ChainRejected
<1>2. /\ g.calls = s.calls /\ g.pending = s.pending /\ g.disposed = s.disposed
      /\ g.edits = s.edits /\ g.resync = s.resync /\ g.outbox = s.outbox
      /\ g.sent = 0 /\ g.queue = <<>> /\ g.rejected
  BY <1>1, ChainRejected
<1>3. Settled(h, id, g) /\ Settles(h, k, g)
  BY <1>2 DEF Settled, Settles, Follows
<1>4. g.resync = h.resync /\ g.outbox = <<>> /\ Waits(g)
  BY <1>0, <1>2 DEF SameHost, Waits
<1>5. Good(g, k, w, b)
  BY <1>0, <1>2, <1>3, <1>4, SettledRejected
<1> QED BY <1>1, <1>4, <1>5 DEF Handles

(* The answer to the open.                                                 *)
LEMMA OpenSettled ==
  ASSUME NEW h, NEW k, NEW w, NEW a, NEW b \in Seq(Posts), NEW s \in Host,
         Ready(h, k, w, a), Drops(a, 1, b), Len(a) >= 1, Settles(h, k, s),
         Settled(h, a[1].requestId, s), SameHost(h, s), s.outbox = h.outbox,
         a[1].requestId = h.resync
  PROVE  Handles(IF a[1].ok THEN Opened(s, a[1]) ELSE [s EXCEPT !.resync = 0], k, w, b)
<1> DEFINE m == a[1]
<1>0. /\ Typed4(h, k, w, a) /\ Good(h, k, w, a) /\ h.outbox = <<>> /\ h \in Host /\ k \in Kernel
      /\ w \in Seq(Messages) /\ 1 \in 1..Len(a) /\ m \in Posts /\ m.revision \in Nat
      /\ Shape(h) /\ Back(h, k, w, a)
  BY ReadyIs, HeadPost
<1>1. /\ h.resync # 0 /\ h.resync \in h.pending /\ IsOpen(h.calls[h.resync])
      /\ h.rejected /\ h.sent = 0 /\ h.queue = <<>>
  BY <1>0 DEF Settled, Shape
<1>2. /\ s.rejected /\ s.sent = 0 /\ s.queue = <<>> /\ s.edits = h.edits /\ s.outbox = <<>>
      /\ ~s.disposed
  BY <1>0, <1>1 DEF SameHost, Settled
<1>3. CASE ~m.ok
  <2>1. PICK g \in Host : g = [s EXCEPT !.resync = 0]
    BY DEF Host
  <2>2. /\ g.calls = s.calls /\ g.pending = s.pending /\ g.disposed = s.disposed
        /\ g.edits = s.edits /\ g.resync = 0 /\ g.outbox = <<>>
        /\ g.sent = 0 /\ g.queue = <<>> /\ g.rejected
    BY <1>2, <2>1 DEF Host
  <2>3. Settled(h, m.requestId, g) /\ Settles(h, k, g)
    BY <2>2 DEF Settled, Settles, Follows
  <2>4. ~k.up
    BY <1>0, <1>1, <1>3 DEF Back
  <2>5. Good(g, k, w, b)
    BY <1>0, <2>2, <2>3, <2>4, SettledRejected
  <2>6. Waits(g)
    BY <2>2 DEF Waits
  <2> QED BY <1>3, <2>1, <2>2, <2>5, <2>6 DEF Handles
<1>4. CASE m.ok
  <2>0. k.up => \A j \in 1..Len(w) : ~IsOpen(w[j])
    <3>1. OkOpen(h, m)
      BY <1>1, <1>4 DEF OkOpen
    <3> QED BY <1>0, <3>1 DEF Back, IsAsk, IsOpen
  <2>1. PICK x \in Host : x = [s EXCEPT !.resync = 0, !.revision = m.revision]
    BY <1>0 DEF Host
  <2>2. /\ x.calls = s.calls /\ x.pending = s.pending /\ x.disposed = s.disposed
        /\ x.edits = s.edits /\ x.resync = 0 /\ x.outbox = <<>> /\ x.revision = m.revision
        /\ x.sent = 0 /\ x.queue = <<>> /\ x.rejected
    BY <1>2, <2>1 DEF Host
  <2>3. CASE m.text = TextAfter(s.edits)
    <3>1. PICK g \in Host : g = [x EXCEPT !.rejected = FALSE]
      BY DEF Host
    <3>2. /\ g.calls = s.calls /\ g.pending = s.pending /\ g.disposed = s.disposed
          /\ g.edits = s.edits /\ g.resync = 0 /\ g.outbox = <<>> /\ g.revision = m.revision
          /\ g.sent = 0 /\ g.queue = <<>> /\ ~g.rejected
      BY <2>2, <3>1 DEF Host
    <3>3. Settled(h, m.requestId, g) /\ Settles(h, k, g)
      BY <3>2 DEF Settled, Settles, Follows
    <3>4. m.text = TextAfter(h.edits)
      BY <1>2, <2>3
    <3>5. Good(g, k, w, b)
      BY <1>0, <1>4, <3>2, <3>3, <3>4, Bound
    <3>6. Waits(g)
      BY <3>2 DEF Waits
    <3>7. Opened(s, m) = g
      BY <2>1, <2>3, <3>1 DEF Opened
    <3> QED BY <1>4, <3>2, <3>5, <3>6, <3>7 DEF Handles
  <2>4. CASE m.text # TextAfter(s.edits)
    <3>1. Settled(h, m.requestId, x) /\ Settles(h, k, x)
      BY <2>2 DEF Settled, Settles, Follows
    <3>2. Good(x, k, w, b)
      BY <1>0, <2>0, <2>2, <3>1, SettledRejected
    <3>3. Ready(x, k, w, b)
      BY <1>0, <2>2, <3>2 DEF Ready, Typed4
    <3>4. Handles(Resynchronize(x), k, w, b)
      BY <2>2, <3>3, Resyncs
    <3>5. Opened(s, m) = Resynchronize(x)
      BY <2>1, <2>4 DEF Opened
    <3> QED BY <1>4, <3>4, <3>5
  <2> QED BY <2>3, <2>4
<1> QED BY <1>3, <1>4

(* The answer to the change the binding sent.                              *)
LEMMA SentSettled ==
  ASSUME NEW h, NEW k, NEW w, NEW a, NEW b \in Seq(Posts), NEW s \in Host, NEW throws \in BOOLEAN,
         Ready(h, k, w, a), Drops(a, 1, b), Len(a) >= 1, Settles(h, k, s),
         Settled(h, a[1].requestId, s), SameHost(h, s), s.outbox = h.outbox,
         a[1].requestId # h.resync, a[1].requestId = h.sent
  PROVE  Handles(IF a[1].ok THEN Accepted(s, a[1], throws) ELSE RejectChain(s), k, w, b)
<1> DEFINE m == a[1]
<1>0. /\ Typed4(h, k, w, a) /\ Good(h, k, w, a) /\ h.outbox = <<>> /\ h \in Host /\ k \in Kernel
      /\ w \in Seq(Messages) /\ 1 \in 1..Len(a) /\ m.revision \in Nat /\ Shape(h)
  BY ReadyIs, HeadPost
<1>1. Handles(RejectChain(s), k, w, b)
  BY ChainStops
<1>2. CASE ~m.ok \/ throws
  <2>1. (IF m.ok THEN Accepted(s, m, throws) ELSE RejectChain(s)) = RejectChain(s)
    BY <1>2 DEF Accepted
  <2> QED BY <1>1, <2>1
<1>3. CASE m.ok /\ ~throws
  <2>1. h.sent # 0 /\ ~h.rejected
    BY <1>0 DEF Settled, Shape
  <2>2. Queue(h) /\ h.queue # <<>> /\ h.queue \in Seq(Nat \ {0})
    BY <1>0, <2>1 DEF Good, Queue, Host
  <2>3. PICK queue \in Seq(Nat \ {0}) : queue = Tail(h.queue)
    BY <2>2, TailDrops
  <2>4. PICK g \in Host : g = [s EXCEPT !.sent = 0, !.queue = queue, !.revision = m.revision]
    BY <1>0 DEF Host
  <2>5. s.queue = h.queue /\ ~s.rejected /\ s.resync = h.resync /\ s.outbox = <<>>
    BY <1>0, <2>1 DEF SameHost
  <2>6. /\ g.calls = s.calls /\ g.pending = s.pending /\ g.disposed = s.disposed
        /\ g.edits = s.edits /\ g.resync = h.resync /\ g.outbox = <<>>
        /\ g.revision = m.revision /\ g.sent = 0 /\ g.queue = Tail(h.queue) /\ ~g.rejected
    BY <2>3, <2>4, <2>5 DEF Host
  <2>7. Settled(h, m.requestId, g) /\ Settles(h, k, g)
    BY <2>6 DEF Settled, Settles, Follows
  <2>8. Good(g, k, w, b)
    BY <1>0, <1>3, <2>1, <2>6, <2>7, SentAccepted
  <2>9. Ready(g, k, w, b)
    BY <1>0, <2>6, <2>8 DEF Ready, Typed4
  <2>10. Accepted(s, m, throws) = SendNext(g)
    BY <1>3, <2>3, <2>4, <2>5 DEF Accepted
  <2> QED BY <1>3, <2>9, <2>10, SendsNext
<1> QED BY <1>2, <1>3

(* The answer to a change that went past the binding.                      *)
LEMMA DirectSettled ==
  ASSUME NEW h, NEW k, NEW w, NEW a, NEW b \in Seq(Posts), NEW s \in Host,
         Ready(h, k, w, a), Waits(h), Drops(a, 1, b), Len(a) >= 1, Settles(h, k, s),
         Settled(h, a[1].requestId, s), SameHost(h, s), s.outbox = h.outbox,
         a[1].requestId \notin {h.resync, h.sent}, IsChange(h.calls[a[1].requestId])
  PROVE  Handles(IF a[1].ok THEN [s EXCEPT !.revision = a[1].revision] ELSE RejectChain(s), k, w, b)
<1> DEFINE m == a[1]
<1>0. /\ Typed4(h, k, w, a) /\ Good(h, k, w, a) /\ h.outbox = <<>> /\ h \in Host /\ k \in Kernel
      /\ w \in Seq(Messages) /\ 1 \in 1..Len(a) /\ m.revision \in Nat /\ Shape(h)
  BY ReadyIs, HeadPost
<1>1. Handles(RejectChain(s), k, w, b)
  BY ChainStops
<1>2. CASE ~m.ok
  BY <1>1, <1>2
<1>3. CASE m.ok
  <2>1. PICK g \in Host : g = [s EXCEPT !.revision = m.revision]
    BY <1>0 DEF Host
  <2>2. /\ g.calls = s.calls /\ g.pending = s.pending /\ g.disposed = s.disposed
        /\ g.edits = s.edits /\ g.resync = h.resync /\ g.outbox = <<>>
        /\ g.revision = m.revision /\ g.sent = h.sent /\ g.queue = h.queue
        /\ g.rejected = h.rejected
    BY <1>0, <2>1 DEF Host, SameHost
  <2>3. Settled(h, m.requestId, g) /\ Settles(h, k, g)
    BY <2>2 DEF Settled, Settles, Follows
  <2>4. Waits(g)
    BY <2>2 DEF Waits
  <2>5. Good(g, k, w, b)
    <3>1. CASE ~h.rejected
      BY <1>0, <1>3, <2>2, <2>3, <3>1, DirectAccepted
    <3>2. CASE h.rejected
      <4>1. g.rejected /\ g.sent = 0 /\ g.queue = <<>>
        BY <1>0, <2>2, <3>2 DEF Shape
      <4> QED BY <1>0, <2>2, <2>3, <4>1, SettledRejected
    <3> QED BY <3>1, <3>2
  <2> QED BY <1>3, <2>1, <2>2, <2>4, <2>5 DEF Handles
<1> QED BY <1>2, <1>3

(* The answer to a run or a cancel.                                        *)
LEMMA QuietSettled ==
  ASSUME NEW h, NEW k, NEW w, NEW a, NEW b \in Seq(Posts), NEW s \in Host,
         Ready(h, k, w, a), Waits(h), Drops(a, 1, b), Len(a) >= 1, Settles(h, k, s),
         Settled(h, a[1].requestId, s), SameHost(h, s), s.outbox = h.outbox,
         a[1].requestId \notin {h.resync, h.sent}, ~IsChange(h.calls[a[1].requestId])
  PROVE  Handles(s, k, w, b)
<1> DEFINE id == a[1].requestId
<1>0. /\ Typed4(h, k, w, a) /\ Good(h, k, w, a) /\ h.outbox = <<>> /\ h \in Host
      /\ Shape(h) /\ Len(h.calls) \in Nat /\ h.pending \subseteq 1..Len(h.calls)
      /\ Queue(h)
  BY ReadyIs
<1>1. ~IsAsk(h.calls[id]) /\ ~OkChange(h, a[1])
  BY <1>0 DEF Shape, Settled, IsAsk, IsChange, IsOpen, OkChange
<1>2. /\ Follows(h, s) /\ Len(s.calls) = Len(h.calls) /\ s.pending = h.pending \ {id}
      /\ ~s.disposed
  BY DEF Settled
<1>3. LastOut(s) = LastOut(h) /\ (h.rejected => h.queue = <<>>)
  BY <1>0 DEF LastOut, SameHost, Shape
<1>4. \A p \in 1..Len(h.calls) : IsAsk(h.calls[p]) => (p \in s.pending <=> p \in h.pending)
  BY <1>1, <1>2
<1>5. \A i \in 1..Len(s.calls) : ~(i > Len(h.calls))
  BY <1>0, <1>2
<1>6. s.pending \subseteq 1..Len(s.calls)
  BY <1>0, <1>2
<1>7. Keeps(h, s)
  BY <1>0, <1>2, <1>3, <1>4, <1>5, <1>6 DEF Keeps, SameHost, Queue
<1>8. Good(s, k, w, b)
  BY <1>0, <1>1, <1>2, <1>7, Steady
<1>9. Waits(s) /\ s.outbox = <<>>
  BY <1>0 DEF Waits, SameHost
<1> QED BY <1>8, <1>9 DEF Handles

(* An answer no call waits for.                                            *)
LEMMA Ignored ==
  ASSUME NEW h, NEW k, NEW w, NEW a, NEW b \in Seq(Posts),
         Ready(h, k, w, a), Waits(h), Drops(a, 1, b), a[1].requestId \notin h.pending
  PROVE  Handles(h, k, w, b)
<1>0. /\ Typed4(h, k, w, a) /\ Good(h, k, w, a) /\ h.outbox = <<>> /\ h \in Host
      /\ Shape(h) /\ Len(h.calls) \in Nat /\ h.edits \in Nat
  BY ReadyIs
<1>1. Follows(h, h) /\ Settles(h, k, h)
  BY <1>0 DEF Follows, Settles
<1>2. \A i \in 1..Len(h.calls) : ~(i > Len(h.calls))
  BY <1>0
<1>3. Keeps(h, h)
  BY <1>0, <1>2 DEF Keeps, Shape, Queue, Good
<1>4. ~OkChange(h, a[1])
  BY DEF OkChange
<1>5. Good(h, k, w, b)
  BY <1>0, <1>1, <1>3, <1>4, Steady
<1> QED BY <1>0, <1>5 DEF Handles

(* Whatever comes back, and whether or not the host's accepted throws.     *)
LEMMA Received ==
  ASSUME NEW h, NEW k, NEW w, NEW a, NEW b \in Seq(Posts), NEW throws \in BOOLEAN,
         Ready(h, k, w, a), Waits(h), Drops(a, 1, b), Len(a) >= 1
  PROVE  Handles(OnMessage(h, a[1], throws), k, w, b)
<1> DEFINE m == a[1]
           id == a[1].requestId
<1>0. /\ Typed4(h, k, w, a) /\ Good(h, k, w, a) /\ h.outbox = <<>> /\ h \in Host
      /\ Shape(h) /\ Back(h, k, w, a) /\ 1 \in 1..Len(a) /\ m.ok \in BOOLEAN
  BY ReadyIs, HeadPost
<1>1. CASE h.disposed
  <2>1. id \notin h.pending
    BY <1>0, <1>1 DEF Shape
  <2> QED BY <1>1, <2>1, Ignored DEF OnMessage
<1>2. CASE ~h.disposed /\ m.type = "failure"
  <2>1. OnMessage(h, m, throws) = RejectChain(Dispose(h))
    BY <1>2 DEF OnMessage
  <2> QED BY <2>1, Disposes
<1>3. CASE ~h.disposed /\ m.type # "failure" /\ id \notin h.pending
  BY <1>3, Ignored DEF OnMessage
<1>4. CASE ~h.disposed /\ m.type # "failure" /\ id \in h.pending
  <2> DEFINE o == IF m.ok THEN "resolved" ELSE "rejected"
  <2>1. o \in {"resolved", "rejected"}
    OBVIOUS
  <2>2. o = "resolved" /\ IsChange(h.calls[id]) =>
          k.session # 0 /\ Len(k.text) >= h.calls[id].edit
    <3> SUFFICES ASSUME o = "resolved", IsChange(h.calls[id])
                 PROVE  k.session # 0 /\ Len(k.text) >= h.calls[id].edit
      OBVIOUS
    <3>1. OkChange(h, m)
      BY <1>0, <1>4 DEF OkChange
    <3> QED BY <1>0, <3>1 DEF Back, EditOf
  <2>3. PICK s \in Host :
          /\ s = SettleOne(h, id, o) /\ Settled(h, id, s) /\ Settles(h, k, s)
          /\ SameHost(h, s) /\ s.outbox = h.outbox /\ s.calls[id].type = h.calls[id].type
    <3> HIDE DEF o
    <3> QED BY <1>0, <1>4, <2>1, <2>2, SettledIs
  <2>10. Settles(h, k, s) /\ Settled(h, a[1].requestId, s) /\ SameHost(h, s) /\ s.outbox = h.outbox
    BY <2>3
  <2>4. OnMessage(h, m, throws) = Continue(s, m, throws)
    BY <1>4, <2>3 DEF OnMessage, SettleOne
  <2>5. s.resync = h.resync /\ s.sent = h.sent
    BY <2>3 DEF SameHost
  <2>6. CASE id = h.resync
    <3>1. Continue(s, m, throws) = IF m.ok THEN Opened(s, m) ELSE [s EXCEPT !.resync = 0]
      BY <2>5, <2>6 DEF Continue
    <3> QED BY <2>4, <2>6, <2>10, <3>1, OpenSettled
  <2>7. CASE id # h.resync /\ id = h.sent
    <3>1. Continue(s, m, throws) = IF m.ok THEN Accepted(s, m, throws) ELSE RejectChain(s)
      BY <2>5, <2>7 DEF Continue
    <3> QED BY <2>4, <2>7, <2>10, <3>1, SentSettled
  <2>8. CASE id \notin {h.resync, h.sent} /\ IsChange(h.calls[id])
    <3>1. Continue(s, m, throws) = IF m.ok THEN [s EXCEPT !.revision = m.revision]
                                   ELSE RejectChain(s)
      BY <2>3, <2>5, <2>8 DEF Continue, IsChange
    <3>2. a[1].requestId \notin {h.resync, h.sent} /\ IsChange(h.calls[a[1].requestId])
      BY <2>8
    <3>3. Handles(IF a[1].ok
                  THEN [s EXCEPT !.revision = a[1].revision] ELSE RejectChain(s), k, w, b)
      BY <2>10, <3>2, DirectSettled
    <3> QED BY <2>4, <3>1, <3>3
  <2>9. CASE id \notin {h.resync, h.sent} /\ ~IsChange(h.calls[id])
    <3>1. Continue(s, m, throws) = s
      BY <2>3, <2>5, <2>9 DEF Continue, IsChange
    <3> QED BY <2>4, <2>9, <2>10, <3>1, QuietSettled
  <2> QED BY <2>6, <2>7, <2>8, <2>9
<1> QED BY <1>1, <1>2, <1>3, <1>4

-----------------------------------------------------------------------------
(* The inductive invariant                                                 *)

TypesHold ==
  /\ host \in Host /\ kernel \in Kernel /\ serve \in Serve
  /\ toKernel \in Seq(Messages) /\ stdin \in Seq(Messages)
  /\ toHost \in Seq(Posts) /\ stdout \in Seq(Posts)

LandInv == TypesHold /\ Linked /\ Waits(host) /\ Good(host, kernel, Asked, Answered)

(* The first of two queues is read.                                        *)
LEMMA FrontDrops ==
  ASSUME NEW S, NEW s \in Seq(S), NEW t \in Seq(S), s # <<>>
  PROVE  /\ Drops(s \o t, 1, Tail(s) \o t) /\ (s \o t)[1] = Head(s) /\ Len(s \o t) >= 1
         /\ s \o t \in Seq(S) /\ Tail(s) \o t \in Seq(S)
<1>1. /\ Len(s) \in Nat /\ Len(t) \in Nat /\ Len(s) >= 1 /\ Tail(s) \in Seq(S)
      /\ Len(Tail(s)) = Len(s) - 1 /\ \A i \in 1..Len(Tail(s)) : Tail(s)[i] = s[i + 1]
      /\ Head(s) = s[1]
  BY TailDrops DEF Drops
<1>2. s \o t \in Seq(S) /\ Len(s \o t) = Len(s) + Len(t)
      /\ \A i \in 1..(Len(s) + Len(t)) : (s \o t)[i] = IF i <= Len(s) THEN s[i] ELSE t[i - Len(s)]
  OBVIOUS
<1>3. PICK u \in Seq(S) : u = Tail(s)
  BY <1>1
<1>4. u \o t \in Seq(S) /\ Len(u \o t) = Len(u) + Len(t)
      /\ \A i \in 1..(Len(u) + Len(t)) : (u \o t)[i] = IF i <= Len(u) THEN u[i] ELSE t[i - Len(u)]
  OBVIOUS
<1>5. \A i \in 1..Len(u \o t) : (u \o t)[i] = (s \o t)[i + 1]
  <2> SUFFICES ASSUME NEW i \in 1..Len(u \o t) PROVE (u \o t)[i] = (s \o t)[i + 1]
    OBVIOUS
  <2>1. i \in 1..(Len(u) + Len(t)) /\ i + 1 \in 1..(Len(s) + Len(t)) /\ Len(u) = Len(s) - 1
    BY <1>1, <1>3, <1>4
  <2>2. CASE i <= Len(u)
    <3>1. (u \o t)[i] = s[i + 1]
      BY <1>1, <1>3, <1>4, <2>1, <2>2
    <3>2. (s \o t)[i + 1] = s[i + 1]
      BY <1>1, <1>2, <2>1, <2>2
    <3> QED BY <3>1, <3>2
  <2>3. CASE ~(i <= Len(u))
    <3>1. (u \o t)[i] = t[i - Len(u)]
      BY <1>4, <2>1, <2>3
    <3>2. (s \o t)[i + 1] = t[(i + 1) - Len(s)]
      BY <1>1, <1>2, <2>1, <2>3
    <3>3. i - Len(u) = (i + 1) - Len(s)
      BY <1>1, <2>1
    <3> QED BY <3>1, <3>2, <3>3
  <2> QED BY <2>2, <2>3
<1>6. Drops(s \o t, 1, u \o t)
  BY <1>1, <1>2, <1>3, <1>4, <1>5 DEF Drops
<1> QED BY <1>1, <1>2, <1>3, <1>4, <1>6

(* One more at the end of the second.                                      *)
LEMMA EndAdds ==
  ASSUME NEW S, NEW s \in Seq(S), NEW t \in Seq(S), NEW m \in S
  PROVE  /\ Adds(s \o t, m, s \o Append(t, m))
         /\ s \o t \in Seq(S) /\ s \o Append(t, m) \in Seq(S) /\ Append(t, m) \in Seq(S)
<1>1. s \o Append(t, m) = Append(s \o t, m)
  OBVIOUS
<1>2. s \o t \in Seq(S) /\ Append(t, m) \in Seq(S)
  OBVIOUS
<1> QED BY <1>1, <1>2, AppendAdds

(* What is read from the one and written to the other.                     *)
LEMMA MovesOver ==
  ASSUME NEW S, NEW s \in Seq(S), NEW t \in Seq(S), t # <<>>
  PROVE  Append(s, Head(t)) \o Tail(t) = s \o t
<1>1. Head(t) \in S /\ Tail(t) \in Seq(S) /\ <<Head(t)>> \o Tail(t) = t
  OBVIOUS
<1>2. PICK x \in S, u \in Seq(S) : x = Head(t) /\ u = Tail(t)
  BY <1>1
<1>3. Append(s, x) \o u = s \o (<<x>> \o u)
  OBVIOUS
<1> QED BY <1>1, <1>2, <1>3

(* Where in a what is well in b comes from, in the same order.             *)
Places(a, b, at) ==
  /\ at \in [1..Len(b) -> Int]
  /\ \A j \in 1..Len(b) : b[j].ok => at[j] \in 1..Len(a) /\ a[at[j]] = b[j]
  /\ \A i, j \in 1..Len(b) : i < j /\ b[i].ok /\ b[j].ok => at[i] < at[j]

(* Failures in another place tell of nothing that was accepted.            *)
LEMMA NewsFrom ==
  ASSUME NEW s \in Seq(Posts), NEW t \in Seq(Posts), NEW x \in Seq(Posts), NEW c \in Seq(Posts),
         \A i \in 1..Len(c) : ~c[i].ok,
         NEW a, NEW b, a = (s \o x) \o t, b = (s \o c) \o t
  PROVE  \E at : Places(a, b, at)
<1>1. PICK S, X, T, C \in Nat : S = Len(s) /\ X = Len(x) /\ T = Len(t) /\ C = Len(c)
  OBVIOUS
<1>2. /\ Len(a) = (S + X) + T
      /\ \A i \in 1..S : a[i] = s[i]
      /\ \A i \in 1..T : a[(S + X) + i] = t[i]
  BY <1>1
<1>3. /\ Len(b) = (S + C) + T
      /\ \A i \in 1..S : b[i] = s[i]
      /\ \A i \in 1..C : b[S + i] = c[i]
      /\ \A i \in 1..T : b[(S + C) + i] = t[i]
  BY <1>1
<1>4. PICK at : at = [j \in 1..Len(b) |-> IF j <= S THEN j ELSE (j - C) + X]
  OBVIOUS
<1>5. /\ at \in [1..Len(b) -> Int]
      /\ \A j \in 1..Len(b) : at[j] = IF j <= S THEN j ELSE (j - C) + X
  BY <1>3, <1>4
<1>6. ASSUME NEW j \in 1..Len(b), b[j].ok
      PROVE  /\ at[j] \in 1..Len(a) /\ a[at[j]] = b[j]
             /\ j \in Nat
             /\ (j <= S /\ at[j] = j) \/ (j > S + C /\ at[j] = (j - C) + X)
  <2>0. j \in Nat /\ 1 <= j /\ j <= (S + C) + T
    BY <1>3
  <2>1. CASE j <= S
    <3>1. at[j] = j /\ j \in 1..S
      BY <1>5, <2>0, <2>1
    <3>2. j \in 1..Len(a)
      BY <1>2, <3>1
    <3>3. a[j] = b[j]
      BY <1>2, <1>3, <3>1
    <3> QED BY <2>0, <2>1, <3>1, <3>2, <3>3
  <2>2. CASE j > S /\ j <= S + C
    <3>1. PICK i \in 1..C : j = S + i
      <4>1. j - S \in 1..C /\ j = S + (j - S)
        BY <2>0, <2>2
      <4> QED BY <4>1
    <3>2. ~b[j].ok
      BY <1>1, <1>3, <3>1
    <3> QED BY <1>6, <3>2
  <2>3. CASE j > S + C
    <3>1. PICK i \in 1..T : j = (S + C) + i
      <4>1. j - (S + C) \in 1..T /\ j = (S + C) + (j - (S + C))
        BY <2>0, <2>3
      <4> QED BY <4>1
    <3>2. at[j] = (j - C) + X
      BY <1>5, <2>0, <2>3
    <3>3. at[j] = (S + X) + i
      BY <3>1, <3>2
    <3>4. a[at[j]] = b[j]
      BY <1>2, <1>3, <3>1, <3>3
    <3>5. at[j] \in 1..Len(a)
      BY <1>2, <3>3
    <3> QED BY <2>0, <2>3, <3>2, <3>4, <3>5
  <2>4. j <= S \/ (j > S /\ j <= S + C) \/ j > S + C
    BY <2>0
  <2> QED BY <2>1, <2>2, <2>3, <2>4
<1>7. \A i, j \in 1..Len(b) : i < j /\ b[i].ok /\ b[j].ok => at[i] < at[j]
  <2> SUFFICES ASSUME NEW i \in 1..Len(b), NEW j \in 1..Len(b), i < j, b[i].ok, b[j].ok
               PROVE  at[i] < at[j]
    OBVIOUS
  <2>1. i \in Nat /\ ((i <= S /\ at[i] = i) \/ (i > S + C /\ at[i] = (i - C) + X))
    BY <1>6
  <2>2. j \in Nat /\ ((j <= S /\ at[j] = j) \/ (j > S + C /\ at[j] = (j - C) + X))
    BY <1>6
  <2> QED BY <2>1, <2>2
<1>8. Places(a, b, at)
  BY <1>5, <1>6, <1>7 DEF Places
<1> QED BY <1>8

(* Both ways.                                                              *)
LEMMA SameNewsOf ==
  ASSUME NEW s \in Seq(Posts), NEW t \in Seq(Posts), NEW x \in Seq(Posts), NEW c \in Seq(Posts),
         \A i \in 1..Len(x) : ~x[i].ok, \A i \in 1..Len(c) : ~c[i].ok
  PROVE  SameNews((s \o x) \o t, (s \o c) \o t)
<1>0. PICK a, b : a = (s \o x) \o t /\ b = (s \o c) \o t
  OBVIOUS
<1>1. PICK at : Places(a, b, at)
  BY <1>0, NewsFrom
<1>2. PICK to : Places(b, a, to)
  BY <1>0, NewsFrom
<1>3. \A j \in 1..Len(b) : b[j].ok => \E i \in 1..Len(a) : a[i] = b[j]
  BY <1>1 DEF Places
<1>4. \A i \in 1..Len(a) : a[i].ok => \E j \in 1..Len(b) : b[j] = a[i]
  BY <1>2 DEF Places
<1>5. \A i, j \in 1..Len(b) : i < j /\ b[i].ok /\ b[j].ok =>
        \E p, q \in 1..Len(a) : p < q /\ a[p] = b[i] /\ a[q] = b[j]
  BY <1>1 DEF Places
<1>6. SameNews(a, b)
  BY <1>3, <1>4, <1>5 DEF SameNews
<1> QED BY <1>0, <1>6

-----------------------------------------------------------------------------
(* The worker's steps                                                      *)

(* The host sees nothing of a step of the worker but what it reads and     *)
(* posts.                                                                  *)
LEMMA WorkerStep ==
  ASSUME LandInv, kernel' \in Kernel, toKernel' \in Seq(Messages), toHost' \in Seq(Posts),
         UNCHANGED <<host, serveVars>>, kernel.up, Good(host, kernel', Asked', Answered')
  PROVE  LandInv'
<1>1. host' = host /\ serve' = serve /\ stdin' = stdin /\ stdout' = stdout
  BY DEF serveVars
<1>2. TypesHold'
  BY <1>1 DEF LandInv, TypesHold
<1>3. Linked'
  BY <1>1 DEF LandInv, Linked
<1>4. Waits(host')
  BY <1>1 DEF LandInv
<1> QED BY <1>1, <1>2, <1>3, <1>4 DEF LandInv

(* What a command is, and what is left when it is read.                    *)
LEMMA ReadIs ==
  ASSUME LandInv, UNCHANGED <<host, serveVars>>, NEW type, Arrives(type)
  PROVE  /\ Typed4(host, kernel, Asked, Answered) /\ Good(host, kernel, Asked, Answered)
         /\ kernel.up /\ Message \in Messages /\ Message.type = type
         /\ Message = Asked[1] /\ Len(Asked) >= 1 /\ Drops(Asked, 1, Asked')
         /\ Asked' \in Seq(Messages) /\ toKernel' \in Seq(Messages)
         /\ Message.requestId \in 1..Len(host.calls)
         /\ host.calls[Message.requestId].type = type
<1>1. /\ toKernel # <<>> /\ toKernel \in Seq(Messages) /\ stdin \in Seq(Messages)
      /\ toKernel' = Tail(toKernel) /\ stdin' = stdin /\ stdout' = stdout
      /\ kernel.up /\ Message.type = type
  BY DEF LandInv, TypesHold, Arrives, serveVars
<1>2. /\ Drops(Asked, 1, Asked') /\ Asked[1] = Message /\ Len(Asked) >= 1
      /\ Asked \in Seq(Messages) /\ Asked' \in Seq(Messages)
  BY <1>1, FrontDrops DEF Asked, Message
<1>3. toKernel' \in Seq(Messages) /\ Message \in Messages
  BY <1>1, TailDrops DEF Message
<1>4. Answered \in Seq(Posts)
  <2>1. stdout \in Seq(Posts) /\ toHost \in Seq(Posts)
    BY DEF LandInv, TypesHold
  <2> QED BY <2>1 DEF Answered
<1>5. Typed4(host, kernel, Asked, Answered) /\ Good(host, kernel, Asked, Answered)
  BY <1>2, <1>4 DEF LandInv, TypesHold, Typed4
<1>6. Message.requestId \in 1..Len(host.calls) /\ host.calls[Message.requestId].type = type
  BY <1>1, <1>2, <1>5, HeadCall
<1> QED BY <1>1, <1>2, <1>3, <1>5, <1>6

(* What comes back when the worker posts.                                  *)
LEMMA PostsIs ==
  ASSUME LandInv, UNCHANGED serveVars, NEW p \in Posts, toHost' = Append(toHost, p)
  PROVE  /\ Adds(Answered, p, Answered') /\ Answered' \in Seq(Posts) /\ toHost' \in Seq(Posts)
<1>1. stdout \in Seq(Posts) /\ toHost \in Seq(Posts) /\ stdout' = stdout
  BY DEF LandInv, TypesHold, serveVars
<1> QED BY <1>1, EndAdds DEF Answered

(* An answer.                                                              *)
LEMMA AnswerIs ==
  ASSUME NEW m \in Messages, NEW ok \in BOOLEAN, NEW k \in Kernel
  PROVE  /\ Answer(m, ok, k) \in Posts /\ Answer(m, ok, k).type = "answer"
         /\ Answer(m, ok, k).requestId = m.requestId /\ (Answer(m, ok, k).ok <=> ok)
         /\ Answer(m, ok, k).revision = k.revision /\ Answer(m, ok, k).text = k.text
<1>1. m.requestId \in Nat
  BY MessageFields
<1>2. k.revision \in Nat /\ k.text \in AnyText
  BY DEF Kernel
<1> QED BY <1>1, <1>2 DEF Answer, Posts

(* A good one.                                                             *)
LEMMA OkAnswer ==
  ASSUME NEW m \in Messages, NEW k \in Kernel
  PROVE  \E p \in Posts : /\ p = Answer(m, TRUE, k) /\ p.type # "failure" /\ p.ok
                          /\ p.requestId = m.requestId
                          /\ p.revision = k.revision /\ p.text = k.text
<1>1. m.requestId \in Nat
  BY MessageFields
<1>2. k.revision \in Nat /\ k.text \in AnyText
  BY DEF Kernel
<1>3. PICK p : p = Answer(m, TRUE, k)
  OBVIOUS
<1>4. /\ p.type = "answer" /\ p.ok /\ p.requestId = m.requestId
      /\ p.revision = k.revision /\ p.text = k.text
  BY <1>3 DEF Answer
<1>5. p \in Posts
  BY <1>1, <1>2, <1>3 DEF Answer, Posts
<1> QED BY <1>3, <1>4, <1>5

(* The document is opened, or is open already.                             *)
LEMMA OpenHandled ==
  ASSUME LandInv, HandleOpen, UNCHANGED <<host, serveVars>>
  PROVE  LandInv'
<1>1. /\ Typed4(host, kernel, Asked, Answered) /\ Good(host, kernel, Asked, Answered)
      /\ kernel.up /\ Message \in Messages /\ Message.type = "open"
      /\ Message = Asked[1] /\ Len(Asked) >= 1 /\ Drops(Asked, 1, Asked')
      /\ Asked' \in Seq(Messages) /\ toKernel' \in Seq(Messages)
  BY ReadIs DEF HandleOpen
<1>2. kernel \in Kernel /\ IsOpen(Message)
  BY <1>1 DEF Typed4, IsOpen
<1>3. Message \in OpenMessages
  BY <1>1, MessageFields
<1>4. Message.text \in AnyText
  BY <1>3 DEF OpenMessages, AnyText
<1>5. /\ kernel' \in Kernel /\ kernel'.up = kernel.up /\ kernel'.queue = kernel.queue
      /\ kernel'.session # 0 /\ kernel'.text = Message.text
  <2>1. CASE ~Message.replaceSession /\ kernel.session # 0 /\ kernel.text = Message.text
    BY <1>2, <2>1 DEF HandleOpen
  <2>2. CASE ~(~Message.replaceSession /\ kernel.session # 0 /\ kernel.text = Message.text)
    <3>1. kernel' = [kernel EXCEPT !.session = @ + 1, !.revision = 1, !.text = Message.text]
      BY <2>2 DEF HandleOpen
    <3>2. kernel.session + 1 \in Nat /\ kernel.session + 1 # 0 /\ 1 \in Nat
      BY <1>2 DEF Kernel
    <3> QED BY <1>2, <1>4, <3>1, <3>2 DEF Kernel
  <2> QED BY <2>1, <2>2
<1>6. PICK p \in Posts : /\ p = Answer(Message, TRUE, kernel') /\ p.type # "failure" /\ p.ok
                         /\ p.requestId = Message.requestId
                         /\ p.revision = kernel'.revision /\ p.text = kernel'.text
  <2>1. PICK m \in Messages, k \in Kernel : m = Message /\ k = kernel'
    BY <1>1, <1>5
  <2>2. PICK p \in Posts : /\ p = Answer(m, TRUE, k) /\ p.type # "failure" /\ p.ok
                           /\ p.requestId = m.requestId
                           /\ p.revision = k.revision /\ p.text = k.text
    BY OkAnswer
  <2>3. p = Answer(Message, TRUE, kernel')
    BY <2>1, <2>2
  <2> QED BY <2>1, <2>2, <2>3
<1>7. Adds(Answered, p, Answered') /\ Answered' \in Seq(Posts) /\ toHost' \in Seq(Posts)
  BY <1>6, PostsIs DEF HandleOpen
<1>8. Good(host, kernel', Asked', Answered')
  BY <1>1, <1>2, <1>5, <1>6, <1>7, OpenAnswered
<1> QED BY <1>1, <1>5, <1>7, <1>8, WorkerStep

(* A change is accepted, and makes the text its host had; or is refused,   *)
(* its revision being another.                                             *)
LEMMA ChangeHandled ==
  ASSUME LandInv, HandleChange, UNCHANGED <<host, serveVars>>
  PROVE  LandInv'
<1>1. /\ Typed4(host, kernel, Asked, Answered) /\ Good(host, kernel, Asked, Answered)
      /\ kernel.up /\ Message \in Messages /\ Message.type = "change"
      /\ Message = Asked[1] /\ Len(Asked) >= 1 /\ Drops(Asked, 1, Asked')
      /\ Asked' \in Seq(Messages) /\ toKernel' \in Seq(Messages)
  BY ReadIs DEF HandleChange
<1>2. kernel \in Kernel /\ IsChange(Message) /\ 1 \in 1..Len(Asked)
  BY <1>1, Plain DEF Typed4, IsChange
<1>3. Message \in ChangeMessages
  BY <1>1, MessageFields
<1>4. Message.after \in AnyText /\ Message.baseVersion = NoText
  BY <1>3 DEF ChangeMessages, AnyText
<1>5. kernel.session # 0 /\ EditOf(host, Message) >= 1
  BY <1>1, <1>2 DEF Good, Changes
<1>6. AcceptsChange(kernel, Message) <=> Message.baseRevision = kernel.revision
  BY <1>4, <1>5 DEF AcceptsChange
<1>7. CASE Message.baseRevision = kernel.revision
  <2>1. /\ kernel.text = Message.before
        /\ Message.before = TextAfter(EditOf(host, Message) - 1)
        /\ Message.after = TextAfter(EditOf(host, Message))
    BY <1>1, <1>2, <1>7, HeadFits
  <2>2. Message.after # kernel.text
    <3>1. PICK e \in Nat : e = EditOf(host, Message)
      BY <1>1, HeadCall
    <3>2. e >= 1 /\ e - 1 \in Nat
      BY <1>5, <3>1
    <3>3. Len(TextAfter(e)) = e /\ Len(TextAfter(e - 1)) = e - 1
      BY <3>2, TextLength
    <3>4. e # e - 1
      BY <3>2
    <3> QED BY <2>1, <3>1, <3>3, <3>4
  <2>3. kernel' = [kernel EXCEPT !.revision = @ + 1, !.text = Message.after]
    BY <1>6, <1>7, <2>1, <2>2 DEF HandleChange, Applied
  <2>4. /\ kernel' \in Kernel /\ kernel'.up = kernel.up /\ kernel'.queue = kernel.queue
        /\ kernel'.session = kernel.session /\ kernel'.revision = kernel.revision + 1
        /\ kernel'.text = Message.after
    <3>1. kernel.revision + 1 \in Nat
      BY <1>2 DEF Kernel
    <3> QED BY <1>2, <1>4, <2>3, <3>1 DEF Kernel
  <2>5. PICK p \in Posts : /\ p = Answer(Message, TRUE, kernel') /\ p.type # "failure" /\ p.ok
                           /\ p.requestId = Message.requestId
                           /\ p.revision = kernel'.revision /\ p.text = kernel'.text
    <3>1. PICK m \in Messages, k \in Kernel : m = Message /\ k = kernel'
      BY <1>1, <2>4
    <3>2. PICK p \in Posts : /\ p = Answer(m, TRUE, k) /\ p.type # "failure" /\ p.ok
                             /\ p.requestId = m.requestId
                             /\ p.revision = k.revision /\ p.text = k.text
      BY OkAnswer
    <3>3. p = Answer(Message, TRUE, kernel')
      BY <3>1, <3>2
    <3> QED BY <3>1, <3>2, <3>3
  <2>6. toHost' = Append(toHost, p)
    BY <1>6, <1>7, <2>5 DEF HandleChange
  <2>7. Adds(Answered, p, Answered') /\ Answered' \in Seq(Posts) /\ toHost' \in Seq(Posts)
    BY <2>6, PostsIs
  <2>8. Good(host, kernel', Asked', Answered')
    BY <1>1, <1>2, <1>7, <2>4, <2>5, <2>7, ChangeAccepted
  <2> QED BY <1>1, <2>4, <2>7, <2>8, WorkerStep
<1>8. CASE Message.baseRevision # kernel.revision
  <2>1. kernel' = kernel
    BY <1>6, <1>8 DEF HandleChange
  <2>2. PICK p \in Posts : /\ p = Answer(Message, FALSE, kernel') /\ p.type # "failure" /\ ~p.ok
                           /\ p.requestId = Message.requestId
    BY <1>1, <1>2, <2>1, AnswerIs
  <2>3. toHost' = Append(toHost, p)
    <3>1. AcceptsChange(kernel, Message) = FALSE
      BY <1>6, <1>8 DEF AcceptsChange
    <3> QED BY <2>2, <3>1 DEF HandleChange
  <2>4. Adds(Answered, p, Answered') /\ Answered' \in Seq(Posts) /\ toHost' \in Seq(Posts)
    BY <2>3, PostsIs
  <2>5. Good(host, kernel, Asked', Answered')
    BY <1>1, <1>2, <1>8, <2>2, <2>4, ChangeRefused
  <2> QED BY <1>1, <1>2, <2>1, <2>4, <2>5, WorkerStep
<1> QED BY <1>7, <1>8

(* A run's result.                                                         *)
LEMMA ResultIs ==
  ASSUME NEW r \in Runs, NEW ok \in BOOLEAN
  PROVE  /\ Result(r, ok) \in Posts /\ Result(r, ok).type = "result"
         /\ Result(r, ok).requestId = r.requestId
  BY DEF Result, Posts, Runs

(* A run is admitted, or answered at once.                                 *)
LEMMA RunHandled ==
  ASSUME LandInv, HandleRun, UNCHANGED <<host, serveVars>>
  PROVE  LandInv'
<1>1. /\ Typed4(host, kernel, Asked, Answered) /\ Good(host, kernel, Asked, Answered)
      /\ kernel.up /\ Message \in Messages /\ Message.type = "run"
      /\ Message = Asked[1] /\ Len(Asked) >= 1 /\ Drops(Asked, 1, Asked')
      /\ Asked' \in Seq(Messages) /\ toKernel' \in Seq(Messages)
      /\ Message.requestId \in 1..Len(host.calls)
      /\ host.calls[Message.requestId].type = "run"
  BY ReadIs DEF HandleRun
<1>2. kernel \in Kernel /\ ~IsAsk(Message) /\ ~IsAsk(host.calls[Message.requestId])
      /\ host \in Host /\ Asked \in Seq(Messages) /\ Answered \in Seq(Posts)
  BY <1>1 DEF Typed4, IsAsk
<1>3. Message \in RunMessages
  BY <1>1, MessageFields
<1>4. PICK r \in Runs : r = Captured(kernel, Message) /\ r.requestId = Message.requestId
  <2>1. Message.runId \in Nat /\ Message.requestId \in Nat /\ Message.revision \in Nat
    BY <1>3 DEF RunMessages
  <2>2. kernel.text \in AnyText
    BY <1>2 DEF Kernel
  <2>3. Captured(kernel, Message) \in Runs
    BY <2>1, <2>2 DEF Captured, Runs
  <2>4. Captured(kernel, Message).requestId = Message.requestId
    BY DEF Captured
  <2> QED BY <2>3, <2>4
<1>5. Good(host, kernel, Asked', Answered)
  BY <1>1, <1>2, HeadGone
<1>6. CASE AcceptsRun(kernel, Message)
  <2>1. kernel.queue \in Seq(Runs)
    BY <1>2 DEF Kernel
  <2>2. PICK queue \in Seq(Runs) : queue = Append(kernel.queue, r) /\ Adds(kernel.queue, r, queue)
    BY <2>1, AppendAdds
  <2>3. kernel' = [kernel EXCEPT !.queue = queue] /\ toHost' = toHost
    BY <1>4, <1>6, <2>2 DEF HandleRun
  <2>4. /\ kernel' \in Kernel /\ SameDocument(kernel, kernel') /\ kernel'.up = kernel.up
        /\ kernel'.queue = queue
    BY <1>2, <2>3 DEF Kernel, SameDocument
  <2>5. \A j \in 1..Len(kernel'.queue) :
          /\ kernel'.queue[j].requestId \in 1..Len(host.calls)
          /\ host.calls[kernel'.queue[j].requestId].type = "run"
    <3> SUFFICES ASSUME NEW j \in 1..Len(queue)
                 PROVE  /\ queue[j].requestId \in 1..Len(host.calls)
                        /\ host.calls[queue[j].requestId].type = "run"
      BY <2>4
    <3>1. Len(kernel.queue) \in Nat /\ Known(host, kernel, Asked, Answered)
      BY <1>1, <2>1 DEF Good
    <3>2. CASE j \in 1..Len(kernel.queue)
      BY <2>2, <3>1, <3>2 DEF Adds, Known
    <3>3. CASE j = Len(kernel.queue) + 1
      BY <1>1, <1>4, <2>2, <3>3 DEF Adds
    <3>4. j \in 1..Len(kernel.queue) \/ j = Len(kernel.queue) + 1
      BY <2>2, <3>1 DEF Adds
    <3> QED BY <3>2, <3>3, <3>4
  <2>6. Answered' = Answered /\ toHost' \in Seq(Posts)
    BY <2>3 DEF LandInv, TypesHold, Answered, serveVars
  <2>7. Typed4(host, kernel, Asked', Answered)
    BY <1>1, <1>2 DEF Typed4
  <2>8. Good(host, kernel', Asked', Answered)
    BY <1>5, <2>4, <2>5, <2>7, SameKernel
  <2> QED BY <1>1, <2>4, <2>6, <2>8, WorkerStep
<1>7. CASE ~AcceptsRun(kernel, Message)
  <2>1. PICK s \in Runs : s = [r EXCEPT !.text = NoText] /\ s.requestId = Message.requestId
    <3>1. NoText \in AnyText
      BY DEF AnyText
    <3>2. [r EXCEPT !.text = NoText] \in Runs /\ [r EXCEPT !.text = NoText].requestId = r.requestId
      BY <3>1 DEF Runs
    <3> QED BY <1>4, <3>2
  <2>2. PICK p \in Posts : /\ p = Result(s, FALSE) /\ p.requestId = Message.requestId
                           /\ p.type # "failure"
    BY <2>1, ResultIs
  <2>3. kernel' = kernel /\ toHost' = Append(toHost, p)
    BY <1>4, <1>7, <2>1, <2>2 DEF HandleRun
  <2>4. Adds(Answered, p, Answered') /\ Answered' \in Seq(Posts) /\ toHost' \in Seq(Posts)
    BY <2>3, PostsIs
  <2>5. Typed4(host, kernel, Asked', Answered)
    BY <1>1, <1>2 DEF Typed4
  <2>6. Good(host, kernel, Asked', Answered')
    BY <1>1, <1>2, <1>5, <2>2, <2>4, <2>5, SayMore
  <2> QED BY <1>1, <1>2, <2>3, <2>4, <2>6, WorkerStep
<1> QED BY <1>6, <1>7

(* A run is to be cancelled.                                               *)
LEMMA CancelHandled ==
  ASSUME LandInv, HandleCancel, UNCHANGED <<host, serveVars>>
  PROVE  LandInv'
<1>1. /\ Typed4(host, kernel, Asked, Answered) /\ Good(host, kernel, Asked, Answered)
      /\ kernel.up /\ Message \in Messages /\ Message.type = "cancel"
      /\ Message = Asked[1] /\ Len(Asked) >= 1 /\ Drops(Asked, 1, Asked')
      /\ Asked' \in Seq(Messages) /\ toKernel' \in Seq(Messages)
      /\ Message.requestId \in 1..Len(host.calls)
      /\ host.calls[Message.requestId].type = "cancel"
  BY ReadIs DEF HandleCancel
<1>2. kernel \in Kernel /\ ~IsAsk(Message) /\ ~IsAsk(host.calls[Message.requestId])
      /\ host \in Host /\ Asked \in Seq(Messages) /\ Answered \in Seq(Posts)
  BY <1>1 DEF Typed4, IsAsk
<1>3. Message \in CancelMessages
  BY <1>1, MessageFields
<1>4. PICK ids \in SUBSET Nat :
        ids = kernel.cancelled \cup ({Message.runId} \cap RunIds(kernel))
  BY <1>2, <1>3 DEF CancelMessages, Kernel
<1>5. kernel' = [kernel EXCEPT !.cancelled = ids]
  BY <1>4 DEF HandleCancel
<1>6. /\ kernel' \in Kernel /\ SameDocument(kernel, kernel') /\ kernel'.up = kernel.up
      /\ kernel'.queue = kernel.queue
  BY <1>2, <1>5 DEF Kernel, SameDocument
<1>7. PICK p \in Posts : /\ p = Answer(Message, TRUE, kernel) /\ p.type # "failure"
                         /\ p.requestId = Message.requestId
  BY <1>1, <1>2, AnswerIs
<1>8. Message.requestId # 0
  BY <1>1
<1>9. toHost' = Append(toHost, p)
  BY <1>7, <1>8 DEF HandleCancel
<1>10. Adds(Answered, p, Answered') /\ Answered' \in Seq(Posts) /\ toHost' \in Seq(Posts)
  BY <1>9, PostsIs
<1>11. Good(host, kernel, Asked', Answered)
  BY <1>1, <1>2, HeadGone
<1>12. Typed4(host, kernel, Asked', Answered) /\ Typed4(host, kernel, Asked', Answered')
  BY <1>1, <1>2, <1>10 DEF Typed4
<1>13. Good(host, kernel, Asked', Answered')
  BY <1>1, <1>2, <1>7, <1>10, <1>11, <1>12, SayMore
<1>14. \A j \in 1..Len(kernel'.queue) :
          /\ kernel'.queue[j].requestId \in 1..Len(host.calls)
          /\ host.calls[kernel'.queue[j].requestId].type = "run"
  BY <1>1, <1>6 DEF Good, Known
<1>15. Good(host, kernel', Asked', Answered')
  BY <1>6, <1>12, <1>13, <1>14, SameKernel
<1> QED BY <1>1, <1>6, <1>10, <1>15, WorkerStep

(* The active run ends.                                                    *)
LEMMA RunEnds ==
  ASSUME LandInv, NEW ok \in BOOLEAN, EndRun(ok), UNCHANGED <<host, serveVars>>
  PROVE  LandInv'
<1>1. /\ kernel \in Kernel /\ host \in Host /\ kernel.up /\ kernel.queue # <<>>
      /\ toKernel' = toKernel /\ stdin' = stdin /\ stdout' = stdout
      /\ toKernel \in Seq(Messages) /\ stdin \in Seq(Messages)
      /\ toHost \in Seq(Posts) /\ stdout \in Seq(Posts)
  BY DEF LandInv, TypesHold, EndRun, serveVars
<1>2. Asked' = Asked /\ Asked \in Seq(Messages) /\ Answered \in Seq(Posts)
  BY <1>1 DEF Asked, Answered
<1>3. Typed4(host, kernel, Asked, Answered) /\ Good(host, kernel, Asked, Answered)
  BY <1>1, <1>2 DEF LandInv, Typed4
<1>4. kernel.queue \in Seq(Runs)
  BY <1>1 DEF Kernel
<1>5. PICK r \in Runs, queue \in Seq(Runs) :
        /\ r = Head(kernel.queue) /\ r = kernel.queue[1] /\ Len(kernel.queue) >= 1
        /\ queue = Tail(kernel.queue) /\ Drops(kernel.queue, 1, queue)
  BY <1>1, <1>4, TailDrops
<1>6. \A j \in 1..Len(kernel.queue) : /\ kernel.queue[j].requestId \in 1..Len(host.calls)
                                      /\ host.calls[kernel.queue[j].requestId].type = "run"
  BY <1>3 DEF Good, Known
<1>7. r.requestId \in 1..Len(host.calls) /\ ~IsAsk(host.calls[r.requestId])
  <2>1. 1 \in 1..Len(kernel.queue)
    BY <1>4, <1>5
  <2> QED BY <1>5, <1>6, <2>1 DEF IsAsk
<1>8. PICK ids \in SUBSET Nat : ids = kernel.cancelled \ {r.runId}
  BY <1>1 DEF Kernel
<1>9. kernel' = [kernel EXCEPT !.queue = queue, !.cancelled = ids]
  BY <1>5, <1>8 DEF EndRun
<1>10. /\ kernel' \in Kernel /\ SameDocument(kernel, kernel') /\ kernel'.up = kernel.up
       /\ kernel'.queue = queue
  BY <1>1, <1>9 DEF Kernel, SameDocument
<1>11. PICK well \in BOOLEAN : well = (ok /\ r.runId \notin kernel.cancelled)
  OBVIOUS
<1>12. PICK p \in Posts : /\ p = Result(r, well) /\ p.requestId = r.requestId
                          /\ p.type # "failure"
  BY ResultIs
<1>13. toHost' = Append(toHost, p)
  BY <1>5, <1>11, <1>12 DEF EndRun
<1>14. Adds(Answered, p, Answered') /\ Answered' \in Seq(Posts) /\ toHost' \in Seq(Posts)
  BY <1>13, PostsIs
<1>15. Good(host, kernel, Asked, Answered')
  BY <1>3, <1>7, <1>12, <1>14, SayMore
<1>16. Typed4(host, kernel, Asked, Answered')
  BY <1>1, <1>2, <1>14 DEF Typed4
<1>17. \A j \in 1..Len(queue) : /\ queue[j].requestId \in 1..Len(host.calls)
                                /\ host.calls[queue[j].requestId].type = "run"
  <2> SUFFICES ASSUME NEW j \in 1..Len(queue)
               PROVE  /\ queue[j].requestId \in 1..Len(host.calls)
                      /\ host.calls[queue[j].requestId].type = "run"
    OBVIOUS
  <2>1. j + 1 \in 1..Len(kernel.queue) /\ queue[j] = kernel.queue[j + 1]
    BY <1>4, <1>5 DEF Drops
  <2> QED BY <1>6, <2>1
<1>18. Good(host, kernel', Asked, Answered')
  BY <1>10, <1>15, <1>16, <1>17, SameKernel
<1> QED BY <1>1, <1>2, <1>10, <1>14, <1>18, WorkerStep

(* A subscription is for editors that listen: no host here asks for one.   *)
LEMMA WorkerKeeps ==
  ASSUME LandInv, Worker
  PROVE  LandInv'
<1>1. CASE HandleOpen
  BY <1>1, OpenHandled DEF Worker
<1>2. CASE HandleChange
  BY <1>2, ChangeHandled DEF Worker
<1>3. CASE HandleSubscribe
  <2>1. Message \in Messages /\ Message.type = "subscribe"
    BY <1>3, ReadIs DEF HandleSubscribe, Worker
  <2> QED BY <2>1, MessageFields
<1>4. CASE HandleRun
  BY <1>4, RunHandled DEF Worker
<1>5. CASE HandleCancel
  BY <1>5, CancelHandled DEF Worker
<1>6. ASSUME NEW ok \in BOOLEAN, EndRun(ok) PROVE LandInv'
  BY <1>6, RunEnds DEF Worker
<1> QED BY <1>1, <1>2, <1>3, <1>4, <1>5, <1>6 DEF Worker, Endpoint

-----------------------------------------------------------------------------
(* The worker fails, and the process ends                                  *)

(* A failure tells of nothing that was accepted.                           *)
LEMMA FailureIs ==
  ASSUME NEW id \in Nat
  PROVE  Failure(id) \in Posts /\ ~Failure(id).ok
<1>1. NoText \in AnyText
  BY DEF AnyText
<1> QED BY <1>1 DEF Failure, Posts

(* The worker fails.                                                       *)
LEMMA FailKeeps ==
  ASSUME LandInv, Fail, UNCHANGED <<host, serveVars>>
  PROVE  LandInv'
<1>1. /\ kernel \in Kernel /\ host \in Host /\ kernel.up
      /\ toKernel' = toKernel /\ stdin' = stdin /\ stdout' = stdout
      /\ toKernel \in Seq(Messages) /\ stdin \in Seq(Messages)
      /\ toHost \in Seq(Posts) /\ stdout \in Seq(Posts)
  BY DEF LandInv, TypesHold, Fail, serveVars
<1>2. Asked' = Asked /\ Asked \in Seq(Messages) /\ Answered \in Seq(Posts)
  BY <1>1 DEF Asked, Answered
<1>3. Typed4(host, kernel, Asked, Answered) /\ Good(host, kernel, Asked, Answered)
  BY <1>1, <1>2 DEF LandInv, Typed4
<1>4. PICK p \in Posts : p = Failure(0) /\ ~p.ok
  BY FailureIs
<1>5. toHost' = Append(toHost, p)
  BY <1>4 DEF Fail, Failure
<1>6. Adds(Answered, p, Answered') /\ Answered' \in Seq(Posts) /\ toHost' \in Seq(Posts)
  BY <1>5, PostsIs
<1>7. /\ kernel' \in Kernel /\ SameDocument(kernel, kernel') /\ ~kernel'.up
      /\ kernel'.queue = kernel.queue
  BY <1>1 DEF Fail, Kernel, SameDocument
<1>8. SameNews(Answered, Answered')
  <2>1. \A j \in 1..Len(Answered) : j \in 1..Len(Answered') /\ Answered'[j] = Answered[j]
    BY <1>2, <1>6 DEF Adds
  <2>2. \A j \in 1..Len(Answered') : Answered'[j].ok => j \in 1..Len(Answered)
    BY <1>2, <1>4, <1>6 DEF Adds
  <2> QED BY <2>1, <2>2 DEF SameNews
<1>9. Good(host, kernel', Asked', Answered')
  BY <1>2, <1>3, <1>6, <1>7, <1>8, KernelGone
<1> QED BY <1>1, <1>6, <1>7, <1>9, WorkerStep

(* A line is read from the process's input: it is on its way all the same. *)
LEMMA LineKeeps ==
  ASSUME LandInv, ServeLine, UNCHANGED host, host.link = "serve"
  PROVE  LandInv'
<1>1. /\ serve \in Serve /\ toKernel \in Seq(Messages) /\ stdin \in Seq(Messages) /\ stdin # <<>>
      /\ stdin' = Tail(stdin) /\ toKernel' = Append(toKernel, Head(stdin))
      /\ host' = host /\ kernel' = kernel /\ toHost' = toHost /\ stdout' = stdout
      /\ serve.running
  BY DEF LandInv, TypesHold, ServeLine
<1>2. PICK m \in Messages : m = Head(stdin)
  BY <1>1, TailDrops
<1>3. stdin' \in Seq(Messages) /\ toKernel' \in Seq(Messages)
  BY <1>1, <1>2, TailDrops, AppendAdds
<1>4. PICK ids \in {S \in SUBSET Nat : IsFiniteSet(S)} : ids = serve.pending \cup {m.requestId}
  <2>1. serve.pending \in SUBSET Nat /\ IsFiniteSet(serve.pending) /\ m.requestId \in Nat
    BY <1>1, MessageFields DEF Serve
  <2>2. IsFiniteSet(serve.pending \cup {m.requestId})
    BY <2>1, FS_AddElement
  <2> QED BY <2>1, <2>2
<1>5. serve' = [serve EXCEPT !.pending = ids]
  BY <1>2, <1>4 DEF ServeLine
<1>6. serve' \in Serve /\ serve'.running
  BY <1>1, <1>4, <1>5 DEF Serve
<1>7. Asked' = Asked /\ Answered' = Answered
  BY <1>1, MovesOver DEF Asked, Answered
<1>8. TypesHold'
  BY <1>1, <1>3, <1>6 DEF LandInv, TypesHold
<1>9. Linked'
  BY <1>1, <1>6 DEF LandInv, Linked
<1> QED BY <1>1, <1>7, <1>8, <1>9 DEF LandInv

(* The worker is let go of when the process ends.                          *)
LEMMA LetGo ==
  ASSUME LandInv, host.link = "serve", UNCHANGED <<host, toKernel, stdin>>, NEW done \in BOOLEAN,
         serve' \in Serve, serve'.running = ~done, kernel' = [kernel EXCEPT !.up = @ /\ ~done],
         stdout' \in Seq(Posts), toHost' \in Seq(Posts),
         IF done THEN SameNews(Answered, Answered') ELSE Answered' = Answered
  PROVE  LandInv'
<1>1. /\ kernel \in Kernel /\ host \in Host /\ host' = host /\ host'.link = "serve"
      /\ toKernel' = toKernel /\ stdin' = stdin
      /\ toKernel \in Seq(Messages) /\ stdin \in Seq(Messages)
      /\ toHost \in Seq(Posts) /\ stdout \in Seq(Posts) /\ Linked /\ Waits(host)
  BY DEF LandInv, TypesHold
<1>2. /\ Asked' = Asked /\ Asked \in Seq(Messages) /\ Answered \in Seq(Posts)
      /\ Answered' \in Seq(Posts)
  BY <1>1 DEF Asked, Answered
<1>3. Typed4(host, kernel, Asked, Answered) /\ Good(host, kernel, Asked, Answered)
  BY <1>1, <1>2 DEF LandInv, Typed4
<1>4. /\ kernel' \in Kernel /\ SameDocument(kernel, kernel') /\ kernel'.queue = kernel.queue
      /\ (kernel'.up <=> kernel.up /\ ~done)
  <2>1. PICK up \in BOOLEAN : up = (kernel.up /\ ~done)
    OBVIOUS
  <2>2. kernel' = [kernel EXCEPT !.up = up]
    BY <2>1
  <2> QED BY <1>1, <2>1, <2>2 DEF Kernel, SameDocument
<1>5. Good(host, kernel', Asked', Answered')
  <2>1. CASE done
    BY <1>2, <1>3, <1>4, <2>1, KernelGone
  <2>2. CASE ~done
    <3>1. kernel'.up = kernel.up
      BY <1>1, <1>4, <2>2 DEF Kernel
    <3>2. \A j \in 1..Len(kernel'.queue) :
            /\ kernel'.queue[j].requestId \in 1..Len(host.calls)
            /\ host.calls[kernel'.queue[j].requestId].type = "run"
      BY <1>3, <1>4 DEF Good, Known
    <3> QED BY <1>2, <1>3, <1>4, <2>2, <3>1, <3>2, SameKernel
  <2> QED BY <2>1, <2>2
<1>6. TypesHold'
  BY <1>1, <1>4 DEF TypesHold
<1>7. Linked'
  BY <1>1, <1>4 DEF Linked
<1> QED BY <1>1, <1>5, <1>6, <1>7 DEF LandInv

(* The last line of a process that ends.                                   *)
LEMMA ExitIs ==
  Exit \in Seq(Posts) /\ \A i \in 1..Len(Exit) : ~Exit[i].ok
<1>1. PICK p \in Posts : p = Failure(0) /\ ~p.ok
  BY FailureIs
<1>2. Exit = <<p>>
  BY <1>1 DEF Exit
<1> QED BY <1>1, <1>2

(* The failure may come before what the process has yet to write.          *)
LEMMA ExitAmong ==
  ASSUME NEW s \in Seq(Posts), NEW t \in Seq(Posts)
  PROVE  s \o Exit \in Seq(Posts) /\ SameNews(s \o t, (s \o Exit) \o t)
<1>1. PICK c \in Seq(Posts) : c = Exit /\ \A i \in 1..Len(c) : ~c[i].ok
  BY ExitIs
<1>2. PICK x \in Seq(Posts) : x = <<>>
  <2>1. <<>> \in Seq(Posts)
    OBVIOUS
  <2> QED BY <2>1
<1>3. \A i \in 1..Len(x) : ~x[i].ok
  BY <1>2
<1>4. SameNews((s \o x) \o t, (s \o c) \o t)
  BY <1>1, <1>3, SameNewsOf
<1>5. s \o x = s
  BY <1>2
<1>6. s \o c \in Seq(Posts)
  OBVIOUS
<1> QED BY <1>1, <1>4, <1>5, <1>6

(* The input ends, and the process with it when nothing is pending.        *)
LEMMA EndOfInputKeeps ==
  ASSUME LandInv, ServeEndOfInput, UNCHANGED host, host.link = "serve"
  PROVE  LandInv'
<1> DEFINE done == IsDone(serve.pending)
<1>1. /\ serve \in Serve /\ toHost \in Seq(Posts) /\ stdout \in Seq(Posts) /\ done \in BOOLEAN
      /\ serve' = [serve EXCEPT !.ended = TRUE, !.running = ~done]
      /\ kernel' = [kernel EXCEPT !.up = @ /\ ~done]
      /\ stdout' = (IF done THEN stdout \o Exit ELSE stdout)
      /\ toHost' = toHost /\ UNCHANGED <<host, toKernel, stdin>>
  BY DEF LandInv, TypesHold, ServeEndOfInput, IsDone
<1> HIDE DEF done
<1>2. PICK running \in BOOLEAN : running = ~done
  BY <1>1
<1>3. serve' \in Serve /\ serve'.running = ~done
  BY <1>1, <1>2 DEF Serve
<1>4. CASE done
  <2>1. stdout' = stdout \o Exit /\ toHost' = toHost
    BY <1>1, <1>4
  <2>2. stdout' \in Seq(Posts) /\ SameNews(Answered, Answered')
    BY <1>1, <2>1, ExitAmong DEF Answered
  <2> QED BY <1>1, <1>3, <1>4, <2>2, LetGo
<1>5. CASE ~done
  <2>1. stdout' = stdout /\ Answered' = Answered
    BY <1>1, <1>5 DEF Answered
  <2> QED BY <1>1, <1>3, <1>5, <2>1, LetGo
<1> QED BY <1>1, <1>4, <1>5

(* What the worker posted is written, and the process ends with the last.  *)
LEMMA AnswerKeeps ==
  ASSUME LandInv, ServeAnswer, UNCHANGED host, host.link = "serve"
  PROVE  LandInv'
<1> DEFINE pending == serve.pending \ {Head(toHost).requestId}
           done == serve.ended /\ IsDone(pending)
<1>1. /\ serve \in Serve /\ toHost \in Seq(Posts) /\ stdout \in Seq(Posts) /\ toHost # <<>>
      /\ serve' = [serve EXCEPT !.pending = pending, !.running = ~done]
      /\ kernel' = [kernel EXCEPT !.up = @ /\ ~done]
      /\ stdout' = Append(stdout, Head(toHost)) \o (IF done THEN Exit ELSE <<>>)
      /\ toHost' = Tail(toHost) /\ UNCHANGED <<host, toKernel, stdin>>
  BY DEF LandInv, TypesHold, ServeAnswer
<1>2. done \in BOOLEAN
  BY <1>1 DEF Serve, IsDone
<1>3. PICK ids \in {S \in SUBSET Nat : IsFiniteSet(S)} : ids = pending
  <2>1. serve.pending \in SUBSET Nat /\ IsFiniteSet(serve.pending)
    BY <1>1 DEF Serve
  <2>2. IsFiniteSet(pending)
    BY <2>1, FS_Subset
  <2> QED BY <2>1, <2>2
<1> HIDE DEF done, pending
<1>4. PICK running \in BOOLEAN : running = ~done
  BY <1>2
<1>5. serve' \in Serve /\ serve'.running = ~done
  BY <1>1, <1>3, <1>4 DEF Serve
<1>6. PICK s \in Seq(Posts), t \in Seq(Posts) :
        /\ s = Append(stdout, Head(toHost)) /\ t = Tail(toHost) /\ s \o t = stdout \o toHost
  <2>1. Head(toHost) \in Posts /\ Tail(toHost) \in Seq(Posts)
    BY <1>1, TailDrops
  <2>2. Append(stdout, Head(toHost)) \in Seq(Posts)
    BY <1>1, <2>1, AppendAdds
  <2> QED BY <1>1, <2>1, <2>2, MovesOver
<1>7. CASE done
  <2>1. stdout' = s \o Exit /\ toHost' = t
    BY <1>1, <1>6, <1>7
  <2>2. stdout' \in Seq(Posts) /\ SameNews(Answered, Answered')
    BY <1>6, <2>1, ExitAmong DEF Answered
  <2> QED BY <1>1, <1>2, <1>5, <1>6, <1>7, <2>1, <2>2, LetGo
<1>8. CASE ~done
  <2>1. stdout' = s /\ toHost' = t
    BY <1>1, <1>6, <1>8
  <2>2. Answered' = Answered
    BY <1>6, <2>1 DEF Answered
  <2> QED BY <1>1, <1>2, <1>5, <1>6, <1>8, <2>1, <2>2, LetGo
<1> QED BY <1>2, <1>7, <1>8

(* It does not matter which of three sequences are joined first.           *)
LEMMA Regrouped ==
  ASSUME NEW S
  PROVE  \A x, y, z \in Seq(S) : (x \o y) \o z = x \o (y \o z)
  BY SMT

(* The worker's failure is told to each that waits, and the process ends.  *)
LEMMA FailureKeeps ==
  ASSUME LandInv, ServeFailure, UNCHANGED host, host.link = "serve"
  PROVE  LandInv'
<1>1. /\ serve \in Serve /\ toHost \in Seq(Posts) /\ stdout \in Seq(Posts) /\ toHost # <<>>
      /\ serve' = [pending |-> {}, ended |-> TRUE, failed |-> TRUE, running |-> FALSE]
      /\ kernel' = kernel /\ kernel \in Kernel /\ stdout' = stdout \o FailPending \o Exit
      /\ toHost' = Tail(toHost) /\ UNCHANGED <<host, toKernel, stdin>>
      /\ Head(toHost).type = "failure" /\ toKernel \in Seq(Messages) /\ stdin \in Seq(Messages)
      /\ Good(host, kernel, Asked, Answered)
  BY DEF LandInv, TypesHold, ServeFailure
<1>2. PICK p \in Posts, t \in Seq(Posts) :
        p = Head(toHost) /\ p.type = "failure" /\ ~p.ok /\ t = Tail(toHost)
  <2>1. Head(toHost) \in Posts /\ Tail(toHost) \in Seq(Posts)
    BY <1>1, TailDrops
  <2> QED BY <1>1, <2>1 DEF Posts
<1>3. stdout \o toHost = (stdout \o <<p>>) \o t /\ <<p>> \in Seq(Posts)
  <2>1. Append(stdout, p) \o t = stdout \o toHost
    BY <1>1, <1>2, MovesOver
  <2>2. Append(stdout, p) = stdout \o <<p>>
    BY <1>1, <1>2
  <2> QED BY <1>2, <2>1, <2>2
<1>4. ~kernel.up
  <2>1. Len(stdout) + 1 \in 1..Len(Answered) /\ Answered[Len(stdout) + 1] = p
    BY <1>1, <1>2, <1>3 DEF Answered
  <2> QED BY <1>1, <1>2, <2>1 DEF Good, Known
<1>5. PICK f \in Seq(Posts) : f = FailPending /\ \A i \in 1..Len(f) : ~f[i].ok
  <2>1. serve.pending \in SUBSET Nat /\ IsFiniteSet(serve.pending)
    BY <1>1 DEF Serve
  <2>2. PICK n \in Nat : n = Cardinality(serve.pending)
    BY <2>1, ToSeq
  <2>3. \A i \in 1..n : SetToSeq(serve.pending)[i] \in Nat
    BY <2>1, <2>2, ToSeq
  <2>4. \A i \in 1..n : /\ Failure(SetToSeq(serve.pending)[i]) \in Posts
                        /\ ~Failure(SetToSeq(serve.pending)[i]).ok
    BY <2>3, FailureIs
  <2>5. PICK f \in Seq(Posts) :
          /\ f = [i \in 1..n |-> Failure(SetToSeq(serve.pending)[i])] /\ Len(f) = n
    <3>1. PICK f : f = [i \in 1..n |-> Failure(SetToSeq(serve.pending)[i])]
      OBVIOUS
    <3>2. f \in [1..n -> Posts]
      BY <2>4, <3>1
    <3>3. f \in Seq(Posts) /\ Len(f) = n
      BY <2>2, <3>2
    <3> QED BY <3>1, <3>3
  <2> QED BY <2>2, <2>4, <2>5 DEF FailPending
<1>6. PICK c \in Seq(Posts) : c = f \o Exit /\ \A i \in 1..Len(c) : ~c[i].ok
  <2>1. PICK e \in Seq(Posts) : e = Exit /\ \A i \in 1..Len(e) : ~e[i].ok
    BY ExitIs
  <2>2. f \o e \in Seq(Posts) /\ \A i \in 1..Len(f \o e) : ~(f \o e)[i].ok
    BY <1>5, <2>1
  <2> QED BY <2>1, <2>2
<1>7. stdout' = stdout \o c
  <2>1. PICK e \in Seq(Posts) : e = Exit
    BY ExitIs
  <2>2. (stdout \o f) \o e = stdout \o (f \o e)
    <3>1. stdout \in Seq(Posts) /\ f \in Seq(Posts) /\ e \in Seq(Posts)
      BY <1>1
    <3> QED BY <3>1, Regrouped, SMTT(40)
  <2> QED BY <1>1, <1>5, <1>6, <2>1, <2>2
<1>8. stdout' \in Seq(Posts) /\ toHost' \in Seq(Posts)
  BY <1>1, <1>2, <1>7
<1>9. SameNews(Answered, Answered')
  <2>1. PICK x \in Seq(Posts) : x = <<p>> /\ \A i \in 1..Len(x) : ~x[i].ok
    <3>1. PICK x \in Seq(Posts) : x = <<p>>
      BY <1>3
    <3>2. Len(x) = 1 /\ x[1] = p
      BY <3>1
    <3>3. \A i \in 1..Len(x) : ~x[i].ok
      BY <1>2, <3>2
    <3> QED BY <3>1, <3>3
  <2>2. SameNews((stdout \o x) \o t, (stdout \o c) \o t)
    BY <1>1, <1>6, <2>1, SameNewsOf
  <2> QED BY <1>1, <1>2, <1>3, <1>7, <2>1, <2>2 DEF Answered
<1>10. serve' \in Serve /\ serve'.running = ~TRUE
  <2>1. IsFiniteSet({}) /\ {} \in SUBSET Nat
    BY FS_EmptySet
  <2> QED BY <1>1, <2>1 DEF Serve
<1>11. kernel' = [kernel EXCEPT !.up = @ /\ ~TRUE]
  BY <1>1, <1>4 DEF Kernel
<1> QED BY <1>1, <1>8, <1>9, <1>10, <1>11, LetGo

(* Any step of the process.                                                *)
LEMMA ProcessKeeps ==
  ASSUME LandInv, Process
  PROVE  LandInv'
<1>1. CASE ServeLine
  BY <1>1, LineKeeps DEF Process
<1>2. CASE ServeAnswer
  BY <1>2, AnswerKeeps DEF Process
<1>3. CASE ServeFailure
  BY <1>3, FailureKeeps DEF Process
<1>4. CASE ServeEndOfInput
  BY <1>4, EndOfInputKeeps DEF Process
<1> QED BY <1>1, <1>2, <1>3, <1>4 DEF Process

-----------------------------------------------------------------------------
(* The host's steps                                                        *)

(* What a step of the host does not change.                                *)
Reaches(g, link) == "link" \in DOMAIN g /\ g.link = link

(* No operation of the host moves it to another transport: not a command,  *)
LEMMA CommandReaches ==
  ASSUME NEW h, NEW l, NEW m, NEW e, Reaches(h, l)
  PROVE  Reaches(Command(h, m, e), l)
<1>1. CASE h.disposed \/ h.closed
  BY <1>1 DEF Reaches, Command
<1>2. CASE ~(h.disposed \/ h.closed)
  BY <1>2 DEF Reaches, Command
<1> QED BY <1>1, <1>2

(* nor rejecting the chain,                                                *)
LEMMA RejectReaches ==
  ASSUME NEW h, NEW l, Reaches(h, l)
  PROVE  Reaches(RejectChain(h), l)
  BY DEF Reaches, RejectChain

(* nor sending the next edit,                                              *)
LEMMA SendReaches ==
  ASSUME NEW h, NEW l, Reaches(h, l)
  PROVE  Reaches(SendNext(h), l)
<1>1. CASE h.rejected \/ h.sent # 0 \/ h.queue = <<>>
  BY <1>1 DEF SendNext
<1>2. CASE ~(h.rejected \/ h.sent # 0 \/ h.queue = <<>>)
  <2>1. PICK g : g = Change(h, Head(h.queue)) /\ Reaches(g, l)
    BY CommandReaches DEF Change
  <2>2. Reaches(RejectChain(g), l) /\ Reaches([g EXCEPT !.sent = NextId(h)], l)
    BY <2>1, RejectReaches DEF Reaches
  <2>3. SendNext(h) = IF NextId(h) \in g.pending THEN [g EXCEPT !.sent = NextId(h)]
                      ELSE RejectChain(g)
    BY <1>2, <2>1 DEF SendNext
  <2> QED BY <2>2, <2>3
<1> QED BY <1>1, <1>2

(* nor opening the document again,                                         *)
LEMMA ResyncReaches ==
  ASSUME NEW h, NEW l, Reaches(h, l)
  PROVE  Reaches(Resynchronize(h), l)
<1>1. PICK g : g = Open(h, h.edits) /\ Reaches(g, l)
  BY CommandReaches DEF Open
<1>2. PICK x : x = RejectChain(g) /\ Reaches(x, l)
  BY <1>1, RejectReaches
<1>3. PICK id : id = IF NextId(h) \in g.pending THEN NextId(h) ELSE 0
  OBVIOUS
<1>4. Resynchronize(h) = [x EXCEPT !.resync = id]
  BY <1>1, <1>2, <1>3 DEF Resynchronize
<1> QED BY <1>2, <1>4 DEF Reaches

(* nor continuing after an answer,                                         *)
LEMMA ContinueReaches ==
  ASSUME NEW h, NEW l, NEW m, NEW throws \in BOOLEAN, Reaches(h, l)
  PROVE  Reaches(Continue(h, m, throws), l)
<1>1. Reaches(RejectChain(h), l)
  BY RejectReaches
<1>2. Reaches(Accepted(h, m, throws), l)
  <2>1. Reaches([h EXCEPT !.sent = 0, !.queue = Tail(@), !.revision = m.revision], l)
    BY DEF Reaches
  <2> QED BY <1>1, <2>1, SendReaches DEF Accepted
<1>3. Reaches(Opened(h, m), l)
  <2>1. PICK x : x = [h EXCEPT !.resync = 0, !.revision = m.revision]
    OBVIOUS
  <2>2. Reaches(x, l)
    BY <2>1 DEF Reaches
  <2>3. Reaches([x EXCEPT !.rejected = FALSE], l)
    BY <2>2 DEF Reaches
  <2>4. Reaches(Resynchronize(x), l)
    BY <2>2, ResyncReaches
  <2>5. Opened(h, m) = IF m.text = TextAfter(h.edits) THEN [x EXCEPT !.rejected = FALSE]
                       ELSE Resynchronize(x)
    BY <2>1 DEF Opened
  <2> QED BY <2>3, <2>4, <2>5
<1>4. Reaches([h EXCEPT !.resync = 0], l) /\ Reaches([h EXCEPT !.revision = m.revision], l)
  BY DEF Reaches
<1>5. CASE m.requestId = h.resync
  BY <1>3, <1>4, <1>5 DEF Continue
<1>6. CASE m.requestId # h.resync /\ m.requestId = h.sent
  BY <1>1, <1>2, <1>6 DEF Continue
<1>7. CASE m.requestId \notin {h.resync, h.sent} /\ h.calls[m.requestId].type = "change"
  BY <1>1, <1>4, <1>7 DEF Continue
<1>8. CASE m.requestId \notin {h.resync, h.sent} /\ h.calls[m.requestId].type # "change"
  BY <1>8 DEF Continue
<1> QED BY <1>5, <1>6, <1>7, <1>8

(* nor handling a message.                                                 *)
LEMMA MessageReaches ==
  ASSUME NEW h, NEW l, NEW m, NEW throws \in BOOLEAN, Reaches(h, l)
  PROVE  Reaches(OnMessage(h, m, throws), l)
<1>1. CASE h.disposed
  BY <1>1 DEF OnMessage
<1>2. CASE ~h.disposed /\ m.type = "failure"
  <2>1. Reaches(Dispose(h), l)
    BY DEF Reaches, Dispose
  <2> QED BY <1>2, <2>1, RejectReaches DEF OnMessage
<1>3. CASE ~h.disposed /\ m.type # "failure" /\ m.requestId \notin h.pending
  BY <1>3 DEF OnMessage
<1>4. CASE ~h.disposed /\ m.type # "failure" /\ m.requestId \in h.pending
  <2>1. PICK o : o = IF m.ok THEN "resolved" ELSE "rejected"
    OBVIOUS
  <2>2. Reaches(SettleOne(h, m.requestId, o), l)
    BY DEF Reaches, SettleOne
  <2>3. OnMessage(h, m, throws) = Continue(SettleOne(h, m.requestId, o), m, throws)
    BY <1>4, <2>1 DEF OnMessage, SettleOne
  <2> QED BY <2>2, <2>3, ContinueReaches
<1> QED BY <1>1, <1>2, <1>3, <1>4

(* The outbox is emptied.                                                  *)
LEMMA Emptied ==
  ASSUME NEW g \in Host, NEW k, NEW w, NEW a, Waits(g)
  PROVE  LET x == [g EXCEPT !.outbox = <<>>]
         IN  /\ x \in Host /\ x.outbox = <<>> /\ x.link = g.link /\ Waits(x)
             /\ Typed4(g, k, w, a) /\ Good(g, k, w, a) => Good(x, k, w, a)
<1>0. <<>> \in Seq(Messages)
  OBVIOUS
<1>1. PICK x \in Host : x = [g EXCEPT !.outbox = <<>>]
  BY <1>0 DEF Host
<1>2. x.outbox = <<>> /\ SameHost(g, x) /\ x.calls = g.calls /\ x.pending = g.pending
  BY <1>1 DEF Host, SameHost
<1>3. Waits(x)
  BY <1>2 DEF Waits, SameHost
<1>4. ASSUME Typed4(g, k, w, a), Good(g, k, w, a) PROVE Good(x, k, w, a)
  <2>1. Shape(g) /\ Queue(g) /\ a \in Seq(Posts) /\ Len(g.calls) \in Nat /\ g.edits \in Nat
    BY <1>4 DEF Good, Typed4, Host
  <2>2. Follows(g, x) /\ Settles(g, k, x)
    BY <1>2, <2>1 DEF Follows, Settles, SameHost
  <2>3. \A i \in 1..Len(g.calls) : ~(i > Len(g.calls))
    BY <2>1
  <2>4. LastOut(x) = LastOut(g)
    BY <1>2 DEF LastOut, SameHost
  <2>5. Keeps(g, x)
    BY <1>2, <2>1, <2>3, <2>4 DEF Keeps, Shape, Queue, SameHost
  <2>6. Drops(a, 0, a)
    BY <2>1, NothingDrops
  <2> QED BY <1>4, <2>1, <2>2, <2>5, <2>6, Steady
<1> QED BY <1>1, <1>2, <1>3, <1>4 DEF SameHost

(* What the host posts is on its way, or lost with the worker.             *)
LEMMA Posted ==
  ASSUME LandInv, NEW g, Post(g), Reaches(g, host.link), Answered' \in Seq(Posts),
         toHost' \in Seq(Posts), stdout' \in Seq(Posts),
         host.link = "worker" => stdout' = <<>>,
         Handles(g, kernel, Asked, Answered')
  PROVE  LandInv'
<1> DEFINE x == [g EXCEPT !.outbox = <<>>]
<1>0. /\ host \in Host /\ kernel \in Kernel /\ serve \in Serve /\ Linked
      /\ toKernel \in Seq(Messages) /\ stdin \in Seq(Messages)
      /\ kernel' = kernel /\ serve' = serve /\ host' = x
      /\ toKernel' = (IF g.link = "worker" /\ kernel.up THEN toKernel \o g.outbox ELSE toKernel)
      /\ stdin' = (IF g.link = "serve" /\ serve.running THEN stdin \o g.outbox ELSE stdin)
  BY DEF LandInv, TypesHold, Post
<1>1. Asked \in Seq(Messages) /\ g \in Host /\ Waits(g) /\ g.link = host.link
  BY <1>0 DEF Asked, Handles, Reaches
<1>2. g.link \in {"worker", "serve"}
  BY <1>1 DEF Host, Links
<1>3. /\ x \in Host /\ x.outbox = <<>> /\ x.link = host.link /\ Waits(x)
      /\ \A w : Typed4(g, kernel, w, Answered') /\ Good(g, kernel, w, Answered')
                => Good(x, kernel, w, Answered')
  BY <1>1, Emptied
<1> HIDE DEF x
<1>4. ASSUME toKernel' \in Seq(Messages), stdin' \in Seq(Messages),
             host.link = "worker" => stdin' = <<>>,
             Good(g, kernel, Asked', Answered')
      PROVE  LandInv'
  <2>1. Asked' \in Seq(Messages)
    BY <1>4 DEF Asked
  <2>2. Typed4(g, kernel, Asked', Answered')
    BY <1>0, <1>1, <2>1 DEF Typed4
  <2>3. Good(x, kernel, Asked', Answered')
    BY <1>3, <1>4, <2>2
  <2>4. TypesHold'
    BY <1>0, <1>3, <1>4 DEF TypesHold
  <2>5. Linked'
    BY <1>0, <1>3, <1>4 DEF Linked
  <2> QED BY <1>0, <1>3, <2>3, <2>4, <2>5 DEF LandInv
<1>5. CASE g.outbox = <<>> /\ Good(g, kernel, Asked, Answered')
  <2>1. toKernel' = toKernel /\ stdin' = stdin
    BY <1>0, <1>5
  <2>2. Asked' = Asked
    BY <2>1 DEF Asked
  <2> QED BY <1>0, <1>4, <1>5, <2>1, <2>2 DEF Linked
<1>6. ASSUME NEW m \in Messages, g.outbox = <<m>>,
             \A v \in Seq(Messages) : Adds(Asked, m, v) => Good(g, kernel, v, Answered')
      PROVE  LandInv'
  <2>1. CASE g.link = "worker"
    <3>1. stdin' = stdin /\ stdin = <<>>
      BY <1>0, <1>1, <2>1 DEF Linked
    <3>2. Asked = toKernel
      BY <1>0, <3>1 DEF Asked
    <3>3. PICK v \in Seq(Messages) : v = Append(toKernel, m) /\ Adds(toKernel, m, v)
      BY <1>0, AppendAdds
    <3>4. v = toKernel \o <<m>>
      BY <1>0, <3>3
    <3>5. Good(g, kernel, v, Answered')
      BY <1>6, <3>2, <3>3
    <3>6. CASE kernel.up
      <4>1. toKernel' = v
        BY <1>0, <1>6, <2>1, <3>4, <3>6
      <4>2. Asked' = v
        BY <3>1, <4>1 DEF Asked
      <4> QED BY <1>0, <1>4, <3>1, <3>5, <4>1, <4>2
    <3>7. CASE ~kernel.up
      <4>1. toKernel' = toKernel /\ Asked' = toKernel
        BY <1>0, <3>1, <3>7 DEF Asked
      <4>2. Typed4(g, kernel, v, Answered')
        BY <1>0, <1>1 DEF Typed4
      <4>3. Good(g, kernel, toKernel, Answered')
        BY <1>0, <3>3, <3>5, <3>7, <4>2, PostLost
      <4> QED BY <1>0, <1>4, <3>1, <4>1, <4>3
    <3> QED BY <3>6, <3>7
  <2>2. CASE g.link = "serve"
    <3>1. toKernel' = toKernel /\ host.link = "serve" /\ host.link # "worker"
      BY <1>0, <1>1, <2>2
    <3>2. PICK u \in Seq(Messages) :
            /\ u = Append(stdin, m) /\ Adds(toKernel \o stdin, m, toKernel \o u)
            /\ toKernel \o u \in Seq(Messages)
      <4>1. toKernel \in Seq(Messages) /\ stdin \in Seq(Messages) /\ m \in Messages
        BY <1>0 DEF LandInv, TypesHold
      <4>2. /\ Adds(toKernel \o stdin, m, toKernel \o Append(stdin, m))
            /\ toKernel \o Append(stdin, m) \in Seq(Messages) /\ Append(stdin, m) \in Seq(Messages)
        BY <4>1, EndAdds
      <4> QED BY <4>2
    <3>3. u = stdin \o <<m>>
      BY <1>0, <3>2
    <3>4. Good(g, kernel, toKernel \o u, Answered')
      BY <1>6, <3>2 DEF Asked
    <3>5. CASE serve.running
      <4>1. stdin' = u
        BY <1>0, <1>6, <2>2, <3>3, <3>5
      <4>2. Asked' = toKernel \o u
        BY <3>1, <4>1 DEF Asked
      <4> QED BY <1>0, <1>4, <3>1, <3>4, <4>1, <4>2
    <3>6. CASE ~serve.running
      <4>1. stdin' = stdin /\ Asked' = Asked /\ ~kernel.up
        BY <1>0, <3>1, <3>6 DEF Asked, Linked
      <4>2. Typed4(g, kernel, toKernel \o u, Answered')
        BY <1>0, <1>1, <3>2 DEF Typed4
      <4>3. Adds(Asked, m, toKernel \o u)
        BY <3>2 DEF Asked
      <4>4. Good(g, kernel, Asked, Answered')
        BY <1>1, <3>4, <4>1, <4>2, <4>3, PostLost
      <4> QED BY <1>0, <1>4, <3>1, <4>1, <4>4
    <3> QED BY <3>5, <3>6
  <2> QED BY <1>2, <2>1, <2>2
<1> QED BY <1>5, <1>6 DEF Handles

(* The host calls, and what comes back is as it was.                       *)
LEMMA HostReady ==
  ASSUME LandInv
  PROVE  /\ Ready(host, kernel, Asked, Answered) /\ Waits(host) /\ host \in Host
         /\ Reaches(host, host.link) /\ Answered \in Seq(Posts)
         /\ toHost \in Seq(Posts) /\ stdout \in Seq(Posts)
         /\ host.link = "worker" => stdout = <<>>
<1>1. /\ host \in Host /\ kernel \in Kernel /\ toHost \in Seq(Posts) /\ stdout \in Seq(Posts)
      /\ toKernel \in Seq(Messages) /\ stdin \in Seq(Messages) /\ Waits(host)
      /\ Good(host, kernel, Asked, Answered) /\ host.outbox = <<>>
      /\ (host.link = "worker" => stdout = <<>>)
  BY DEF LandInv, TypesHold, Linked
<1>2. Asked \in Seq(Messages) /\ Answered \in Seq(Posts)
  BY <1>1 DEF Asked, Answered
<1>3. Ready(host, kernel, Asked, Answered)
  BY <1>1, <1>2 DEF Ready, Typed4
<1>4. Reaches(host, host.link)
  BY <1>1 DEF Reaches, Host
<1> QED BY <1>1, <1>2, <1>3, <1>4

(* A call that leaves the answers on their way alone keeps the invariant.  *)
LEMMA CalledKeeps ==
  ASSUME LandInv, NEW g, Post(g), UNCHANGED <<toHost, stdout>>, Reaches(g, host.link),
         Handles(g, kernel, Asked, Answered)
  PROVE  LandInv'
<1>1. toHost' = toHost /\ stdout' = stdout /\ Answered' = Answered
  BY DEF Answered
<1> QED BY <1>1, HostReady, Posted

(* The user types.                                                         *)
LEMMA TypingKeeps ==
  ASSUME LandInv, TypeInBinding \/ TypeInMonaco
  PROVE  LandInv'
<1> DEFINE t == [host EXCEPT !.edits = @ + 1]
<1>0. /\ Ready(host, kernel, Asked, Answered) /\ Waits(host) /\ host \in Host
      /\ Reaches(host, host.link)
  BY HostReady
<1>1. t = Typed /\ Reaches(t, host.link)
  BY <1>0 DEF Typed, Reaches
<1>2. t \in Host
  <2>1. host.edits + 1 \in Nat
    BY <1>0 DEF Host
  <2> QED BY <1>0, <2>1 DEF Host
<1> HIDE DEF t
<1>3. CASE TypeInBinding
  <2>1. Post(OnUpdate(t, t.edits)) /\ UNCHANGED <<toHost, stdout>>
    BY <1>1, <1>3 DEF TypeInBinding, Submit
  <2>2. Handles(OnUpdate(t, t.edits), kernel, Asked, Answered)
    BY <1>0, <1>2, Updates DEF t
  <2>3. Reaches(OnUpdate(t, t.edits), host.link)
    <3>1. Reaches([t EXCEPT !.queue = Append(@, t.edits)], host.link)
      BY <1>1 DEF Reaches
    <3> QED BY <1>1, <3>1, SendReaches DEF OnUpdate
  <2> QED BY <2>1, <2>2, <2>3, CalledKeeps
<1>4. CASE TypeInMonaco
  <2>1. Post(Change(t, t.edits)) /\ UNCHANGED <<toHost, stdout>>
        /\ ~host.rejected /\ ~host.closed /\ \A i \in host.pending : host.calls[i].type # "change"
    BY <1>1, <1>4 DEF TypeInMonaco, Submit
  <2>2. Handles(Change(t, t.edits), kernel, Asked, Answered)
    BY <1>0, <1>2, <2>1, Monaco DEF t
  <2>3. Reaches(Change(t, t.edits), host.link)
    BY <1>1, CommandReaches DEF Change
  <2> QED BY <2>1, <2>2, <2>3, CalledKeeps
<1> QED BY <1>3, <1>4

(* The host asks.                                                          *)
LEMMA AskingKeeps ==
  ASSUME LandInv, SubmitRun \/ SubmitCancel \/ Resync
  PROVE  LandInv'
<1>0. /\ Ready(host, kernel, Asked, Answered) /\ Waits(host) /\ host \in Host
      /\ Reaches(host, host.link)
  BY HostReady
<1>1. CASE SubmitRun
  <2>1. Post(Run(host)) /\ UNCHANGED <<toHost, stdout>>
    BY <1>1 DEF SubmitRun
  <2>2. Handles(Run(host), kernel, Asked, Answered) /\ Reaches(Run(host), host.link)
    BY <1>0, RunsAsked, CommandReaches DEF Run
  <2> QED BY <2>1, <2>2, CalledKeeps
<1>2. CASE SubmitCancel
  <2>1. PICK runId \in host.pending : Post(Cancel(host, runId))
    BY <1>2 DEF SubmitCancel
  <2>2. UNCHANGED <<toHost, stdout>> /\ runId \in Nat
    BY <1>0, <1>2 DEF SubmitCancel, Host
  <2>3. Handles(Cancel(host, runId), kernel, Asked, Answered)
    BY <1>0, <2>2, CancelAsked
  <2>4. Reaches(Cancel(host, runId), host.link)
    BY <1>0, CommandReaches DEF Cancel
  <2> QED BY <2>1, <2>2, <2>3, <2>4, CalledKeeps
<1>3. CASE Resync
  <2>1. /\ Post(Resynchronize(host)) /\ UNCHANGED <<toHost, stdout>>
        /\ host.rejected /\ host.resync = 0
    BY <1>3 DEF Resync
  <2>2. Handles(Resynchronize(host), kernel, Asked, Answered)
    BY <1>0, <2>1, Resyncs
  <2>3. Reaches(Resynchronize(host), host.link)
    BY <1>0, ResyncReaches
  <2> QED BY <2>1, <2>2, <2>3, CalledKeeps
<1> QED BY <1>1, <1>2, <1>3

(* The host hears.                                                         *)
LEMMA DeliverKeeps ==
  ASSUME LandInv, Deliver
  PROVE  LandInv'
<1>0. /\ Ready(host, kernel, Asked, Answered) /\ Waits(host) /\ host \in Host
      /\ Reaches(host, host.link) /\ Answered \in Seq(Posts)
      /\ toHost \in Seq(Posts) /\ stdout \in Seq(Posts)
      /\ (host.link = "worker" => stdout = <<>>)
  BY HostReady
<1>1. ASSUME NEW g, NEW throws \in BOOLEAN, Post(g), g = OnMessage(host, Answered[1], throws),
             Len(Answered) >= 1, Drops(Answered, 1, Answered'), Answered' \in Seq(Posts),
             toHost' \in Seq(Posts), stdout' \in Seq(Posts), host.link = "worker" => stdout' = <<>>
      PROVE  LandInv'
  <2>1. Handles(g, kernel, Asked, Answered')
    BY <1>0, <1>1, Received
  <2>2. Reaches(g, host.link)
    BY <1>0, <1>1, MessageReaches
  <2> QED BY <1>1, <2>1, <2>2, Posted
<1>2. ASSUME NEW throws \in BOOLEAN, DeliverFromWorker(throws) PROVE LandInv'
  <2>1. /\ toHost # <<>> /\ toHost' = Tail(toHost) /\ stdout' = stdout /\ stdout = <<>>
        /\ Post(OnMessage(host, Head(toHost), throws))
    BY <1>0, <1>2 DEF DeliverFromWorker
  <2>2. PICK b \in Seq(Posts) :
          b = Tail(toHost) /\ Drops(toHost, 1, b) /\ Len(toHost) >= 1 /\ Head(toHost) = toHost[1]
    BY <1>0, <2>1, TailDrops
  <2>3. Answered = toHost /\ Answered' = b
    BY <1>0, <2>1, <2>2 DEF Answered
  <2> QED BY <1>0, <1>1, <2>1, <2>2, <2>3
<1>3. CASE DeliverFromProcess
  <2>1. /\ stdout # <<>> /\ stdout' = Tail(stdout) /\ toHost' = toHost
        /\ Post(OnMessage(host, Head(stdout), FALSE)) /\ host.link = "serve"
    BY <1>3 DEF DeliverFromProcess
  <2>2. /\ Drops(stdout \o toHost, 1, Tail(stdout) \o toHost)
        /\ (stdout \o toHost)[1] = Head(stdout)
        /\ Len(stdout \o toHost) >= 1 /\ Tail(stdout) \o toHost \in Seq(Posts)
        /\ Tail(stdout) \in Seq(Posts)
    BY <1>0, <2>1, FrontDrops, TailDrops
  <2>3. /\ Drops(Answered, 1, Answered') /\ Answered[1] = Head(stdout)
        /\ Len(Answered) >= 1 /\ Answered' \in Seq(Posts) /\ stdout' \in Seq(Posts)
        /\ toHost' \in Seq(Posts)
    BY <1>0, <2>1, <2>2 DEF Answered
  <2>4. PICK throws \in BOOLEAN : throws = FALSE
    OBVIOUS
  <2>5. Post(OnMessage(host, Head(stdout), throws)) /\ host.link # "worker"
    BY <2>1, <2>4
  <2> QED BY <1>1, <2>3, <2>5
<1> QED BY <1>2, <1>3 DEF Deliver

(* The host lets go of the worker, or of the process's input.              *)
LEMMA ClosingKeeps ==
  ASSUME LandInv, Shutdown \/ EndInput
  PROVE  LandInv'
<1>0. /\ Ready(host, kernel, Asked, Answered) /\ Waits(host) /\ host \in Host
      /\ Reaches(host, host.link) /\ Answered \in Seq(Posts)
  BY HostReady
<1>1. PICK x \in Host : x = [host EXCEPT !.closed = TRUE]
  BY <1>0 DEF Host
<1>2. /\ x.link = host.link /\ x.calls = host.calls /\ x.pending = host.pending
      /\ x.disposed = host.disposed /\ x.edits = host.edits /\ x.revision = host.revision
      /\ x.queue = host.queue /\ x.sent = host.sent /\ x.rejected = host.rejected
      /\ x.resync = host.resync /\ x.outbox = host.outbox
  BY <1>0, <1>1 DEF Host
<1>3. Typed4(host, kernel, Asked, Answered) /\ Good(host, kernel, Asked, Answered)
      /\ Shape(host) /\ Queue(host) /\ Len(host.calls) \in Nat /\ host.edits \in Nat
  BY <1>0, ReadyIs
<1>4. Good(x, kernel, Asked, Answered)
  <2>1. Follows(host, x) /\ Settles(host, kernel, x)
    BY <1>2, <1>3 DEF Follows, Settles
  <2>2. \A i \in 1..Len(host.calls) : ~(i > Len(host.calls))
    BY <1>3
  <2>3. LastOut(x) = LastOut(host)
    BY <1>2 DEF LastOut
  <2>4. Keeps(host, x)
    BY <1>2, <1>3, <2>2, <2>3 DEF Keeps, Shape, Queue
  <2>5. Drops(Answered, 0, Answered)
    BY <1>0, NothingDrops
  <2> QED BY <1>0, <1>3, <2>1, <2>4, <2>5, Steady
<1>5. Ready(x, kernel, Asked, Answered) /\ Waits(x)
  BY <1>0, <1>2, <1>3, <1>4 DEF Ready, Typed4, Waits
<1>6. CASE Shutdown
  <2>1. Post(RejectChain(Dispose(x))) /\ UNCHANGED <<toHost, stdout>>
    BY <1>1, <1>6 DEF Shutdown
  <2>2. Handles(RejectChain(Dispose(x)), kernel, Asked, Answered)
    <3>1. Drops(Answered, 0, Answered)
      BY <1>0, NothingDrops
    <3> QED BY <1>0, <1>5, <3>1, Disposes
  <2>3. Reaches(RejectChain(Dispose(x)), host.link)
    <3>1. Reaches(x, host.link)
      BY <1>0, <1>1 DEF Reaches
    <3>2. Reaches(Dispose(x), host.link)
      BY <3>1 DEF Reaches, Dispose
    <3> QED BY <3>2, RejectReaches
  <2> QED BY <2>1, <2>2, <2>3, CalledKeeps
<1>7. CASE EndInput
  <2>1. /\ host' = x /\ kernel' = kernel /\ toKernel' = toKernel /\ toHost' = toHost
        /\ serve' = serve /\ stdin' = stdin /\ stdout' = stdout
    BY <1>1, <1>7 DEF EndInput, endpointVars, serveVars
  <2>2. Asked' = Asked /\ Answered' = Answered
    BY <2>1 DEF Asked, Answered
  <2>3. TypesHold' /\ Linked'
    BY <1>2, <2>1 DEF LandInv, TypesHold, Linked
  <2> QED BY <1>4, <1>5, <2>1, <2>2, <2>3 DEF LandInv
<1> QED BY <1>6, <1>7

-----------------------------------------------------------------------------
(* The theorem                                                             *)

(* Nothing is asked at first.                                              *)
LEMMA LandInit ==
  ASSUME HostClientInit
  PROVE  LandInv
<1>1. PICK link \in Links : host = EmptyHost(link)
  BY DEF HostClientInit
<1>2. /\ kernel = [session |-> 0, revision |-> 0, text |-> NoText,
                   queue |-> <<>>, cancelled |-> {}, up |-> TRUE]
      /\ toKernel = <<>> /\ toHost = <<>> /\ stdin = <<>> /\ stdout = <<>>
      /\ serve = [pending |-> {}, ended |-> FALSE, failed |-> FALSE, running |-> TRUE]
  BY DEF HostClientInit, EndpointInit, ServeInit
<1>3. /\ <<>> \in Seq(Call) /\ <<>> \in Seq(Messages) /\ <<>> \in Seq(Posts)
      /\ <<>> \in Seq(Runs) /\ <<>> \in Seq(Nat \ {0}) /\ {} \in SUBSET Nat /\ IsFiniteSet({})
      /\ NoText \in AnyText
  BY FS_EmptySet DEF AnyText
<1>4. host \in Host
  BY <1>1, <1>3 DEF EmptyHost, Host
<1>5. kernel \in Kernel /\ serve \in Serve
  BY <1>2, <1>3 DEF Kernel, Serve
<1>6. TypesHold
  BY <1>2, <1>3, <1>4, <1>5 DEF TypesHold
<1>7. /\ host.calls = <<>> /\ host.pending = {} /\ ~host.disposed /\ host.queue = <<>>
      /\ host.sent = 0 /\ host.rejected /\ host.resync = 0 /\ host.outbox = <<>>
      /\ kernel.session = 0 /\ kernel.queue = <<>> /\ serve.running
  BY <1>1, <1>2 DEF EmptyHost
<1>8. Linked /\ Waits(host)
  BY <1>2, <1>7 DEF Linked, Waits
<1>9. Asked = <<>> /\ Answered = <<>>
  BY <1>2 DEF Asked, Answered
<1>10. /\ Len(host.calls) = 0 /\ Len(Asked) = 0 /\ Len(Answered) = 0 /\ Len(kernel.queue) = 0
  BY <1>7, <1>9
<1>11. Shape(host) /\ Queue(host)
  BY <1>7, <1>10 DEF Shape, Queue
<1>12. Known(host, kernel, Asked, Answered) /\ Texts(host, kernel)
  BY <1>7, <1>10 DEF Known, Texts
<1>13. Order(host, Asked) /\ Changes(host, kernel, Asked) /\ Opens(host, kernel, Asked)
  BY <1>10 DEF Order, Changes, Opens
<1>14. Back(host, kernel, Asked, Answered)
  BY <1>10 DEF Back
<1>15. Good(host, kernel, Asked, Answered)
  BY <1>7, <1>11, <1>12, <1>13, <1>14 DEF Good
<1> QED BY <1>6, <1>8, <1>15 DEF LandInv

(* Every step keeps the invariant.                                         *)
LEMMA LandNext ==
  ASSUME LandInv, [HostClientNext]_hostClientVars
  PROVE  LandInv'
<1>1. CASE TypeInBinding \/ TypeInMonaco
  BY <1>1, TypingKeeps
<1>2. CASE SubmitRun \/ SubmitCancel \/ Resync
  BY <1>2, AskingKeeps
<1>3. CASE Shutdown \/ EndInput
  BY <1>3, ClosingKeeps
<1>4. CASE Deliver
  BY <1>4, DeliverKeeps
<1>5. CASE Process
  BY <1>5, ProcessKeeps
<1>6. CASE Worker
  BY <1>6, WorkerKeeps
<1>7. CASE Fail /\ UNCHANGED <<host, serveVars>>
  BY <1>7, FailKeeps
<1>8. CASE UNCHANGED hostClientVars
  <2>1. /\ host' = host /\ kernel' = kernel /\ toKernel' = toKernel /\ toHost' = toHost
        /\ serve' = serve /\ stdin' = stdin /\ stdout' = stdout
    BY <1>8 DEF hostClientVars, endpointVars, serveVars
  <2>2. Asked' = Asked /\ Answered' = Answered
    BY <2>1 DEF Asked, Answered
  <2> QED BY <2>1, <2>2 DEF LandInv, TypesHold, Linked
<1> QED BY <1>1, <1>2, <1>3, <1>4, <1>5, <1>6, <1>7, <1>8 DEF HostClientNext

(* What the invariant says of the kernel's text.                           *)
LEMMA LandImplies ==
  ASSUME LandInv
  PROVE  EditsLand
<1>1. /\ host \in Host /\ Good(host, kernel, Asked, Answered) /\ Waits(host)
      /\ DOMAIN host.calls = 1..Len(host.calls) /\ host.edits \in Nat
      /\ host.queue \in Seq(Nat \ {0})
  BY DEF LandInv, TypesHold, Host
<1>2. Texts(host, kernel) /\ Queue(host)
  BY <1>1 DEF Good
<1>3. kernel.session # 0 => \E n \in 0..host.edits : kernel.text = TextAfter(n)
  BY <1>2 DEF Texts
<1>4. \A i \in DOMAIN host.calls :
        host.calls[i].type = "change" /\ host.calls[i].outcome = "resolved" =>
          Len(kernel.text) >= host.calls[i].edit
  BY <1>1, <1>2 DEF Texts, IsChange
<1>5. ASSUME host.pending = {}, ~host.rejected
      PROVE  kernel.text = TextAfter(host.edits) /\ kernel.revision = host.revision
  <2>1. host.queue = <<>>
    BY <1>1, <1>2, <1>5 DEF Waits, Queue, Live
  <2>2. LastOut(host) = host.edits
    BY <1>1, <2>1 DEF LastOut
  <2>3. NoneOk(host, Answered)
    BY <1>5 DEF NoneOk, OkChange
  <2>4. Ahead(host, kernel, Answered)
    BY <1>1, <1>5 DEF Good
  <2> QED BY <1>5, <2>2, <2>3, <2>4 DEF Ahead
<1> QED BY <1>3, <1>4, <1>5 DEF EditsLand

(* Whatever the user types and the network delivers, however often an edit *)
(* is refused and the document opened again, and whenever the worker fails *)
(* or the host lets go of it: the kernel has a text the user had, with     *)
(* every edit it acknowledged, and agrees with a bound editor once nothing *)
(* is on its way.                                                          *)
THEOREM EditsAlwaysLand == HostClientSpec => []EditsLand
<1>1. HostClientInit => LandInv
  BY LandInit
<1>2. LandInv /\ [HostClientNext]_hostClientVars => LandInv'
  BY LandNext
<1>3. LandInv => EditsLand
  BY LandImplies
<1> QED BY <1>1, <1>2, <1>3, PTL DEF HostClientSpec
==============================================================================
