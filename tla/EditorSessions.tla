--------------------------- MODULE EditorSessions ---------------------------
(***************************************************************************)
(* The document sessions and metadata subscriptions of the editor kernel   *)
(* (runtime/editor-kernel.js).  The module holds the state that            *)
(* createEditorKernel closes over and one action per command that changes  *)
(* it; EditorKernel composes it with the dispatcher's run queue.           *)
(*                                                                         *)
(* A command that the kernel answers with an error, or with "unchanged",   *)
(* changes nothing and is a stuttering step.  A document's source is an    *)
(* opaque value: its hash (documentVersion) identifies it.                 *)
(***************************************************************************)
EXTENDS Integers, Sequences

CONSTANTS
  Documents,      \* documentIds a host may open
  Sources,        \* document texts
  Subscriptions,  \* subscriptionIds a host may choose
  MaxSessions,    \* bound: sessions created over a behaviour
  MaxRevision,    \* bound: revisions of one session
  MaxCredit,      \* the credit cap, 1024 in the code
  MaxChunks,      \* bound: chunks of one metadata delta
  NoDocument,     \* the documentId of a raw run and of an absent subscription
  NoSource        \* the source of a document that is not open

ASSUME SessionsAssumption ==
  /\ MaxSessions \in Nat /\ MaxRevision \in Nat \ {0}
  /\ MaxCredit \in Nat \ {0} /\ MaxChunks \in Nat
  /\ NoDocument \notin Documents
  /\ NoSource \notin Sources

VARIABLES
  documents,              \* editorDocuments
  editorSubscriptions,    \* editorSubscriptions
  editorSessionSequence   \* editorSessionSequence

sessionVars == <<documents, editorSubscriptions, editorSessionSequence>>

-----------------------------------------------------------------------------
(* State *)

(* The evidence a session's stage cache holds, reduced to its version and  *)
(* to the run that wrote it last (0: created empty).                       *)
Store == [version : Nat, writer : Nat]
EmptyStore == [version |-> 0, writer |-> 0]

(* What one evaluated revision published; revision 0 is null.              *)
Baseline == [revision : Nat, source : Sources \cup {NoSource}]
NoBaseline == [revision |-> 0, source |-> NoSource]

(* session 0 is a document that is not open.                               *)
Document == [session : Nat, source : Sources \cup {NoSource}, revision : Nat,
             publishedRevision : Nat, planBaseline : Baseline, stageCache : Store]
ClosedDocument ==
  [session |-> 0, source |-> NoSource, revision |-> 0,
   publishedRevision |-> 0, planBaseline |-> NoBaseline, stageCache |-> EmptyStore]

Delivery == {"snapshot-then-delta", "stream"}
Chunk == [cursor : Nat, sequence : Nat, total : Nat]

(* session 0 is a subscriptionId that is not in the map.                   *)
Subscription == [session : Nat, documentId : Documents \cup {NoDocument},
                 delivery : Delivery, credit : Nat, queue : Seq(Chunk),
                 cursor : Nat, baseline : Baseline]
NoSubscription ==
  [session |-> 0, documentId |-> NoDocument, delivery |-> "snapshot-then-delta",
   credit |-> 0, queue |-> <<>>, cursor |-> 0, baseline |-> NoBaseline]

SessionsTypeOK ==
  /\ documents \in [Documents -> Document]
  /\ editorSubscriptions \in [Subscriptions -> Subscription]
  /\ editorSessionSequence \in Nat

SessionsInit ==
  /\ documents = [d \in Documents |-> ClosedDocument]
  /\ editorSubscriptions = [s \in Subscriptions |-> NoSubscription]
  /\ editorSessionSequence = 0

IsOpen(d) == documents[d].session # 0
IsSubscribed(s) == editorSubscriptions[s].session # 0

-----------------------------------------------------------------------------
(* Commands on documents *)

(* Mutant: the old session's subscriptions survive its replacement.        *)
OpenKeepingSubscriptions(d, source, replaceSession) ==
  /\ editorSessionSequence < MaxSessions
  /\ replaceSession \/ documents[d].source # source
  /\ editorSessionSequence' = editorSessionSequence + 1
  /\ documents' = [documents EXCEPT ![d] =
       [ClosedDocument EXCEPT !.session = editorSessionSequence + 1,
                              !.source = source, !.revision = 1]]
  /\ UNCHANGED editorSubscriptions

(* A reopen of the same path and source without replaceSession is          *)
(* "unchanged"; every other open starts a session at revision 1.  The path *)
(* is not modelled: another path acts as replaceSession does.              *)
OpenEditorDocument(d, source, replaceSession) ==
  /\ editorSessionSequence < MaxSessions
  /\ replaceSession \/ documents[d].source # source
  /\ editorSessionSequence' = editorSessionSequence + 1
  /\ documents' = [documents EXCEPT ![d] =
       [ClosedDocument EXCEPT !.session = editorSessionSequence + 1,
                              !.source = source, !.revision = 1]]
  /\ editorSubscriptions' =
       [s \in Subscriptions |->
         IF editorSubscriptions[s].documentId = d THEN NoSubscription
                                                  ELSE editorSubscriptions[s]]

ApplyEditorChange(d, baseRevision, source) ==
  /\ IsOpen(d)
  /\ baseRevision = documents[d].revision
  /\ baseRevision < MaxRevision
  /\ source # documents[d].source
  /\ documents' = [documents EXCEPT ![d].source = source, ![d].revision = @ + 1]
  /\ UNCHANGED <<editorSubscriptions, editorSessionSequence>>

ImportEditorCache(d, checkpoint) ==
  /\ IsOpen(d)
  /\ documents' = [documents EXCEPT ![d].stageCache = checkpoint]
  /\ UNCHANGED <<editorSubscriptions, editorSessionSequence>>

-----------------------------------------------------------------------------
(* Subscriptions and credit *)

(* Mutant: subscribing an id again resumes its cursor and baseline.        *)
ResumeSubscription(d, s, delivery, initialCredit) ==
  /\ IsOpen(d)
  /\ editorSubscriptions' = [editorSubscriptions EXCEPT ![s] =
       [@ EXCEPT !.session = documents[d].session, !.documentId = d,
                 !.delivery = delivery, !.credit = initialCredit]]
  /\ UNCHANGED <<documents, editorSessionSequence>>

(* Subscribing an id again, to this or another document, replaces it.      *)
SubscribeEditorDocument(d, s, delivery, initialCredit) ==
  /\ IsOpen(d)
  /\ editorSubscriptions' = [editorSubscriptions EXCEPT ![s] =
       [NoSubscription EXCEPT !.session = documents[d].session, !.documentId = d,
                              !.delivery = delivery, !.credit = initialCredit]]
  /\ UNCHANGED <<documents, editorSessionSequence>>

(* The chunks that flushing posts, and the subscription it leaves.         *)
(* Mutant: a flush posts one chunk, whatever the credit.                   *)
FlushOnce(sub) == IF sub.credit > 0 /\ sub.queue # <<>> THEN 1 ELSE 0

FlushCount(sub) == IF sub.credit < Len(sub.queue) THEN sub.credit ELSE Len(sub.queue)
Flushed(sub) == SubSeq(sub.queue, 1, FlushCount(sub))

(* Mutant: what credit does not cover is dropped.                          *)
FlushAndDrop(sub) == [sub EXCEPT !.credit = @ - FlushCount(sub), !.queue = <<>>]

FlushEditorSubscription(sub) ==
  [sub EXCEPT !.credit = @ - FlushCount(sub),
              !.queue = SubSeq(@, FlushCount(sub) + 1, Len(@))]

Credited(sub, credit) ==
  [sub EXCEPT !.credit = IF @ + credit > MaxCredit THEN MaxCredit ELSE @ + credit]

CreditEditorSubscription(s, credit) ==
  /\ IsSubscribed(s)
  /\ editorSubscriptions' = [editorSubscriptions EXCEPT ![s] =
       FlushEditorSubscription(Credited(@, credit))]
  /\ UNCHANGED <<documents, editorSessionSequence>>

(* A stream subscription queues one chunk per item of the delta; count is  *)
(* the number of items its channel filter leaves.                          *)
EnqueueEditorDelta(sub, count) ==
  IF sub.delivery = "stream"
  THEN [sub EXCEPT !.queue = @ \o
          [i \in 1..count |-> [cursor |-> sub.cursor, sequence |-> i, total |-> count]]]
  ELSE sub

-----------------------------------------------------------------------------
(* Runs: what a run captures and what its completion changes *)

CaptureEditorRun(d) ==
  [documentId |-> d,
   session |-> documents[d].session,
   revision |-> documents[d].revision,
   source |-> documents[d].source,
   stageCacheBaseline |-> documents[d].stageCache,
   subscriptionIds |-> {s \in Subscriptions :
                         editorSubscriptions[s].session = documents[d].session}]

(* Mutant: the head's revision is compared, its session is not.            *)
HeadRevisionMatches(snapshot) ==
  documents[snapshot.documentId].revision = snapshot.revision

HeadMatches(snapshot) ==
  /\ documents[snapshot.documentId].session = snapshot.session
  /\ documents[snapshot.documentId].revision = snapshot.revision

(* The captured subscriptions that are still those of the run's session.   *)
Receivers(snapshot) ==
  {s \in snapshot.subscriptionIds : editorSubscriptions[s].session = snapshot.session}

EvaluatedBaseline(snapshot) == [revision |-> snapshot.revision, source |-> snapshot.source]

(* The subscription whose queue a publication extends, before the flush.   *)
PublishedSubscription(snapshot, sub, count) ==
  EnqueueEditorDelta([sub EXCEPT !.cursor = @ + 1, !.baseline = EvaluatedBaseline(snapshot)],
                     count)

(* A journal is committed onto the store it was read from, or discarded.   *)
FinalizeStageCache(snapshot, store, commit, writes, writer) ==
  IF commit /\ writes /\ store.version = snapshot.stageCacheBaseline.version
  THEN [version |-> store.version + 1, writer |-> writer]
  ELSE store

(* completeEditorRun of a core result that committed on the current head.  *)
PublishEditorRun(snapshot, gatePassed, writes, writer, counts) ==
  LET document == documents[snapshot.documentId]
      store == FinalizeStageCache(snapshot, document.stageCache, gatePassed, writes, writer)
  IN
  /\ documents' = [documents EXCEPT ![snapshot.documentId] =
       [document EXCEPT !.publishedRevision = snapshot.revision,
                        !.planBaseline = EvaluatedBaseline(snapshot),
                        !.stageCache = store]]
  /\ editorSubscriptions' = [s \in Subscriptions |->
       IF s \in Receivers(snapshot)
       THEN FlushEditorSubscription(
              PublishedSubscription(snapshot, editorSubscriptions[s], counts[s]))
       ELSE editorSubscriptions[s]]
  /\ UNCHANGED editorSessionSequence
=============================================================================
