------------------------ MODULE EditorStreams_proofs ------------------------
(***************************************************************************)
(* What a metadata subscription receives, for every value of               *)
(* EditorKernel's constants: where its baseline stands, that the host      *)
(* knows it, and that its chunks form gapless deltas paid for by credit.   *)
(***************************************************************************)
EXTENDS EditorKernel_proofs

-----------------------------------------------------------------------------
(* Types at hand *)

LEMMA DocumentTypes ==
  ASSUME TypeInv
  PROVE  /\ documents \in [Documents -> Document]
         /\ \A d \in Documents :
              /\ documents[d].session \in Nat /\ documents[d].revision \in Nat
              /\ documents[d].publishedRevision \in Nat
              /\ documents[d].planBaseline \in Baseline
  BY DEF TypeInv, TypeOK, SessionsTypeOK, Document

LEMMA SubscriptionTypes ==
  ASSUME TypeInv
  PROVE  /\ editorSubscriptions \in [Subscriptions -> Subscription]
         /\ \A s \in Subscriptions :
              /\ editorSubscriptions[s] \in Subscription
              /\ editorSubscriptions[s].session \in Nat
              /\ editorSubscriptions[s].credit \in Nat
              /\ editorSubscriptions[s].cursor \in Nat
              /\ editorSubscriptions[s].queue \in Seq(Chunk)
              /\ hostChunks[s] \in Seq(Chunk)
  BY DEF TypeInv, TypeOK, SessionsTypeOK, Subscription

-----------------------------------------------------------------------------
(* Subscribers and publications *)

(* A subscription in the map names a document.                             *)
SubscribedDocuments ==
  \A s \in Subscriptions : IsSubscribed(s) => editorSubscriptions[s].documentId \in Documents

(* A document's last publication is not ahead of its head, and one of the  *)
(* head's revision is of the head's text.                                  *)
PublishedUpToHead ==
  \A d \in Documents :
    LET document == documents[d] IN
    /\ document.planBaseline.revision = document.publishedRevision
    /\ document.publishedRevision <= document.revision
    /\ document.publishedRevision = document.revision /\ document.session # 0
         => document.planBaseline.source = document.source

(* The session a run captured is of no other document.                     *)
OwnSession(snapshot) ==
  \A d \in Documents : documents[d].session = snapshot.session => d = snapshot.documentId

(* A subscription of the run's session that has received something was     *)
(* captured by the run, or what the run captured has been published since. *)
(* Without this SubscriberInSync is not inductive: a subscription may      *)
(* leave, come back and be served by an earlier run after a later one was  *)
(* accepted without it.                                                    *)
Covers(snapshot, s) ==
  LET sub == editorSubscriptions[s] IN
  sub.session = snapshot.session /\ sub.cursor > 0
    => \/ s \in snapshot.subscriptionIds
       \/ snapshot.revision <= documents[sub.documentId].publishedRevision

SnapshotCovers(snapshot) ==
  snapshot.documentId # NoDocument =>
    OwnSession(snapshot) /\ \A s \in Subscriptions : Covers(snapshot, s)

QueueCovers == \A i \in 1..Len(runQueue) : SnapshotCovers(runQueue[i].snapshot)

SyncInv == /\ SubscriberInSync /\ SubscribedDocuments
           /\ PublishedUpToHead /\ QueueCovers

(* Snapshots that cover through a step that only shrinks the queue.        *)
LEMMA CoversKept ==
  ASSUME RunInv, SnapshotsHold, QueueCovers,
         runQueue' = runQueue \/ (runQueue # <<>> /\ runQueue' = Tail(runQueue)),
         \A snapshot \in Snapshot :
           SnapshotHolds(snapshot) /\ SnapshotCovers(snapshot) => SnapshotCovers(snapshot)'
  PROVE  QueueCovers'
<1> SUFFICES ASSUME NEW i \in 1..Len(runQueue')
             PROVE  SnapshotCovers(runQueue[i].snapshot)'
  BY DEF QueueCovers
<1>1. PICK j \in 1..Len(runQueue) : runQueue'[i] = runQueue[j]
  BY QueueShrinks
<1>2. /\ runQueue[j].snapshot \in Snapshot /\ SnapshotHolds(runQueue[j].snapshot)
      /\ SnapshotCovers(runQueue[j].snapshot)
  BY QueuedRunTypes DEF SnapshotsHold, QueueCovers, RunInv
<1>3. PICK snapshot \in Snapshot : snapshot = runQueue[j].snapshot
  BY <1>2
<1>4. SnapshotCovers(snapshot)'
  BY <1>2, <1>3
<1> QED
  BY <1>1, <1>3, <1>4 DEF SnapshotCovers, OwnSession, Covers

-----------------------------------------------------------------------------
(* Steps that disturb subscribers *)

(* A new session closes every subscription of the one it replaces.         *)
LEMMA OpenInSync ==
  ASSUME PublicationInv, SyncInv, NEW d \in Documents, NEW source \in Sources,
         NEW replaceSession \in BOOLEAN, Open(d, source, replaceSession)
  PROVE  SyncInv'
<1>t. TypeInv
  BY DEF PublicationInv, RunInv
<1>1. /\ documents' = [documents EXCEPT ![d] =
           [ClosedDocument EXCEPT !.session = editorSessionSequence + 1,
                                  !.source = source, !.revision = 1]]
      /\ editorSubscriptions' =
           [s \in Subscriptions |->
             IF editorSubscriptions[s].documentId = d THEN NoSubscription
                                                      ELSE editorSubscriptions[s]]
      /\ runQueue' = runQueue
  BY DEF Open, OpenEditorDocument, runVars
<1>2. /\ documents'[d].session = editorSessionSequence + 1
      /\ documents'[d].revision = 1 /\ documents'[d].publishedRevision = 0
      /\ documents'[d].planBaseline = NoBaseline
      /\ \A e \in Documents \ {d} : documents'[e] = documents[e]
  BY <1>1, <1>t, DocumentTypes DEF ClosedDocument
<1>3. \A s \in Subscriptions :
        \/ editorSubscriptions'[s].session = 0 /\ editorSubscriptions'[s].cursor = 0
        \/ /\ editorSubscriptions'[s] = editorSubscriptions[s]
           /\ editorSubscriptions[s].documentId # d
  BY <1>1 DEF NoSubscription
<1>4. SubscriberInSync' /\ SubscribedDocuments'
  BY <1>2, <1>3 DEF SyncInv, SubscriberInSync, SubscribedDocuments, IsSubscribed
<1>5. PublishedUpToHead'
  BY <1>2 DEF SyncInv, PublishedUpToHead, NoBaseline
<1>6. ASSUME NEW snapshot \in Snapshot, SnapshotHolds(snapshot), SnapshotCovers(snapshot),
             snapshot.documentId # NoDocument
      PROVE  SnapshotCovers(snapshot)'
  <2>1. snapshot.session \in 1..editorSessionSequence
    BY <1>6 DEF SnapshotHolds
  <2>2. OwnSession(snapshot)'
    BY <1>2, <1>6, <1>t, <2>1, SessionTypes DEF SnapshotCovers, OwnSession
  <2>3. \A s \in Subscriptions : Covers(snapshot, s)'
    BY <1>2, <1>3, <1>6, <2>1
    DEF SyncInv, SnapshotCovers, Covers, SubscribedDocuments, IsSubscribed
  <2> QED
    BY <2>2, <2>3 DEF SnapshotCovers
<1>7. QueueCovers'
  <2>1. \A snapshot \in Snapshot :
          SnapshotHolds(snapshot) /\ SnapshotCovers(snapshot) => SnapshotCovers(snapshot)'
    BY <1>6 DEF SnapshotCovers
  <2> QED
    BY <1>1, <2>1, CoversKept DEF PublicationInv, SyncInv
<1> QED
  BY <1>4, <1>5, <1>7 DEF SyncInv

(* Sessions, publications and heads that only move on keep subscribers     *)
(* where they are.                                                         *)
LEMMA DocumentsInSync ==
  ASSUME PublicationInv, SyncInv, editorSubscriptions' = editorSubscriptions,
         runQueue' = runQueue,
         \A d \in Documents :
           /\ documents'[d].session = documents[d].session
           /\ documents'[d].publishedRevision = documents[d].publishedRevision
           /\ documents'[d].planBaseline = documents[d].planBaseline
           /\ \/ /\ documents'[d].revision = documents[d].revision
                 /\ documents'[d].source = documents[d].source
              \/ documents'[d].revision = documents[d].revision + 1
  PROVE  SyncInv'
<1>t. TypeInv
  BY DEF PublicationInv, RunInv
<1>1. SubscriberInSync' /\ SubscribedDocuments'
  BY DEF SyncInv, SubscriberInSync, SubscribedDocuments, IsSubscribed
<1>2. PublishedUpToHead'
  BY <1>t, DocumentTypes DEF SyncInv, PublishedUpToHead
<1>3. ASSUME NEW snapshot \in Snapshot, SnapshotHolds(snapshot), SnapshotCovers(snapshot),
             snapshot.documentId # NoDocument
      PROVE  SnapshotCovers(snapshot)'
  <2>1. snapshot.session # 0
    BY <1>3 DEF SnapshotHolds
  <2>2. OwnSession(snapshot)'
    BY <1>3 DEF SnapshotCovers, OwnSession
  <2>3. \A s \in Subscriptions : Covers(snapshot, s)'
    BY <1>3, <2>1 DEF SyncInv, SnapshotCovers, Covers, SubscribedDocuments, IsSubscribed
  <2> QED
    BY <2>2, <2>3 DEF SnapshotCovers
<1>4. QueueCovers'
  <2>1. \A snapshot \in Snapshot :
          SnapshotHolds(snapshot) /\ SnapshotCovers(snapshot) => SnapshotCovers(snapshot)'
    BY <1>3 DEF SnapshotCovers
  <2> QED
    BY <2>1, CoversKept DEF PublicationInv, SyncInv
<1> QED
  BY <1>1, <1>2, <1>4 DEF SyncInv

(* A subscription that starts afresh, or only spends credit, stays in      *)
(* step; the others are untouched.                                         *)
LEMMA SubscriberKept ==
  ASSUME PublicationInv, SyncInv, documents' = documents, runQueue' = runQueue,
         NEW s \in Subscriptions,
         \A t \in Subscriptions \ {s} : editorSubscriptions'[t] = editorSubscriptions[t],
         \/ /\ editorSubscriptions'[s].documentId \in Documents
            /\ editorSubscriptions'[s].session
                 = documents[editorSubscriptions'[s].documentId].session
            /\ editorSubscriptions'[s].cursor = 0
            /\ editorSubscriptions'[s].baseline = NoBaseline
         \/ /\ editorSubscriptions'[s].documentId = editorSubscriptions[s].documentId
            /\ editorSubscriptions'[s].session = editorSubscriptions[s].session
            /\ editorSubscriptions'[s].cursor = editorSubscriptions[s].cursor
            /\ editorSubscriptions'[s].baseline = editorSubscriptions[s].baseline
  PROVE  SyncInv'
<1>1. SubscriberInSync' /\ SubscribedDocuments'
  BY DEF SyncInv, SubscriberInSync, SubscribedDocuments, IsSubscribed
<1>2. PublishedUpToHead'
  BY DEF SyncInv, PublishedUpToHead
<1>3. \A snapshot \in Snapshot : SnapshotCovers(snapshot) => SnapshotCovers(snapshot)'
  <2> SUFFICES ASSUME NEW snapshot \in Snapshot, SnapshotCovers(snapshot),
                      snapshot.documentId # NoDocument
               PROVE  SnapshotCovers(snapshot)'
    BY DEF SnapshotCovers
  <2>1. OwnSession(snapshot)'
    BY DEF SnapshotCovers, OwnSession
  <2>2. ASSUME NEW t \in Subscriptions PROVE Covers(snapshot, t)'
    <3>1. CASE t = s
      BY <3>1 DEF SnapshotCovers, Covers
    <3>2. CASE t # s
      BY <3>2 DEF SnapshotCovers, Covers
    <3> QED
      BY <3>1, <3>2
  <2> QED
    BY <2>1, <2>2 DEF SnapshotCovers
<1>4. QueueCovers'
  BY <1>3, CoversKept DEF PublicationInv, SyncInv
<1> QED
  BY <1>1, <1>2, <1>4 DEF SyncInv

(* A run captures every subscription of its session.                       *)
LEMMA CaptureCovers ==
  ASSUME TypeInv, SessionsOrdered, NEW d \in Documents, IsOpen(d)
  PROVE  SnapshotCovers(CaptureEditorRun(d))
  BY SessionTypes
  DEF CaptureEditorRun, SnapshotCovers, OwnSession, Covers, SessionsOrdered, IsOpen

LEMMA EnqueueInSync ==
  ASSUME PublicationInv, SyncInv, NEW r \in RunIds, NEW payload \in Payloads,
         NEW snapshot \in Snapshot, SnapshotCovers(snapshot), Enqueue(r, payload, snapshot)
  PROVE  SyncInv'
<1>1. /\ documents' = documents /\ editorSubscriptions' = editorSubscriptions
      /\ runQueue' = Append(runQueue, [runId |-> r, payload |-> payload, snapshot |-> snapshot])
  BY DEF Enqueue, sessionVars
<1>2. SubscriberInSync' /\ SubscribedDocuments' /\ PublishedUpToHead'
  BY <1>1 DEF SyncInv, SubscriberInSync, SubscribedDocuments, IsSubscribed, PublishedUpToHead
<1>3. ASSUME NEW i \in 1..Len(runQueue')
      PROVE  SnapshotCovers(runQueue[i].snapshot)'
  <2>1. [runId |-> r, payload |-> payload, snapshot |-> snapshot] \in Run
    BY DEF Run
  <2>2. runQueue \in Seq(Run) /\ Len(runQueue) \in Nat
    BY LenProperties DEF PublicationInv, RunInv, TypeInv, TypeOK
  <2>3. \/ runQueue'[i].snapshot = snapshot
        \/ i \in 1..Len(runQueue) /\ runQueue'[i] = runQueue[i]
    BY <1>1, <2>1, <2>2, AppendFacts
  <2>4. SnapshotCovers(runQueue'[i].snapshot)
    BY <2>3 DEF SyncInv, QueueCovers
  <2> QED
    BY <1>1, <2>4 DEF SnapshotCovers, OwnSession, Covers
<1> QED
  BY <1>2, <1>3 DEF SyncInv, QueueCovers

(* A flush leaves everything but the credit and the queue.                 *)
LEMMA FlushKeeps ==
  ASSUME NEW sub \in Subscription
  PROVE  LET new == FlushEditorSubscription(sub) IN
         /\ new.session = sub.session /\ new.documentId = sub.documentId
         /\ new.cursor = sub.cursor /\ new.baseline = sub.baseline
         /\ new.credit = sub.credit - FlushCount(sub)
         /\ new.queue = SubSeq(sub.queue, FlushCount(sub) + 1, Len(sub.queue))
  BY DEF Subscription, FlushEditorSubscription

(* A publication moves a receiver's cursor and baseline, and nothing of    *)
(* where it belongs.                                                       *)
LEMMA ReceiverFacts ==
  ASSUME NEW sub \in Subscription, NEW snapshot \in Snapshot, NEW count \in 0..MaxChunks
  PROVE  LET new == FlushEditorSubscription(PublishedSubscription(snapshot, sub, count)) IN
         /\ new.session = sub.session /\ new.documentId = sub.documentId
         /\ new.cursor = sub.cursor + 1
         /\ new.baseline = EvaluatedBaseline(snapshot)
<1>1. PublishedSubscription(snapshot, sub, count) \in Subscription
  BY PublishedSubscriptionType
<1>2. PICK published \in Subscription : published = PublishedSubscription(snapshot, sub, count)
  BY <1>1
<1>3. /\ published.session = sub.session /\ published.documentId = sub.documentId
      /\ published.cursor = sub.cursor + 1
      /\ published.baseline = EvaluatedBaseline(snapshot)
  BY <1>2 DEF Subscription, PublishedSubscription, EnqueueEditorDelta
<1> QED
  BY <1>2, <1>3, FlushKeeps

(* A publication on the head brings every subscriber of its document to    *)
(* it: those it captured by sending them a delta, the others because they  *)
(* have received nothing or stand there already.                           *)
LEMMA PublishInSync ==
  ASSUME PublicationInv, SyncInv, NEW gatePassed \in BOOLEAN, NEW writes \in Journals,
         NEW counts \in [Subscriptions -> 0..MaxChunks],
         PublishRun(gatePassed, writes, counts)
  PROVE  SyncInv'
<1>t. TypeInv
  BY DEF PublicationInv, RunInv
<1>0. /\ current = runQueue[1] /\ 1 \in 1..Len(runQueue) /\ runQueue # <<>>
      /\ runQueue' = Tail(runQueue)
      /\ current.snapshot \in Snapshot /\ current.snapshot.documentId \in Documents
  BY <1>t, CurrentType DEF PublishRun, Concluding, LeaveQueue, IsEditorRun, Run, Snapshot
<1>s. PICK snapshot \in Snapshot : snapshot = current.snapshot
  BY <1>0
<1>d. PICK d \in Documents : d = snapshot.documentId
  BY <1>0, <1>s
<1> DEFINE store == FinalizeStageCache(snapshot, documents[d].stageCache, gatePassed, writes,
                                       runInstanceSequence)
<1>1. /\ HeadMatches(snapshot) /\ SnapshotHolds(snapshot) /\ SnapshotCovers(snapshot)
      /\ PublishEditorRun(snapshot, gatePassed, writes, runInstanceSequence, counts)
  BY <1>0, <1>s DEF PublishRun, PublicationInv, SnapshotsHold, SyncInv, QueueCovers
<1>2. documents' = [documents EXCEPT ![d] =
        [documents[d] EXCEPT !.publishedRevision = snapshot.revision,
           !.planBaseline = EvaluatedBaseline(snapshot), !.stageCache = store]]
  BY <1>1, <1>d DEF PublishEditorRun
<1> HIDE DEF store
<1>3. /\ documents'[d].session = documents[d].session
      /\ documents'[d].revision = documents[d].revision
      /\ documents'[d].source = documents[d].source
      /\ documents'[d].publishedRevision = snapshot.revision
      /\ documents'[d].planBaseline = EvaluatedBaseline(snapshot)
      /\ \A e \in Documents \ {d} : documents'[e] = documents[e]
  BY <1>t, <1>2, DocumentTypes DEF Document
<1>4. /\ documents[d].session # 0 /\ documents[d].session = snapshot.session
      /\ documents[d].revision = snapshot.revision /\ documents[d].source = snapshot.source
  BY <1>t, <1>1, <1>d, SessionsAssumption, SessionTypes DEF SnapshotHolds, HeadMatches
<1>5. ASSUME NEW s \in Subscriptions
      PROVE  IF s \in Receivers(snapshot)
             THEN /\ editorSubscriptions'[s].session = editorSubscriptions[s].session
                  /\ editorSubscriptions'[s].documentId = editorSubscriptions[s].documentId
                  /\ editorSubscriptions'[s].cursor = editorSubscriptions[s].cursor + 1
                  /\ editorSubscriptions'[s].baseline = EvaluatedBaseline(snapshot)
             ELSE editorSubscriptions'[s] = editorSubscriptions[s]
  <2>1. editorSubscriptions'[s] =
          IF s \in Receivers(snapshot)
          THEN FlushEditorSubscription(
                 PublishedSubscription(snapshot, editorSubscriptions[s], counts[s]))
          ELSE editorSubscriptions[s]
    BY <1>1 DEF PublishEditorRun
  <2> QED
    BY <1>t, <2>1, ReceiverFacts, SubscriptionTypes
<1>6. \A s \in Subscriptions :
        s \in Receivers(snapshot) => editorSubscriptions[s].documentId = d
  BY <1>4, <1>t, DocumentTypes
  DEF Receivers, SyncInv, SubscriberInSync, SubscribedDocuments, IsSubscribed,
      PublicationInv, SessionsOrdered
<1>7. \A s \in Subscriptions :
        /\ IsSubscribed(s) /\ editorSubscriptions[s].documentId = d
        /\ s \notin Receivers(snapshot) /\ editorSubscriptions[s].cursor > 0
        => documents[d].planBaseline = EvaluatedBaseline(snapshot)
  <2> SUFFICES ASSUME NEW s \in Subscriptions, IsSubscribed(s),
                      editorSubscriptions[s].documentId = d,
                      s \notin Receivers(snapshot), editorSubscriptions[s].cursor > 0
               PROVE  documents[d].planBaseline = EvaluatedBaseline(snapshot)
    OBVIOUS
  <2>1. editorSubscriptions[s].session = snapshot.session
    BY <1>4 DEF SyncInv, SubscriberInSync
  <2>2. snapshot.revision <= documents[d].publishedRevision
    <3>1. s \notin snapshot.subscriptionIds
      BY <2>1 DEF Receivers
    <3> QED
      BY <1>1, <1>d, <2>1, <3>1, SessionsAssumption DEF SnapshotCovers, Covers
  <2>3. /\ documents[d].planBaseline \in Baseline
        /\ documents[d].planBaseline.revision = snapshot.revision
        /\ documents[d].planBaseline.source = snapshot.source
    BY <1>4, <1>t, <2>2, DocumentTypes DEF SyncInv, PublishedUpToHead
  <2> QED
    BY <2>3 DEF Baseline, EvaluatedBaseline
<1>8. SubscriberInSync'
  <2> SUFFICES ASSUME NEW s \in Subscriptions, IsSubscribed(s)'
               PROVE  LET sub == editorSubscriptions'[s]
                          document == documents'[sub.documentId]
                      IN  /\ sub.session = document.session
                          /\ sub.cursor = 0 => sub.baseline = NoBaseline
                          /\ sub.cursor > 0 =>
                               /\ sub.baseline = document.planBaseline
                               /\ sub.baseline.revision = document.publishedRevision
    BY DEF SubscriberInSync
  <2>1. /\ IsSubscribed(s)
        /\ editorSubscriptions'[s].documentId = editorSubscriptions[s].documentId
        /\ editorSubscriptions'[s].session = editorSubscriptions[s].session
        /\ editorSubscriptions[s].documentId \in Documents
        /\ editorSubscriptions[s].session = documents[editorSubscriptions[s].documentId].session
    BY <1>5 DEF IsSubscribed, SyncInv, SubscribedDocuments, SubscriberInSync
  <2>2. CASE s \in Receivers(snapshot)
    BY <1>3, <1>5, <1>6, <1>t, <2>1, <2>2, SubscriptionTypes DEF EvaluatedBaseline
  <2>3. CASE s \notin Receivers(snapshot) /\ editorSubscriptions[s].documentId = d
    <3>1. editorSubscriptions'[s] = editorSubscriptions[s]
      BY <1>5, <2>3
    <3>2. editorSubscriptions[s].cursor > 0 =>
            /\ documents'[d].planBaseline = documents[d].planBaseline
            /\ documents'[d].publishedRevision = documents[d].planBaseline.revision
      BY <1>3, <1>7, <2>1, <2>3 DEF EvaluatedBaseline
    <3> QED
      BY <1>3, <2>1, <2>3, <3>1, <3>2 DEF SyncInv, SubscriberInSync
  <2>4. CASE editorSubscriptions[s].documentId # d
    <3>1. /\ editorSubscriptions'[s] = editorSubscriptions[s]
          /\ documents'[editorSubscriptions[s].documentId]
               = documents[editorSubscriptions[s].documentId]
      BY <1>3, <1>5, <1>6, <2>1, <2>4
    <3> QED
      BY <2>1, <3>1 DEF SyncInv, SubscriberInSync
  <2> QED
    BY <2>2, <2>3, <2>4
<1>9. SubscribedDocuments'
  BY <1>5 DEF SyncInv, SubscribedDocuments, IsSubscribed
<1>10. PublishedUpToHead'
  BY <1>3, <1>4, <1>t, DocumentTypes DEF SyncInv, PublishedUpToHead, EvaluatedBaseline
<1>11. ASSUME NEW t \in Snapshot, SnapshotHolds(t), SnapshotCovers(t), t.documentId # NoDocument
       PROVE  SnapshotCovers(t)'
  <2>1. t.session \in 1..editorSessionSequence
    BY <1>11 DEF SnapshotHolds
  <2>2. OwnSession(t)'
    BY <1>3, <1>11 DEF SnapshotCovers, OwnSession
  <2>3. ASSUME NEW s \in Subscriptions,
               editorSubscriptions'[s].session = t.session,
               editorSubscriptions'[s].cursor > 0
        PROVE  \/ s \in t.subscriptionIds
               \/ t.revision <= documents'[editorSubscriptions'[s].documentId].publishedRevision
    <3>1. /\ editorSubscriptions'[s].documentId = editorSubscriptions[s].documentId
          /\ editorSubscriptions[s].session = t.session /\ IsSubscribed(s)
          /\ editorSubscriptions[s].documentId \in Documents
          /\ editorSubscriptions[s].session = documents[editorSubscriptions[s].documentId].session
      BY <1>5, <2>1, <2>3 DEF IsSubscribed, SyncInv, SubscribedDocuments, SubscriberInSync
    <3>2. CASE editorSubscriptions[s].documentId = d
      <4>1. t.documentId = d
        BY <1>11, <3>1, <3>2 DEF SnapshotCovers, OwnSession
      <4>2. t.revision <= documents[d].revision
        BY <1>11, <3>1, <3>2, <4>1 DEF SnapshotHolds
      <4> QED
        BY <1>3, <1>4, <3>1, <3>2, <4>2
    <3>3. CASE editorSubscriptions[s].documentId # d
      <4>1. /\ editorSubscriptions'[s] = editorSubscriptions[s]
            /\ documents'[editorSubscriptions[s].documentId]
                 = documents[editorSubscriptions[s].documentId]
        BY <1>3, <1>5, <1>6, <3>1, <3>3
      <4> QED
        BY <1>11, <2>3, <4>1 DEF SnapshotCovers, Covers
    <3> QED
      BY <3>2, <3>3
  <2> QED
    BY <2>2, <2>3 DEF SnapshotCovers, Covers
<1>12. QueueCovers'
  <2>1. \A t \in Snapshot : SnapshotHolds(t) /\ SnapshotCovers(t) => SnapshotCovers(t)'
    BY <1>11 DEF SnapshotCovers
  <2> QED
    BY <1>0, <2>1, CoversKept DEF PublicationInv, SyncInv
<1> QED
  BY <1>8, <1>9, <1>10, <1>12 DEF SyncInv

-----------------------------------------------------------------------------
(* Every step keeps subscribers in step *)

(* Every step keeps subscribers in step with what is published.            *)
LEMMA SyncStep == PublicationInv /\ SyncInv /\ [Next]_vars => SyncInv'
<1> SUFFICES ASSUME PublicationInv, SyncInv, [Next]_vars PROVE SyncInv'
  OBVIOUS
<1>t. TypeInv
  BY DEF PublicationInv, RunInv
<1>1. ASSUME documents' = documents, editorSubscriptions' = editorSubscriptions,
             runQueue' = runQueue \/ (runQueue # <<>> /\ runQueue' = Tail(runQueue))
      PROVE  SyncInv'
  <2>1. \A snapshot \in Snapshot :
          SnapshotHolds(snapshot) /\ SnapshotCovers(snapshot) => SnapshotCovers(snapshot)'
    BY <1>1 DEF SnapshotCovers, OwnSession, Covers
  <2>2. QueueCovers'
    BY <1>1, <2>1, CoversKept DEF PublicationInv, SyncInv
  <2> QED
    BY <1>1, <2>2
    DEF SyncInv, SubscriberInSync, SubscribedDocuments, IsSubscribed, PublishedUpToHead
<1>2. ASSUME NEW d \in Documents, NEW baseRevision \in 1..MaxRevision, NEW source \in Sources,
             Change(d, baseRevision, source)
      PROVE  SyncInv'
  <2>1. documents' = [documents EXCEPT ![d] =
          [documents[d] EXCEPT !.source = source, !.revision = documents[d].revision + 1]]
    BY <1>2, <1>t, DocumentTypes DEF Change, ApplyEditorChange, Document
  <2>2. editorSubscriptions' = editorSubscriptions /\ runQueue' = runQueue
    BY <1>2 DEF Change, ApplyEditorChange, runVars
  <2> QED
    BY <1>t, <2>1, <2>2, DocumentTypes, DocumentsInSync DEF Document
<1>3. ASSUME NEW d \in Documents, ImportCache(d)
      PROVE  SyncInv'
  <2>1. documents' = [documents EXCEPT ![d] = [documents[d] EXCEPT !.stageCache = hostCheckpoint]]
    BY <1>3 DEF ImportCache, ImportEditorCache
  <2>2. editorSubscriptions' = editorSubscriptions /\ runQueue' = runQueue
    BY <1>3 DEF ImportCache, ImportEditorCache, runVars
  <2> QED
    BY <1>t, <2>1, <2>2, DocumentTypes, DocumentsInSync DEF Document
<1>4. ASSUME NEW d \in Documents, NEW s \in Subscriptions, NEW delivery \in Delivery,
             NEW initialCredit \in 0..MaxCredit, Subscribe(d, s, delivery, initialCredit)
      PROVE  SyncInv'
  <2>1. /\ documents' = documents /\ runQueue' = runQueue
        /\ editorSubscriptions' = [editorSubscriptions EXCEPT ![s] =
             [NoSubscription EXCEPT !.session = documents[d].session, !.documentId = d,
                                    !.delivery = delivery, !.credit = initialCredit]]
    BY <1>4 DEF Subscribe, SubscribeEditorDocument, runVars
  <2>2. /\ editorSubscriptions'[s].documentId = d
        /\ editorSubscriptions'[s].session = documents[d].session
        /\ editorSubscriptions'[s].cursor = 0
        /\ editorSubscriptions'[s].baseline = NoBaseline
        /\ \A t \in Subscriptions \ {s} : editorSubscriptions'[t] = editorSubscriptions[t]
    BY <1>t, <2>1, SubscriptionTypes DEF NoSubscription
  <2> QED
    BY <2>1, <2>2, SubscriberKept
<1>5. ASSUME NEW s \in Subscriptions, NEW credit \in 1..MaxCredit, Credit(s, credit)
      PROVE  SyncInv'
  <2>1. /\ documents' = documents /\ runQueue' = runQueue
        /\ editorSubscriptions' = [editorSubscriptions EXCEPT ![s] =
             FlushEditorSubscription(Credited(editorSubscriptions[s], credit))]
    BY <1>5 DEF Credit, CreditEditorSubscription, runVars
  <2>2. PICK credited \in Subscription : credited = Credited(editorSubscriptions[s], credit)
    BY <1>t, SubscriptionTypes, CreditedType, SessionsAssumption
  <2>3. /\ credited.session = editorSubscriptions[s].session
        /\ credited.documentId = editorSubscriptions[s].documentId
        /\ credited.cursor = editorSubscriptions[s].cursor
        /\ credited.baseline = editorSubscriptions[s].baseline
    BY <1>t, <2>2, SubscriptionTypes DEF Credited, Subscription
  <2>4. /\ editorSubscriptions'[s] = FlushEditorSubscription(credited)
        /\ \A t \in Subscriptions \ {s} : editorSubscriptions'[t] = editorSubscriptions[t]
    BY <1>t, <2>1, <2>2, SubscriptionTypes
  <2> QED
    BY <2>1, <2>3, <2>4, FlushKeeps, SubscriberKept
<1>6. ASSUME NEW r \in RunIds, NEW payload \in Payloads, NEW d \in Documents,
             NEW documentRevision \in 1..MaxRevision,
             SubmitRun(r, payload, d, documentRevision)
      PROVE  SyncInv'
  <2>1. /\ CaptureEditorRun(d) \in Snapshot /\ SnapshotCovers(CaptureEditorRun(d))
        /\ Enqueue(r, payload, CaptureEditorRun(d))
    BY <1>6, <1>t, CaptureType, CaptureCovers DEF SubmitRun, TypeInv, PublicationInv
  <2> QED
    BY <2>1, EnqueueInSync
<1>7. ASSUME NEW r \in RunIds, NEW payload \in Payloads, SubmitRawRun(r, payload)
      PROVE  SyncInv'
  <2>1. NoSnapshot \in Snapshot /\ SnapshotCovers(NoSnapshot)
    BY DEF NoSnapshot, Snapshot, EmptyStore, Store, SnapshotCovers
  <2> QED
    BY <1>7, <2>1, EnqueueInSync DEF SubmitRawRun
<1>8. CASE Command
  <2>1. ASSUME NEW d \in Documents, ExportCache(d) PROVE SyncInv'
    BY <1>1, <2>1 DEF ExportCache, sessionVars, runVars
  <2>2. ASSUME NEW r \in RunIds, Cancel(r) PROVE SyncInv'
    BY <1>1, <2>2 DEF Cancel, sessionVars
  <2> QED
    BY <1>2, <1>3, <1>4, <1>5, <1>6, <1>7, <1>8, <2>1, <2>2, OpenInSync DEF Command
<1>9. CASE StartRun
  BY <1>1, <1>9 DEF StartRun, sessionVars
<1>10. CASE StartMalformedRun
  BY <1>1, <1>10 DEF StartMalformedRun, Ready, sessionVars
<1>11. CASE PlanRun
  BY <1>1, <1>11 DEF PlanRun, sessionVars
<1>12. CASE IdentifyResult
  BY <1>1, <1>12 DEF IdentifyResult, sessionVars
<1>13. ASSUME NEW gatePassed \in BOOLEAN, NEW writes \in Journals,
              NEW counts \in [Subscriptions -> 0..MaxChunks],
              PublishRun(gatePassed, writes, counts)
       PROVE  SyncInv'
  BY <1>13, PublishInSync
<1>14. ASSUME phase # "idle", LeaveQueue, UNCHANGED sessionVars PROVE SyncInv'
  BY <1>t, <1>1, <1>14, CurrentType DEF LeaveQueue, sessionVars
<1>15. CASE ConcludeStaleRun \/ ConcludeRawRun
  BY <1>14, <1>15 DEF ConcludeStaleRun, ConcludeRawRun, Concluding
<1>16. CASE FailRun \/ StopCancelledRun
  BY <1>14, <1>16 DEF FailRun, StopCancelledRun, CatchRun
<1>17. CASE UNCHANGED vars
  BY <1>1, <1>17 DEF vars, sessionVars, runVars
<1> QED
  BY <1>8, <1>9, <1>10, <1>11, <1>12, <1>13, <1>15, <1>16, <1>17 DEF Next, Execute

LEMMA SyncInit == Init => SyncInv
  BY DEF Init, SessionsInit, SyncInv, SubscriberInSync, SubscribedDocuments, IsSubscribed,
     NoSubscription, PublishedUpToHead, ClosedDocument, NoBaseline, QueueCovers

LEMMA SyncInvariant == Spec => [](PublicationInv /\ SyncInv)
  BY PublicationInit, PublicationStep, SyncInit, SyncStep, PTL DEF Spec

(* A subscription that has received anything stands where its document's   *)
(* last publication stands, whatever was queued, replaced, cancelled or    *)
(* subscribed again meanwhile.                                             *)
THEOREM SubscribersInSync == Spec => []SubscriberInSync
<1>1. SyncInv => SubscriberInSync
  BY DEF SyncInv
<1> QED
  BY <1>1, SyncInvariant, PTL

-----------------------------------------------------------------------------
(* What the host knows *)

(* A step that publishes nothing changes what the host was told of a       *)
(* baseline only together with the baseline itself.                        *)
LEMMA BaselineStep ==
  ASSUME "unpostable" \notin Payloads, TypeInv, HostKnowsBaseline, [Next]_vars
  PROVE  HostKnowsBaseline'
<1>1. ASSUME editorSubscriptions' = editorSubscriptions, hostBaseline' = hostBaseline
      PROVE  HostKnowsBaseline'
  BY <1>1 DEF HostKnowsBaseline, IsSubscribed
<1>2. ASSUME NEW d \in Documents, NEW source \in Sources, NEW replaceSession \in BOOLEAN,
             Open(d, source, replaceSession)
      PROVE  HostKnowsBaseline'
  BY <1>2 DEF Open, OpenEditorDocument, hostVars, HostKnowsBaseline, IsSubscribed, NoSubscription
<1>3. ASSUME NEW d \in Documents, NEW s \in Subscriptions, NEW delivery \in Delivery,
             NEW initialCredit \in 0..MaxCredit, Subscribe(d, s, delivery, initialCredit)
      PROVE  HostKnowsBaseline'
  <2>1. /\ hostBaseline' = [hostBaseline EXCEPT ![s] = NoBaseline]
        /\ editorSubscriptions' = [editorSubscriptions EXCEPT ![s] =
             [NoSubscription EXCEPT !.session = documents[d].session, !.documentId = d,
                                    !.delivery = delivery, !.credit = initialCredit]]
        /\ hostBaseline \in [Subscriptions -> Baseline]
    BY <1>3 DEF Subscribe, SubscribeEditorDocument, TypeInv, TypeOK
  <2>2. /\ editorSubscriptions'[s].baseline = NoBaseline /\ hostBaseline'[s] = NoBaseline
        /\ \A t \in Subscriptions \ {s} :
             editorSubscriptions'[t] = editorSubscriptions[t] /\ hostBaseline'[t] = hostBaseline[t]
    BY <2>1, SubscriptionTypes DEF NoSubscription
  <2> QED
    BY <2>2 DEF HostKnowsBaseline, IsSubscribed
<1>4. ASSUME NEW s \in Subscriptions, NEW credit \in 1..MaxCredit, Credit(s, credit)
      PROVE  HostKnowsBaseline'
  <2>1. PICK credited \in Subscription : credited = Credited(editorSubscriptions[s], credit)
    BY SubscriptionTypes, CreditedType, SessionsAssumption
  <2>2. /\ credited.session = editorSubscriptions[s].session
        /\ credited.baseline = editorSubscriptions[s].baseline
    BY <2>1, SubscriptionTypes DEF Credited, Subscription
  <2>3. /\ editorSubscriptions'[s] = FlushEditorSubscription(credited)
        /\ \A t \in Subscriptions \ {s} : editorSubscriptions'[t] = editorSubscriptions[t]
        /\ hostBaseline' = hostBaseline
    BY <1>4, <2>1, SubscriptionTypes DEF Credit, CreditEditorSubscription
  <2> QED
    BY <2>2, <2>3, FlushKeeps DEF HostKnowsBaseline, IsSubscribed
<1>5. ASSUME NEW gatePassed \in BOOLEAN, NEW writes \in Journals,
             NEW counts \in [Subscriptions -> 0..MaxChunks],
             PublishRun(gatePassed, writes, counts)
      PROVE  HostKnowsBaseline'
  <2>1. Postable /\ current.snapshot \in Snapshot
    BY <1>5, CurrentType DEF PublishRun, Concluding, Postable, Run
  <2>2. PICK snapshot \in Snapshot : snapshot = current.snapshot
    BY <2>1
  <2>3. \A s \in Subscriptions :
          /\ editorSubscriptions'[s] =
               IF s \in Receivers(snapshot)
               THEN FlushEditorSubscription(
                      PublishedSubscription(snapshot, editorSubscriptions[s], counts[s]))
               ELSE editorSubscriptions[s]
          /\ hostBaseline'[s] = IF s \in Receivers(snapshot) THEN EvaluatedBaseline(snapshot)
                                                             ELSE hostBaseline[s]
    BY <1>5, <2>1, <2>2 DEF PublishRun, PublishEditorRun
  <2> QED
    BY <2>3, SubscriptionTypes, ReceiverFacts DEF HostKnowsBaseline, IsSubscribed
<1>6. CASE Command
  <2>1. ASSUME NEW d \in Documents, NEW baseRevision \in 1..MaxRevision, NEW source \in Sources,
               Change(d, baseRevision, source)
        PROVE  HostKnowsBaseline'
    BY <1>1, <2>1 DEF Change, ApplyEditorChange, hostVars
  <2>2. ASSUME NEW d \in Documents, ImportCache(d)
        PROVE  HostKnowsBaseline'
    BY <1>1, <2>2 DEF ImportCache, ImportEditorCache, hostVars
  <2>3. ASSUME NEW d \in Documents, ExportCache(d) PROVE HostKnowsBaseline'
    BY <1>1, <2>3 DEF ExportCache, sessionVars
  <2>4. ASSUME NEW r \in RunIds, Cancel(r) PROVE HostKnowsBaseline'
    BY <1>1, <2>4 DEF Cancel, sessionVars, hostVars
  <2>5. ASSUME NEW r \in RunIds, NEW payload, NEW snapshot, Enqueue(r, payload, snapshot)
        PROVE  HostKnowsBaseline'
    BY <1>1, <2>5 DEF Enqueue, sessionVars
  <2> QED
    BY <1>2, <1>3, <1>4, <1>6, <2>1, <2>2, <2>3, <2>4, <2>5
    DEF Command, SubmitRun, SubmitRawRun
<1>7. CASE StartRun \/ PlanRun \/ IdentifyResult
  BY <1>1, <1>7 DEF StartRun, PlanRun, IdentifyResult, sessionVars, hostVars
<1>8. CASE StartMalformedRun
  BY <1>1, <1>8 DEF StartMalformedRun, sessionVars
<1>9. CASE ConcludeStaleRun \/ ConcludeRawRun
  BY <1>1, <1>9 DEF ConcludeStaleRun, ConcludeRawRun, sessionVars
<1>10. CASE FailRun \/ StopCancelledRun
  BY <1>1, <1>10 DEF FailRun, StopCancelledRun, CatchRun, sessionVars
<1>11. CASE UNCHANGED vars
  BY <1>1, <1>11 DEF vars, sessionVars, hostVars
<1> QED
  BY <1>5, <1>6, <1>7, <1>8, <1>9, <1>10, <1>11 DEF Next, Execute

(* While no run carries what the result message cannot clone, the basis of *)
(* a subscription's next delta is the last target its host was told of.    *)
(* (With such a run it is not: EditorKernel's unpostable payload publishes *)
(* and then fails to report.)                                              *)
THEOREM HostsKnowBaselines ==
  ASSUME "unpostable" \notin Payloads
  PROVE  Spec => []HostKnowsBaseline
<1>1. Init => HostKnowsBaseline
  BY DEF Init, SessionsInit, HostKnowsBaseline, IsSubscribed, NoSubscription
<1>2. TypeInv /\ HostKnowsBaseline /\ [Next]_vars => HostKnowsBaseline'
  BY BaselineStep
<1> QED
  BY <1>1, <1>2, TypeInvariant, PTL DEF Spec

-----------------------------------------------------------------------------
(* Streams *)

(* Appending under a name of its own: the provers know that \o associates, *)
(* but not for operands that are not plain names.                          *)
Joined(s, t) == s \o t

LEMMA JoinedFacts ==
  ASSUME NEW S, NEW s \in Seq(S), NEW t \in Seq(S)
  PROVE  Joined(s, t) \in Seq(S) /\ Len(Joined(s, t)) = Len(s) + Len(t)
  BY ConcatProperties DEF Joined

LEMMA JoinedAssociative ==
  ASSUME NEW S, NEW s \in Seq(S), NEW t \in Seq(S), NEW u \in Seq(S)
  PROVE  Joined(Joined(s, t), u) = Joined(s, Joined(t, u))
  BY ConcatAssociative, SMT DEF Joined

(* What a stream has received, followed by what is queued for it.          *)
Stream(s) == Joined(hostChunks[s], editorSubscriptions[s].queue)

Done(c) == c.sequence = c.total

(* The shape GaplessStream asks of a stream whose cursor is given.         *)
Gapless(all, cursor) ==
  /\ \A i \in 1..Len(all) :
       /\ all[i].cursor <= cursor
       /\ IF i = 1 THEN all[i].sequence = 1
          ELSE IF Done(all[i-1])
          THEN all[i].sequence = 1 /\ all[i].cursor > all[i-1].cursor
          ELSE /\ all[i].sequence = all[i-1].sequence + 1
               /\ all[i].cursor = all[i-1].cursor
               /\ all[i].total = all[i-1].total
  /\ all # <<>> => Done(all[Len(all)])

StreamsGapless ==
  \A s \in Subscriptions :
    IsSubscribed(s) => Gapless(Stream(s), editorSubscriptions[s].cursor)

(* The chunks of one delta, in sequence.                                   *)
Delta(cursor, count) == [i \in 1..count |-> [cursor |-> cursor, sequence |-> i, total |-> count]]

LEMMA DeltaFacts ==
  ASSUME NEW cursor \in Nat, NEW count \in Nat
  PROVE  /\ Delta(cursor, count) \in Seq(Chunk) /\ Len(Delta(cursor, count)) = count
         /\ \A i \in 1..count : Delta(cursor, count)[i]
              = [cursor |-> cursor, sequence |-> i, total |-> count]
<1>1. Delta(cursor, count) \in [1..count -> Chunk]
  BY DEF Delta, Chunk
<1>2. Delta(cursor, count) \in Seq(Chunk)
  BY <1>1, SMT
<1>3. DOMAIN Delta(cursor, count) = 1..count
  BY DEF Delta
<1>4. Len(Delta(cursor, count)) = count
  BY <1>2, <1>3, LenProperties
<1> QED
  BY <1>2, <1>4 DEF Delta

(* A gapless stream stays gapless when a whole later delta is appended.    *)
LEMMA GaplessExtends ==
  ASSUME NEW all \in Seq(Chunk), NEW cursor \in Nat, NEW count \in Nat, Gapless(all, cursor)
  PROVE  Gapless(all \o Delta(cursor + 1, count), cursor + 1)
<1> DEFINE new == Delta(cursor + 1, count)
           n == Len(all)
<1>1. /\ new \in Seq(Chunk) /\ Len(new) = count
      /\ \A i \in 1..count : new[i] = [cursor |-> cursor + 1, sequence |-> i, total |-> count]
  BY DeltaFacts
<1>2. /\ n \in Nat /\ all \o new \in Seq(Chunk) /\ Len(all \o new) = n + count
      /\ \A i \in 1..n : (all \o new)[i] = all[i]
      /\ \A i \in n+1..n+count : (all \o new)[i] = new[i - n] /\ i - n \in 1..count
  <2> HIDE DEF new
  <2>1. \A i \in 1..Len(all) + Len(new) :
          (all \o new)[i] = IF i <= Len(all) THEN all[i] ELSE new[i - Len(all)]
    BY <1>1, ConcatProperties
  <2>2. Len(all) \in Nat /\ all \o new \in Seq(Chunk) /\ Len(all \o new) = Len(all) + Len(new)
    BY <1>1, ConcatProperties, LenProperties
  <2> QED
    BY <1>1, <2>1, <2>2
<1>3. \A i \in 1..n : all[i] \in Chunk /\ all[i].cursor \in Nat
  <2>1. \A i \in 1..n : all[i] \in Chunk
    BY ElementOfSeq
  <2> QED
    BY <2>1 DEF Chunk
<1> HIDE DEF new, n
<1>4. ASSUME NEW i \in 1..n + count
      PROVE  /\ (all \o new)[i].cursor <= cursor + 1
             /\ IF i = 1 THEN (all \o new)[i].sequence = 1
                ELSE IF Done((all \o new)[i-1])
                THEN (all \o new)[i].sequence = 1
                     /\ (all \o new)[i].cursor > (all \o new)[i-1].cursor
                ELSE /\ (all \o new)[i].sequence = (all \o new)[i-1].sequence + 1
                     /\ (all \o new)[i].cursor = (all \o new)[i-1].cursor
                     /\ (all \o new)[i].total = (all \o new)[i-1].total
  <2>1. CASE i <= n
    <3>1. (all \o new)[i] = all[i] /\ (i # 1 => (all \o new)[i-1] = all[i-1])
      BY <1>2, <2>1
    <3>2. i \in 1..Len(all)
      BY <1>2, <2>1 DEF n
    <3> QED
      BY <1>2, <1>3, <2>1, <3>1, <3>2 DEF Gapless
  <2>2. CASE i = n + 1
    <3>1. /\ (all \o new)[i].cursor = cursor + 1 /\ (all \o new)[i].sequence = 1
      BY <1>1, <1>2, <2>2
    <3>2. CASE n = 0
      BY <2>2, <3>1, <3>2
    <3>3. CASE n # 0
      <4>1. /\ (all \o new)[i-1] = all[n] /\ all[n].cursor <= cursor /\ Done(all[n])
            /\ all[n].cursor \in Nat /\ i # 1
        BY <1>2, <1>3, <2>2, <3>3, EmptySeq DEF Gapless, n
      <4> QED
        BY <3>1, <4>1
    <3> QED
      BY <3>2, <3>3
  <2>3. CASE i > n + 1
    <3>1. /\ (all \o new)[i] = [cursor |-> cursor + 1, sequence |-> i - n, total |-> count]
          /\ (all \o new)[i-1] = [cursor |-> cursor + 1, sequence |-> i - 1 - n, total |-> count]
          /\ i - 1 - n < count /\ i # 1
      BY <1>1, <1>2, <2>3
    <3> QED
      BY <1>2, <3>1 DEF Done
  <2>4. i <= n \/ i = n + 1 \/ i > n + 1
    BY <1>2
  <2> QED
    BY <2>1, <2>2, <2>3, <2>4
<1>5. all \o new # <<>> => Done((all \o new)[Len(all \o new)])
  <2>1. CASE count = 0
    <3>1. all \o new = all
      BY <1>1, <1>2, <2>1, EmptySeq, ConcatEmptySeq
    <3> QED
      BY <3>1 DEF Gapless
  <2>2. CASE count # 0
    <3>1. (all \o new)[n + count] = [cursor |-> cursor + 1, sequence |-> count, total |-> count]
      BY <1>1, <1>2, <2>2
    <3> QED
      BY <1>2, <3>1 DEF Done
  <2> QED
    BY <2>1, <2>2
<1> QED
  BY <1>2, <1>4, <1>5 DEF Gapless, new

(* Cutting a sequence in two and joining both parts again.                 *)
LEMMA SplitSeq ==
  ASSUME NEW S, NEW q \in Seq(S), NEW n \in 0..Len(q)
  PROVE  /\ SubSeq(q, 1, n) \in Seq(S) /\ Len(SubSeq(q, 1, n)) = n
         /\ SubSeq(q, n + 1, Len(q)) \in Seq(S)
         /\ Joined(SubSeq(q, 1, n), SubSeq(q, n + 1, Len(q))) = q
<1>1. Len(q) \in Nat /\ \A i \in 1..Len(q) : q[i] \in S
  BY LenProperties, ElementOfSeq
<1>2. SubSeq(q, 1, n) \in Seq(S) /\ Len(SubSeq(q, 1, n)) = n
  BY <1>1, SubSeqProperties
<1>3. SubSeq(q, n + 1, Len(q)) \in Seq(S)
  BY <1>1, SubSeqProperties
<1>4. /\ 1 \in 1..Len(q) + 1 /\ n \in 1 - 1..Len(q) /\ Len(q) \in n..Len(q)
  BY <1>1
<1>5. SubSeq(q, 1, n) \o SubSeq(q, n + 1, Len(q)) = SubSeq(q, 1, Len(q))
  BY <1>4, ConcatAdjacentSubSeq
<1> QED
  BY <1>2, <1>3, <1>5, SubSeqFull DEF Joined

(* A subscription that has both credit and chunks.                         *)
Paying(sub) == sub.credit > 0 /\ sub.queue # <<>>

(* What a flush posts and what it leaves queued is the queue it found, and *)
(* it leaves none queued while there is credit.                            *)
LEMMA FlushSplits ==
  ASSUME NEW sub \in Subscription, NEW received \in Seq(Chunk)
  PROVE  /\ Joined(Joined(received, Flushed(sub)), FlushEditorSubscription(sub).queue)
              = Joined(received, sub.queue)
         /\ Len(Joined(received, Flushed(sub))) + FlushEditorSubscription(sub).credit
              = Len(received) + sub.credit
         /\ ~Paying(FlushEditorSubscription(sub))
<1>1. /\ sub.queue \in Seq(Chunk) /\ sub.credit \in Nat /\ Len(received) \in Nat
      /\ FlushCount(sub) \in 0..Len(sub.queue) /\ Flushed(sub) \in Seq(Chunk)
  BY FlushFacts, LenProperties DEF Subscription
<1>2. /\ FlushEditorSubscription(sub).queue
            = SubSeq(sub.queue, FlushCount(sub) + 1, Len(sub.queue))
      /\ FlushEditorSubscription(sub).credit = sub.credit - FlushCount(sub)
      /\ Flushed(sub) = SubSeq(sub.queue, 1, FlushCount(sub))
  BY FlushKeeps DEF Flushed
<1>3. /\ FlushEditorSubscription(sub).queue \in Seq(Chunk)
      /\ Len(Flushed(sub)) = FlushCount(sub)
      /\ Joined(Flushed(sub), FlushEditorSubscription(sub).queue) = sub.queue
  BY <1>1, <1>2, SplitSeq, Zenon
<1>4. Joined(Joined(received, Flushed(sub)), FlushEditorSubscription(sub).queue)
        = Joined(received, sub.queue)
  BY <1>1, <1>3, JoinedAssociative, SMT
<1>5. Len(Joined(received, Flushed(sub))) = Len(received) + FlushCount(sub)
  BY <1>1, <1>3, JoinedFacts, Zenon
<1>6. FlushCount(sub) \in Nat
  BY <1>1
<1>7. ~Paying(FlushEditorSubscription(sub))
  <2>1. CASE sub.credit < Len(sub.queue)
    BY <1>1, <1>2, <2>1 DEF FlushCount, Paying
  <2>2. CASE ~(sub.credit < Len(sub.queue))
    <3>1. FlushCount(sub) = Len(sub.queue)
      BY <2>2 DEF FlushCount
    <3>2. Len(FlushEditorSubscription(sub).queue) = 0
      BY <1>1, <1>2, <3>1, SubSeqProperties
    <3> QED
      BY <1>3, <3>2, EmptySeq DEF Paying
  <2> QED
    BY <2>1, <2>2
<1> QED
  BY <1>1, <1>2, <1>4, <1>5, <1>6, <1>7

(* Credit moves chunks from the queue to the host and changes no stream.   *)
LEMMA CreditStream ==
  ASSUME TypeInv, NEW s \in Subscriptions, NEW credit \in 1..MaxCredit, Credit(s, credit)
  PROVE  /\ Stream(s)' = Stream(s)
         /\ editorSubscriptions'[s].cursor = editorSubscriptions[s].cursor
         /\ editorSubscriptions'[s].session = editorSubscriptions[s].session
         /\ ~PaidChunkWaits(s)'
         /\ \A t \in Subscriptions \ {s} : /\ editorSubscriptions'[t] = editorSubscriptions[t]
                                           /\ hostChunks'[t] = hostChunks[t]
<1>1. PICK credited \in Subscription : credited = Credited(editorSubscriptions[s], credit)
  BY SubscriptionTypes, CreditedType, SessionsAssumption
<1>2. /\ credited.session = editorSubscriptions[s].session
      /\ credited.cursor = editorSubscriptions[s].cursor
      /\ credited.queue = editorSubscriptions[s].queue
  BY <1>1, SubscriptionTypes DEF Credited, Subscription
<1>3. /\ editorSubscriptions' =
           [editorSubscriptions EXCEPT ![s] = FlushEditorSubscription(credited)]
      /\ hostChunks' = [hostChunks EXCEPT ![s] = hostChunks[s] \o Flushed(credited)]
      /\ hostChunks \in [Subscriptions -> Seq(Chunk)]
  BY <1>1 DEF Credit, CreditEditorSubscription, TypeInv, TypeOK
<1>4. /\ editorSubscriptions'[s] = FlushEditorSubscription(credited)
      /\ hostChunks'[s] = hostChunks[s] \o Flushed(credited)
      /\ \A t \in Subscriptions \ {s} : /\ editorSubscriptions'[t] = editorSubscriptions[t]
                                        /\ hostChunks'[t] = hostChunks[t]
  BY <1>3, SubscriptionTypes
<1>5. Stream(s)' = Joined(hostChunks[s], credited.queue)
  <2>1. hostChunks'[s] = Joined(hostChunks[s], Flushed(credited))
    BY <1>4 DEF Joined
  <2> QED
    BY <1>4, <2>1, SubscriptionTypes, FlushSplits DEF Stream
<1>6. ~PaidChunkWaits(s)'
  <2>1. ~Paying(FlushEditorSubscription(credited))
    BY SubscriptionTypes, FlushSplits
  <2> QED
    BY <1>4, <2>1 DEF PaidChunkWaits, Paying
<1> QED
  BY <1>2, <1>4, <1>5, <1>6, FlushKeeps DEF Stream

(* A receiver's stream is extended by one whole delta, or not at all, and  *)
(* what it received and its credit change by the same number, until one of *)
(* queue and credit is used up.                                            *)
LEMMA ReceiverStream ==
  ASSUME NEW sub \in Subscription, NEW snapshot \in Snapshot, NEW count \in 0..MaxChunks,
         NEW received \in Seq(Chunk)
  PROVE  LET published == PublishedSubscription(snapshot, sub, count)
             new == FlushEditorSubscription(published)
             got == Joined(received, Flushed(published))
             old == Joined(received, sub.queue)
         IN  /\ \/ Joined(got, new.queue) = old
                \/ Joined(got, new.queue) = Joined(old, Delta(sub.cursor + 1, count))
             /\ Len(got) + new.credit = Len(received) + sub.credit
             /\ ~Paying(new)
<1>0. /\ sub.queue \in Seq(Chunk) /\ sub.cursor + 1 \in Nat /\ count \in Nat
      /\ sub.cursor \in Nat
  BY SessionsAssumption DEF Subscription
<1>1. PICK published \in Subscription : published = PublishedSubscription(snapshot, sub, count)
  BY PublishedSubscriptionType
<1> DEFINE moved == [sub EXCEPT !.cursor = @ + 1, !.baseline = EvaluatedBaseline(snapshot)]
<1>2. /\ moved.cursor = sub.cursor + 1 /\ moved.queue = sub.queue
      /\ moved.credit = sub.credit /\ moved.delivery = sub.delivery
      /\ DOMAIN moved = DOMAIN sub
  BY DEF Subscription
<1> HIDE DEF moved
<1>3. \/ published = moved
      \/ published = [moved EXCEPT !.queue = Joined(sub.queue, Delta(sub.cursor + 1, count))]
  BY <1>1, <1>2 DEF PublishedSubscription, EnqueueEditorDelta, Delta, Joined, moved
<1>4. /\ published.credit = sub.credit
      /\ \/ published.queue = sub.queue
         \/ published.queue = Joined(sub.queue, Delta(sub.cursor + 1, count))
  BY <1>2, <1>3 DEF Subscription
<1>5. Joined(Joined(received, sub.queue), Delta(sub.cursor + 1, count))
        = Joined(received, Joined(sub.queue, Delta(sub.cursor + 1, count)))
  <2>1. Delta(sub.cursor + 1, count) \in Seq(Chunk)
    BY <1>0, DeltaFacts
  <2> QED
    BY <1>0, <2>1, JoinedAssociative, SMT
<1>6. /\ Joined(Joined(received, Flushed(published)), FlushEditorSubscription(published).queue)
           = Joined(received, published.queue)
      /\ Len(Joined(received, Flushed(published))) + FlushEditorSubscription(published).credit
           = Len(received) + published.credit
      /\ ~Paying(FlushEditorSubscription(published))
  BY FlushSplits
<1> QED
  BY <1>1, <1>4, <1>5, <1>6, Zenon

LEMMA GaplessLater ==
  ASSUME NEW all \in Seq(Chunk), NEW cursor \in Nat, Gapless(all, cursor)
  PROVE  Gapless(all, cursor + 1)
<1>1. \A i \in 1..Len(all) : all[i] \in Chunk
  BY ElementOfSeq
<1>2. \A i \in 1..Len(all) : all[i].cursor \in Nat
  BY <1>1 DEF Chunk
<1>3. \A i \in 1..Len(all) : all[i].cursor <= cursor + 1
  BY <1>2 DEF Gapless
<1> QED
  BY <1>3 DEF Gapless

(* Every receiver's stream after a publication.                            *)
LEMMA PublishStreams ==
  ASSUME TypeInv, NEW gatePassed \in BOOLEAN, NEW writes \in Journals,
         NEW counts \in [Subscriptions -> 0..MaxChunks],
         PublishRun(gatePassed, writes, counts), NEW s \in Subscriptions
  PROVE  LET old == editorSubscriptions[s]
             new == editorSubscriptions'[s]
         IN  /\ new.session = old.session
             /\ Len(hostChunks'[s]) + new.credit = Len(hostChunks[s]) + old.credit
             /\ PaidChunkWaits(s)' => PaidChunkWaits(s)
             /\ \/ new.cursor = old.cursor /\ Stream(s)' = Stream(s)
                \/ /\ new.cursor = old.cursor + 1
                   /\ \/ Stream(s)' = Stream(s)
                      \/ Stream(s)' = Joined(Stream(s), Delta(old.cursor + 1, counts[s]))
<1>1. PICK snapshot \in Snapshot : snapshot = current.snapshot
  BY CurrentType DEF PublishRun, Concluding, Run
<1>2. PICK published \in Subscription :
        published = PublishedSubscription(snapshot, editorSubscriptions[s], counts[s])
  BY SubscriptionTypes, PublishedSubscriptionType
<1>3. /\ editorSubscriptions'[s] =
           IF s \in Receivers(snapshot) THEN FlushEditorSubscription(published)
                                        ELSE editorSubscriptions[s]
      /\ hostChunks'[s] =
           IF s \in Receivers(snapshot) THEN hostChunks[s] \o Flushed(published)
                                        ELSE hostChunks[s]
  BY <1>1, <1>2 DEF PublishRun, PublishEditorRun
<1>4. CASE s \notin Receivers(snapshot)
  BY <1>3, <1>4 DEF Stream, PaidChunkWaits
<1>5. CASE s \in Receivers(snapshot)
  <2>1. editorSubscriptions[s] \in Subscription /\ hostChunks[s] \in Seq(Chunk)
        /\ counts[s] \in 0..MaxChunks
    BY SubscriptionTypes
  <2>2. /\ editorSubscriptions'[s] = FlushEditorSubscription(published)
        /\ hostChunks'[s] = hostChunks[s] \o Flushed(published)
    BY <1>3, <1>5
  <2>3. /\ editorSubscriptions'[s].session = editorSubscriptions[s].session
        /\ editorSubscriptions'[s].cursor = editorSubscriptions[s].cursor + 1
    BY <1>2, <2>1, <2>2, ReceiverFacts
  <2>4. hostChunks'[s] = Joined(hostChunks[s], Flushed(published))
    BY <2>2 DEF Joined
  <2>5. /\ \/ Stream(s)' = Stream(s)
           \/ Stream(s)' = Joined(Stream(s), Delta(editorSubscriptions[s].cursor + 1, counts[s]))
        /\ Len(hostChunks'[s]) + editorSubscriptions'[s].credit
             = Len(hostChunks[s]) + editorSubscriptions[s].credit
        /\ ~Paying(editorSubscriptions'[s])
    BY <1>2, <2>1, <2>2, <2>4, ReceiverStream DEF Stream
  <2>6. ~PaidChunkWaits(s)'
    BY <2>5 DEF PaidChunkWaits, Paying
  <2> QED
    BY <2>3, <2>5, <2>6
<1> QED
  BY <1>4, <1>5

LEMMA StreamStep == TypeInv /\ StreamsGapless /\ [Next]_vars => StreamsGapless'
<1> SUFFICES ASSUME TypeInv, StreamsGapless, [Next]_vars PROVE StreamsGapless'
  OBVIOUS
<1>1. ASSUME editorSubscriptions' = editorSubscriptions, hostChunks' = hostChunks
      PROVE  StreamsGapless'
  BY <1>1 DEF StreamsGapless, Stream, IsSubscribed
<1>2. ASSUME NEW d \in Documents, NEW source \in Sources, NEW replaceSession \in BOOLEAN,
             Open(d, source, replaceSession)
      PROVE  StreamsGapless'
  <2>1. hostChunks' = hostChunks
        /\ \A s \in Subscriptions : \/ editorSubscriptions'[s].session = 0
                                    \/ editorSubscriptions'[s] = editorSubscriptions[s]
    BY <1>2 DEF Open, OpenEditorDocument, hostVars, NoSubscription
  <2> QED
    BY <2>1 DEF StreamsGapless, Stream, IsSubscribed
<1>3. ASSUME NEW d \in Documents, NEW s \in Subscriptions, NEW delivery \in Delivery,
             NEW initialCredit \in 0..MaxCredit, Subscribe(d, s, delivery, initialCredit)
      PROVE  StreamsGapless'
  <2>1. /\ hostChunks' = [hostChunks EXCEPT ![s] = <<>>]
        /\ editorSubscriptions' = [editorSubscriptions EXCEPT ![s] =
             [NoSubscription EXCEPT !.session = documents[d].session, !.documentId = d,
                                    !.delivery = delivery, !.credit = initialCredit]]
        /\ hostChunks \in [Subscriptions -> Seq(Chunk)]
    BY <1>3 DEF Subscribe, SubscribeEditorDocument, TypeInv, TypeOK
  <2>2. /\ editorSubscriptions'[s].queue = <<>> /\ hostChunks'[s] = <<>>
        /\ \A t \in Subscriptions \ {s} :
             editorSubscriptions'[t] = editorSubscriptions[t] /\ hostChunks'[t] = hostChunks[t]
    BY <2>1, SubscriptionTypes DEF NoSubscription
  <2>3. Stream(s)' = <<>>
    BY <2>2, ConcatEmptySeq, EmptySeq DEF Stream, Joined
  <2>4. Gapless(Stream(s), editorSubscriptions[s].cursor)'
    BY <2>3 DEF Gapless
  <2> QED
    BY <2>2, <2>4 DEF StreamsGapless, Stream, IsSubscribed
<1>4. ASSUME NEW s \in Subscriptions, NEW credit \in 1..MaxCredit, Credit(s, credit)
      PROVE  StreamsGapless'
  BY <1>4, CreditStream DEF StreamsGapless, Stream, IsSubscribed
<1>5. ASSUME NEW gatePassed \in BOOLEAN, NEW writes \in Journals,
             NEW counts \in [Subscriptions -> 0..MaxChunks],
             PublishRun(gatePassed, writes, counts)
      PROVE  StreamsGapless'
  <2> SUFFICES ASSUME NEW s \in Subscriptions, IsSubscribed(s)'
               PROVE  Gapless(Stream(s)', editorSubscriptions'[s].cursor)
    BY DEF StreamsGapless
  <2>1. /\ Stream(s) \in Seq(Chunk) /\ editorSubscriptions[s].cursor \in Nat
        /\ counts[s] \in Nat
    <3>1. counts[s] \in 0..MaxChunks
      OBVIOUS
    <3>2. hostChunks[s] \in Seq(Chunk) /\ editorSubscriptions[s].queue \in Seq(Chunk)
      BY SubscriptionTypes
    <3>3. Stream(s) \in Seq(Chunk)
      BY <3>2, JoinedFacts DEF Stream
    <3> QED
      BY <3>1, <3>3, SubscriptionTypes, SessionsAssumption
  <2>2. Gapless(Stream(s), editorSubscriptions[s].cursor)
    BY <1>5, PublishStreams DEF StreamsGapless, IsSubscribed
  <2> QED
    BY <1>5, <2>1, <2>2, PublishStreams, GaplessExtends, GaplessLater DEF Joined
<1>6. CASE Command
  <2>1. ASSUME NEW d \in Documents, NEW baseRevision \in 1..MaxRevision, NEW source \in Sources,
               Change(d, baseRevision, source)
        PROVE  StreamsGapless'
    BY <1>1, <2>1 DEF Change, ApplyEditorChange, hostVars
  <2>2. ASSUME NEW d \in Documents, ImportCache(d)
        PROVE  StreamsGapless'
    BY <1>1, <2>2 DEF ImportCache, ImportEditorCache, hostVars
  <2>3. ASSUME NEW d \in Documents, ExportCache(d) PROVE StreamsGapless'
    BY <1>1, <2>3 DEF ExportCache, sessionVars
  <2>4. ASSUME NEW r \in RunIds, Cancel(r) PROVE StreamsGapless'
    BY <1>1, <2>4 DEF Cancel, sessionVars, hostVars
  <2>5. ASSUME NEW r \in RunIds, NEW payload, NEW snapshot, Enqueue(r, payload, snapshot)
        PROVE  StreamsGapless'
    BY <1>1, <2>5 DEF Enqueue, sessionVars
  <2> QED
    BY <1>2, <1>3, <1>4, <1>6, <2>1, <2>2, <2>3, <2>4, <2>5
    DEF Command, SubmitRun, SubmitRawRun
<1>7. CASE StartRun \/ PlanRun \/ IdentifyResult
  BY <1>1, <1>7 DEF StartRun, PlanRun, IdentifyResult, sessionVars, hostVars
<1>8. CASE StartMalformedRun
  BY <1>1, <1>8 DEF StartMalformedRun, sessionVars
<1>9. CASE ConcludeStaleRun \/ ConcludeRawRun
  BY <1>1, <1>9 DEF ConcludeStaleRun, ConcludeRawRun, sessionVars
<1>10. CASE FailRun \/ StopCancelledRun
  BY <1>1, <1>10 DEF FailRun, StopCancelledRun, CatchRun, sessionVars
<1>11. CASE UNCHANGED vars
  BY <1>1, <1>11 DEF vars, sessionVars, hostVars
<1> QED
  BY <1>5, <1>6, <1>7, <1>8, <1>9, <1>10, <1>11 DEF Next, Execute

(* A stream is whole deltas in cursor order, each chunk once and in        *)
(* sequence: credit delays chunks, it never drops, repeats or reorders     *)
(* them, and a subscription taken anew starts a stream of its own.         *)
THEOREM StreamsHaveNoGaps == Spec => []GaplessStream
<1>1. Init => StreamsGapless
  BY DEF Init, SessionsInit, StreamsGapless, IsSubscribed, NoSubscription
<1>2. StreamsGapless => GaplessStream
  BY DEF StreamsGapless, GaplessStream, Gapless, Stream, Joined, Done
<1> QED
  BY <1>1, <1>2, StreamStep, TypeInvariant, PTL DEF Spec

-----------------------------------------------------------------------------
(* Chunks that are paid for *)

(* No chunk waits on a stream that has credit.                             *)
NoPaidChunkWaits == \A s \in Subscriptions : ~PaidChunkWaits(s)

LEMMA PaidStep == TypeInv /\ NoPaidChunkWaits /\ [Next]_vars => NoPaidChunkWaits'
<1> SUFFICES ASSUME TypeInv, NoPaidChunkWaits, [Next]_vars, NEW s \in Subscriptions
             PROVE  ~PaidChunkWaits(s)'
  BY DEF NoPaidChunkWaits
<1>1. ASSUME editorSubscriptions'[s] = editorSubscriptions[s]
      PROVE  ~PaidChunkWaits(s)'
  BY <1>1 DEF NoPaidChunkWaits, PaidChunkWaits
<1>2. ASSUME NEW d \in Documents, NEW source \in Sources, NEW replaceSession \in BOOLEAN,
             Open(d, source, replaceSession)
      PROVE  ~PaidChunkWaits(s)'
  <2>1. \/ editorSubscriptions'[s].queue = <<>>
        \/ editorSubscriptions'[s] = editorSubscriptions[s]
    BY <1>2 DEF Open, OpenEditorDocument, NoSubscription
  <2> QED
    BY <1>1, <2>1 DEF PaidChunkWaits
<1>3. ASSUME NEW d \in Documents, NEW t \in Subscriptions, NEW delivery \in Delivery,
             NEW initialCredit \in 0..MaxCredit, Subscribe(d, t, delivery, initialCredit)
      PROVE  ~PaidChunkWaits(s)'
  <2>1. editorSubscriptions' = [editorSubscriptions EXCEPT ![t] =
          [NoSubscription EXCEPT !.session = documents[d].session, !.documentId = d,
                                 !.delivery = delivery, !.credit = initialCredit]]
    BY <1>3 DEF Subscribe, SubscribeEditorDocument
  <2>2. CASE s = t
    BY <2>1, <2>2, SubscriptionTypes DEF NoSubscription, PaidChunkWaits
  <2>3. CASE s # t
    BY <1>1, <2>1, <2>3
  <2> QED
    BY <2>2, <2>3
<1>4. ASSUME NEW t \in Subscriptions, NEW credit \in 1..MaxCredit, Credit(t, credit)
      PROVE  ~PaidChunkWaits(s)'
  BY <1>1, <1>4, CreditStream
<1>5. ASSUME NEW gatePassed \in BOOLEAN, NEW writes \in Journals,
             NEW counts \in [Subscriptions -> 0..MaxChunks],
             PublishRun(gatePassed, writes, counts)
      PROVE  ~PaidChunkWaits(s)'
  BY <1>5, PublishStreams DEF NoPaidChunkWaits
<1>6. CASE Command
  <2>1. ASSUME NEW d \in Documents, NEW baseRevision \in 1..MaxRevision, NEW source \in Sources,
               Change(d, baseRevision, source)
        PROVE  ~PaidChunkWaits(s)'
    BY <1>1, <2>1 DEF Change, ApplyEditorChange
  <2>2. ASSUME NEW d \in Documents, ImportCache(d)
        PROVE  ~PaidChunkWaits(s)'
    BY <1>1, <2>2 DEF ImportCache, ImportEditorCache
  <2>3. ASSUME NEW d \in Documents, ExportCache(d) PROVE ~PaidChunkWaits(s)'
    BY <1>1, <2>3 DEF ExportCache, sessionVars
  <2>4. ASSUME NEW r \in RunIds, Cancel(r) PROVE ~PaidChunkWaits(s)'
    BY <1>1, <2>4 DEF Cancel, sessionVars
  <2>5. ASSUME NEW r \in RunIds, NEW payload, NEW snapshot, Enqueue(r, payload, snapshot)
        PROVE  ~PaidChunkWaits(s)'
    BY <1>1, <2>5 DEF Enqueue, sessionVars
  <2> QED
    BY <1>2, <1>3, <1>4, <1>6, <2>1, <2>2, <2>3, <2>4, <2>5
    DEF Command, SubmitRun, SubmitRawRun
<1>7. CASE StartRun \/ PlanRun \/ IdentifyResult
  BY <1>1, <1>7 DEF StartRun, PlanRun, IdentifyResult, sessionVars
<1>8. CASE StartMalformedRun
  BY <1>1, <1>8 DEF StartMalformedRun, sessionVars
<1>9. CASE ConcludeStaleRun \/ ConcludeRawRun
  BY <1>1, <1>9 DEF ConcludeStaleRun, ConcludeRawRun, sessionVars
<1>10. CASE FailRun \/ StopCancelledRun
  BY <1>1, <1>10 DEF FailRun, StopCancelledRun, CatchRun, sessionVars
<1>11. CASE UNCHANGED vars
  BY <1>1, <1>11 DEF vars, sessionVars
<1> QED
  BY <1>5, <1>6, <1>7, <1>8, <1>9, <1>10, <1>11 DEF Next, Execute

(* The end of a run hands every stream one chunk for each credit it takes, *)
(* and all that its credit pays for: no step, of a run or of a command,    *)
(* leaves a chunk waiting on a stream that has credit.                     *)
THEOREM CompletionsDeliverPaidChunks == Spec => CompletionDeliversPaidChunks
<1> DEFINE Spent(s) == runQueue' # runQueue =>
                         Len(hostChunks'[s]) + editorSubscriptions'[s].credit
                           = Len(hostChunks[s]) + editorSubscriptions[s].credit
           Paid == \A s \in Subscriptions :
                     /\ ~PaidChunkWaits(s)'
                     /\ runQueue' # runQueue =>
                          Len(hostChunks'[s]) + editorSubscriptions'[s].credit
                            = Len(hostChunks[s]) + editorSubscriptions[s].credit
<1>1. TypeInv /\ NoPaidChunkWaits /\ [Next]_vars => [Paid]_vars
  <2> SUFFICES ASSUME TypeInv, NoPaidChunkWaits, Next, NEW s \in Subscriptions
               PROVE  ~PaidChunkWaits(s)' /\ Spent(s)
    OBVIOUS
  <2>1. ~PaidChunkWaits(s)'
    BY PaidStep DEF NoPaidChunkWaits
  <2>2. CASE \E gatePassed \in BOOLEAN, writes \in Journals,
                counts \in [Subscriptions -> 0..MaxChunks] :
                  PublishRun(gatePassed, writes, counts)
    BY <2>1, <2>2, PublishStreams
  <2>3. CASE Command
    <3>1. Spent(s)
      BY <2>3
      DEF Command, Open, Change, Subscribe, Credit, ExportCache, ImportCache, Cancel,
          SubmitRun, SubmitRawRun, Enqueue, sessionVars, runVars, hostVars
    <3> QED
      BY <2>1, <3>1
  <2>4. CASE StartMalformedRun
    BY <2>1, <2>4 DEF StartMalformedRun, sessionVars
  <2>5. CASE StartRun \/ PlanRun \/ IdentifyResult
    BY <2>1, <2>5 DEF StartRun, PlanRun, IdentifyResult
  <2>6. CASE ConcludeStaleRun \/ ConcludeRawRun \/ FailRun \/ StopCancelledRun
    BY <2>1, <2>6
    DEF ConcludeStaleRun, ConcludeRawRun, FailRun, StopCancelledRun, CatchRun, sessionVars
  <2> QED
    BY <2>2, <2>3, <2>4, <2>5, <2>6 DEF Next, Execute
<1>2. Init => NoPaidChunkWaits
  BY DEF Init, SessionsInit, NoPaidChunkWaits, PaidChunkWaits, NoSubscription
<1> QED
  BY <1>1, <1>2, PaidStep, TypeInvariant, PTL DEF Spec, CompletionDeliversPaidChunks
=============================================================================
