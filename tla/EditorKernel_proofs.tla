------------------------ MODULE EditorKernel_proofs ------------------------
(***************************************************************************)
(* Theorems about EditorKernel for every value of its constants.           *)
(***************************************************************************)
EXTENDS EditorKernel, SequenceTheorems, TLAPS

-----------------------------------------------------------------------------
(* Sequences *)

(* What dropping the head of a non-empty sequence leaves.                  *)
LEMMA TailFacts ==
  ASSUME NEW S, NEW q \in Seq(S), q # <<>>
  PROVE  /\ Len(q) \in Nat \ {0}
         /\ Head(q) \in S /\ Head(q) = q[1]
         /\ Tail(q) \in Seq(S) /\ Len(Tail(q)) = Len(q) - 1
         /\ \A i \in 1..Len(q) - 1 : Tail(q)[i] = q[i + 1]
  BY SMT

(* What appending one element gives.                                       *)
LEMMA AppendFacts ==
  ASSUME NEW S, NEW q \in Seq(S), NEW e \in S
  PROVE  /\ Append(q, e) \in Seq(S) /\ Len(Append(q, e)) = Len(q) + 1
         /\ Append(q, e)[Len(q) + 1] = e
         /\ \A i \in 1..Len(q) : Append(q, e)[i] = q[i]
         /\ Append(q, e) # <<>>
  BY AppendProperties

-----------------------------------------------------------------------------
(* Subscriptions *)

(* A flush posts a prefix of the queue that the credit pays for.           *)
LEMMA FlushFacts ==
  ASSUME NEW sub \in Subscription
  PROVE  /\ FlushCount(sub) \in 0..Len(sub.queue)
         /\ FlushCount(sub) <= sub.credit
         /\ Flushed(sub) \in Seq(Chunk)
         /\ Len(Flushed(sub)) = FlushCount(sub)
         /\ FlushEditorSubscription(sub) \in Subscription
<1>1. sub.queue \in Seq(Chunk) /\ Len(sub.queue) \in Nat /\ sub.credit \in Nat
  BY DEF Subscription
<1>2. FlushCount(sub) \in 0..Len(sub.queue) /\ FlushCount(sub) <= sub.credit
  BY <1>1 DEF FlushCount
<1>3. Flushed(sub) \in Seq(Chunk) /\ Len(Flushed(sub)) = FlushCount(sub)
  BY <1>1, <1>2, SubSeqProperties DEF Flushed
<1>4. SubSeq(sub.queue, FlushCount(sub) + 1, Len(sub.queue)) \in Seq(Chunk)
  BY <1>1, <1>2, SubSeqProperties
<1>5. sub.credit - FlushCount(sub) \in Nat
  BY <1>1, <1>2
<1>6. FlushEditorSubscription(sub) \in Subscription
  BY <1>4, <1>5 DEF FlushEditorSubscription, Subscription
<1> QED
  BY <1>2, <1>3, <1>6

(* Credit keeps a subscription a subscription, under the cap.              *)
LEMMA CreditedType ==
  ASSUME NEW sub \in Subscription, NEW credit \in 0..MaxCredit
  PROVE  Credited(sub, credit) \in Subscription
  BY SessionsAssumption DEF Credited, Subscription

(* A publication extends a subscription's queue by whole chunks.           *)
LEMMA PublishedSubscriptionType ==
  ASSUME NEW sub \in Subscription, NEW snapshot \in Snapshot, NEW count \in 0..MaxChunks
  PROVE  PublishedSubscription(snapshot, sub, count) \in Subscription
<1> DEFINE sub2 == [sub EXCEPT !.cursor = @ + 1, !.baseline = EvaluatedBaseline(snapshot)]
           new == [i \in 1..count |-> [cursor |-> sub2.cursor, sequence |-> i, total |-> count]]
<1>1. EvaluatedBaseline(snapshot) \in Baseline
  BY DEF EvaluatedBaseline, Baseline, Snapshot
<1>2. sub2 \in Subscription
  <2>1. sub.cursor + 1 \in Nat
    BY DEF Subscription
  <2> HIDE DEF new
  <2> QED
    BY <1>1, <2>1 DEF Subscription
<1>3. new \in Seq(Chunk)
  <2>1. sub2.cursor \in Nat /\ count \in Nat
    BY <1>2, SessionsAssumption DEF Subscription
  <2>2. new \in [1..count -> Chunk]
    BY <2>1 DEF Chunk
  <2> QED
    BY <2>1, <2>2, SMT
<1>4. sub2.queue \o new \in Seq(Chunk)
  BY <1>2, <1>3, ConcatProperties DEF Subscription
<1>5. [sub2 EXCEPT !.queue = @ \o new] \in Subscription
  BY <1>2, <1>4 DEF Subscription
<1> QED
  BY <1>2, <1>5 DEF PublishedSubscription, EnqueueEditorDelta

-----------------------------------------------------------------------------
(* Type correctness *)

(* A run is at one of its awaits only if there is a run.                   *)
RunningRun == phase # "idle" => runQueue # <<>>

TypeInv == TypeOK /\ RunningRun

(* A run captures a snapshot of an open document.                          *)
LEMMA CaptureType ==
  ASSUME TypeOK, NEW d \in Documents
  PROVE  CaptureEditorRun(d) \in Snapshot
<1>1. documents[d] \in Document
  BY DEF TypeOK, SessionsTypeOK
<1>2. {s \in Subscriptions : editorSubscriptions[s].session = documents[d].session}
        \in SUBSET Subscriptions
  OBVIOUS
<1> QED
  BY <1>1, <1>2 DEF CaptureEditorRun, Snapshot, Document

(* The executing run.                                                      *)
LEMMA CurrentType ==
  ASSUME TypeInv, phase # "idle" \/ runQueue # <<>>
  PROVE  /\ runQueue # <<>> /\ current \in Run /\ current = runQueue[1]
         /\ Len(runQueue) \in Nat \ {0}
         /\ Tail(runQueue) \in Seq(Run) /\ Len(Tail(runQueue)) = Len(runQueue) - 1
         /\ \A i \in 1..Len(runQueue) - 1 : Tail(runQueue)[i] = runQueue[i + 1]
  BY TailFacts DEF TypeInv, TypeOK, RunningRun, current

(* Leaving the queue keeps the run variables in their types.               *)
LEMMA LeaveQueueType ==
  ASSUME TypeInv, phase # "idle", LeaveQueue
  PROVE  /\ runQueue' \in Seq(Run) /\ phase' = "idle"
         /\ queuedRuns' \subseteq RunIds /\ activeRuns' \subseteq RunIds
         /\ cancelledRuns' \subseteq RunIds
         /\ runInstanceSequence' \in Nat /\ hostCheckpoint' \in Store
  BY CurrentType DEF LeaveQueue, TypeInv, TypeOK

(* Answering the executing run keeps the replies in their type.            *)
LEMMA AnswerType ==
  ASSUME TypeInv, NEW reply \in Reply, Answer(reply)
  PROVE  hostReply' \in [RunIds -> Reply]
  BY DEF Answer, TypeInv, TypeOK

(* The store a completed run leaves.                                       *)
LEMMA FinalizeType ==
  ASSUME NEW snapshot, NEW store \in Store, NEW commit, NEW writes, NEW writer \in Nat
  PROVE  FinalizeStageCache(snapshot, store, commit, writes, writer) \in Store
  BY DEF FinalizeStageCache, Store

(* A publication keeps sessions and subscriptions in their types.          *)
LEMMA PublishEditorRunType ==
  ASSUME TypeOK, NEW snapshot \in Snapshot, snapshot.documentId \in Documents,
         NEW gatePassed, NEW writes, NEW counts \in [Subscriptions -> 0..MaxChunks],
         PublishEditorRun(snapshot, gatePassed, writes, runInstanceSequence, counts)
  PROVE  SessionsTypeOK'
<1> DEFINE doc == documents[snapshot.documentId]
           store == FinalizeStageCache(snapshot, doc.stageCache, gatePassed, writes,
                                       runInstanceSequence)
<1>1. doc \in Document
  BY DEF TypeOK, SessionsTypeOK
<1>2. store \in Store
  BY <1>1, FinalizeType DEF TypeOK, Document
<1>3. EvaluatedBaseline(snapshot) \in Baseline /\ snapshot.revision \in Nat
  BY DEF EvaluatedBaseline, Baseline, Snapshot
<1>4. documents' \in [Documents -> Document]
  <2>1. documents' = [documents EXCEPT ![snapshot.documentId] =
          [doc EXCEPT !.publishedRevision = snapshot.revision,
                      !.planBaseline = EvaluatedBaseline(snapshot), !.stageCache = store]]
    BY DEF PublishEditorRun
  <2>2. [doc EXCEPT !.publishedRevision = snapshot.revision,
                    !.planBaseline = EvaluatedBaseline(snapshot), !.stageCache = store]
          \in Document
    <3> HIDE DEF doc, store
    <3> QED
      BY <1>1, <1>2, <1>3 DEF Document
  <2> QED
    BY <2>1, <2>2 DEF TypeOK, SessionsTypeOK
<1>5. editorSubscriptions' \in [Subscriptions -> Subscription]
  <2>1. ASSUME NEW s \in Subscriptions
        PROVE  FlushEditorSubscription(
                 PublishedSubscription(snapshot, editorSubscriptions[s], counts[s]))
                   \in Subscription
    BY PublishedSubscriptionType, FlushFacts DEF TypeOK, SessionsTypeOK
  <2>2. \A s \in Subscriptions : editorSubscriptions[s] \in Subscription
    BY DEF TypeOK, SessionsTypeOK
  <2> QED
    BY <2>1, <2>2 DEF PublishEditorRun
<1>6. editorSessionSequence' \in Nat
  BY DEF PublishEditorRun, TypeOK, SessionsTypeOK
<1> QED
  BY <1>4, <1>5, <1>6 DEF SessionsTypeOK

LEMMA TypeInit == Init => TypeInv
<1> SUFFICES ASSUME Init PROVE TypeInv
  OBVIOUS
<1>1. ClosedDocument \in Document /\ NoSubscription \in Subscription
      /\ EmptyStore \in Store /\ NoBaseline \in Baseline
  <2>1. EmptyStore \in Store /\ NoBaseline \in Baseline /\ <<>> \in Seq(Chunk)
    BY DEF EmptyStore, Store, NoBaseline, Baseline
  <2> QED
    BY <2>1 DEF ClosedDocument, Document, NoSubscription, Subscription, Delivery
<1>2. SessionsTypeOK
  BY <1>1 DEF Init, SessionsInit, SessionsTypeOK
<1>3. runQueue \in Seq(Run) /\ hostChunks \in [Subscriptions -> Seq(Chunk)]
  BY DEF Init
<1> QED
  BY <1>1, <1>2, <1>3 DEF Init, TypeInv, TypeOK, RunningRun, Phase, Reply

(* Every step of the kernel keeps its state in its types.                  *)
LEMMA TypeStep == TypeInv /\ [Next]_vars => TypeInv'
<1> SUFFICES ASSUME TypeInv, [Next]_vars PROVE TypeInv'
  OBVIOUS
<1> USE DEF TypeInv
<1>t. /\ documents \in [Documents -> Document]
      /\ editorSubscriptions \in [Subscriptions -> Subscription]
      /\ editorSessionSequence \in Nat
  BY DEF TypeOK, SessionsTypeOK
<1>n. /\ NoSubscription \in Subscription /\ ClosedDocument \in Document
      /\ NoBaseline \in Baseline /\ EmptyStore \in Store
  <2>1. EmptyStore \in Store /\ NoBaseline \in Baseline /\ <<>> \in Seq(Chunk)
    BY DEF EmptyStore, Store, NoBaseline, Baseline
  <2> QED
    BY <2>1 DEF ClosedDocument, Document, NoSubscription, Subscription, Delivery
<1>1. ASSUME NEW d \in Documents, NEW source \in Sources, NEW replaceSession \in BOOLEAN,
             Open(d, source, replaceSession)
      PROVE  TypeInv'
  <2>1. [ClosedDocument EXCEPT !.session = editorSessionSequence + 1,
                               !.source = source, !.revision = 1] \in Document
    <3>1. editorSessionSequence + 1 \in Nat /\ 1 \in Nat
      BY <1>t
    <3> QED
      BY <1>n, <3>1 DEF Document
  <2>2. SessionsTypeOK'
    BY <1>1, <1>t, <1>n, <2>1 DEF Open, OpenEditorDocument, SessionsTypeOK
  <2> QED
    BY <1>1, <2>2 DEF Open, TypeOK, RunningRun, runVars, hostVars
<1>2. ASSUME NEW d \in Documents, NEW baseRevision \in 1..MaxRevision, NEW source \in Sources,
             Change(d, baseRevision, source)
      PROVE  TypeInv'
  <2>1. [documents[d] EXCEPT !.source = source, !.revision = documents[d].revision + 1]
          \in Document
    <3>1. documents[d].revision + 1 \in Nat
      BY <1>t DEF Document
    <3> QED
      BY <1>t, <3>1 DEF Document
  <2>2. documents' = [documents EXCEPT ![d] =
          [documents[d] EXCEPT !.source = source, !.revision = documents[d].revision + 1]]
    BY <1>2, <1>t DEF Change, ApplyEditorChange, Document
  <2>3. SessionsTypeOK'
    BY <1>2, <1>t, <2>1, <2>2 DEF Change, ApplyEditorChange, SessionsTypeOK
  <2> QED
    BY <1>2, <2>3 DEF Change, TypeOK, RunningRun, runVars, hostVars
<1>3. ASSUME NEW d \in Documents, NEW s \in Subscriptions, NEW delivery \in Delivery,
             NEW initialCredit \in 0..MaxCredit, Subscribe(d, s, delivery, initialCredit)
      PROVE  TypeInv'
  <2>1. [NoSubscription EXCEPT !.session = documents[d].session, !.documentId = d,
                               !.delivery = delivery, !.credit = initialCredit]
          \in Subscription
    <3>1. documents[d].session \in Nat /\ initialCredit \in Nat
      BY <1>t, SessionsAssumption DEF Document
    <3> QED
      BY <1>n, <3>1 DEF Subscription
  <2>2. SessionsTypeOK'
    BY <1>3, <1>t, <2>1 DEF Subscribe, SubscribeEditorDocument, SessionsTypeOK
  <2>3. hostChunks' \in [Subscriptions -> Seq(Chunk)] /\ hostBaseline' \in [Subscriptions -> Baseline]
    BY <1>3, <1>n DEF Subscribe, TypeOK
  <2> QED
    BY <1>3, <2>2, <2>3 DEF Subscribe, TypeOK, RunningRun, runVars
<1>4. ASSUME NEW s \in Subscriptions, NEW credit \in 1..MaxCredit, Credit(s, credit)
      PROVE  TypeInv'
  <2>1. Credited(editorSubscriptions[s], credit) \in Subscription
    BY <1>t, CreditedType, SessionsAssumption
  <2>2. SessionsTypeOK'
    BY <1>4, <1>t, <2>1, FlushFacts
    DEF Credit, CreditEditorSubscription, SessionsTypeOK
  <2>3. hostChunks' \in [Subscriptions -> Seq(Chunk)]
    <3>1. hostChunks[s] \o Flushed(Credited(editorSubscriptions[s], credit)) \in Seq(Chunk)
      BY <2>1, FlushFacts, ConcatProperties DEF TypeOK
    <3> QED
      BY <1>4, <3>1 DEF Credit, TypeOK
  <2> QED
    BY <1>4, <2>2, <2>3 DEF Credit, TypeOK, RunningRun, runVars
<1>5. ASSUME NEW d \in Documents, ExportCache(d)
      PROVE  TypeInv'
  <2>1. hostCheckpoint' \in Store
    BY <1>5, <1>t DEF ExportCache, Document
  <2> QED
    BY <1>5, <2>1 DEF ExportCache, TypeOK, SessionsTypeOK, RunningRun, runVars, sessionVars
<1>6. ASSUME NEW d \in Documents, ImportCache(d)
      PROVE  TypeInv'
  <2>1. [documents[d] EXCEPT !.stageCache = hostCheckpoint] \in Document
    BY <1>t DEF Document, TypeOK
  <2>2. SessionsTypeOK'
    BY <1>6, <1>t, <2>1 DEF ImportCache, ImportEditorCache, SessionsTypeOK
  <2> QED
    BY <1>6, <2>2 DEF ImportCache, TypeOK, RunningRun, runVars, hostVars
<1>7. ASSUME NEW r \in RunIds, Cancel(r)
      PROVE  TypeInv'
  BY <1>7 DEF Cancel, TypeOK, SessionsTypeOK, RunningRun, sessionVars, hostVars
<1>8. ASSUME NEW r \in RunIds, NEW payload \in Payloads, NEW snapshot \in Snapshot,
             Enqueue(r, payload, snapshot)
      PROVE  TypeInv'
  <2>1. [runId |-> r, payload |-> payload, snapshot |-> snapshot] \in Run
    BY DEF Run
  <2>2. runQueue' \in Seq(Run) /\ runQueue' # <<>>
    BY <1>8, <2>1, AppendFacts DEF Enqueue, TypeOK
  <2>3. hostReply' \in [RunIds -> Reply]
    BY <1>8 DEF Enqueue, TypeOK, Reply
  <2> QED
    BY <1>8, <2>2, <2>3 DEF Enqueue, TypeOK, SessionsTypeOK, RunningRun, sessionVars
<1>9. ASSUME NEW r \in RunIds, NEW payload \in Payloads, NEW d \in Documents,
             NEW documentRevision \in 1..MaxRevision,
             SubmitRun(r, payload, d, documentRevision)
      PROVE  TypeInv'
  BY <1>8, <1>9, CaptureType DEF SubmitRun
<1>10. ASSUME NEW r \in RunIds, NEW payload \in Payloads, SubmitRawRun(r, payload)
       PROVE  TypeInv'
  <2>1. NoSnapshot \in Snapshot
    BY <1>n DEF NoSnapshot, Snapshot
  <2> QED
    BY <1>8, <1>10, <2>1 DEF SubmitRawRun
<1>11. CASE StartRun
  <2>1. current.runId \in RunIds /\ runQueue # <<>>
    BY <1>11, CurrentType DEF StartRun, Ready, Run
  <2> QED
    BY <1>11, <2>1 DEF StartRun, TypeOK, SessionsTypeOK, RunningRun, sessionVars, hostVars, Phase
<1>12. CASE StartMalformedRun
  <2>1. current.runId \in RunIds /\ Tail(runQueue) \in Seq(Run)
    BY <1>12, CurrentType DEF StartMalformedRun, Ready, Run
  <2>2. hostReply' \in [RunIds -> Reply]
    BY <1>12 DEF StartMalformedRun, TypeOK, Reply
  <2> QED
    BY <1>12, <2>1, <2>2
    DEF StartMalformedRun, Ready, TypeOK, SessionsTypeOK, RunningRun, sessionVars
<1>13. CASE PlanRun
  BY <1>13 DEF PlanRun, TypeOK, SessionsTypeOK, RunningRun, sessionVars, hostVars, Phase
<1>14. CASE IdentifyResult
  BY <1>14 DEF IdentifyResult, TypeOK, SessionsTypeOK, RunningRun, sessionVars, hostVars, Phase
<1>15. ASSUME NEW gatePassed \in BOOLEAN, NEW writes \in Journals,
              NEW counts \in [Subscriptions -> 0..MaxChunks],
              PublishRun(gatePassed, writes, counts)
       PROVE  TypeInv'
  <2> DEFINE snapshot == current.snapshot
             sub(s) == PublishedSubscription(snapshot, editorSubscriptions[s], counts[s])
  <2>1. phase # "idle" /\ LeaveQueue
    BY <1>15 DEF PublishRun, Concluding
  <2>2. snapshot \in Snapshot /\ snapshot.documentId \in Documents
    BY <1>15, <2>1, CurrentType DEF PublishRun, IsEditorRun, Run, Snapshot
  <2>3. SessionsTypeOK'
    BY <1>15, <2>2, PublishEditorRunType DEF PublishRun
  <2>4. hostReply' \in [RunIds -> Reply]
    BY <1>15, AnswerType DEF PublishRun, Reply
  <2>5. hostBaseline' \in [Subscriptions -> Baseline]
    <3>1. EvaluatedBaseline(snapshot) \in Baseline
      BY <2>2 DEF EvaluatedBaseline, Baseline, Snapshot
    <3>2. hostBaseline' = [s \in Subscriptions |->
             IF Postable /\ s \in Receivers(snapshot) THEN EvaluatedBaseline(snapshot)
                                                      ELSE hostBaseline[s]]
      BY <1>15 DEF PublishRun
    <3> QED
      BY <3>1, <3>2 DEF TypeOK
  <2>6. hostChunks' \in [Subscriptions -> Seq(Chunk)]
    <3>1. ASSUME NEW s \in Subscriptions
          PROVE  hostChunks[s] \o Flushed(sub(s)) \in Seq(Chunk)
      <4>1. sub(s) \in Subscription
        BY <1>t, <2>2, PublishedSubscriptionType
      <4> HIDE DEF sub
      <4> QED
        BY <4>1, FlushFacts, ConcatProperties DEF TypeOK
    <3>2. hostChunks' = [s \in Subscriptions |->
             IF s \in Receivers(snapshot) THEN hostChunks[s] \o Flushed(sub(s))
                                          ELSE hostChunks[s]]
      BY <1>15 DEF PublishRun
    <3> HIDE DEF sub
    <3> QED
      BY <3>1, <3>2 DEF TypeOK
  <2> QED
    BY <2>1, <2>3, <2>4, <2>5, <2>6, LeaveQueueType DEF TypeOK, RunningRun, Phase
<1>16. ASSUME phase # "idle", LeaveQueue, NEW reply \in Reply, Answer(reply),
              UNCHANGED <<sessionVars, hostBaseline, hostChunks>>
       PROVE  TypeInv'
  <2>1. SessionsTypeOK'
    BY <1>16 DEF TypeOK, SessionsTypeOK, sessionVars
  <2> QED
    BY <1>16, <2>1, LeaveQueueType, AnswerType DEF TypeOK, RunningRun, Phase
<1>17. CASE ConcludeStaleRun
  BY <1>16, <1>17 DEF ConcludeStaleRun, Concluding, Reply
<1>18. CASE ConcludeRawRun
  BY <1>16, <1>18 DEF ConcludeRawRun, Concluding, Reply
<1>19. CASE FailRun
  BY <1>16, <1>19 DEF FailRun, CatchRun, Reply
<1>20. CASE StopCancelledRun
  BY <1>16, <1>20 DEF StopCancelledRun, CatchRun, Reply
<1>21. CASE UNCHANGED vars
  BY <1>21 DEF vars, sessionVars, runVars, hostVars, TypeOK, SessionsTypeOK, RunningRun
<1> QED
  BY <1>1, <1>2, <1>3, <1>4, <1>5, <1>6, <1>7, <1>9, <1>10, <1>11, <1>12, <1>13, <1>14,
     <1>15, <1>17, <1>18, <1>19, <1>20, <1>21 DEF Next, Command, Execute

(* The editor kernel's state stays in its types: sessions, subscriptions,  *)
(* the run queue with its three sets, and what the host has been told.     *)
THEOREM TypeCorrect == Spec => []TypeOK
<1>1. TypeInv => TypeOK
  BY DEF TypeInv
<1> QED
  BY <1>1, TypeInit, TypeStep, PTL DEF Spec

(* As TypeCorrect, with the fact that an executing run is in the queue.    *)
THEOREM TypeInvariant == Spec => []TypeInv
  BY TypeInit, TypeStep, PTL DEF Spec

-----------------------------------------------------------------------------
(* The accounting of runs in flight *)

(* InFlightAccounting with the waiting runIds spelled out.                 *)
LEMMA WaitingIds ==
  ASSUME TypeInv, InFlightAccounting
  PROVE  /\ phase # "idle" => runQueue # <<>>
         /\ \A r : r \in queuedRuns <=>
              \E i \in WaitingFrom..Len(runQueue) : runQueue[i].runId = r
         /\ \A i \in 1..Len(runQueue) :
              /\ runQueue[i] \in Run
              /\ runQueue[i].runId \in activeRuns \cup queuedRuns
<1>1. Len(runQueue) \in Nat /\ \A i \in 1..Len(runQueue) : runQueue[i] \in Run
  BY ElementOfSeq, LenProperties DEF TypeInv, TypeOK
<1>2. \A r : r \in queuedRuns <=>
        \E i \in WaitingFrom..Len(runQueue) : runQueue[i].runId = r
  BY DEF InFlightAccounting
<1>3. ASSUME NEW i \in 1..Len(runQueue)
      PROVE  runQueue[i].runId \in activeRuns \cup queuedRuns
  <2>1. CASE i \in WaitingFrom..Len(runQueue)
    BY <1>2, <2>1
  <2>2. CASE i \notin WaitingFrom..Len(runQueue)
    <3>1. i = 1 /\ phase # "idle"
      BY <1>1, <2>2 DEF WaitingFrom
    <3> QED
      BY <3>1, CurrentType DEF InFlightAccounting
  <2> QED
    BY <2>1, <2>2
<1> QED
  BY <1>1, <1>2, <1>3 DEF TypeInv, RunningRun

(* A run that leaves the queue and is answered leaves every set.           *)
LEMMA LeaveQueueAccounting ==
  ASSUME TypeInv, InFlightAccounting, phase # "idle", LeaveQueue,
         NEW reply \in Reply \ {"pending"}, Answer(reply)
  PROVE  InFlightAccounting'
<1> DEFINE n == Len(runQueue)
<1>1. /\ runQueue # <<>> /\ current \in Run /\ current = runQueue[1]
      /\ n \in Nat \ {0} /\ runQueue' = Tail(runQueue) /\ Len(runQueue') = n - 1
      /\ \A i \in 1..n - 1 : runQueue'[i] = runQueue[i + 1]
  BY CurrentType DEF LeaveQueue
<1>2. \A i, j \in 1..n : runQueue[i].runId = runQueue[j].runId => i = j
  BY DEF InFlightAccounting
<1>3. \A r : r \in queuedRuns <=> \E i \in 2..n : runQueue[i].runId = r
  BY WaitingIds DEF WaitingFrom
<1>4. \A r : (\E i \in 2..n : runQueue[i].runId = r)
               <=> (\E i \in 1..n - 1 : runQueue'[i].runId = r)
  <2>1. ASSUME NEW r, NEW i \in 2..n, runQueue[i].runId = r
        PROVE  \E k \in 1..n - 1 : runQueue'[k].runId = r
    <3>1. i - 1 \in 1..n - 1 /\ runQueue'[i - 1] = runQueue[i]
      BY <1>1
    <3> QED
      BY <2>1, <3>1
  <2>2. ASSUME NEW r, NEW i \in 1..n - 1, runQueue'[i].runId = r
        PROVE  \E k \in 2..n : runQueue[k].runId = r
    BY <1>1, <2>2
  <2> QED
    BY <2>1, <2>2
<1>5. \A i, j \in 1..Len(runQueue') : runQueue'[i].runId = runQueue'[j].runId => i = j
  BY <1>1, <1>2
<1>6. phase' = "idle" /\ queuedRuns' = queuedRuns /\ WaitingFrom' = 1
  BY DEF LeaveQueue, WaitingFrom
<1>7. queuedRuns' = {runQueue'[i].runId : i \in WaitingFrom'..Len(runQueue')}
  <2>1. \A r : r \in queuedRuns' <=> \E i \in 1..n - 1 : runQueue'[i].runId = r
    BY <1>3, <1>4, <1>6
  <2>2. WaitingFrom'..Len(runQueue') = 1..n - 1
    BY <1>1, <1>6
  <2> QED
    BY <2>1, <2>2
<1>8. current.runId \notin queuedRuns
  BY <1>1, <1>2, <1>3
<1>9. queuedRuns' \cap activeRuns' = {} /\ cancelledRuns' \subseteq activeRuns' \cup queuedRuns'
  BY <1>8 DEF LeaveQueue, InFlightAccounting
<1>10. ASSUME NEW r \in RunIds
       PROVE  hostReply'[r] = "pending" <=> \E i \in 1..Len(runQueue') : runQueue'[i].runId = r
  <2>1. CASE r = current.runId
    <3>1. hostReply'[r] # "pending"
      BY <2>1 DEF Answer, TypeInv, TypeOK
    <3> QED
      BY <1>1, <1>3, <1>4, <1>8, <2>1, <3>1
  <2>2. CASE r # current.runId
    <3>1. hostReply'[r] = hostReply[r]
      BY <2>2 DEF Answer, TypeInv, TypeOK
    <3>2. hostReply[r] = "pending" <=> \E i \in 1..n : runQueue[i].runId = r
      BY DEF InFlightAccounting
    <3>3. (\E i \in 1..n : runQueue[i].runId = r) <=> (\E i \in 2..n : runQueue[i].runId = r)
      BY <1>1, <2>2
    <3> QED
      BY <1>1, <1>4, <3>1, <3>2, <3>3
  <2> QED
    BY <2>1, <2>2
<1> QED
  BY <1>5, <1>6, <1>7, <1>9, <1>10 DEF InFlightAccounting

(* A run that starts moves from the waiting runs to the active ones.       *)
LEMMA StartRunAccounting == TypeInv /\ InFlightAccounting /\ StartRun => InFlightAccounting'
<1> SUFFICES ASSUME TypeInv, InFlightAccounting, StartRun PROVE InFlightAccounting'
  OBVIOUS
<1> DEFINE n == Len(runQueue)
<1>1. /\ runQueue # <<>> /\ current \in Run /\ current = runQueue[1] /\ n \in Nat \ {0}
  BY CurrentType DEF StartRun, Ready
<1>2. \A r : r \in queuedRuns <=> \E i \in 1..n : runQueue[i].runId = r
  BY WaitingIds DEF WaitingFrom, StartRun, Ready
<1>3. \A i, j \in 1..n : runQueue[i].runId = runQueue[j].runId => i = j
  BY DEF InFlightAccounting
<1>4. /\ runQueue' = runQueue /\ current' = current /\ WaitingFrom' = 2 /\ phase' # "idle"
      /\ queuedRuns' = queuedRuns \ {current.runId}
      /\ activeRuns' = activeRuns \cup {current.runId}
      /\ cancelledRuns' = cancelledRuns /\ hostReply' = hostReply
  BY DEF StartRun, WaitingFrom, hostVars, current
<1>5. \A r : r \in queuedRuns' <=> \E i \in 2..n : runQueue[i].runId = r
  BY <1>1, <1>2, <1>3, <1>4
<1>6. queuedRuns' = {runQueue'[i].runId : i \in WaitingFrom'..Len(runQueue')}
  BY <1>4, <1>5
<1>7. queuedRuns' \cap activeRuns' = {} /\ cancelledRuns' \subseteq activeRuns' \cup queuedRuns'
  BY <1>4 DEF InFlightAccounting
<1> QED
  BY <1>1, <1>4, <1>6, <1>7 DEF InFlightAccounting

(* A malformed run goes straight from the queue to its transport error.    *)
LEMMA StartMalformedRunAccounting ==
  TypeInv /\ InFlightAccounting /\ StartMalformedRun => InFlightAccounting'
<1> SUFFICES ASSUME TypeInv, InFlightAccounting, StartMalformedRun PROVE InFlightAccounting'
  OBVIOUS
<1> DEFINE n == Len(runQueue)
<1>1. /\ runQueue # <<>> /\ current \in Run /\ current = runQueue[1]
      /\ n \in Nat \ {0} /\ runQueue' = Tail(runQueue) /\ Len(runQueue') = n - 1
      /\ \A i \in 1..n - 1 : runQueue'[i] = runQueue[i + 1]
  BY CurrentType DEF StartMalformedRun, Ready
<1>2. \A i, j \in 1..n : runQueue[i].runId = runQueue[j].runId => i = j
  BY DEF InFlightAccounting
<1>3. \A r : r \in queuedRuns <=> \E i \in 1..n : runQueue[i].runId = r
  BY WaitingIds DEF WaitingFrom, StartMalformedRun, Ready
<1>4. /\ phase' = "idle" /\ WaitingFrom' = 1
      /\ queuedRuns' = queuedRuns \ {current.runId}
      /\ activeRuns' = activeRuns \cup {current.runId}
      /\ cancelledRuns' = cancelledRuns
      /\ hostReply' = [hostReply EXCEPT ![current.runId] = "transport-error"]
  BY DEF StartMalformedRun, Ready, WaitingFrom
<1>5. \A r : (\E i \in 2..n : runQueue[i].runId = r)
               <=> (\E i \in 1..n - 1 : runQueue'[i].runId = r)
  <2>1. ASSUME NEW r, NEW i \in 2..n, runQueue[i].runId = r
        PROVE  \E k \in 1..n - 1 : runQueue'[k].runId = r
    <3>1. i - 1 \in 1..n - 1 /\ runQueue'[i - 1] = runQueue[i]
      BY <1>1
    <3> QED
      BY <2>1, <3>1
  <2>2. ASSUME NEW r, NEW i \in 1..n - 1, runQueue'[i].runId = r
        PROVE  \E k \in 2..n : runQueue[k].runId = r
    BY <1>1, <2>2
  <2> QED
    BY <2>1, <2>2
<1>6. \A r : r \in queuedRuns' <=> \E i \in 2..n : runQueue[i].runId = r
  BY <1>1, <1>2, <1>3, <1>4
<1>7. \A i, j \in 1..Len(runQueue') : runQueue'[i].runId = runQueue'[j].runId => i = j
  BY <1>1, <1>2
<1>8. queuedRuns' = {runQueue'[i].runId : i \in WaitingFrom'..Len(runQueue')}
  <2>1. \A r : r \in queuedRuns' <=> \E i \in 1..n - 1 : runQueue'[i].runId = r
    BY <1>5, <1>6
  <2>2. WaitingFrom'..Len(runQueue') = 1..n - 1
    BY <1>1, <1>4
  <2> QED
    BY <2>1, <2>2
<1>9. queuedRuns' \cap activeRuns' = {} /\ cancelledRuns' \subseteq activeRuns' \cup queuedRuns'
  BY <1>4 DEF InFlightAccounting
<1>10. ASSUME NEW r \in RunIds
       PROVE  hostReply'[r] = "pending" <=> \E i \in 1..Len(runQueue') : runQueue'[i].runId = r
  <2>1. hostReply'[r] = "pending" <=> r # current.runId /\ hostReply[r] = "pending"
    BY <1>4 DEF TypeInv, TypeOK
  <2>2. hostReply[r] = "pending" <=> r \in queuedRuns
    BY <1>3 DEF InFlightAccounting
  <2> QED
    BY <1>1, <1>4, <1>5, <1>6, <2>1, <2>2
<1> QED
  BY <1>4, <1>7, <1>8, <1>9, <1>10 DEF InFlightAccounting

(* An accepted run's id is new to every set.                               *)
LEMMA EnqueueAccounting ==
  ASSUME TypeInv, InFlightAccounting, NEW r \in RunIds, NEW payload \in Payloads,
         NEW snapshot \in Snapshot, Enqueue(r, payload, snapshot)
  PROVE  InFlightAccounting'
<1> DEFINE n == Len(runQueue)
           run == [runId |-> r, payload |-> payload, snapshot |-> snapshot]
<1>1. /\ n \in Nat /\ runQueue' = Append(runQueue, run) /\ Len(runQueue') = n + 1
      /\ runQueue'[n + 1] = run /\ \A i \in 1..n : runQueue'[i] = runQueue[i]
      /\ runQueue' \in Seq(Run) /\ runQueue' # <<>>
  <2>1. run \in Run
    BY DEF Run
  <2>2. runQueue \in Seq(Run) /\ runQueue' = Append(runQueue, run)
    BY DEF TypeInv, TypeOK, Enqueue
  <2> HIDE DEF run
  <2> QED
    BY <2>1, <2>2, AppendFacts, LenProperties
<1>2. /\ \A i \in 1..n : runQueue[i].runId # r
      /\ \A x : x \in queuedRuns <=> \E i \in WaitingFrom..n : runQueue[i].runId = x
  BY WaitingIds DEF Enqueue, RunIdFree
<1>3. WaitingFrom' = WaitingFrom /\ WaitingFrom \in 1..n + 1 /\ phase' = phase
  <2>1. phase # "idle" => n > 0
    BY <1>1, CurrentType
  <2> QED
    BY <1>1, <2>1 DEF WaitingFrom, Enqueue
<1>4. \A i, j \in 1..Len(runQueue') : runQueue'[i].runId = runQueue'[j].runId => i = j
  <2>1. \A i, j \in 1..n : runQueue[i].runId = runQueue[j].runId => i = j
    BY DEF InFlightAccounting
  <2> QED
    BY <1>1, <1>2, <2>1
<1>5. queuedRuns' = {runQueue'[i].runId : i \in WaitingFrom'..Len(runQueue')}
  <2>1. queuedRuns' = queuedRuns \cup {r}
    BY DEF Enqueue
  <2>2. \A x : x \in queuedRuns' <=>
          \E i \in WaitingFrom..n + 1 : runQueue'[i].runId = x
    BY <1>1, <1>2, <1>3, <2>1
  <2> QED
    BY <1>1, <1>3, <2>2
<1>6. phase' # "idle" => runQueue' # <<>> /\ current'.runId \in activeRuns'
  <2>1. ASSUME phase # "idle"
        PROVE  current' = current
    <3>1. current = runQueue[1] /\ 1 \in 1..n
      BY <2>1, CurrentType
    <3>2. current' = runQueue'[1]
      BY <1>1, TailFacts DEF current
    <3> QED
      BY <1>1, <3>1, <3>2
  <2> QED
    BY <1>1, <1>3, <2>1 DEF Enqueue, InFlightAccounting
<1>7. /\ queuedRuns' \cap activeRuns' = {}
      /\ cancelledRuns' \subseteq activeRuns' \cup queuedRuns'
  BY DEF Enqueue, RunIdFree, InFlightAccounting
<1>8. ASSUME NEW x \in RunIds
      PROVE  hostReply'[x] = "pending" <=> \E i \in 1..Len(runQueue') : runQueue'[i].runId = x
  <2>1. hostReply'[x] = "pending" <=> x = r \/ hostReply[x] = "pending"
    BY DEF Enqueue, TypeInv, TypeOK
  <2>2. hostReply[x] = "pending" <=> \E i \in 1..n : runQueue[i].runId = x
    BY DEF InFlightAccounting
  <2> QED
    BY <1>1, <2>1, <2>2
<1> QED
  BY <1>4, <1>5, <1>6, <1>7, <1>8 DEF InFlightAccounting

(* Every step keeps the accounting.                                        *)
LEMMA AccountingStep == TypeInv /\ InFlightAccounting /\ [Next]_vars => InFlightAccounting'
<1> SUFFICES ASSUME TypeInv, InFlightAccounting, [Next]_vars PROVE InFlightAccounting'
  OBVIOUS
<1>1. ASSUME UNCHANGED <<runVars, hostReply>>
      PROVE  InFlightAccounting'
  BY <1>1 DEF InFlightAccounting, WaitingFrom, current, runVars
<1>2. ASSUME NEW r \in RunIds, Cancel(r)
      PROVE  InFlightAccounting'
  BY <1>2 DEF Cancel, InFlightAccounting, WaitingFrom, current, hostVars
<1>3. ASSUME NEW r \in RunIds, NEW payload \in Payloads, NEW d \in Documents,
             NEW documentRevision \in 1..MaxRevision,
             SubmitRun(r, payload, d, documentRevision)
      PROVE  InFlightAccounting'
  BY <1>3, EnqueueAccounting, CaptureType DEF SubmitRun, TypeInv
<1>4. ASSUME NEW r \in RunIds, NEW payload \in Payloads, SubmitRawRun(r, payload)
      PROVE  InFlightAccounting'
  <2>1. NoSnapshot \in Snapshot
    BY DEF NoSnapshot, Snapshot, EmptyStore, Store
  <2> QED
    BY <1>4, <2>1, EnqueueAccounting DEF SubmitRawRun
<1>5. CASE Command
  <2>1. ASSUME NEW d \in Documents, NEW source \in Sources, NEW replaceSession \in BOOLEAN,
               Open(d, source, replaceSession)
        PROVE  InFlightAccounting'
    BY <1>1, <2>1 DEF Open, hostVars
  <2>2. ASSUME NEW d \in Documents, NEW baseRevision \in 1..MaxRevision, NEW source \in Sources,
               Change(d, baseRevision, source)
        PROVE  InFlightAccounting'
    BY <1>1, <2>2 DEF Change, hostVars
  <2>3. ASSUME NEW d \in Documents, NEW s \in Subscriptions, NEW delivery \in Delivery,
               NEW initialCredit \in 0..MaxCredit, Subscribe(d, s, delivery, initialCredit)
        PROVE  InFlightAccounting'
    BY <1>1, <2>3 DEF Subscribe
  <2>4. ASSUME NEW s \in Subscriptions, NEW credit \in 1..MaxCredit, Credit(s, credit)
        PROVE  InFlightAccounting'
    BY <1>1, <2>4 DEF Credit
  <2>5. ASSUME NEW d \in Documents, ExportCache(d)
        PROVE  InFlightAccounting'
    BY <1>1, <2>5 DEF ExportCache
  <2>6. ASSUME NEW d \in Documents, ImportCache(d)
        PROVE  InFlightAccounting'
    BY <1>1, <2>6 DEF ImportCache, hostVars
  <2> QED
    BY <1>2, <1>3, <1>4, <1>5, <2>1, <2>2, <2>3, <2>4, <2>5, <2>6 DEF Command
<1>6. CASE PlanRun
  BY <1>6 DEF PlanRun, InFlightAccounting, WaitingFrom, current, hostVars
<1>7. CASE IdentifyResult
  BY <1>7 DEF IdentifyResult, InFlightAccounting, WaitingFrom, current, hostVars
<1>8. ASSUME phase # "idle", LeaveQueue, NEW reply \in Reply \ {"pending"}, Answer(reply)
      PROVE  InFlightAccounting'
  BY <1>8, LeaveQueueAccounting
<1>9. ASSUME NEW gatePassed \in BOOLEAN, NEW writes \in Journals,
             NEW counts \in [Subscriptions -> 0..MaxChunks],
             PublishRun(gatePassed, writes, counts)
      PROVE  InFlightAccounting'
  BY <1>8, <1>9 DEF PublishRun, Concluding, Reply
<1>10. CASE ConcludeStaleRun
  BY <1>8, <1>10 DEF ConcludeStaleRun, Concluding, Reply
<1>11. CASE ConcludeRawRun
  BY <1>8, <1>11 DEF ConcludeRawRun, Concluding, Reply
<1>12. CASE FailRun
  BY <1>8, <1>12 DEF FailRun, CatchRun, Reply
<1>13. CASE StopCancelledRun
  BY <1>8, <1>13 DEF StopCancelledRun, CatchRun, Reply
<1>14. CASE UNCHANGED vars
  BY <1>1, <1>14 DEF vars, hostVars
<1> QED
  BY <1>5, <1>6, <1>7, <1>9, <1>10, <1>11, <1>12, <1>13, <1>14,
     StartRunAccounting, StartMalformedRunAccounting DEF Next, Execute

LEMMA AccountingInit == Init => InFlightAccounting
<1> SUFFICES ASSUME Init PROVE InFlightAccounting
  OBVIOUS
<1>1. runQueue = <<>> /\ Len(runQueue) = 0 /\ phase = "idle" /\ WaitingFrom = 1
  BY DEF Init, WaitingFrom
<1>2. \A r \in RunIds : hostReply[r] = "none"
  BY DEF Init
<1> QED
  BY <1>1, <1>2 DEF Init, InFlightAccounting

(* What is known of every reachable state about runs in flight.            *)
RunInv == TypeInv /\ InFlightAccounting

LEMMA RunInvInductive == (Init => RunInv) /\ (RunInv /\ [Next]_vars => RunInv')
  BY TypeInit, TypeStep, AccountingInit, AccountingStep DEF RunInv

(* The dispatcher's sets of runIds always say what its queue says, and a   *)
(* reply is owed exactly to the runs in the queue.                         *)
THEOREM RunsInFlight == Spec => []InFlightAccounting
<1>1. RunInv => InFlightAccounting
  BY DEF RunInv
<1> QED
  BY <1>1, RunInvInductive, PTL DEF Spec

-----------------------------------------------------------------------------
(* Cancellation *)

(* A run that an accepted cancel named in time ends without a committed    *)
(* result and without touching a document: between the last check of       *)
(* cancelledRuns and the publication no command can be handled.            *)
THEOREM CancelIsFinal == Spec => AcceptedCancelIsFinal
<1> DEFINE Final == \A r \in RunIds :
             r \in cancelledRuns /\ r \notin cancelledRuns'
               => /\ hostReply'[r] \notin {"succeeded", "stale"}
                  /\ UNCHANGED sessionVars
<1>1. TypeInv /\ [Next]_vars => [Final]_vars
  <2> SUFFICES ASSUME TypeInv, Next, NEW r \in RunIds,
                      r \in cancelledRuns, r \notin cancelledRuns'
               PROVE  /\ hostReply'[r] \notin {"succeeded", "stale"}
                      /\ UNCHANGED sessionVars
    OBVIOUS
  <2>1. ~Command
    BY DEF Command, Open, Change, Subscribe, Credit, ExportCache, ImportCache, Cancel,
           SubmitRun, SubmitRawRun, Enqueue, runVars
  <2>2. ~StartRun /\ ~StartMalformedRun /\ ~PlanRun /\ ~IdentifyResult
    BY DEF StartRun, StartMalformedRun, PlanRun, IdentifyResult
  <2>3. LeaveQueue => r = current.runId
    BY DEF LeaveQueue
  <2>4. ~ConcludeStaleRun /\ ~ConcludeRawRun
    BY <2>3 DEF ConcludeStaleRun, ConcludeRawRun, Concluding, RunIsCancelled
  <2>5. ASSUME NEW gatePassed, NEW writes, NEW counts, PublishRun(gatePassed, writes, counts)
        PROVE  FALSE
    BY <2>3, <2>5 DEF PublishRun, Concluding, RunIsCancelled
  <2>6. ASSUME NEW reply \in {"failed", "cancelled"}, CatchRun(reply)
        PROVE  hostReply'[r] \notin {"succeeded", "stale"} /\ UNCHANGED sessionVars
    BY <2>3, <2>6 DEF CatchRun, Answer, TypeInv, TypeOK
  <2> QED
    BY <2>1, <2>2, <2>4, <2>5, <2>6 DEF Next, Execute, FailRun, StopCancelledRun
<1> QED
  BY <1>1, TypeInvariant, PTL DEF Spec, AcceptedCancelIsFinal

-----------------------------------------------------------------------------
(***************************************************************************)
(* What a completed run publishes: the captured text is the head's, the    *)
(* cache journal lands on the store it was read from, and the kernel       *)
(* implements PublishedHead.                                               *)
(***************************************************************************)

-----------------------------------------------------------------------------
(* The invariant *)

(* Session numbers are handed out in order, each to one document.          *)
SessionsOrdered ==
  /\ \A d \in Documents : documents[d].session <= editorSessionSequence
  /\ \A d, e \in Documents :
       documents[d].session = documents[e].session /\ documents[d].session # 0 => d = e

(* What a waiting run's snapshot says of its session while it is live: the *)
(* revision is not ahead of the head, and the same number means the same   *)
(* text; the store is not ahead either, and the same version is the same   *)
(* store.                                                                  *)
SnapshotHolds(snapshot) ==
  snapshot.documentId # NoDocument =>
    LET document == documents[snapshot.documentId] IN
    /\ snapshot.session \in 1..editorSessionSequence
    /\ document.session = snapshot.session =>
         /\ snapshot.revision <= document.revision
         /\ snapshot.revision = document.revision => snapshot.source = document.source
         /\ snapshot.stageCacheBaseline.version <= document.stageCache.version
         /\ snapshot.stageCacheBaseline.version = document.stageCache.version
              => snapshot.stageCacheBaseline = document.stageCache

SnapshotsHold == \A i \in 1..Len(runQueue) : SnapshotHolds(runQueue[i].snapshot)

PublicationInv == RunInv /\ SessionsOrdered /\ SnapshotsHold

-----------------------------------------------------------------------------
(* Types at hand *)

LEMMA SessionTypes ==
  ASSUME TypeInv
  PROVE  /\ documents \in [Documents -> Document] /\ editorSessionSequence \in Nat
         /\ \A d \in Documents :
              /\ documents[d].session \in Nat /\ documents[d].revision \in Nat
              /\ documents[d].stageCache \in Store
              /\ documents[d].stageCache.version \in Nat
  BY DEF TypeInv, TypeOK, SessionsTypeOK, Document, Store

LEMMA SnapshotTypes ==
  ASSUME NEW snapshot \in Snapshot
  PROVE  /\ snapshot.documentId \in Documents \cup {NoDocument}
         /\ snapshot.session \in Nat /\ snapshot.revision \in Nat
         /\ snapshot.stageCacheBaseline \in Store
         /\ snapshot.stageCacheBaseline.version \in Nat
         /\ snapshot.subscriptionIds \subseteq Subscriptions
  BY DEF Snapshot, Store

-----------------------------------------------------------------------------
(* Steps on documents *)

(* An open replaces one document by a session that no snapshot can name.   *)
LEMMA OpenHolds ==
  ASSUME TypeInv, SessionsOrdered, NEW d \in Documents, NEW source \in Sources,
         NEW replaceSession \in BOOLEAN, OpenEditorDocument(d, source, replaceSession)
  PROVE  /\ SessionsOrdered'
         /\ \A snapshot \in Snapshot : SnapshotHolds(snapshot) => SnapshotHolds(snapshot)'
<1>1. /\ editorSessionSequence' = editorSessionSequence + 1
      /\ documents' = [documents EXCEPT ![d] =
           [ClosedDocument EXCEPT !.session = editorSessionSequence + 1,
                                  !.source = source, !.revision = 1]]
  BY DEF OpenEditorDocument
<1>2. /\ documents'[d].session = editorSessionSequence + 1
      /\ \A e \in Documents \ {d} : documents'[e] = documents[e]
  BY <1>1, SessionTypes DEF ClosedDocument
<1>3. SessionsOrdered'
  BY <1>1, <1>2, SessionTypes DEF SessionsOrdered
<1>4. ASSUME NEW snapshot \in Snapshot, SnapshotHolds(snapshot)
      PROVE  SnapshotHolds(snapshot)'
  <2>1. CASE snapshot.documentId = NoDocument
    BY <2>1 DEF SnapshotHolds
  <2>2. CASE snapshot.documentId = d
    <3>1. snapshot.session \in 1..editorSessionSequence
      BY <1>4, <2>2, SessionsAssumption DEF SnapshotHolds
    <3> QED
      BY <1>1, <1>2, <2>2, <3>1, SessionTypes DEF SnapshotHolds
  <2>3. CASE snapshot.documentId \in Documents \ {d}
    BY <1>1, <1>2, <1>4, <2>3, SessionTypes, SnapshotTypes DEF SnapshotHolds
  <2> QED
    BY <2>1, <2>2, <2>3, SnapshotTypes
<1> QED
  BY <1>3, <1>4

(* An edit moves the head past every snapshot of its session.              *)
LEMMA ChangeHolds ==
  ASSUME TypeInv, SessionsOrdered, NEW d \in Documents, NEW baseRevision \in 1..MaxRevision,
         NEW source \in Sources, ApplyEditorChange(d, baseRevision, source)
  PROVE  /\ SessionsOrdered'
         /\ \A snapshot \in Snapshot : SnapshotHolds(snapshot) => SnapshotHolds(snapshot)'
<1>1. /\ editorSessionSequence' = editorSessionSequence
      /\ documents' = [documents EXCEPT ![d] =
           [documents[d] EXCEPT !.source = source, !.revision = documents[d].revision + 1]]
  BY SessionTypes DEF ApplyEditorChange, Document
<1>2. /\ documents'[d].session = documents[d].session
      /\ documents'[d].revision = documents[d].revision + 1
      /\ documents'[d].stageCache = documents[d].stageCache
      /\ \A e \in Documents \ {d} : documents'[e] = documents[e]
  BY <1>1, SessionTypes DEF Document
<1>3. SessionsOrdered'
  BY <1>1, <1>2, SessionTypes DEF SessionsOrdered
<1>4. ASSUME NEW snapshot \in Snapshot, SnapshotHolds(snapshot)
      PROVE  SnapshotHolds(snapshot)'
  <2>1. CASE snapshot.documentId = d
    BY <1>1, <1>2, <1>4, <2>1, SessionTypes, SnapshotTypes DEF SnapshotHolds
  <2>2. CASE snapshot.documentId # d
    BY <1>1, <1>2, <1>4, <2>2, SnapshotTypes DEF SnapshotHolds
  <2> QED
    BY <2>1, <2>2
<1> QED
  BY <1>3, <1>4

(* A publication changes at most the store, and then its version.          *)
LEMMA PublishHolds ==
  ASSUME TypeInv, SessionsOrdered, NEW current_snapshot \in Snapshot,
         current_snapshot.documentId \in Documents,
         NEW gatePassed, NEW writes, NEW counts,
         PublishEditorRun(current_snapshot, gatePassed, writes, runInstanceSequence, counts)
  PROVE  /\ SessionsOrdered'
         /\ \A snapshot \in Snapshot : SnapshotHolds(snapshot) => SnapshotHolds(snapshot)'
<1> DEFINE d == current_snapshot.documentId
           store == FinalizeStageCache(current_snapshot, documents[d].stageCache,
                                       gatePassed, writes, runInstanceSequence)
<1>1. /\ editorSessionSequence' = editorSessionSequence
      /\ documents' = [documents EXCEPT ![d] =
           [documents[d] EXCEPT !.publishedRevision = current_snapshot.revision,
                                !.planBaseline = EvaluatedBaseline(current_snapshot),
                                !.stageCache = store]]
  BY DEF PublishEditorRun
<1>2. store = documents[d].stageCache \/ store.version = documents[d].stageCache.version + 1
  BY DEF FinalizeStageCache
<1> HIDE DEF store
<1>3. /\ documents'[d].session = documents[d].session
      /\ documents'[d].revision = documents[d].revision
      /\ documents'[d].source = documents[d].source
      /\ documents'[d].stageCache = store
      /\ \A e \in Documents \ {d} : documents'[e] = documents[e]
  BY <1>1, SessionTypes DEF Document
<1>4. SessionsOrdered'
  BY <1>1, <1>3, SessionTypes DEF SessionsOrdered
<1>5. ASSUME NEW snapshot \in Snapshot, SnapshotHolds(snapshot)
      PROVE  SnapshotHolds(snapshot)'
  <2>1. CASE snapshot.documentId = d
    BY <1>1, <1>2, <1>3, <1>5, <2>1, SessionTypes, SnapshotTypes DEF SnapshotHolds
  <2>2. CASE snapshot.documentId # d
    BY <1>1, <1>3, <1>5, <2>2, SnapshotTypes DEF SnapshotHolds
  <2> QED
    BY <2>1, <2>2
<1> QED
  BY <1>4, <1>5

(* What a run captures holds at that moment.                               *)
LEMMA CaptureHolds ==
  ASSUME TypeInv, SessionsOrdered, NEW d \in Documents, IsOpen(d)
  PROVE  SnapshotHolds(CaptureEditorRun(d))
  BY SessionTypes DEF CaptureEditorRun, SnapshotHolds, SessionsOrdered, IsOpen

-----------------------------------------------------------------------------
(* Steps on the queue *)

(* Unless a run is accepted, every queued run was queued before.           *)
LEMMA QueueShrinks ==
  ASSUME RunInv, runQueue' = runQueue \/ (runQueue # <<>> /\ runQueue' = Tail(runQueue))
  PROVE  \A i \in 1..Len(runQueue') :
           \E j \in 1..Len(runQueue) : runQueue'[i] = runQueue[j]
<1>1. CASE runQueue' = runQueue
  BY <1>1
<1>2. CASE runQueue # <<>> /\ runQueue' = Tail(runQueue)
  <2>1. /\ Len(runQueue) \in Nat \ {0} /\ Len(runQueue') = Len(runQueue) - 1
        /\ \A i \in 1..Len(runQueue) - 1 : runQueue'[i] = runQueue[i + 1]
    BY <1>2, CurrentType DEF RunInv
  <2>2. ASSUME NEW i \in 1..Len(runQueue')
        PROVE  \E j \in 1..Len(runQueue) : runQueue'[i] = runQueue[j]
    <3>1. i + 1 \in 1..Len(runQueue) /\ runQueue'[i] = runQueue[i + 1]
      BY <2>1
    <3> QED
      BY <3>1
  <2> QED
    BY <2>2
<1> QED
  BY <1>1, <1>2

(* Every queued run is a run.                                              *)
LEMMA QueuedRunTypes ==
  ASSUME TypeInv
  PROVE  \A i \in 1..Len(runQueue) :
           runQueue[i] \in Run /\ runQueue[i].snapshot \in Snapshot
<1>1. \A i \in 1..Len(runQueue) : runQueue[i] \in Run
  BY ElementOfSeq DEF TypeInv, TypeOK
<1> QED
  BY <1>1 DEF Run

(* Snapshots that hold through a step that only shrinks the queue.         *)
LEMMA SnapshotsKept ==
  ASSUME RunInv, SnapshotsHold,
         runQueue' = runQueue \/ (runQueue # <<>> /\ runQueue' = Tail(runQueue)),
         \A snapshot \in Snapshot : SnapshotHolds(snapshot) => SnapshotHolds(snapshot)'
  PROVE  SnapshotsHold'
<1> SUFFICES ASSUME NEW i \in 1..Len(runQueue')
             PROVE  SnapshotHolds(runQueue[i].snapshot)'
  BY DEF SnapshotsHold
<1>1. PICK j \in 1..Len(runQueue) : runQueue'[i] = runQueue[j]
  BY QueueShrinks
<1>2. runQueue[j].snapshot \in Snapshot /\ SnapshotHolds(runQueue[j].snapshot)
  BY QueuedRunTypes DEF SnapshotsHold, RunInv
<1>3. PICK snapshot \in Snapshot : snapshot = runQueue[j].snapshot
  BY <1>2
<1>4. SnapshotHolds(snapshot)'
  BY <1>2, <1>3
<1> QED
  BY <1>1, <1>3, <1>4 DEF SnapshotHolds

(* A run is accepted with a snapshot that holds.                           *)
LEMMA EnqueueHolds ==
  ASSUME PublicationInv, NEW r \in RunIds, NEW payload \in Payloads, NEW snapshot \in Snapshot,
         SnapshotHolds(snapshot), Enqueue(r, payload, snapshot)
  PROVE  SessionsOrdered' /\ SnapshotsHold'
<1>1. /\ documents' = documents /\ editorSessionSequence' = editorSessionSequence
      /\ runQueue' = Append(runQueue, [runId |-> r, payload |-> payload, snapshot |-> snapshot])
  BY DEF Enqueue, sessionVars
<1>2. SessionsOrdered'
  BY <1>1 DEF PublicationInv, SessionsOrdered
<1>3. ASSUME NEW i \in 1..Len(runQueue')
      PROVE  SnapshotHolds(runQueue[i].snapshot)'
  <2>1. [runId |-> r, payload |-> payload, snapshot |-> snapshot] \in Run
    BY DEF Run
  <2>2. runQueue \in Seq(Run) /\ Len(runQueue) \in Nat
    BY LenProperties DEF PublicationInv, RunInv, TypeInv, TypeOK
  <2>3. \/ runQueue'[i].snapshot = snapshot
        \/ i \in 1..Len(runQueue) /\ runQueue'[i] = runQueue[i]
    BY <1>1, <2>1, <2>2, AppendFacts
  <2>4. SnapshotHolds(runQueue'[i].snapshot)
    BY <2>3 DEF PublicationInv, SnapshotsHold
  <2> QED
    BY <1>1, <2>4 DEF SnapshotHolds
<1> QED
  BY <1>2, <1>3 DEF SnapshotsHold

(* With no run in flight the queue is empty.                               *)
LEMMA IdleQueueEmpty ==
  ASSUME RunInv, ImportAllowed
  PROVE  runQueue = <<>>
<1>1. \A i \in 1..Len(runQueue) : FALSE
  BY WaitingIds DEF RunInv, ImportAllowed, isRunBusy
<1>2. runQueue \in Seq(Run)
  BY DEF RunInv, TypeInv, TypeOK
<1> QED
  BY <1>1, <1>2, EmptySeq, LenProperties

(* Every step keeps the invariant.                                         *)
LEMMA PublicationStep == PublicationInv /\ [Next]_vars => PublicationInv'
<1> SUFFICES ASSUME PublicationInv, [Next]_vars PROVE SessionsOrdered' /\ SnapshotsHold'
  BY RunInvInductive DEF PublicationInv
<1> USE DEF PublicationInv
<1>0. TypeInv
  BY DEF RunInv
<1>1. ASSUME documents' = documents, editorSessionSequence' = editorSessionSequence,
             runQueue' = runQueue \/ (runQueue # <<>> /\ runQueue' = Tail(runQueue))
      PROVE  SessionsOrdered' /\ SnapshotsHold'
  <2>1. \A snapshot \in Snapshot : SnapshotHolds(snapshot) => SnapshotHolds(snapshot)'
    BY <1>1 DEF SnapshotHolds
  <2> QED
    BY <1>1, <2>1, SnapshotsKept DEF SessionsOrdered
<1>2. ASSUME NEW d \in Documents, NEW source \in Sources, NEW replaceSession \in BOOLEAN,
             Open(d, source, replaceSession)
      PROVE  SessionsOrdered' /\ SnapshotsHold'
  BY <1>0, <1>2, OpenHolds, SnapshotsKept DEF Open, runVars
<1>3. ASSUME NEW d \in Documents, NEW baseRevision \in 1..MaxRevision, NEW source \in Sources,
             Change(d, baseRevision, source)
      PROVE  SessionsOrdered' /\ SnapshotsHold'
  BY <1>0, <1>3, ChangeHolds, SnapshotsKept DEF Change, runVars
<1>4. ASSUME NEW d \in Documents, ImportCache(d)
      PROVE  SessionsOrdered' /\ SnapshotsHold'
  <2>1. runQueue' = <<>>
    BY <1>4, IdleQueueEmpty DEF ImportCache, runVars
  <2>2. SnapshotsHold'
    BY <2>1 DEF SnapshotsHold
  <2>3. editorSessionSequence' = editorSessionSequence
        /\ \A e \in Documents : documents'[e].session = documents[e].session
    BY <1>0, <1>4, SessionTypes DEF ImportCache, ImportEditorCache, Document
  <2>4. SessionsOrdered'
    BY <2>3 DEF SessionsOrdered
  <2> QED
    BY <2>2, <2>4
<1>5. ASSUME NEW r \in RunIds, NEW payload \in Payloads, NEW d \in Documents,
             NEW documentRevision \in 1..MaxRevision,
             SubmitRun(r, payload, d, documentRevision)
      PROVE  SessionsOrdered' /\ SnapshotsHold'
  <2>1. CaptureEditorRun(d) \in Snapshot /\ SnapshotHolds(CaptureEditorRun(d))
    BY <1>0, <1>5, CaptureType, CaptureHolds DEF SubmitRun, TypeInv
  <2> QED
    BY <1>5, <2>1, EnqueueHolds DEF SubmitRun
<1>6. ASSUME NEW r \in RunIds, NEW payload \in Payloads, SubmitRawRun(r, payload)
      PROVE  SessionsOrdered' /\ SnapshotsHold'
  <2>1. NoSnapshot \in Snapshot /\ SnapshotHolds(NoSnapshot)
    BY DEF NoSnapshot, Snapshot, EmptyStore, Store, SnapshotHolds
  <2> QED
    BY <1>6, <2>1, EnqueueHolds DEF SubmitRawRun
<1>7. CASE Command
  <2>1. ASSUME NEW d \in Documents, NEW s \in Subscriptions, NEW delivery \in Delivery,
               NEW initialCredit \in 0..MaxCredit, Subscribe(d, s, delivery, initialCredit)
        PROVE  SessionsOrdered' /\ SnapshotsHold'
    BY <1>1, <2>1 DEF Subscribe, SubscribeEditorDocument, runVars
  <2>2. ASSUME NEW s \in Subscriptions, NEW credit \in 1..MaxCredit, Credit(s, credit)
        PROVE  SessionsOrdered' /\ SnapshotsHold'
    BY <1>1, <2>2 DEF Credit, CreditEditorSubscription, runVars
  <2>3. ASSUME NEW d \in Documents, ExportCache(d)
        PROVE  SessionsOrdered' /\ SnapshotsHold'
    BY <1>1, <2>3 DEF ExportCache, sessionVars, runVars
  <2>4. ASSUME NEW r \in RunIds, Cancel(r)
        PROVE  SessionsOrdered' /\ SnapshotsHold'
    BY <1>1, <2>4 DEF Cancel, sessionVars
  <2> QED
    BY <1>2, <1>3, <1>4, <1>5, <1>6, <1>7, <2>1, <2>2, <2>3, <2>4 DEF Command
<1>8. CASE StartRun
  BY <1>1, <1>8 DEF StartRun, sessionVars
<1>9. CASE StartMalformedRun
  BY <1>1, <1>9 DEF StartMalformedRun, Ready, sessionVars
<1>10. CASE PlanRun
  BY <1>1, <1>10 DEF PlanRun, sessionVars
<1>11. CASE IdentifyResult
  BY <1>1, <1>11 DEF IdentifyResult, sessionVars
<1>12. ASSUME NEW gatePassed \in BOOLEAN, NEW writes \in Journals,
              NEW counts \in [Subscriptions -> 0..MaxChunks],
              PublishRun(gatePassed, writes, counts)
       PROVE  SessionsOrdered' /\ SnapshotsHold'
  <2>1. runQueue # <<>> /\ runQueue' = Tail(runQueue)
        /\ current.snapshot \in Snapshot /\ current.snapshot.documentId \in Documents
    BY <1>0, <1>12, CurrentType
    DEF PublishRun, Concluding, LeaveQueue, IsEditorRun, Run, Snapshot
  <2>2. PICK snapshot \in Snapshot : snapshot = current.snapshot
    BY <2>1
  <2>3. PublishEditorRun(snapshot, gatePassed, writes, runInstanceSequence, counts)
    BY <1>12, <2>2 DEF PublishRun
  <2>4. /\ SessionsOrdered'
        /\ \A t \in Snapshot : SnapshotHolds(t) => SnapshotHolds(t)'
    BY <1>0, <2>1, <2>2, <2>3, PublishHolds
  <2> QED
    BY <2>1, <2>4, SnapshotsKept
<1>13. ASSUME phase # "idle", LeaveQueue, UNCHANGED sessionVars
       PROVE  SessionsOrdered' /\ SnapshotsHold'
  BY <1>0, <1>1, <1>13, CurrentType DEF LeaveQueue, sessionVars
<1>14. CASE ConcludeStaleRun
  BY <1>13, <1>14 DEF ConcludeStaleRun, Concluding
<1>15. CASE ConcludeRawRun
  BY <1>13, <1>15 DEF ConcludeRawRun, Concluding
<1>16. CASE FailRun
  BY <1>13, <1>16 DEF FailRun, CatchRun
<1>17. CASE StopCancelledRun
  BY <1>13, <1>17 DEF StopCancelledRun, CatchRun
<1>18. CASE UNCHANGED vars
  BY <1>1, <1>18 DEF vars, sessionVars, runVars
<1> QED
  BY <1>7, <1>8, <1>9, <1>10, <1>11, <1>12, <1>14, <1>15, <1>16, <1>17, <1>18
  DEF Next, Execute

LEMMA PublicationInit == Init => PublicationInv
<1> SUFFICES ASSUME Init PROVE SessionsOrdered /\ SnapshotsHold
  BY RunInvInductive DEF PublicationInv
<1>1. Len(runQueue) = 0 /\ editorSessionSequence = 0
      /\ \A d \in Documents : documents[d].session = 0
  BY DEF Init, SessionsInit, ClosedDocument
<1> QED
  BY <1>1 DEF SessionsOrdered, SnapshotsHold

LEMMA PublicationInvariant == Spec => []PublicationInv
  BY PublicationInit, PublicationStep, PTL DEF Spec

-----------------------------------------------------------------------------
(* The theorems *)

(* A run whose session and revision are still the head's carries the       *)
(* head's very text: completeEditorRun may compare the numbers alone.      *)
THEOREM CapturedText == Spec => []CapturedTextIsHeadText
<1>1. PublicationInv => CapturedTextIsHeadText
  BY DEF PublicationInv, SnapshotsHold, SnapshotHolds, CapturedTextIsHeadText, HeadMatches
<1> QED
  BY <1>1, PublicationInvariant, PTL

(* A completed run's evidence is committed only onto the very store it was *)
(* gathered against: neither another run nor an import came between.       *)
THEOREM JournalOnCapturedStore == Spec => JournalCommitsOntoCapturedStore
<1> DEFINE Step == \A d \in Documents :
             /\ phase # "idle" /\ phase' = "idle"
             /\ documents'[d].stageCache # documents[d].stageCache
             => /\ current.snapshot.documentId = d
                /\ current.snapshot.stageCacheBaseline = documents[d].stageCache
<1>1. PublicationInv /\ [Next]_vars => [Step]_vars
  <2> SUFFICES ASSUME PublicationInv, Next, NEW d \in Documents,
                      phase # "idle", phase' = "idle",
                      documents'[d].stageCache # documents[d].stageCache
               PROVE  /\ current.snapshot.documentId = d
                      /\ current.snapshot.stageCacheBaseline = documents[d].stageCache
    OBVIOUS
  <2>1. TypeInv
    BY DEF PublicationInv, RunInv
  <2>2. ~Command
    <3>1. ASSUME NEW e \in Documents, ImportCache(e)
          PROVE  FALSE
      BY <2>1, <3>1, IdleQueueEmpty DEF ImportCache, PublicationInv, RunInv, TypeInv, RunningRun
    <3>2. ASSUME NEW e \in Documents, NEW source \in Sources, NEW replaceSession \in BOOLEAN,
                 Open(e, source, replaceSession)
          PROVE  FALSE
      BY <3>2 DEF Open, runVars
    <3> QED
      BY <3>1, <3>2 DEF Command, Change, Subscribe, Credit, ExportCache, Cancel, SubmitRun,
           SubmitRawRun, Enqueue, runVars
  <2>3. ~(UNCHANGED documents)
    OBVIOUS
  <2>4. PICK gatePassed \in BOOLEAN, writes \in Journals,
             counts \in [Subscriptions -> 0..MaxChunks] : PublishRun(gatePassed, writes, counts)
    BY <2>2, <2>3
    DEF Next, Execute, StartRun, StartMalformedRun, PlanRun, IdentifyResult, ConcludeStaleRun,
        ConcludeRawRun, FailRun, StopCancelledRun, CatchRun, sessionVars
  <2> DEFINE snapshot == current.snapshot
             store == FinalizeStageCache(snapshot, documents[snapshot.documentId].stageCache,
                                         gatePassed, writes, runInstanceSequence)
  <2>5. snapshot \in Snapshot /\ snapshot.documentId \in Documents
    BY <2>1, <2>4, CurrentType DEF PublishRun, IsEditorRun, Run, Snapshot
  <2>6. documents' = [documents EXCEPT ![snapshot.documentId] =
          [documents[snapshot.documentId] EXCEPT
             !.publishedRevision = snapshot.revision,
             !.planBaseline = EvaluatedBaseline(snapshot), !.stageCache = store]]
    BY <2>4 DEF PublishRun, PublishEditorRun
  <2> HIDE DEF store, snapshot
  <2>7. snapshot.documentId = d /\ documents'[d].stageCache = store
    BY <2>1, <2>5, <2>6, SessionTypes DEF Document
  <2>8. documents[d].stageCache.version = snapshot.stageCacheBaseline.version
    BY <2>7 DEF store, FinalizeStageCache
  <2>9. SnapshotHolds(snapshot) /\ documents[d].session = snapshot.session
    <3>1. current = runQueue[1] /\ 1 \in 1..Len(runQueue)
      BY <2>1, CurrentType
    <3>2. HeadMatches(snapshot)
      BY <2>4 DEF PublishRun, snapshot
    <3> QED
      BY <2>7, <3>1, <3>2 DEF PublicationInv, SnapshotsHold, HeadMatches, snapshot
  <2>10. snapshot.stageCacheBaseline = documents[d].stageCache
    BY <2>7, <2>8, <2>9, SessionsAssumption DEF SnapshotHolds
  <2> QED
    BY <2>7, <2>10 DEF snapshot
<1> QED
  BY <1>1, PublicationInvariant, PTL DEF Spec, JournalCommitsOntoCapturedStore

(* The kernel implements PublishedHead: what it publishes is, at that      *)
(* moment, the head of the same session, text and all; edits and opens are *)
(* those of the abstract sessions and everything else is invisible.        *)
THEOREM KernelPublishesHead == Spec => PublishesHead
<1> DEFINE H(d) == [session |-> documents[d].session, revision |-> documents[d].revision,
                    source |-> documents[d].source]
           head == [d \in Documents |-> H(d)]
           published == [d \in Documents |-> documents[d].planBaseline]
<1>1. Init => Published!Init
  BY DEF Init, SessionsInit, ClosedDocument, NoBaseline, Published!Init, Published!Unpublished
<1>2. PublicationInv /\ PublicationInv' /\ [Next]_vars
        => [Published!Next]_<<head, published>>
  <2> SUFFICES ASSUME PublicationInv, PublicationInv', [Next]_vars
               PROVE  Published!Next \/ (head' = head /\ published' = published)
    OBVIOUS
  <2>t. /\ TypeInv /\ documents \in [Documents -> Document] /\ documents' \in [Documents -> Document]
    BY SessionTypes DEF PublicationInv, RunInv, TypeInv, TypeOK, SessionsTypeOK
  <2>0. ASSUME \A d \in Documents :
                 /\ documents'[d].session = documents[d].session
                 /\ documents'[d].revision = documents[d].revision
                 /\ documents'[d].source = documents[d].source
                 /\ documents'[d].planBaseline = documents[d].planBaseline
        PROVE  head' = head /\ published' = published
    BY <2>0
  <2>1. ASSUME NEW d \in Documents, NEW source \in Sources, NEW replaceSession \in BOOLEAN,
               Open(d, source, replaceSession)
        PROVE  Published!NewSession(d, editorSessionSequence + 1, source)
               /\ editorSessionSequence + 1 \in 1..MaxSessions
    <3>1. editorSessionSequence + 1 \in 1..MaxSessions
      BY <2>1, <2>t, SessionTypes, SessionsAssumption DEF Open, OpenEditorDocument
    <3>2. documents' = [documents EXCEPT ![d] =
            [ClosedDocument EXCEPT !.session = editorSessionSequence + 1,
                                   !.source = source, !.revision = 1]]
      BY <2>1 DEF Open, OpenEditorDocument
    <3>3. /\ H(d)' = [session |-> editorSessionSequence + 1, revision |-> 1, source |-> source]
          /\ documents'[d].planBaseline = NoBaseline
          /\ \A e \in Documents \ {d} : documents'[e] = documents[e]
      BY <2>t, <3>2 DEF ClosedDocument
    <3>4. head' = [head EXCEPT ![d] = [session |-> editorSessionSequence + 1, revision |-> 1,
                                       source |-> source]]
      BY <3>3
    <3>5. published' = [published EXCEPT ![d] = Published!Unpublished]
      BY <3>3 DEF NoBaseline, Published!Unpublished
    <3>6. \A e \in Documents : head[e].session < editorSessionSequence + 1
      BY <2>t, SessionTypes DEF PublicationInv, SessionsOrdered
    <3> QED
      BY <3>1, <3>4, <3>5, <3>6 DEF Published!NewSession
  <2>2. ASSUME NEW d \in Documents, NEW baseRevision \in 1..MaxRevision, NEW source \in Sources,
               Change(d, baseRevision, source)
        PROVE  Published!Edit(d, source)
    <3>1. /\ documents' = [documents EXCEPT ![d] =
               [documents[d] EXCEPT !.source = source, !.revision = documents[d].revision + 1]]
          /\ documents[d].session # 0
      BY <2>2, <2>t DEF Change, ApplyEditorChange, Document, IsOpen
    <3>2. /\ H(d)' = [session |-> documents[d].session, revision |-> documents[d].revision + 1,
                      source |-> source]
          /\ documents'[d].planBaseline = documents[d].planBaseline
          /\ \A e \in Documents \ {d} : documents'[e] = documents[e]
      BY <2>t, <3>1 DEF Document
    <3>3. head' = [head EXCEPT ![d].revision = head[d].revision + 1, ![d].source = source]
      BY <3>2
    <3>4. published' = published
      BY <3>2
    <3> QED
      BY <3>1, <3>3, <3>4 DEF Published!Edit
  <2>3. ASSUME NEW gatePassed \in BOOLEAN, NEW writes \in Journals,
               NEW counts \in [Subscriptions -> 0..MaxChunks],
               PublishRun(gatePassed, writes, counts)
        PROVE  \E d \in Documents : Published!Publish(d)
    <3>0. /\ current \in Run /\ current = runQueue[1] /\ 1 \in 1..Len(runQueue)
          /\ current.snapshot \in Snapshot /\ current.snapshot.documentId \in Documents
      BY <2>3, <2>t, CurrentType DEF PublishRun, Concluding, IsEditorRun, Run, Snapshot
    <3>s. PICK snapshot \in Snapshot : snapshot = current.snapshot
      BY <3>0
    <3>d. PICK d \in Documents : d = snapshot.documentId
      BY <3>0, <3>s
    <3> DEFINE store == FinalizeStageCache(snapshot, documents[d].stageCache,
                                           gatePassed, writes, runInstanceSequence)
    <3>1. HeadMatches(snapshot) /\ SnapshotHolds(snapshot)
      BY <2>3, <3>0, <3>s DEF PublishRun, PublicationInv, SnapshotsHold
    <3>2. documents' = [documents EXCEPT ![d] =
            [documents[d] EXCEPT !.publishedRevision = snapshot.revision,
               !.planBaseline = EvaluatedBaseline(snapshot), !.stageCache = store]]
      BY <2>3, <3>s, <3>d DEF PublishRun, PublishEditorRun
    <3> HIDE DEF store
    <3>3. /\ H(d)' = H(d)
          /\ documents'[d].planBaseline = EvaluatedBaseline(snapshot)
          /\ \A e \in Documents \ {d} : documents'[e] = documents[e]
      BY <2>t, <3>2 DEF Document
    <3>4. /\ documents[d].session # 0 /\ documents[d].session = snapshot.session
          /\ documents[d].revision = snapshot.revision /\ documents[d].source = snapshot.source
      BY <2>t, <3>1, <3>d, SessionsAssumption, SessionTypes DEF SnapshotHolds, HeadMatches
    <3>5. published' = [published EXCEPT ![d] =
            [revision |-> head[d].revision, source |-> head[d].source]]
      BY <3>3, <3>4 DEF EvaluatedBaseline
    <3>6. head' = head
      BY <3>3
    <3> QED
      BY <3>4, <3>5, <3>6 DEF Published!Publish
  <2>4. ASSUME NEW d \in Documents, ImportCache(d)
        PROVE  head' = head /\ published' = published
    <3>1. documents' = [documents EXCEPT ![d] = [documents[d] EXCEPT !.stageCache = hostCheckpoint]]
      BY <2>4 DEF ImportCache, ImportEditorCache
    <3> QED
      BY <2>0, <2>t, <3>1 DEF Document
  <2>5. ASSUME UNCHANGED documents
        PROVE  head' = head /\ published' = published
    BY <2>0, <2>5
  <2>6. CASE Command
    <3>1. CASE \E d \in Documents, source \in Sources, replaceSession \in BOOLEAN :
                 Open(d, source, replaceSession)
      BY <2>1, <3>1 DEF Published!Next
    <3>2. CASE \E d \in Documents, baseRevision \in 1..MaxRevision, source \in Sources :
                 Change(d, baseRevision, source)
      BY <2>2, <3>2 DEF Published!Next
    <3>3. CASE \E d \in Documents : ImportCache(d)
      BY <2>4, <3>3
    <3>4. ASSUME ~ \E d \in Documents, source \in Sources, replaceSession \in BOOLEAN :
                     Open(d, source, replaceSession),
                 ~ \E d \in Documents, baseRevision \in 1..MaxRevision, source \in Sources :
                     Change(d, baseRevision, source),
                 ~ \E d \in Documents : ImportCache(d)
          PROVE  UNCHANGED documents
      BY <2>6, <3>4
      DEF Command, Subscribe, SubscribeEditorDocument, Credit, CreditEditorSubscription,
          ExportCache, Cancel, SubmitRun, SubmitRawRun, Enqueue, sessionVars
    <3> QED
      BY <2>5, <3>1, <3>2, <3>3, <3>4
  <2>7. CASE Execute
    <3>1. CASE \E gatePassed \in BOOLEAN, writes \in Journals,
                  counts \in [Subscriptions -> 0..MaxChunks] :
                    PublishRun(gatePassed, writes, counts)
      BY <2>3, <3>1 DEF Published!Next
    <3>2. ASSUME ~ \E gatePassed \in BOOLEAN, writes \in Journals,
                     counts \in [Subscriptions -> 0..MaxChunks] :
                       PublishRun(gatePassed, writes, counts)
          PROVE  UNCHANGED documents
      BY <2>7, <3>2
      DEF Execute, StartRun, StartMalformedRun, PlanRun, IdentifyResult, ConcludeStaleRun,
          ConcludeRawRun, FailRun, StopCancelledRun, CatchRun, sessionVars
    <3> QED
      BY <2>5, <3>1, <3>2
  <2> HIDE DEF head, published
  <2>8. CASE UNCHANGED vars
    BY <2>5, <2>8 DEF vars, sessionVars
  <2> QED
    BY <2>6, <2>7, <2>8 DEF Next
<1> QED
  BY <1>1, <1>2, PublicationInvariant, PTL DEF Spec, PublishesHead, Published!Spec
=============================================================================
