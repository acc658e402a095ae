---------------------------- MODULE EditorKernel ----------------------------
(***************************************************************************)
(* One kernel instance: the message dispatcher and run queue of            *)
(* runtime/worker-entry.js over the document sessions of EditorSessions.   *)
(*                                                                         *)
(* JavaScript runs one handler at a time, up to an await.  Every command   *)
(* other than a run is one step.  A run is the promise chain's next link:  *)
(* it is split at its awaits, and between two of them any command may      *)
(* arrive, cancel the run, move the head or replace the session.  What     *)
(* follows the last await - the final cancellation check, the publication, *)
(* the chunks and the reply - is one step.                                 *)
(***************************************************************************)
EXTENDS EditorSessions

CONSTANTS
  RunIds,    \* runIds a host may choose; a settled one may be used again
  Payloads,  \* the run payloads a host sends, a subset of PayloadKinds
  Journals,  \* whether runs gather cache evidence, a subset of BOOLEAN
  MaxRuns    \* bound: runs accepted over a behaviour

(* "plain": an ordinary run.  "unpostable": its modules' descriptors carry *)
(* a function in a field the result message copies as it is (args,         *)
(* description, behavior, ...), which postMessage cannot clone.            *)
(* "malformed": options is null, which throws before executeRun's try.     *)
PayloadKinds == {"plain", "unpostable", "malformed"}

ASSUME KernelAssumption ==
  /\ Payloads \subseteq PayloadKinds
  /\ Journals \subseteq BOOLEAN
  /\ MaxRuns \in Nat

VARIABLES
  runQueue,            \* runQueue: the accepted runs, the head running unless idle
  phase,               \* which of its awaits the head run is at
  queuedRuns,          \* queuedRuns
  activeRuns,          \* activeRuns
  cancelledRuns,       \* cancelledRuns
  runInstanceSequence, \* runInstanceSequence
  hostCheckpoint,      \* host: the checkpoint it exported last
  hostReply,           \* host: the last reply to each runId
  hostBaseline,        \* host: the last published target it was told, per subscription
  hostChunks           \* host: the chunks it received, per subscription

runVars == <<runQueue, phase, queuedRuns, activeRuns, cancelledRuns, runInstanceSequence>>
hostVars == <<hostCheckpoint, hostReply, hostBaseline, hostChunks>>
vars == <<sessionVars, runVars, hostVars>>

-----------------------------------------------------------------------------
(* State *)

Phase == {"idle", "preparing", "executing", "identifying"}
Reply == {"none", "pending", "succeeded", "stale", "failed", "cancelled", "transport-error"}

Snapshot == [documentId : Documents \cup {NoDocument}, session : Nat, revision : Nat,
             source : Sources \cup {NoSource}, stageCacheBaseline : Store,
             subscriptionIds : SUBSET Subscriptions]
Run == [runId : RunIds, payload : Payloads, snapshot : Snapshot]

(* The snapshot of a raw run, which has no editor document.                *)
NoSnapshot == [documentId |-> NoDocument, session |-> 0, revision |-> 0,
               source |-> NoSource, stageCacheBaseline |-> EmptyStore,
               subscriptionIds |-> {}]

TypeOK ==
  /\ SessionsTypeOK
  /\ runQueue \in Seq(Run)
  /\ phase \in Phase
  /\ queuedRuns \subseteq RunIds
  /\ activeRuns \subseteq RunIds
  /\ cancelledRuns \subseteq RunIds
  /\ runInstanceSequence \in Nat
  /\ hostCheckpoint \in Store
  /\ hostReply \in [RunIds -> Reply]
  /\ hostBaseline \in [Subscriptions -> Baseline]
  /\ hostChunks \in [Subscriptions -> Seq(Chunk)]

Init ==
  /\ SessionsInit
  /\ runQueue = <<>>
  /\ phase = "idle"
  /\ queuedRuns = {} /\ activeRuns = {} /\ cancelledRuns = {}
  /\ runInstanceSequence = 0
  /\ hostCheckpoint = EmptyStore
  /\ hostReply = [r \in RunIds |-> "none"]
  /\ hostBaseline = [s \in Subscriptions |-> NoBaseline]
  /\ hostChunks = [s \in Subscriptions |-> <<>>]

current == Head(runQueue)
isRunBusy == activeRuns # {} \/ queuedRuns # {}
RunIsCancelled == current.runId \in cancelledRuns

-----------------------------------------------------------------------------
(* Commands *)

Open(d, source, replaceSession) ==
  /\ OpenEditorDocument(d, source, replaceSession)
  /\ UNCHANGED <<runVars, hostVars>>

Change(d, baseRevision, source) ==
  /\ ApplyEditorChange(d, baseRevision, source)
  /\ UNCHANGED <<runVars, hostVars>>

(* The reply tells the host that the subscription starts afresh.           *)
Subscribe(d, s, delivery, initialCredit) ==
  /\ SubscribeEditorDocument(d, s, delivery, initialCredit)
  /\ hostBaseline' = [hostBaseline EXCEPT ![s] = NoBaseline]
  /\ hostChunks' = [hostChunks EXCEPT ![s] = <<>>]
  /\ UNCHANGED <<runVars, hostCheckpoint, hostReply>>

Credit(s, credit) ==
  /\ CreditEditorSubscription(s, credit)
  /\ hostChunks' = [hostChunks EXCEPT ![s] =
       @ \o Flushed(Credited(editorSubscriptions[s], credit))]
  /\ UNCHANGED <<runVars, hostCheckpoint, hostReply, hostBaseline>>

ExportCache(d) ==
  /\ IsOpen(d)
  /\ hostCheckpoint' = documents[d].stageCache
  /\ UNCHANGED <<sessionVars, runVars, hostReply, hostBaseline, hostChunks>>

(* Mutant: only an executing run holds an import back.                     *)
ImportAllowedUnlessActive == activeRuns = {}

ImportAllowed == ~isRunBusy

ImportCache(d) ==
  /\ ImportAllowed
  /\ ImportEditorCache(d, hostCheckpoint)
  /\ UNCHANGED <<runVars, hostVars>>

(* A cancel naming neither an active nor a queued run is not accepted.     *)
Cancel(r) ==
  /\ r \in activeRuns \cup queuedRuns
  /\ cancelledRuns' = cancelledRuns \cup {r}
  /\ UNCHANGED <<sessionVars, runQueue, phase, queuedRuns, activeRuns,
                 runInstanceSequence, hostVars>>

-----------------------------------------------------------------------------
(* Submitting a run *)

(* Mutant: the runId of a queued run may be used again.                    *)
RunIdNotActive(r) == r \notin activeRuns

RunIdFree(r) == r \notin activeRuns \cup queuedRuns

WaitingFrom == IF phase = "idle" THEN 1 ELSE 2

AcceptedRuns == runInstanceSequence + Len(runQueue) + 1 - WaitingFrom

Enqueue(r, payload, snapshot) ==
  /\ AcceptedRuns < MaxRuns
  /\ RunIdFree(r)
  /\ runQueue' = Append(runQueue, [runId |-> r, payload |-> payload, snapshot |-> snapshot])
  /\ queuedRuns' = queuedRuns \cup {r}
  /\ hostReply' = [hostReply EXCEPT ![r] = "pending"]
  /\ UNCHANGED <<sessionVars, phase, activeRuns, cancelledRuns, runInstanceSequence,
                 hostCheckpoint, hostBaseline, hostChunks>>

SubmitRun(r, payload, d, documentRevision) ==
  /\ IsOpen(d)
  /\ documentRevision = documents[d].revision
  /\ Enqueue(r, payload, CaptureEditorRun(d))

SubmitRawRun(r, payload) == Enqueue(r, payload, NoSnapshot)

-----------------------------------------------------------------------------
(* Executing the head of the queue *)

(* Mutant: a run starts only once no run is active.                        *)
ReadyWhenNoneActive == phase = "idle" /\ runQueue # <<>> /\ activeRuns = {}

(* The promise chain's next link runs once the previous one settled.       *)
Ready == phase = "idle" /\ runQueue # <<>>

(* The start of executeRun, up to its first await.                         *)
StartRun ==
  /\ Ready
  /\ current.payload # "malformed"
  /\ phase' = "preparing"
  /\ queuedRuns' = queuedRuns \ {current.runId}
  /\ activeRuns' = activeRuns \cup {current.runId}
  /\ runInstanceSequence' = runInstanceSequence + 1
  /\ UNCHANGED <<sessionVars, runQueue, cancelledRuns, hostVars>>

(* The channel bus is built outside the try: executeRun rejects, the       *)
(* promise chain goes on, and the runId stays in activeRuns.               *)
StartMalformedRun ==
  /\ Ready
  /\ current.payload = "malformed"
  /\ runQueue' = Tail(runQueue)
  /\ queuedRuns' = queuedRuns \ {current.runId}
  /\ activeRuns' = activeRuns \cup {current.runId}
  /\ runInstanceSequence' = runInstanceSequence + 1
  /\ hostReply' = [hostReply EXCEPT ![current.runId] = "transport-error"]
  /\ UNCHANGED <<sessionVars, phase, cancelledRuns, hostCheckpoint, hostBaseline, hostChunks>>

(* Packages are verified, modules loaded, the plan compiled and registered. *)
PlanRun ==
  /\ phase = "preparing"
  /\ ~RunIsCancelled
  /\ phase' = "executing"
  /\ UNCHANGED <<sessionVars, runQueue, queuedRuns, activeRuns, cancelledRuns,
                 runInstanceSequence, hostVars>>

(* With semanticIdentity, the result envelope is awaited once more.        *)
IdentifyResult ==
  /\ phase = "executing"
  /\ ~RunIsCancelled
  /\ phase' = "identifying"
  /\ UNCHANGED <<sessionVars, runQueue, queuedRuns, activeRuns, cancelledRuns,
                 runInstanceSequence, hostVars>>

(* A run's end: it leaves every set, and the chain goes on.                *)
LeaveQueue ==
  /\ runQueue' = Tail(runQueue)
  /\ phase' = "idle"
  /\ activeRuns' = activeRuns \ {current.runId}
  /\ cancelledRuns' = cancelledRuns \ {current.runId}
  /\ UNCHANGED <<queuedRuns, runInstanceSequence, hostCheckpoint>>

Answer(reply) == hostReply' = [hostReply EXCEPT ![current.runId] = reply]

IsEditorRun == current.snapshot.documentId # NoDocument

(* The message of a run whose modules are loaded describes their functions. *)
Postable == current.payload # "unpostable"

(* Mutant: the final assertActive is left out.                             *)
ConcludingUnchecked == phase \in {"executing", "identifying"}

(* The synchronous end of a successful run, after the last await.          *)
Concluding == phase \in {"executing", "identifying"} /\ ~RunIsCancelled

(* The result commits on the captured head.  The chunks are posted before  *)
(* the reply; when the reply cannot be posted, the catch block completes   *)
(* the run a second time as failed, which publishes nothing, and its own   *)
(* reply cannot be posted either.                                          *)
PublishRun(gatePassed, writes, counts) ==
  LET snapshot == current.snapshot
      sent(s) == Flushed(PublishedSubscription(snapshot, editorSubscriptions[s], counts[s]))
  IN
  /\ Concluding
  /\ IsEditorRun /\ HeadMatches(snapshot)
  /\ PublishEditorRun(snapshot, gatePassed, writes, runInstanceSequence, counts)
  /\ LeaveQueue
  /\ hostChunks' = [s \in Subscriptions |->
       IF s \in Receivers(snapshot) THEN hostChunks[s] \o sent(s) ELSE hostChunks[s]]
  /\ Answer(IF Postable THEN "succeeded" ELSE "transport-error")
  /\ hostBaseline' = [s \in Subscriptions |->
       IF Postable /\ s \in Receivers(snapshot) THEN EvaluatedBaseline(snapshot)
                                                ELSE hostBaseline[s]]

(* The result commits, but the head moved or the session was replaced.     *)
ConcludeStaleRun ==
  /\ Concluding
  /\ IsEditorRun /\ ~HeadMatches(current.snapshot)
  /\ LeaveQueue
  /\ Answer(IF Postable THEN "stale" ELSE "transport-error")
  /\ UNCHANGED <<sessionVars, hostBaseline, hostChunks>>

ConcludeRawRun ==
  /\ Concluding
  /\ ~IsEditorRun
  /\ LeaveQueue
  /\ Answer(IF Postable THEN "succeeded" ELSE "transport-error")
  /\ UNCHANGED <<sessionVars, hostBaseline, hostChunks>>

(* The catch block: an error of the run's modules, of its policy or of a   *)
(* limit, or a cancellation seen at a checkpoint.  Before its modules are  *)
(* loaded a run's message is postable whatever they contain.               *)
CatchRun(reply) ==
  /\ phase # "idle"
  /\ LeaveQueue
  /\ \/ /\ Postable \/ phase = "preparing"
        /\ Answer(reply)
     \/ /\ ~Postable
        /\ Answer("transport-error")
  /\ UNCHANGED <<sessionVars, hostBaseline, hostChunks>>

FailRun == CatchRun("failed")
StopCancelledRun == phase # "idle" /\ RunIsCancelled /\ CatchRun("cancelled")

-----------------------------------------------------------------------------
(* The specification *)

Command ==
  \/ \E d \in Documents, source \in Sources, replaceSession \in BOOLEAN :
       Open(d, source, replaceSession)
  \/ \E d \in Documents, baseRevision \in 1..MaxRevision, source \in Sources :
       Change(d, baseRevision, source)
  \/ \E d \in Documents, s \in Subscriptions, delivery \in Delivery,
        initialCredit \in 0..MaxCredit : Subscribe(d, s, delivery, initialCredit)
  \/ \E s \in Subscriptions, credit \in 1..MaxCredit : Credit(s, credit)
  \/ \E d \in Documents : ExportCache(d)
  \/ \E d \in Documents : ImportCache(d)
  \/ \E r \in RunIds : Cancel(r)
  \/ \E r \in RunIds, payload \in Payloads, d \in Documents,
        documentRevision \in 1..MaxRevision : SubmitRun(r, payload, d, documentRevision)
  \/ \E r \in RunIds, payload \in Payloads : SubmitRawRun(r, payload)

Execute ==
  \/ StartRun
  \/ StartMalformedRun
  \/ PlanRun
  \/ IdentifyResult
  \/ \E gatePassed \in BOOLEAN, writes \in Journals,
        counts \in [Subscriptions -> 0..MaxChunks] : PublishRun(gatePassed, writes, counts)
  \/ ConcludeStaleRun
  \/ ConcludeRawRun
  \/ FailRun
  \/ StopCancelledRun

Next == Command \/ Execute

Spec == Init /\ [][Next]_vars

(* The promise chain starts the next link by itself, and every await of    *)
(* the running one settles: modules' transforms are assumed to.  Nothing   *)
(* is assumed of the host.                                                 *)
FairSpec == Spec /\ WF_vars(Execute)

-----------------------------------------------------------------------------
(* Invariants *)

(* The dispatcher's three sets say what the queue says: accepted runIds    *)
(* are distinct, the waiting ones are queued, the executing one is active, *)
(* no run is both, only a run in flight is marked cancelled, and a run is  *)
(* owed a reply exactly while it is in the queue (onmessage, executeRun).  *)
InFlightAccounting ==
  /\ \A i, j \in 1..Len(runQueue) : runQueue[i].runId = runQueue[j].runId => i = j
  /\ queuedRuns = {runQueue[i].runId : i \in WaitingFrom..Len(runQueue)}
  /\ phase # "idle" => runQueue # <<>> /\ current.runId \in activeRuns
  /\ queuedRuns \cap activeRuns = {}
  /\ cancelledRuns \subseteq activeRuns \cup queuedRuns
  /\ \A r \in RunIds :
       hostReply[r] = "pending" <=> \E i \in 1..Len(runQueue) : runQueue[i].runId = r

(* A run whose session and revision are the head's carries the head's      *)
(* text: a revision number never names two texts of a session, so the      *)
(* stale-head test of completeEditorRun may compare numbers alone.         *)
CapturedTextIsHeadText ==
  \A i \in 1..Len(runQueue) :
    LET snapshot == runQueue[i].snapshot IN
    snapshot.documentId # NoDocument /\ HeadMatches(snapshot)
      => snapshot.source = documents[snapshot.documentId].source

(* A subscription belongs to the live session of its document, and once it *)
(* has received anything it stands where the document's last publication   *)
(* stands, whatever was queued, replaced or re-subscribed meanwhile.       *)
SubscriberInSync ==
  \A s \in Subscriptions : IsSubscribed(s) =>
    LET sub == editorSubscriptions[s]
        document == documents[sub.documentId]
    IN  /\ sub.session = document.session
        /\ sub.cursor = 0 => sub.baseline = NoBaseline
        /\ sub.cursor > 0 => /\ sub.baseline = document.planBaseline
                             /\ sub.baseline.revision = document.publishedRevision

(* The basis of the next delta is the last target the host was told of     *)
(* (SUBSCRIPTION-002): no delta is computed against a result that was      *)
(* published but never reported.                                           *)
HostKnowsBaseline ==
  \A s \in Subscriptions :
    IsSubscribed(s) => hostBaseline[s] = editorSubscriptions[s].baseline

(* What a stream has received, followed by what is still queued for it, is *)
(* whole deltas in cursor order, each chunk once and in sequence, the last *)
(* one complete: credit delays chunks, it never drops or reorders them.    *)
GaplessStream ==
  \A s \in Subscriptions : IsSubscribed(s) =>
    LET all == hostChunks[s] \o editorSubscriptions[s].queue
        done(c) == c.sequence = c.total
    IN  /\ \A i \in 1..Len(all) :
             /\ all[i].cursor <= editorSubscriptions[s].cursor
             /\ IF i = 1 THEN all[i].sequence = 1
                ELSE IF done(all[i-1])
                THEN all[i].sequence = 1 /\ all[i].cursor > all[i-1].cursor
                ELSE /\ all[i].sequence = all[i-1].sequence + 1
                     /\ all[i].cursor = all[i-1].cursor
                     /\ all[i].total = all[i-1].total
        /\ all # <<>> => done(all[Len(all)])

(* With no run queued or executing, a cache checkpoint may be imported     *)
(* (docs/INTEGRATION_GUIDE.md: "imports require no active or queued runs"). *)
IdleKernelAllowsImport ==
  phase = "idle" /\ runQueue = <<>> => ImportAllowed

-----------------------------------------------------------------------------
(* What a step may never do *)

(* A cancel that was accepted is final: a run it named in time ends        *)
(* without a committed result, and leaves every document as it was.        *)
AcceptedCancelIsFinal ==
  [][\A r \in RunIds :
       r \in cancelledRuns /\ r \notin cancelledRuns'
         => /\ hostReply'[r] \notin {"succeeded", "stale"}
            /\ UNCHANGED sessionVars]_vars

(* A chunk waits on a stream although there is credit for it.              *)
PaidChunkWaits(s) == editorSubscriptions[s].credit > 0 /\ editorSubscriptions[s].queue # <<>>

(* A completing run hands a stream the chunks its credit pays for: one     *)
(* credit for each, and all of them, so that afterwards no chunk waits on  *)
(* a stream that has credit; and no command, be it the credit itself or a  *)
(* new subscription, leaves one that does (runtime/editor-kernel.js:       *)
(* 284-312).                                                               *)
CompletionDeliversPaidChunks ==
  [][\A s \in Subscriptions :
       /\ ~PaidChunkWaits(s)'
       /\ runQueue' # runQueue =>
            Len(hostChunks'[s]) + editorSubscriptions'[s].credit
              = Len(hostChunks[s]) + editorSubscriptions[s].credit]_vars

(* A run's cache journal is committed only onto the very store the run     *)
(* captured when it was accepted; neither a second run nor an import has   *)
(* come between (RUN-006).                                                 *)
JournalCommitsOntoCapturedStore ==
  [][\A d \in Documents :
       /\ phase # "idle" /\ phase' = "idle"
       /\ documents'[d].stageCache # documents[d].stageCache
       => /\ current.snapshot.documentId = d
          /\ current.snapshot.stageCacheBaseline = documents[d].stageCache]_vars

(* DOCUMENT-002: "A failed or cancelled run MUST leave the last committed  *)
(* metadata baseline untouched."  A run that is not reported as succeeded  *)
(* leaves the documents and subscriptions as they were.                    *)
FailedRunLeavesBaseline ==
  [][\A r \in RunIds :
       /\ hostReply[r] = "pending"
       /\ hostReply'[r] \in {"failed", "cancelled", "stale", "transport-error"}
       => UNCHANGED sessionVars]_vars

(* The kernel implements the abstract publication protocol: what is        *)
(* published is the head of the same session at that moment, text and all. *)
Published == INSTANCE PublishedHead WITH
  head <- [d \in Documents |-> [session |-> documents[d].session,
                                revision |-> documents[d].revision,
                                source |-> documents[d].source]],
  published <- [d \in Documents |-> documents[d].planBaseline]

PublishesHead == Published!Spec

-----------------------------------------------------------------------------
(* Liveness *)

(* Every accepted run is answered, whatever is cancelled, edited, replaced *)
(* or failing around it: no run is stranded behind another.                *)
EveryRunIsAnswered ==
  \A r \in RunIds : hostReply[r] = "pending" ~> hostReply[r] # "pending"
=============================================================================
