---------------------------- MODULE PlaygroundHost ----------------------------
(***************************************************************************)
(* The playground page as a host of the kernel worker (app/page.tsx): what *)
(* the user edits is run 260 ms after the last edit, through a queue of    *)
(* tasks that open or change the kernel's document, subscribe and post the *)
(* run; a task whose intent is obsolete is abandoned at its next answer.   *)
(*                                                                         *)
(* A promise's continuations run before the next message, timer or click,  *)
(* up to the next answer they wait for: they are part of the step that     *)
(* settles it.                                                             *)
(***************************************************************************)
EXTENDS KernelEndpoint

CONSTANTS Texts,       \* the texts the user's document may have
          FixtureText, \* the one a fixture starts with
          MaxEvents    \* bound: edits, clicks and switches of the user, commands
                       \* that time out and errors in the worker

ASSUME PlaygroundAssumption ==
  FixtureText \in Texts /\ NoText \notin Texts /\ MaxEvents \in Nat

VARIABLES
  page,     \* the page's refs and state
  past      \* what went before: [events, faulty, asked, runs]

pageVars == <<page, past>>
playgroundVars == <<page, past, endpointVars>>

NoDocument == [revision |-> 0, text |-> NoText]
NoRequest == [id |-> 0, step |-> "none"]

(* due: the debounce timer is set; tasks: kernelCommandQueue, its head     *)
(* under way and waiting for request; doc: kernelDocumentRef; replace:     *)
(* kernelReplaceSessionRef; shown: the result on display.                  *)
EmptyPage(text) ==
  [text |-> text, edit |-> 0, due |-> TRUE, running |-> TRUE,
   shown |-> [runId |-> 0, ok |-> FALSE, text |-> NoText],
   runId |-> 0, requestId |-> 0, intent |-> 0, replace |-> FALSE, doc |-> NoDocument,
   tasks |-> <<>>, request |-> NoRequest, posted |-> {}, latched |-> {}, outbox |-> <<>>]

Task(p) == Head(p.tasks)
IsObsolete(p) == Task(p).intent # p.intent

-----------------------------------------------------------------------------
(* A task, one answer to the next                                          *)

SendKernelCommand(p, command) ==
  [p EXCEPT !.requestId = command.requestId,
            !.request = [id |-> command.requestId, step |-> command.type],
            !.outbox = Append(@, command)]

(* The document is not open, is to be replaced, or is behind.              *)
SendOpen(p) ==
  SendKernelCommand(p, [type |-> "open", requestId |-> p.requestId + 1,
                        replaceSession |-> p.replace, text |-> Task(p).text])

SendChange(p) ==
  SendKernelCommand(p, [type |-> "change", requestId |-> p.requestId + 1,
                        baseRevision |-> p.doc.revision, baseVersion |-> p.doc.text,
                        before |-> p.doc.text, after |-> Task(p).text])

SendSubscribe(p) ==
  SendKernelCommand(p, [type |-> "subscribe", requestId |-> p.requestId + 1])

(* Mutant: a cancel asked for before the run is posted is forgotten.       *)
PostRunOnly(p) ==
  LET r == Task(p).runId
  IN  [p EXCEPT !.requestId = @ + 1, !.tasks = Tail(@), !.posted = @ \cup {r},
                !.latched = @ \ {r},
                !.outbox = Append(@, [type |-> "run", requestId |-> p.requestId + 1,
                                      runId |-> r, revision |-> p.doc.revision])]

Cancellation(r) == [type |-> "cancel", requestId |-> 0, runId |-> r]

(* The run is posted; a cancel that came before it follows.                *)
PostRun(p) ==
  LET r == Task(p).runId
      run == [type |-> "run", requestId |-> p.requestId + 1, runId |-> r,
              revision |-> p.doc.revision]
  IN  [p EXCEPT !.requestId = @ + 1, !.tasks = Tail(@), !.posted = @ \cup {r},
                !.latched = @ \ {r},
                !.outbox = @ \o <<run>> \o (IF r \in p.latched THEN <<Cancellation(r)>> ELSE <<>>)]

(* Mutant: an abandoned task leaves what the page knows of the document.   *)
AbandonKeepingDocument(p) == [p EXCEPT !.latched = @ \ {Task(p).runId}, !.tasks = Tail(@)]

(* What the page knows of the document may be behind: it opens it again.   *)
AbandonObsoleteIntent(p) ==
  [p EXCEPT !.doc = NoDocument, !.latched = @ \ {Task(p).runId}, !.tasks = Tail(@)]

ShowFailure(p, runId) ==
  [p EXCEPT !.shown = [runId |-> runId, ok |-> FALSE, text |-> NoText], !.running = FALSE]

(* Mutant: a task that fails leaves the page as if it went on.             *)
CatchSilently(p) == [p EXCEPT !.doc = NoDocument, !.tasks = Tail(@)]

(* The catch of the queue: a failure of an obsolete task is nobody's.      *)
Catch(p) ==
  LET r == Task(p).runId
  IN  IF IsObsolete(p) THEN [p EXCEPT !.tasks = Tail(@)]
      ELSE ShowFailure([p EXCEPT !.doc = NoDocument, !.latched = @ \ {r}, !.posted = @ \ {r},
                                 !.tasks = Tail(@)], r)

RunOrAbandon(p) == IF IsObsolete(p) THEN AbandonObsoleteIntent(p) ELSE PostRun(p)

(* The head of the queue up to its first command.                          *)
Begin(p) ==
  CASE p.replace \/ p.doc = NoDocument -> SendOpen(p)
    [] ~p.replace /\ p.doc # NoDocument /\ p.doc.text # Task(p).text -> SendChange(p)
    [] ~p.replace /\ p.doc # NoDocument /\ p.doc.text = Task(p).text -> RunOrAbandon(p)

StartTask(p) == IF p.request = NoRequest /\ p.tasks # <<>> THEN Begin(p) ELSE p

(* A task ends and the next begins, until one waits: two may begin.  Only  *)
(* the last is not obsolete, and one that is abandoned forgets the         *)
(* document, which the next one opens.                                     *)
StartTasks(p) == StartTask(StartTask(p))

(* What a task does with the answer to its command.                        *)
ContinueTask(p, step, m) ==
  LET known == [p EXCEPT !.doc = [revision |-> m.revision, text |-> Task(p).text]]
  IN  CASE ~m.ok -> Catch(p)
        [] m.ok /\ IsObsolete(p) -> AbandonObsoleteIntent(p)
        [] m.ok /\ ~IsObsolete(p) /\ step = "open" -> SendSubscribe(known)
        [] m.ok /\ ~IsObsolete(p) /\ step = "change" -> PostRun(known)
        [] m.ok /\ ~IsObsolete(p) /\ step = "subscribe" -> PostRun([p EXCEPT !.replace = FALSE])

Reject(p) == StartTasks(Catch([p EXCEPT !.request = NoRequest]))

-----------------------------------------------------------------------------
(* What the worker posts                                                   *)

(* An answer nobody waits for any more is ignored.                         *)
OnAnswer(p, m) ==
  IF m.requestId # p.request.id THEN p
  ELSE StartTasks(ContinueTask([p EXCEPT !.request = NoRequest], p.request.step, m))

(* The result of a run that is not the last is ignored.                    *)
OnResult(p, m) ==
  LET q == [p EXCEPT !.posted = @ \ {m.runId}, !.latched = @ \ {m.runId}]
  IN  IF m.runId # p.runId THEN q
      ELSE [q EXCEPT !.shown = [runId |-> m.runId, ok |-> m.ok, text |-> m.text],
                     !.running = FALSE]

OnError(p) ==
  LET q == ShowFailure(p, p.runId)
  IN  IF q.request = NoRequest THEN q ELSE Reject(q)

OnPageMessage(p, m) ==
  CASE m.type = "answer" -> OnAnswer(p, m)
    [] m.type = "result" -> OnResult(p, m)
    [] m.type = "failure" -> OnError(p)

(* A worker that never started keeps what is posted to it.                 *)
PostOutbox(p) ==
  /\ page' = [p EXCEPT !.outbox = <<>>]
  /\ toKernel' = toKernel \o p.outbox

DeliverToPage ==
  /\ toHost # <<>>
  /\ toHost' = Tail(toHost)
  /\ PostOutbox(OnPageMessage(page, Head(toHost)))
  /\ UNCHANGED <<kernel, past>>

-----------------------------------------------------------------------------
(* Timers and the user                                                     *)

(* execute: the run is of what the editor shows now.                       *)
Execute(p) ==
  LET q == [p EXCEPT !.runId = @ + 1, !.intent = @ + 1, !.running = TRUE]
      task == [runId |-> q.runId, intent |-> q.intent, text |-> q.text]
      idle == q.tasks = <<>>
      queued == [q EXCEPT !.tasks = Append(@, task)]
  IN  IF idle THEN StartTasks(queued) ELSE queued

RecordRun == Append(past.runs, [text |-> page.text, edit |-> page.edit])

DebounceElapses ==
  /\ page.due
  /\ PostOutbox(Execute([page EXCEPT !.due = FALSE]))
  /\ past' = [past EXCEPT !.runs = RecordRun]
  /\ UNCHANGED <<kernel, toHost>>

Event == [past EXCEPT !.events = @ + 1]
Fault == [Event EXCEPT !.faulty = TRUE]

(* The 8 seconds of a command are over.                                    *)
CommandTimesOut ==
  /\ page.request # NoRequest
  /\ past.events < MaxEvents \/ ~kernel.up
  /\ PostOutbox(Reject(page))
  /\ past' = IF kernel.up THEN Fault ELSE past
  /\ UNCHANGED <<kernel, toHost>>

(* An error no handler caught: the page is told and the worker goes on.    *)
UncaughtError ==
  /\ kernel.up /\ past.events < MaxEvents
  /\ past' = Fault
  /\ toHost' = Append(toHost, [type |-> "failure", requestId |-> 0, runId |-> 0, ok |-> FALSE,
                               revision |-> 0, text |-> NoText])
  /\ UNCHANGED <<page, kernel, toKernel>>

(* The worker's script does not load.                                      *)
WorkerDoesNotStart ==
  /\ kernel.session = 0 /\ Len(toHost) = 0 /\ Fail
  /\ UNCHANGED pageVars

Act(p) ==
  /\ past.events < MaxEvents
  /\ PostOutbox(p)
  /\ UNCHANGED <<kernel, toHost>>

Edit(p, text) == [p EXCEPT !.text = text, !.edit = @ + 1, !.due = TRUE]

(* updateActiveFile; the same text is an edit of a module or an option.    *)
UserEdits(text) ==
  /\ Act(Edit(page, text))
  /\ past' = Event

(* selectFixture and resetProject.                                         *)
UserSelectsFixture ==
  /\ Act([Edit(page, FixtureText) EXCEPT !.intent = @ + 1, !.replace = TRUE, !.doc = NoDocument])
  /\ past' = Event

(* The button runs, or cancels while one runs.                             *)
UserRuns ==
  /\ ~page.running
  /\ Act(Execute(page))
  /\ past' = [Event EXCEPT !.runs = RecordRun]

UserCancels ==
  /\ page.running
  /\ Act([page EXCEPT !.latched = IF page.runId \in page.posted THEN @ ELSE @ \cup {page.runId},
                      !.outbox = Append(@, Cancellation(page.runId))])
  /\ past' = [Event EXCEPT !.asked = @ \cup {page.runId}]

PlaygroundInit ==
  /\ EndpointInit
  /\ page = EmptyPage(FixtureText)
  /\ past = [events |-> 0, faulty |-> FALSE, asked |-> {}, runs |-> <<>>]

PlaygroundNext ==
  \/ DeliverToPage \/ DebounceElapses \/ CommandTimesOut
  \/ UncaughtError \/ WorkerDoesNotStart
  \/ \E text \in Texts : UserEdits(text)
  \/ UserSelectsFixture \/ UserRuns \/ UserCancels
  \/ Endpoint({TRUE}) /\ UNCHANGED pageVars

(* The worker's and the page's event loops go on, timers fire, and no run  *)
(* lasts for ever.                                                         *)
PlaygroundFairness ==
  /\ WF_playgroundVars(Endpoint({TRUE}) /\ UNCHANGED pageVars)
  /\ WF_playgroundVars(DeliverToPage)
  /\ WF_playgroundVars(DebounceElapses)
  /\ WF_playgroundVars(CommandTimesOut)

PlaygroundSpec == PlaygroundInit /\ [][PlaygroundNext]_playgroundVars /\ PlaygroundFairness

-----------------------------------------------------------------------------
(* Properties                                                              *)

(* A run is of the text the editor had when the page started it, in the    *)
(* kernel and on display; and the kernel refuses none the page posts       *)
(* unless a command timed out or the worker reported an error, however     *)
(* edits, fixtures and obsolete tasks follow each other                    *)
(* (app/page.tsx:1550-1649, 1685-1707).                                    *)
RunsWhatItSent ==
  /\ \A r \in DOMAIN past.runs :
       /\ \A i \in DOMAIN kernel.queue :
            kernel.queue[i].runId = r => kernel.queue[i].text = past.runs[r].text
       /\ page.shown.ok /\ page.shown.runId = r => page.shown.text = past.runs[r].text
  /\ ~past.faulty =>
       \A i \in DOMAIN toHost :
         /\ toHost[i].type = "result" => toHost[i].text # NoText
         /\ toHost[i].type = "answer" => toHost[i].ok

(* A cancel the user asked for reaches its run, or the run never does: in  *)
(* the kernel it is cancelled or about to be, and on the way the cancel is *)
(* behind it, though the page may not have posted the run when it is asked *)
(* (app/page.tsx:1616-1623, 1651-1657).                                    *)
CancelReachesRun ==
  \A r \in past.asked :
    LET cancels == {i \in DOMAIN toKernel : toKernel[i].type = "cancel" /\ toKernel[i].runId = r}
    IN  /\ r \in RunIds(kernel) => r \in kernel.cancelled \/ cancels # {}
        /\ \A i \in DOMAIN toKernel : toKernel[i].type = "run" /\ toKernel[i].runId = r =>
             \E j \in cancels : j > i

ShowsLastEdit ==
  /\ ~page.running /\ ~page.due
  /\ page.shown.runId = page.runId
  /\ page.runId \in DOMAIN past.runs /\ past.runs[page.runId].edit = page.edit

(* Every edit is at last overtaken by another, or the page shows the       *)
(* result of a run of it, or a failure, and no longer says it is running:  *)
(* also when a command times out, the worker never starts, or answers of   *)
(* abandoned tasks come late (app/page.tsx:1459-1522, 1535-1649).  Edits   *)
(* are bounded, so this is to show the last one again and again.           *)
EveryEditIsAnswered == []<>ShowsLastEdit

=============================================================================
