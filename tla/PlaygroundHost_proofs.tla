------------------------ MODULE PlaygroundHost_proofs ------------------------
(***************************************************************************)
(* Proofs about PlaygroundHost for every set of texts and any number of    *)
(* events: a cancel the user asks for is never lost between the page's     *)
(* queue of tasks, the channel to the worker and the worker's run queue,   *)
(* and the queue of tasks does not stall.                                  *)
(***************************************************************************)
EXTENDS PlaygroundHost, TLAPS

(* The types of the state.                                                 *)
Text == Texts \cup {NoText, Garbled}
PageTask == [runId : Nat, intent : Nat, text : Texts]
Request == {NoRequest} \cup [id : Nat \ {0}, step : {"open", "change", "subscribe"}]
Shown == [runId : Nat, ok : BOOLEAN, text : Text]

OpenCommand == [type : {"open"}, requestId : Nat \ {0}, replaceSession : BOOLEAN, text : Text]
ChangeCommand == [type : {"change"}, requestId : Nat \ {0}, baseRevision : Nat,
                  baseVersion : Text, before : Text, after : Text]
SubscribeCommand == [type : {"subscribe"}, requestId : Nat \ {0}]
RunCommand == [type : {"run"}, requestId : Nat \ {0}, runId : Nat, revision : Nat]
CancelCommand == [type : {"cancel"}, requestId : {0}, runId : Nat]
Asks == OpenCommand \cup ChangeCommand \cup SubscribeCommand
Command == Asks \cup RunCommand \cup CancelCommand

AnswerPost == [type : {"answer"}, requestId : Nat \ {0}, runId : Nat, ok : BOOLEAN,
               revision : Nat, text : Text]
OtherPost == [type : {"result", "failure"}, requestId : Nat, runId : Nat, ok : BOOLEAN,
              revision : Nat, text : Text]
Posts == AnswerPost \cup OtherPost

Page == [text : Texts, edit : Nat, due : BOOLEAN, running : BOOLEAN, shown : Shown,
         runId : Nat, requestId : Nat, intent : Nat, replace : BOOLEAN,
         doc : [revision : Nat, text : Text], tasks : Seq(PageTask), request : Request,
         posted : SUBSET Nat, latched : SUBSET Nat, outbox : Seq(Command)]
KernelRun == [runId : Nat, requestId : Nat, revision : Nat, text : Text]
Kernel == [session : Nat, revision : Nat, text : Text, queue : Seq(KernelRun),
           cancelled : SUBSET Nat, up : BOOLEAN]
Past == [events : Nat, faulty : BOOLEAN, asked : SUBSET Nat,
         runs : Seq([text : Texts, edit : Nat])]

TypeInv ==
  /\ page \in Page /\ past \in Past /\ kernel \in Kernel
  /\ toKernel \in Seq(Command) /\ toHost \in Seq(Posts)

-----------------------------------------------------------------------------
(* The invariant of the page: asked are the runs to be cancelled, out the  *)
(* runs that have left the page.                                           *)

IsRun(m, r) == m.type = "run" /\ m.runId = r
IsCancel(m, r) == m.type = "cancel" /\ m.runId = r

(* Every run in s that is to be cancelled has a cancel after it.           *)
CancelFollows(s, asked) ==
  \A i \in 1..Len(s) : \A r \in asked :
    IsRun(s[i], r) => \E j \in 1..Len(s) : j > i /\ IsCancel(s[j], r)

(* Tasks have growing run and intent numbers, up to the page's.            *)
TasksOrdered(p) ==
  /\ \A i, j \in 1..Len(p.tasks) :
       i < j => p.tasks[i].runId < p.tasks[j].runId /\ p.tasks[i].intent < p.tasks[j].intent
  /\ \A i \in 1..Len(p.tasks) :
       p.tasks[i].runId <= p.runId /\ p.tasks[i].intent <= p.intent

(* The run of a task has not left the page, and a cancel it was asked for  *)
(* is latched.                                                             *)
TasksLatched(p, asked, out) ==
  \A i \in 1..Len(p.tasks) :
    /\ p.tasks[i].runId \notin out \cup p.posted
    /\ p.tasks[i].runId \in asked => p.tasks[i].runId \in p.latched

NumbersBound(p, asked, out) == \A r \in asked \cup out \cup p.posted : r <= p.runId

OutboxOk(p, asked) ==
  /\ CancelFollows(p.outbox, asked)
  /\ \A i \in 1..Len(p.outbox) : p.outbox[i].type = "run" =>
       /\ p.outbox[i].runId <= p.runId
       /\ \A j \in 1..Len(p.tasks) : p.tasks[j].runId # p.outbox[i].runId

PageOk(p, asked, out) ==
  /\ p \in Page /\ asked \subseteq Nat /\ out \subseteq Nat
  /\ p.request # NoRequest => p.tasks # <<>>
  /\ TasksOrdered(p) /\ TasksLatched(p, asked, out) /\ NumbersBound(p, asked, out)
  /\ OutboxOk(p, asked)

(* No task waits while none is under way.                                  *)
Proceeds(p) == p.tasks # <<>> => p.request # NoRequest
TasksProceed == Proceeds(page)
Forgets(p) == p.doc = NoDocument /\ p.request = NoRequest

RunsOf(s) == {s[i].runId : i \in {i \in 1..Len(s) : s[i].type = "run"}}
ResultsOf(s) == {s[i].runId : i \in {i \in 1..Len(s) : s[i].type = "result"}}
Out == RunIds(kernel) \cup RunsOf(toKernel) \cup ResultsOf(toHost)

QueueDistinct ==
  \A i, j \in 1..Len(kernel.queue) : kernel.queue[i].runId = kernel.queue[j].runId => i = j

HasCancel(s, r) == \E j \in 1..Len(s) : IsCancel(s[j], r)
Covered(k, s, asked) == \A r \in asked : r \in RunIds(k) => r \in k.cancelled \/ HasCancel(s, r)

CancelInv ==
  /\ TypeInv
  /\ PageOk(page, past.asked, Out) /\ page.outbox = <<>>
  /\ CancelFollows(toKernel, past.asked) /\ Covered(kernel, toKernel, past.asked)
  /\ TasksProceed /\ QueueDistinct

-----------------------------------------------------------------------------
(* Sequences *)

(* The tail of a nonempty sequence.                                        *)
LEMMA TailFacts ==
  ASSUME NEW S, NEW s \in Seq(S), s # <<>>
  PROVE  /\ Head(s) \in S /\ Head(s) = s[1] /\ Tail(s) \in Seq(S)
         /\ Len(s) \in Nat /\ Len(s) >= 1 /\ Len(Tail(s)) = Len(s) - 1
         /\ \A i \in 1..Len(Tail(s)) : i + 1 \in 1..Len(s) /\ Tail(s)[i] = s[i + 1]
  OBVIOUS

LEMMA AppendFacts ==
  ASSUME NEW S, NEW s \in Seq(S), NEW x \in S
  PROVE  /\ Append(s, x) \in Seq(S) /\ Len(s) \in Nat /\ Len(Append(s, x)) = Len(s) + 1
         /\ Append(s, x)[Len(s) + 1] = x
         /\ \A i \in 1..Len(s) : Append(s, x)[i] = s[i]
  OBVIOUS

(* A message that is no run keeps every run followed by its cancel.        *)
LEMMA AppendFollows ==
  ASSUME NEW asked, NEW s \in Seq(Command), NEW m \in Command, m.type # "run",
         CancelFollows(s, asked)
  PROVE  CancelFollows(Append(s, m), asked)
<1>1. PICK t : t = Append(s, m)
  OBVIOUS
<1>2. /\ t \in Seq(Command) /\ Len(s) \in Nat /\ Len(t) = Len(s) + 1 /\ t[Len(s) + 1] = m
      /\ \A i \in 1..Len(s) : t[i] = s[i]
  BY <1>1, AppendFacts
<1>3. CancelFollows(t, asked)
  <2> SUFFICES ASSUME NEW i \in 1..Len(t), NEW r \in asked, IsRun(t[i], r)
               PROVE  \E j \in 1..Len(t) : j > i /\ IsCancel(t[j], r)
    BY DEF CancelFollows
  <2>1. i \in 1..Len(s)
    BY <1>2 DEF IsRun
  <2>2. PICK j \in 1..Len(s) : j > i /\ IsCancel(s[j], r)
    BY <1>2, <2>1 DEF CancelFollows
  <2>3. j \in 1..Len(t) /\ t[j] = s[j]
    BY <1>2
  <2> QED BY <2>2, <2>3
<1> QED BY <1>1, <1>3

-----------------------------------------------------------------------------
(* A task, one answer to the next *)

(* Asking the kernel for something but a run.                              *)
LEMMA SendKeeps ==
  ASSUME NEW asked, NEW out, NEW p, PageOk(p, asked, out), p.tasks # <<>>, NEW m \in Asks
  PROVE  /\ PageOk(SendKernelCommand(p, m), asked, out)
         /\ SendKernelCommand(p, m).request # NoRequest
<1>1. m \in Command /\ m.requestId \in Nat \ {0} /\ m.type \in {"open", "change", "subscribe"}
  BY DEF Asks, Command, OpenCommand, ChangeCommand, SubscribeCommand
<1>2. PICK box : box = Append(p.outbox, m)
  OBVIOUS
<1>3. p \in Page /\ p.outbox \in Seq(Command)
  BY DEF PageOk, Page
<1>4. /\ box \in Seq(Command) /\ Len(p.outbox) \in Nat /\ Len(box) = Len(p.outbox) + 1
      /\ box[Len(p.outbox) + 1] = m /\ \A i \in 1..Len(p.outbox) : box[i] = p.outbox[i]
  BY <1>1, <1>2, <1>3, AppendFacts
<1>5. PICK q : q = SendKernelCommand(p, m)
  OBVIOUS
<1>6. /\ q \in Page /\ q.outbox = box /\ q.tasks = p.tasks /\ q.posted = p.posted
      /\ q.latched = p.latched /\ q.runId = p.runId /\ q.intent = p.intent
      /\ q.request # NoRequest
  <2>1. q = [p EXCEPT !.requestId = m.requestId,
                      !.request = [id |-> m.requestId, step |-> m.type], !.outbox = box]
    BY <1>2, <1>5 DEF SendKernelCommand
  <2>2. [id |-> m.requestId, step |-> m.type] \in Request
    BY <1>1 DEF Request
  <2>3. [id |-> m.requestId, step |-> m.type] # NoRequest
    BY <1>1 DEF NoRequest
  <2> QED BY <1>1, <1>3, <1>4, <2>1, <2>2, <2>3 DEF Page
<1>7. CancelFollows(box, asked)
  BY <1>1, <1>2, <1>3, AppendFollows DEF PageOk, OutboxOk
<1>8. OutboxOk(q, asked)
  <2>1. \A i \in 1..Len(box) : box[i].type = "run" => i \in 1..Len(p.outbox) /\ box[i] = p.outbox[i]
    BY <1>1, <1>4
  <2> QED BY <1>6, <1>7, <2>1 DEF PageOk, OutboxOk
<1>9. PageOk(q, asked, out)
  BY <1>6, <1>8 DEF PageOk, TasksOrdered, TasksLatched, NumbersBound
<1> QED BY <1>5, <1>6, <1>9

(* A task leaves the queue without its run: it is abandoned, or failed.    *)
LEMMA DropKeeps ==
  ASSUME NEW asked, NEW out, NEW p, PageOk(p, asked, out), p.tasks # <<>>,
         NEW q \in Page, q.tasks = Tail(p.tasks), q.request = NoRequest,
         q.outbox = p.outbox, q.runId = p.runId, q.intent = p.intent,
         q.posted \subseteq p.posted, p.latched \ {Task(p).runId} \subseteq q.latched
  PROVE  PageOk(q, asked, out)
<1>1. p \in Page /\ p.tasks \in Seq(PageTask)
  BY DEF PageOk, Page
<1>2. PICK t : t = Tail(p.tasks)
  OBVIOUS
<1>3. /\ Task(p) = p.tasks[1] /\ Len(p.tasks) \in Nat /\ Len(p.tasks) >= 1
      /\ Len(t) = Len(p.tasks) - 1
      /\ \A i \in 1..Len(t) : i + 1 \in 1..Len(p.tasks) /\ t[i] = p.tasks[i + 1]
  BY <1>1, <1>2, TailFacts DEF Task
<1>4. \A i \in 1..Len(p.tasks) : p.tasks[i].runId \in Nat /\ p.tasks[i].intent \in Nat
  <2>1. \A i \in 1..Len(p.tasks) : p.tasks[i] \in PageTask
    BY <1>1
  <2> QED BY <2>1 DEF PageTask
<1>5. TasksOrdered(q)
  <2>1. \A i, j \in 1..Len(t) : i < j => t[i].runId < t[j].runId /\ t[i].intent < t[j].intent
    BY <1>3 DEF PageOk, TasksOrdered
  <2>2. \A i \in 1..Len(t) : t[i].runId <= p.runId /\ t[i].intent <= p.intent
    BY <1>3 DEF PageOk, TasksOrdered
  <2> QED BY <1>2, <2>1, <2>2 DEF TasksOrdered
<1>6. \A i \in 1..Len(t) : t[i].runId # Task(p).runId
  <2> TAKE i \in 1..Len(t)
  <2>1. 1 \in 1..Len(p.tasks) /\ i + 1 \in 1..Len(p.tasks) /\ 1 < i + 1
    BY <1>3
  <2>2. p.tasks[1].runId < p.tasks[i + 1].runId
    BY <2>1 DEF PageOk, TasksOrdered
  <2> QED BY <1>3, <1>4, <2>1, <2>2
<1>7. TasksLatched(q, asked, out)
  <2> SUFFICES ASSUME NEW i \in 1..Len(t)
               PROVE  /\ t[i].runId \notin out \cup q.posted
                      /\ t[i].runId \in asked => t[i].runId \in q.latched
    BY <1>2 DEF TasksLatched
  <2>1. i + 1 \in 1..Len(p.tasks) /\ t[i] = p.tasks[i + 1]
    BY <1>3
  <2>2. /\ t[i].runId \notin out \cup p.posted
        /\ t[i].runId \in asked => t[i].runId \in p.latched
    BY <2>1 DEF PageOk, TasksLatched
  <2> QED BY <1>6, <2>2
<1>8. OutboxOk(q, asked)
  <2>1. \A i \in 1..Len(p.outbox) : p.outbox[i].type = "run" =>
          /\ p.outbox[i].runId <= p.runId
          /\ \A j \in 1..Len(t) : t[j].runId # p.outbox[i].runId
    BY <1>3 DEF PageOk, OutboxOk
  <2> QED BY <1>2, <2>1 DEF PageOk, OutboxOk
<1> QED BY <1>5, <1>7, <1>8 DEF PageOk, NumbersBound

(* A task whose intent is obsolete goes, and the next one opens.           *)
LEMMA AbandonKeeps ==
  ASSUME NEW asked, NEW out, NEW p, PageOk(p, asked, out), p.tasks # <<>>,
         p.request = NoRequest
  PROVE  /\ PageOk(AbandonObsoleteIntent(p), asked, out)
         /\ AbandonObsoleteIntent(p).doc = NoDocument
         /\ AbandonObsoleteIntent(p).request = NoRequest
<1>1. p \in Page /\ Tail(p.tasks) \in Seq(PageTask)
  BY TailFacts DEF PageOk, Page
<1>2. PICK q : q = AbandonObsoleteIntent(p)
  OBVIOUS
<1>3. PICK t : t = Tail(p.tasks)
  OBVIOUS
<1>4. PICK r : r = Task(p).runId
  OBVIOUS
<1>5. q = [p EXCEPT !.doc = NoDocument, !.latched = @ \ {r}, !.tasks = t]
  BY <1>2, <1>3, <1>4 DEF AbandonObsoleteIntent
<1>6. /\ q \in Page /\ q.tasks = t /\ q.request = NoRequest /\ q.outbox = p.outbox
      /\ q.runId = p.runId /\ q.intent = p.intent /\ q.posted = p.posted
      /\ q.latched = p.latched \ {r} /\ q.doc = NoDocument
  BY <1>1, <1>3, <1>5 DEF Page, NoDocument, Text
<1>7. PageOk(q, asked, out)
  BY <1>3, <1>4, <1>6, DropKeeps
<1> QED BY <1>2, <1>6, <1>7

(* A failed task goes, with its run's latch.                               *)
LEMMA CatchKeeps ==
  ASSUME NEW asked, NEW out, NEW p, PageOk(p, asked, out), p.tasks # <<>>,
         p.request = NoRequest
  PROVE  PageOk(Catch(p), asked, out)
<1>1. p \in Page /\ Tail(p.tasks) \in Seq(PageTask) /\ Task(p) \in PageTask
  BY TailFacts DEF PageOk, Page, Task
<1>2. PICK q : q = Catch(p)
  OBVIOUS
<1>3. PICK t : t = Tail(p.tasks)
  OBVIOUS
<1>4. PICK r : r = Task(p).runId
  OBVIOUS
<1>5. CASE IsObsolete(p)
  <2>1. q = [p EXCEPT !.tasks = t]
    BY <1>2, <1>3, <1>5 DEF Catch
  <2>2. /\ q \in Page /\ q.tasks = t /\ q.request = NoRequest /\ q.outbox = p.outbox
        /\ q.runId = p.runId /\ q.intent = p.intent /\ q.posted = p.posted
        /\ q.latched = p.latched
    BY <1>1, <1>3, <2>1 DEF Page
  <2>3. PageOk(q, asked, out)
    BY <1>3, <2>2, DropKeeps
  <2> QED BY <1>2, <2>3
<1>6. CASE ~IsObsolete(p)
  <2>1. q = [p EXCEPT !.doc = NoDocument, !.latched = @ \ {r}, !.posted = @ \ {r}, !.tasks = t,
                      !.shown = [runId |-> r, ok |-> FALSE, text |-> NoText],
                      !.running = FALSE]
    BY <1>1, <1>2, <1>3, <1>4, <1>6 DEF Catch, ShowFailure, Page
  <2>2. [runId |-> r, ok |-> FALSE, text |-> NoText] \in Shown /\ NoDocument \in [revision : Nat, text : Text]
    BY <1>1, <1>4 DEF Shown, Text, PageTask, NoDocument
  <2>3. /\ q \in Page /\ q.tasks = t /\ q.request = NoRequest /\ q.outbox = p.outbox
        /\ q.runId = p.runId /\ q.intent = p.intent /\ q.posted = p.posted \ {r}
        /\ q.latched = p.latched \ {r}
    BY <1>1, <1>3, <2>1, <2>2 DEF Page
  <2>4. PageOk(q, asked, out)
    BY <1>3, <1>4, <2>3, DropKeeps
  <2> QED BY <1>2, <2>4
<1> QED BY <1>5, <1>6

(* The run is posted and the cancel that was asked for follows it.         *)
LEMMA PostRunKeeps ==
  ASSUME NEW asked, NEW out, NEW p, PageOk(p, asked, out), p.tasks # <<>>,
         p.request = NoRequest
  PROVE  /\ PageOk(PostRun(p), asked, out)
         /\ ~IsObsolete(p) => PostRun(p).tasks = <<>>
<1>1. /\ p \in Page /\ p.tasks \in Seq(PageTask) /\ Tail(p.tasks) \in Seq(PageTask)
      /\ Task(p) \in PageTask /\ p.outbox \in Seq(Command) /\ p.requestId \in Nat
      /\ p.doc.revision \in Nat
  BY TailFacts DEF PageOk, Page, Task
<1>2. PICK q : q = PostRun(p)
  OBVIOUS
<1>3. PICK t : t = Tail(p.tasks)
  OBVIOUS
<1>4. PICK r : r = Task(p).runId
  OBVIOUS
<1>5. PICK m : m = [type |-> "run", requestId |-> p.requestId + 1, runId |-> r,
                    revision |-> p.doc.revision]
  OBVIOUS
<1>6. PICK c : c = IF r \in p.latched THEN <<Cancellation(r)>> ELSE <<>>
  OBVIOUS
<1>7. PICK box : box = p.outbox \o <<m>> \o c
  OBVIOUS
<1>8. r \in Nat /\ m \in Command /\ Cancellation(r) \in Command
  BY <1>1, <1>4, <1>5 DEF Command, RunCommand, CancelCommand, Cancellation, PageTask
<1>9. /\ c \in Seq(Command) /\ Len(c) \in Nat
      /\ r \in p.latched => Len(c) = 1 /\ c[1] = Cancellation(r)
      /\ r \notin p.latched => Len(c) = 0
  BY <1>6, <1>8
<1>10. /\ box \in Seq(Command) /\ Len(p.outbox) \in Nat /\ Len(box) = Len(p.outbox) + 1 + Len(c)
       /\ box[Len(p.outbox) + 1] = m
       /\ \A i \in 1..Len(p.outbox) : box[i] = p.outbox[i]
       /\ \A i \in 1..Len(c) : box[Len(p.outbox) + 1 + i] = c[i]
       /\ \A i \in 1..Len(box) :
            \/ i \in 1..Len(p.outbox)
            \/ i = Len(p.outbox) + 1
            \/ (Len(c) = 1 /\ i = Len(p.outbox) + 2)
  <2>1. PICK pre : pre = p.outbox \o <<m>>
    OBVIOUS
  <2>2. /\ pre \in Seq(Command) /\ Len(p.outbox) \in Nat /\ Len(pre) = Len(p.outbox) + 1
        /\ pre[Len(p.outbox) + 1] = m /\ \A i \in 1..Len(p.outbox) : pre[i] = p.outbox[i]
    BY <1>1, <1>8, <2>1
  <2>3. /\ box \in Seq(Command) /\ Len(box) = Len(pre) + Len(c)
        /\ \A i \in 1..Len(pre) : box[i] = pre[i]
        /\ \A i \in 1..Len(c) : box[Len(pre) + i] = c[i]
    BY <1>7, <1>9, <2>1, <2>2
  <2>4. Len(c) \in {0, 1}
    BY <1>9
  <2>5. \A i \in 1..Len(p.outbox) : box[i] = p.outbox[i]
    BY <2>2, <2>3
  <2>6. box[Len(p.outbox) + 1] = m
    <3>1. Len(p.outbox) + 1 \in 1..Len(pre)
      BY <2>2
    <3> QED BY <2>2, <2>3, <3>1
  <2>7. \A i \in 1..Len(c) : box[Len(p.outbox) + 1 + i] = c[i]
    BY <2>2, <2>3
  <2>8. Len(box) = Len(p.outbox) + 1 + Len(c)
    BY <2>2, <2>3
  <2>9. \A i \in 1..Len(box) :
          \/ i \in 1..Len(p.outbox)
          \/ i = Len(p.outbox) + 1
          \/ (Len(c) = 1 /\ i = Len(p.outbox) + 2)
    <3>1. PICK n, k, l : n = Len(p.outbox) /\ k = Len(c) /\ l = Len(box)
      OBVIOUS
    <3>2. n \in Nat /\ k \in {0, 1} /\ l = n + 1 + k
      BY <2>2, <2>4, <2>8, <3>1
    <3>3. \A i \in 1..l : i \in 1..n \/ i = n + 1 \/ (k = 1 /\ i = n + 2)
      BY <3>2
    <3> QED BY <3>1, <3>3
  <2> QED BY <2>2, <2>3, <2>5, <2>6, <2>7, <2>8, <2>9
<1>11. PICK n, ps, ls : n = p.requestId + 1 /\ ps = p.posted \cup {r} /\ ls = p.latched \ {r}
  OBVIOUS
<1>12. /\ q \in Page /\ q.tasks = t /\ q.request = NoRequest /\ q.outbox = box
       /\ q.runId = p.runId /\ q.intent = p.intent /\ q.posted = p.posted \cup {r}
       /\ q.latched = p.latched \ {r}
  <2>1. q = [p EXCEPT !.requestId = n, !.tasks = t, !.posted = ps, !.latched = ls,
                      !.outbox = box]
    BY <1>2, <1>3, <1>4, <1>5, <1>6, <1>7, <1>11 DEF PostRun
  <2>2. n \in Nat /\ ps \in SUBSET Nat /\ ls \in SUBSET Nat
    BY <1>1, <1>8, <1>11 DEF Page
  <2> QED BY <1>1, <1>3, <1>10, <1>11, <2>1, <2>2 DEF Page
<1>13. PICK d : d = [p EXCEPT !.tasks = t, !.latched = @ \ {r}]
  OBVIOUS
<1>14. /\ d \in Page /\ d.tasks = t /\ d.request = NoRequest /\ d.outbox = p.outbox
       /\ d.runId = p.runId /\ d.intent = p.intent /\ d.posted = p.posted
       /\ d.latched = p.latched \ {r}
  BY <1>1, <1>3, <1>13 DEF Page
<1>15. PageOk(d, asked, out)
  BY <1>3, <1>4, <1>14, DropKeeps
<1>16. /\ Task(p) = p.tasks[1] /\ Len(p.tasks) \in Nat /\ Len(p.tasks) >= 1
       /\ Len(t) = Len(p.tasks) - 1
       /\ \A i \in 1..Len(t) : i + 1 \in 1..Len(p.tasks) /\ t[i] = p.tasks[i + 1]
  BY <1>1, <1>3, TailFacts DEF Task
<1>17. \A i \in 1..Len(p.tasks) : p.tasks[i].runId \in Nat /\ p.tasks[i].intent \in Nat
  <2>1. \A i \in 1..Len(p.tasks) : p.tasks[i] \in PageTask
    BY <1>1
  <2> QED BY <2>1 DEF PageTask
<1>18. \A i \in 1..Len(t) : t[i].runId # r /\ p.tasks[1].intent < t[i].intent
  <2> TAKE i \in 1..Len(t)
  <2>1. 1 \in 1..Len(p.tasks) /\ i + 1 \in 1..Len(p.tasks) /\ 1 < i + 1
    BY <1>16
  <2>2. p.tasks[1].runId < p.tasks[i + 1].runId /\ p.tasks[1].intent < p.tasks[i + 1].intent
    BY <2>1 DEF PageOk, TasksOrdered
  <2> QED BY <1>4, <1>16, <1>17, <2>1, <2>2
<1>19. r <= p.runId /\ (r \in asked => r \in p.latched)
  <2>1. 1 \in 1..Len(p.tasks) /\ p.tasks[1].runId = r
    BY <1>4, <1>16
  <2> QED BY <2>1 DEF PageOk, TasksOrdered, TasksLatched
<1>20. CancelFollows(box, asked)
  <2> SUFFICES ASSUME NEW i \in 1..Len(box), NEW s \in asked, IsRun(box[i], s)
               PROVE  \E j \in 1..Len(box) : j > i /\ IsCancel(box[j], s)
    BY DEF CancelFollows
  <2>1. CASE i \in 1..Len(p.outbox)
    <3>1. PICK j \in 1..Len(p.outbox) : j > i /\ IsCancel(p.outbox[j], s)
      BY <1>10, <2>1 DEF PageOk, OutboxOk, CancelFollows
    <3>2. j \in 1..Len(box) /\ box[j] = p.outbox[j]
      BY <1>9, <1>10
    <3> QED BY <3>1, <3>2
  <2>2. CASE i = Len(p.outbox) + 1
    <3>1. s = r
      BY <1>5, <1>10, <2>2 DEF IsRun
    <3>2. r \in p.latched
      BY <1>19, <3>1
    <3>3. Len(c) = 1 /\ c[1] = Cancellation(r)
      BY <1>9, <3>2
    <3>4. i + 1 \in 1..Len(box) /\ box[i + 1] = Cancellation(r)
      BY <1>10, <2>2, <3>3
    <3> QED BY <2>2, <3>1, <3>4 DEF IsCancel, Cancellation
  <2>3. CASE Len(c) = 1 /\ i = Len(p.outbox) + 2
    <3>1. Len(c) = 1 /\ c[1] = Cancellation(r)
      BY <1>9, <2>3
    <3>2. box[i] = Cancellation(r)
      BY <1>10, <2>3, <3>1
    <3> QED BY <3>2 DEF IsRun, Cancellation
  <2> QED BY <1>10, <2>1, <2>2, <2>3
<1>21. OutboxOk(q, asked)
  <2> SUFFICES ASSUME NEW i \in 1..Len(box), box[i].type = "run"
               PROVE  box[i].runId <= p.runId /\ \A j \in 1..Len(t) : t[j].runId # box[i].runId
    BY <1>12, <1>20 DEF OutboxOk
  <2>1. CASE i \in 1..Len(p.outbox)
    BY <1>10, <1>14, <1>15, <2>1 DEF PageOk, OutboxOk
  <2>2. CASE i = Len(p.outbox) + 1
    BY <1>5, <1>10, <1>18, <1>19, <2>2
  <2>3. CASE Len(c) = 1 /\ i = Len(p.outbox) + 2
    <3>1. Len(c) = 1 /\ c[1] = Cancellation(r)
      BY <1>9, <2>3
    <3>2. box[i] = Cancellation(r)
      BY <1>10, <2>3, <3>1
    <3> QED BY <3>2 DEF Cancellation
  <2> QED BY <1>10, <2>1, <2>2, <2>3
<1>22. TasksLatched(q, asked, out)
  BY <1>12, <1>14, <1>15, <1>18 DEF PageOk, TasksLatched
<1>23. PageOk(q, asked, out)
  BY <1>12, <1>14, <1>15, <1>19, <1>21, <1>22 DEF PageOk, TasksOrdered, NumbersBound
<1>24. ASSUME ~IsObsolete(p) PROVE t = <<>>
  <2>1. SUFFICES ASSUME Len(t) >= 1 PROVE FALSE
    BY <1>1, <1>3
  <2>2. 1 \in 1..Len(t) /\ t[1] = p.tasks[2] /\ 2 \in 1..Len(p.tasks)
    BY <1>16, <2>1
  <2>3. p.tasks[1].intent < p.tasks[2].intent /\ p.tasks[2].intent <= p.intent
    BY <1>18, <2>2 DEF PageOk, TasksOrdered
  <2>4. p.tasks[1].intent = p.intent
    BY <1>16, <1>24 DEF IsObsolete
  <2> QED BY <1>16, <1>17, <2>2, <2>3, <2>4
<1> QED BY <1>2, <1>12, <1>23, <1>24

(* The head of the queue asks for something, or its task ends: only a task *)
(* that was abandoned leaves another one waiting, and no document.         *)
LEMMA BeginKeeps ==
  ASSUME NEW asked, NEW out, NEW p, PageOk(p, asked, out), p.tasks # <<>>,
         p.request = NoRequest
  PROVE  /\ PageOk(Begin(p), asked, out)
         /\ p.doc = NoDocument => Proceeds(Begin(p))
         /\ Proceeds(Begin(p)) \/ Forgets(Begin(p))
<1>1. /\ p \in Page /\ p.requestId \in Nat /\ p.replace \in BOOLEAN
      /\ p.doc \in [revision : Nat, text : Text] /\ Task(p) \in PageTask
  BY TailFacts DEF PageOk, Page, Task
<1>2. Task(p).text \in Text /\ p.doc.revision \in Nat /\ p.doc.text \in Text
      /\ p.requestId + 1 \in Nat \ {0}
  BY <1>1 DEF PageTask, Text
<1>3. ASSUME p.replace \/ p.doc = NoDocument
      PROVE  PageOk(Begin(p), asked, out) /\ Proceeds(Begin(p))
  <2>1. PICK m : m = [type |-> "open", requestId |-> p.requestId + 1,
                      replaceSession |-> p.replace, text |-> Task(p).text]
    OBVIOUS
  <2>2. m \in Asks
    BY <1>1, <1>2, <2>1 DEF Asks, OpenCommand
  <2>3. Begin(p) = SendKernelCommand(p, m)
    BY <1>1, <1>3, <2>1 DEF Begin, SendOpen
  <2> QED BY <2>2, <2>3, SendKeeps DEF Proceeds
<1>4. ASSUME ~p.replace, p.doc # NoDocument, p.doc.text # Task(p).text
      PROVE  PageOk(Begin(p), asked, out) /\ Proceeds(Begin(p))
  <2>1. PICK m : m = [type |-> "change", requestId |-> p.requestId + 1,
                      baseRevision |-> p.doc.revision, baseVersion |-> p.doc.text,
                      before |-> p.doc.text, after |-> Task(p).text]
    OBVIOUS
  <2>2. m \in Asks
    BY <1>2, <2>1 DEF Asks, ChangeCommand
  <2>3. Begin(p) = SendKernelCommand(p, m)
    BY <1>1, <1>4, <2>1 DEF Begin, SendChange
  <2> QED BY <2>2, <2>3, SendKeeps DEF Proceeds
<1>5. ASSUME ~p.replace, p.doc # NoDocument, p.doc.text = Task(p).text
      PROVE  /\ PageOk(Begin(p), asked, out)
             /\ Proceeds(Begin(p)) \/ Forgets(Begin(p))
  <2>1. Begin(p) = RunOrAbandon(p)
    BY <1>1, <1>5 DEF Begin
  <2>2. CASE IsObsolete(p)
    BY <2>1, <2>2, AbandonKeeps DEF RunOrAbandon, Forgets
  <2>3. CASE ~IsObsolete(p)
    BY <2>1, <2>3, PostRunKeeps DEF RunOrAbandon, Proceeds
  <2> QED BY <2>2, <2>3
<1> QED BY <1>1, <1>3, <1>4, <1>5

(* No task is left waiting while none is under way.                        *)
LEMMA StartTasksKeeps ==
  ASSUME NEW asked, NEW out, NEW p, PageOk(p, asked, out)
  PROVE  PageOk(StartTasks(p), asked, out) /\ Proceeds(StartTasks(p))
<1>1. PICK q : q = StartTask(p)
  OBVIOUS
<1>2. PageOk(q, asked, out) /\ (Proceeds(q) \/ Forgets(q))
  <2>1. CASE p.request = NoRequest /\ p.tasks # <<>>
    BY <1>1, <2>1, BeginKeeps DEF StartTask
  <2>2. CASE ~(p.request = NoRequest /\ p.tasks # <<>>)
    BY <1>1, <2>2 DEF StartTask, Proceeds
  <2> QED BY <2>1, <2>2
<1>3. StartTasks(p) = StartTask(q)
  BY <1>1 DEF StartTasks
<1>4. CASE q.request = NoRequest /\ q.tasks # <<>>
  <2>1. q.doc = NoDocument /\ StartTask(q) = Begin(q)
    BY <1>2, <1>4 DEF StartTask, Proceeds, Forgets
  <2> QED BY <1>2, <1>3, <1>4, <2>1, BeginKeeps
<1>5. CASE ~(q.request = NoRequest /\ q.tasks # <<>>)
  BY <1>2, <1>3, <1>5 DEF StartTask, Proceeds
<1> QED BY <1>4, <1>5

(* The page may stop waiting, and learn more about the document.           *)
LEMMA SameTasksKeep ==
  ASSUME NEW asked, NEW out, NEW p, PageOk(p, asked, out), NEW q \in Page,
         q.tasks = p.tasks, q.request \in {p.request, NoRequest}, q.outbox = p.outbox,
         q.runId = p.runId, q.intent = p.intent, q.posted = p.posted, q.latched = p.latched
  PROVE  PageOk(q, asked, out)
BY DEF PageOk, TasksOrdered, TasksLatched, NumbersBound, OutboxOk

LEMMA RejectKeeps ==
  ASSUME NEW asked, NEW out, NEW p, PageOk(p, asked, out), p.tasks # <<>>
  PROVE  PageOk(Reject(p), asked, out) /\ Proceeds(Reject(p))
<1>1. PICK q : q = [p EXCEPT !.request = NoRequest]
  OBVIOUS
<1>2. PageOk(q, asked, out) /\ q.tasks # <<>> /\ q.request = NoRequest
  <2>1. p \in Page /\ NoRequest \in Request
    BY DEF PageOk, Request
  <2>2. /\ q \in Page /\ q.tasks = p.tasks /\ q.request = NoRequest /\ q.outbox = p.outbox
        /\ q.runId = p.runId /\ q.intent = p.intent /\ q.posted = p.posted
        /\ q.latched = p.latched
    BY <1>1, <2>1 DEF Page
  <2> QED BY <2>2, SameTasksKeep
<1>3. PageOk(Catch(q), asked, out)
  BY <1>2, CatchKeeps
<1>4. Reject(p) = StartTasks(Catch(q))
  BY <1>1 DEF Reject
<1> QED BY <1>3, <1>4, StartTasksKeeps

(* Whatever the answer, the task goes on or ends.                          *)
LEMMA ContinueKeeps ==
  ASSUME NEW asked, NEW out, NEW p, PageOk(p, asked, out), p.tasks # <<>>,
         p.request = NoRequest, NEW step \in {"open", "change", "subscribe"}, NEW m \in Posts
  PROVE  PageOk(ContinueTask(p, step, m), asked, out)
<1>1. /\ p \in Page /\ p.requestId \in Nat /\ p.replace \in BOOLEAN
      /\ p.doc \in [revision : Nat, text : Text] /\ Task(p) \in PageTask
  BY TailFacts DEF PageOk, Page, Task
<1>2. m.ok \in BOOLEAN /\ m.revision \in Nat /\ Task(p).text \in Text
  BY <1>1 DEF Posts, AnswerPost, OtherPost, PageTask, Text
<1>3. PICK doc : doc = [revision |-> m.revision, text |-> Task(p).text]
  OBVIOUS
<1>4. doc \in [revision : Nat, text : Text]
  BY <1>2, <1>3
<1>5. PICK known : known = [p EXCEPT !.doc = doc]
  OBVIOUS
<1>6. /\ known \in Page /\ known.tasks = p.tasks /\ known.request = p.request
      /\ known.outbox = p.outbox /\ known.runId = p.runId /\ known.intent = p.intent
      /\ known.posted = p.posted /\ known.latched = p.latched
  BY <1>1, <1>4, <1>5 DEF Page
<1>7. PageOk(known, asked, out) /\ known.tasks # <<>> /\ known.request = NoRequest
  BY <1>6, SameTasksKeep
<1>8. CASE ~m.ok
  BY <1>2, <1>8, CatchKeeps DEF ContinueTask
<1>9. CASE m.ok /\ IsObsolete(p)
  BY <1>9, AbandonKeeps DEF ContinueTask
<1>10. CASE m.ok /\ ~IsObsolete(p) /\ step = "open"
  <2>1. ContinueTask(p, step, m) = SendSubscribe(known)
    BY <1>3, <1>5, <1>10 DEF ContinueTask
  <2>2. PICK c : c = [type |-> "subscribe", requestId |-> known.requestId + 1]
    OBVIOUS
  <2>3. known.requestId \in Nat
    BY <1>7 DEF PageOk, Page
  <2>4. c \in Asks
    BY <2>2, <2>3 DEF Asks, SubscribeCommand
  <2> QED BY <1>7, <2>1, <2>2, <2>4, SendKeeps DEF SendSubscribe
<1>11. CASE m.ok /\ ~IsObsolete(p) /\ step = "change"
  <2>1. ContinueTask(p, step, m) = PostRun(known)
    BY <1>3, <1>5, <1>11 DEF ContinueTask
  <2> QED BY <1>7, <2>1, PostRunKeeps
<1>12. CASE m.ok /\ ~IsObsolete(p) /\ step = "subscribe"
  <2>1. PICK q : q = [p EXCEPT !.replace = FALSE]
    OBVIOUS
  <2>2. /\ q \in Page /\ q.tasks = p.tasks /\ q.request = p.request
        /\ q.outbox = p.outbox /\ q.runId = p.runId /\ q.intent = p.intent
        /\ q.posted = p.posted /\ q.latched = p.latched
    BY <1>1, <2>1 DEF Page
  <2>3. PageOk(q, asked, out) /\ q.tasks # <<>> /\ q.request = NoRequest
    BY <2>2, SameTasksKeep
  <2>4. ContinueTask(p, step, m) = PostRun(q)
    BY <1>12, <2>1 DEF ContinueTask
  <2> QED BY <2>3, <2>4, PostRunKeeps
<1> QED BY <1>2, <1>8, <1>9, <1>10, <1>11, <1>12

-----------------------------------------------------------------------------
(* What the worker posts *)

LEMMA AnswerKeeps ==
  ASSUME NEW asked, NEW out, NEW p, PageOk(p, asked, out), Proceeds(p), NEW m \in AnswerPost
  PROVE  PageOk(OnAnswer(p, m), asked, out) /\ Proceeds(OnAnswer(p, m))
<1>1. CASE m.requestId # p.request.id
  BY <1>1 DEF OnAnswer
<1>2. CASE m.requestId = p.request.id
  <2>1. p \in Page /\ p.request \in Request /\ m.requestId \in Nat \ {0} /\ m \in Posts
    BY DEF PageOk, Page, AnswerPost, Posts
  <2>2. p.request # NoRequest
    BY <1>2, <2>1 DEF NoRequest
  <2>3. p.request.step \in {"open", "change", "subscribe"} /\ p.tasks # <<>>
    BY <2>1, <2>2 DEF Request, PageOk
  <2>4. PICK q : q = [p EXCEPT !.request = NoRequest]
    OBVIOUS
  <2>5. /\ q \in Page /\ q.tasks = p.tasks /\ q.request = NoRequest /\ q.outbox = p.outbox
        /\ q.runId = p.runId /\ q.intent = p.intent /\ q.posted = p.posted
        /\ q.latched = p.latched
    BY <2>1, <2>4 DEF Page, Request
  <2>6. PageOk(q, asked, out)
    BY <2>5, SameTasksKeep
  <2>7. PICK step : step = p.request.step
    OBVIOUS
  <2>8. PageOk(ContinueTask(q, step, m), asked, out)
    BY <2>1, <2>3, <2>5, <2>6, <2>7, ContinueKeeps
  <2>9. OnAnswer(p, m) = StartTasks(ContinueTask(q, step, m))
    BY <1>2, <2>4, <2>7 DEF OnAnswer
  <2> QED BY <2>8, <2>9, StartTasksKeeps
<1> QED BY <1>1, <1>2

(* A result is of a run that has left the page: no task's latch goes.      *)
LEMMA ResultKeeps ==
  ASSUME NEW asked, NEW out, NEW p, PageOk(p, asked, out), Proceeds(p),
         NEW m \in OtherPost, m.runId \in out
  PROVE  PageOk(OnResult(p, m), asked, out) /\ Proceeds(OnResult(p, m))
<1>1. p \in Page /\ m.runId \in Nat /\ m.ok \in BOOLEAN /\ m.text \in Text
  BY DEF PageOk, OtherPost
<1>2. PICK q : q = OnResult(p, m)
  OBVIOUS
<1>3. PICK r, ps, ls, shown : /\ r = m.runId /\ ps = p.posted \ {r} /\ ls = p.latched \ {r}
                              /\ shown = [runId |-> r, ok |-> m.ok, text |-> m.text]
  OBVIOUS
<1>4. ps \in SUBSET Nat /\ ls \in SUBSET Nat /\ shown \in Shown
  BY <1>1, <1>3 DEF Page, Shown
<1>5. /\ q \in Page /\ q.tasks = p.tasks /\ q.request = p.request /\ q.outbox = p.outbox
      /\ q.runId = p.runId /\ q.intent = p.intent /\ q.posted = ps /\ q.latched = ls
  <2>1. CASE r # p.runId
    <3>1. q = [p EXCEPT !.posted = ps, !.latched = ls]
      BY <1>2, <1>3, <2>1 DEF OnResult
    <3> QED BY <1>1, <1>4, <3>1 DEF Page
  <2>2. CASE r = p.runId
    <3>1. q = [p EXCEPT !.posted = ps, !.latched = ls, !.shown = shown, !.running = FALSE]
      BY <1>1, <1>2, <1>3, <2>2 DEF OnResult, Page
    <3> QED BY <1>1, <1>4, <3>1 DEF Page
  <2> QED BY <2>1, <2>2
<1>6. TasksLatched(q, asked, out)
  BY <1>3, <1>5 DEF PageOk, TasksLatched
<1>7. PageOk(q, asked, out) /\ Proceeds(q)
  BY <1>3, <1>5, <1>6 DEF PageOk, TasksOrdered, NumbersBound, OutboxOk, Proceeds
<1> QED BY <1>2, <1>7

LEMMA ErrorKeeps ==
  ASSUME NEW asked, NEW out, NEW p, PageOk(p, asked, out), Proceeds(p)
  PROVE  PageOk(OnError(p), asked, out) /\ Proceeds(OnError(p))
<1>1. p \in Page
  BY DEF PageOk
<1>2. PICK q : q = ShowFailure(p, p.runId)
  OBVIOUS
<1>3. PICK shown : shown = [runId |-> p.runId, ok |-> FALSE, text |-> NoText]
  OBVIOUS
<1>4. shown \in Shown
  BY <1>1, <1>3 DEF Page, Shown, Text
<1>5. q = [p EXCEPT !.shown = shown, !.running = FALSE]
  BY <1>2, <1>3 DEF ShowFailure
<1>6. /\ q \in Page /\ q.tasks = p.tasks /\ q.request = p.request /\ q.outbox = p.outbox
      /\ q.runId = p.runId /\ q.intent = p.intent /\ q.posted = p.posted
      /\ q.latched = p.latched
  BY <1>1, <1>4, <1>5 DEF Page
<1>7. PageOk(q, asked, out) /\ Proceeds(q)
  BY <1>6, SameTasksKeep DEF Proceeds
<1>8. CASE q.request = NoRequest
  BY <1>2, <1>7, <1>8 DEF OnError
<1>9. CASE q.request # NoRequest
  <2>1. q.tasks # <<>>
    BY <1>7, <1>9 DEF PageOk
  <2> QED BY <1>2, <1>7, <1>9, <2>1, RejectKeeps DEF OnError
<1> QED BY <1>8, <1>9

LEMMA MessageKeeps ==
  ASSUME NEW asked, NEW out, NEW p, PageOk(p, asked, out), Proceeds(p), NEW m \in Posts,
         m.type = "result" => m.runId \in out
  PROVE  PageOk(OnPageMessage(p, m), asked, out) /\ Proceeds(OnPageMessage(p, m))
<1>1. CASE m \in AnswerPost
  <2>1. m.type = "answer"
    BY <1>1 DEF AnswerPost
  <2> QED BY <1>1, <2>1, AnswerKeeps DEF OnPageMessage
<1>2. CASE m \in OtherPost /\ m.type = "result"
  BY <1>2, ResultKeeps DEF OnPageMessage
<1>3. CASE m \in OtherPost /\ m.type = "failure"
  BY <1>3, ErrorKeeps DEF OnPageMessage
<1>4. m \in OtherPost => m.type \in {"result", "failure"}
  BY DEF OtherPost
<1> QED BY <1>1, <1>2, <1>3, <1>4 DEF Posts

-----------------------------------------------------------------------------
(* Timers and the user *)

(* The page with the task of a new run.                                    *)
NewTask(p) == [runId |-> p.runId + 1, intent |-> p.intent + 1, text |-> p.text]
Queued(p) ==
  [p EXCEPT !.runId = @ + 1, !.intent = @ + 1, !.running = TRUE, !.tasks = Append(@, NewTask(p))]

LEMMA QueuedFields ==
  ASSUME NEW p \in Page
  PROVE  /\ Queued(p).request = p.request /\ Queued(p).outbox = p.outbox
         /\ Queued(p).requestId = p.requestId /\ Queued(p).shown = p.shown
         /\ Queued(p).doc = p.doc /\ Queued(p).replace = p.replace
         /\ Queued(p).runId = p.runId + 1 /\ Queued(p).intent = p.intent + 1
         /\ Queued(p).tasks = Append(p.tasks, NewTask(p)) /\ NewTask(p) \in PageTask
<1>1. PICK r, n, t : r = p.runId + 1 /\ n = p.intent + 1 /\ t = Append(p.tasks, NewTask(p))
  OBVIOUS
<1>2. Queued(p) = [p EXCEPT !.runId = r, !.intent = n, !.running = TRUE, !.tasks = t]
  BY <1>1 DEF Queued, Page
<1>3. NewTask(p) \in PageTask
  BY DEF NewTask, PageTask, Page
<1> QED BY <1>1, <1>2, <1>3 DEF Page

(* A run gets a number no run had.                                         *)
LEMMA QueuedKeeps ==
  ASSUME NEW asked, NEW out, NEW p, PageOk(p, asked, out)
  PROVE  /\ PageOk(Queued(p), asked, out)
         /\ Queued(p).request = p.request /\ Queued(p).tasks # <<>>
         /\ Execute(p) = IF p.tasks = <<>> THEN StartTasks(Queued(p)) ELSE Queued(p)
<1>1. /\ p \in Page /\ p.runId \in Nat /\ p.intent \in Nat /\ p.tasks \in Seq(PageTask)
      /\ p.posted \in SUBSET Nat /\ asked \subseteq Nat /\ out \subseteq Nat
  BY DEF PageOk, Page
<1>2. PICK task : task = [runId |-> p.runId + 1, intent |-> p.intent + 1, text |-> p.text]
  OBVIOUS
<1>3. task \in PageTask /\ task.runId = p.runId + 1 /\ task.intent = p.intent + 1
  BY <1>1, <1>2 DEF Page, PageTask
<1>4. PICK t : t = Append(p.tasks, task)
  OBVIOUS
<1>5. /\ t \in Seq(PageTask) /\ Len(p.tasks) \in Nat /\ Len(t) = Len(p.tasks) + 1
      /\ t[Len(p.tasks) + 1] = task /\ \A i \in 1..Len(p.tasks) : t[i] = p.tasks[i]
  BY <1>1, <1>3, <1>4, AppendFacts
<1>6. PICK queued : queued = [p EXCEPT !.runId = @ + 1, !.intent = @ + 1, !.running = TRUE,
                                       !.tasks = t]
  OBVIOUS
<1>7. /\ queued \in Page /\ queued.tasks = t /\ queued.request = p.request
      /\ queued.outbox = p.outbox /\ queued.runId = p.runId + 1
      /\ queued.intent = p.intent + 1 /\ queued.posted = p.posted /\ queued.latched = p.latched
  <2>1. PICK r, n : r = p.runId + 1 /\ n = p.intent + 1
    OBVIOUS
  <2>2. queued = [p EXCEPT !.runId = r, !.intent = n, !.running = TRUE, !.tasks = t]
    BY <1>6, <2>1
  <2>3. r \in Nat /\ n \in Nat /\ t \in Seq(PageTask)
    BY <1>1, <1>5, <2>1
  <2> QED BY <1>1, <2>1, <2>2, <2>3 DEF Page
<1>8. Execute(p) = IF p.tasks = <<>> THEN StartTasks(queued) ELSE queued
  <2>1. PICK q : q = [p EXCEPT !.runId = @ + 1, !.intent = @ + 1, !.running = TRUE]
    OBVIOUS
  <2>2. /\ q.runId = p.runId + 1 /\ q.intent = p.intent + 1 /\ q.text = p.text
        /\ q.tasks = p.tasks
    BY <1>1, <2>1 DEF Page
  <2>3. queued = [q EXCEPT !.tasks = Append(@, task)]
    BY <1>1, <1>4, <1>6, <2>1 DEF Page
  <2> QED BY <1>2, <2>1, <2>2, <2>3 DEF Execute
<1>9. \A i \in 1..Len(p.tasks) : p.tasks[i].runId \in Nat /\ p.tasks[i].intent \in Nat
  <2>1. \A i \in 1..Len(p.tasks) : p.tasks[i] \in PageTask
    BY <1>1
  <2> QED BY <2>1 DEF PageTask
<1>10. TasksOrdered(queued)
  <2>1. ASSUME NEW i \in 1..Len(t)
        PROVE  t[i].runId <= p.runId + 1 /\ t[i].intent <= p.intent + 1
    <3>1. CASE i \in 1..Len(p.tasks)
      <4>1. p.tasks[i].runId <= p.runId /\ p.tasks[i].intent <= p.intent /\ t[i] = p.tasks[i]
        BY <1>5, <3>1 DEF PageOk, TasksOrdered
      <4> QED BY <1>1, <1>9, <3>1, <4>1
    <3>2. CASE i = Len(p.tasks) + 1
      BY <1>1, <1>3, <1>5, <3>2
    <3> QED BY <1>5, <3>1, <3>2
  <2>2. ASSUME NEW i \in 1..Len(t), NEW j \in 1..Len(t), i < j
        PROVE  t[i].runId < t[j].runId /\ t[i].intent < t[j].intent
    <3>1. i \in 1..Len(p.tasks) /\ t[i] = p.tasks[i]
      BY <1>5, <2>2
    <3>2. p.tasks[i].runId <= p.runId /\ p.tasks[i].intent <= p.intent
      BY <3>1 DEF PageOk, TasksOrdered
    <3>3. CASE j \in 1..Len(p.tasks)
      BY <1>5, <2>2, <3>1, <3>3 DEF PageOk, TasksOrdered
    <3>4. CASE j = Len(p.tasks) + 1
      <4>1. t[j].runId = p.runId + 1 /\ t[j].intent = p.intent + 1
        BY <1>3, <1>5, <3>4
      <4>2. p.tasks[i].runId \in Nat /\ p.tasks[i].intent \in Nat
        BY <1>9, <3>1
      <4> QED BY <1>1, <3>1, <3>2, <4>1, <4>2
    <3> QED BY <1>5, <3>3, <3>4
  <2> QED BY <1>7, <2>1, <2>2 DEF TasksOrdered
<1>11. task.runId \notin asked \cup out \cup p.posted
  BY <1>1, <1>3 DEF PageOk, NumbersBound
<1>12. TasksLatched(queued, asked, out)
  <2> SUFFICES ASSUME NEW i \in 1..Len(t)
               PROVE  /\ t[i].runId \notin out \cup p.posted
                      /\ t[i].runId \in asked => t[i].runId \in p.latched
    BY <1>7 DEF TasksLatched
  <2>1. CASE i \in 1..Len(p.tasks)
    BY <1>5, <2>1 DEF PageOk, TasksLatched
  <2>2. CASE i = Len(p.tasks) + 1
    BY <1>5, <1>11, <2>2
  <2> QED BY <1>5, <2>1, <2>2
<1>13. NumbersBound(queued, asked, out)
  <2>1. ASSUME NEW r \in asked \cup out \cup p.posted PROVE r <= p.runId + 1
    <3>1. r \in Nat /\ r <= p.runId
      BY <1>1 DEF PageOk, NumbersBound
    <3> QED BY <1>1, <3>1
  <2> QED BY <1>7, <2>1 DEF NumbersBound
<1>14. OutboxOk(queued, asked)
  <2> SUFFICES ASSUME NEW i \in 1..Len(p.outbox), p.outbox[i].type = "run"
               PROVE  /\ p.outbox[i].runId <= p.runId + 1
                      /\ \A j \in 1..Len(t) : t[j].runId # p.outbox[i].runId
    BY <1>7 DEF PageOk, OutboxOk
  <2>1. p.outbox[i].runId \in Nat
    <3>1. p.outbox[i] \in Command
      BY <1>1 DEF Page
    <3>2. p.outbox[i] \in RunCommand
      BY <3>1 DEF Command, Asks, OpenCommand, ChangeCommand, SubscribeCommand, CancelCommand
    <3> QED BY <3>2 DEF RunCommand
  <2>2. /\ p.outbox[i].runId <= p.runId
        /\ \A j \in 1..Len(p.tasks) : p.tasks[j].runId # p.outbox[i].runId
    BY DEF PageOk, OutboxOk
  <2>3. ASSUME NEW j \in 1..Len(t) PROVE t[j].runId # p.outbox[i].runId
    <3>1. CASE j \in 1..Len(p.tasks)
      BY <1>5, <2>2, <3>1
    <3>2. CASE j = Len(p.tasks) + 1
      BY <1>1, <1>3, <1>5, <2>1, <2>2, <3>2
    <3> QED BY <1>5, <3>1, <3>2
  <2> QED BY <1>1, <2>1, <2>2, <2>3
<1>15. t # <<>> /\ PageOk(queued, asked, out)
  BY <1>1, <1>5, <1>7, <1>10, <1>12, <1>13, <1>14 DEF PageOk
<1>16. queued = Queued(p) /\ task = NewTask(p)
  <2>1. task = NewTask(p)
    BY <1>2 DEF NewTask
  <2>2. [p EXCEPT !.tasks = t] = [p EXCEPT !.tasks = Append(@, task)]
    BY <1>1, <1>4 DEF Page
  <2> QED BY <1>1, <1>4, <1>6, <2>1 DEF Queued, Page
<1> QED BY <1>3, <1>4, <1>7, <1>8, <1>15, <1>16

LEMMA ExecuteKeeps ==
  ASSUME NEW asked, NEW out, NEW p, PageOk(p, asked, out), Proceeds(p)
  PROVE  PageOk(Execute(p), asked, out) /\ Proceeds(Execute(p))
<1>1. CASE p.tasks = <<>>
  BY <1>1, QueuedKeeps, StartTasksKeeps
<1>2. CASE p.tasks # <<>>
  <2>1. PICK q : q = Queued(p)
    OBVIOUS
  <2>2. PageOk(q, asked, out) /\ q.request = p.request /\ Execute(p) = q
    BY <1>2, <2>1, QueuedKeeps
  <2> QED BY <1>2, <2>2 DEF Proceeds
<1> QED BY <1>1, <1>2

-----------------------------------------------------------------------------
(* The channel to the worker *)

(* A message's number is a run's when it is a run's or a cancel's.         *)
LEMMA CommandNumbers ==
  ASSUME NEW m \in Command
  PROVE  m.type \in {"run", "cancel"} => m.runId \in Nat
<1>1. CASE m \in Asks
  BY <1>1 DEF Asks, OpenCommand, ChangeCommand, SubscribeCommand
<1>2. CASE m \in RunCommand
  BY <1>2 DEF RunCommand
<1>3. CASE m \in CancelCommand
  BY <1>3 DEF CancelCommand
<1> QED BY <1>1, <1>2, <1>3 DEF Command

LEMMA ConcatFacts ==
  ASSUME NEW S, NEW s \in Seq(S), NEW t \in Seq(S)
  PROVE  /\ s \o t \in Seq(S) /\ Len(s) \in Nat /\ Len(t) \in Nat
         /\ Len(s \o t) = Len(s) + Len(t)
         /\ \A i \in 1..Len(s) : (s \o t)[i] = s[i]
         /\ \A i \in 1..Len(t) : (s \o t)[Len(s) + i] = t[i]
         /\ \A i \in 1..Len(s \o t) :
              i \in 1..Len(s) \/ (i - Len(s) \in 1..Len(t) /\ i = Len(s) + (i - Len(s)))
  OBVIOUS

(* What is posted after the others takes no cancel from them.              *)
LEMMA PostKeepsOrder ==
  ASSUME NEW asked, NEW s \in Seq(Command), NEW t \in Seq(Command), NEW k,
         CancelFollows(s, asked), CancelFollows(t, asked), Covered(k, s, asked)
  PROVE  CancelFollows(s \o t, asked) /\ Covered(k, s \o t, asked)
<1>1. PICK u : u = s \o t
  OBVIOUS
<1>2. /\ u \in Seq(Command) /\ Len(s) \in Nat /\ Len(t) \in Nat
      /\ Len(u) = Len(s) + Len(t)
      /\ \A i \in 1..Len(s) : u[i] = s[i]
      /\ \A i \in 1..Len(t) : u[Len(s) + i] = t[i]
      /\ \A i \in 1..Len(u) :
           i \in 1..Len(s) \/ (i - Len(s) \in 1..Len(t) /\ i = Len(s) + (i - Len(s)))
  BY <1>1, ConcatFacts
<1>3. \A i \in 1..Len(s) : i \in 1..Len(u)
  BY <1>2
<1>4. CancelFollows(u, asked)
  <2> SUFFICES ASSUME NEW i \in 1..Len(u), NEW r \in asked, IsRun(u[i], r)
               PROVE  \E j \in 1..Len(u) : j > i /\ IsCancel(u[j], r)
    BY DEF CancelFollows
  <2>1. CASE i \in 1..Len(s)
    <3>1. PICK j \in 1..Len(s) : j > i /\ IsCancel(s[j], r)
      BY <1>2, <2>1 DEF CancelFollows
    <3> QED BY <1>2, <1>3, <3>1
  <2>2. ASSUME NEW l \in 1..Len(t), i = Len(s) + l
        PROVE  \E j \in 1..Len(u) : j > i /\ IsCancel(u[j], r)
    <3>1. PICK j \in 1..Len(t) : j > l /\ IsCancel(t[j], r)
      BY <1>2, <2>2 DEF CancelFollows
    <3>2. Len(s) + j \in 1..Len(u) /\ Len(s) + j > i /\ u[Len(s) + j] = t[j]
      BY <1>2, <2>2, <3>1
    <3> QED BY <3>1, <3>2
  <2> QED BY <1>2, <2>1, <2>2
<1>5. Covered(k, u, asked)
  BY <1>2, <1>3 DEF Covered, HasCancel
<1> QED BY <1>1, <1>4, <1>5

OneCancel(s, r) == Len(s) = 1 /\ IsCancel(s[1], r)

(* A cancel behind all the others is behind its run.                       *)
LEMMA CancelAfter ==
  ASSUME NEW asked, NEW s \in Seq(Command), NEW box \in Seq(Command), NEW r, NEW k,
         OneCancel(box, r), CancelFollows(s, asked), Covered(k, s, asked)
  PROVE  /\ CancelFollows(s \o box, asked \cup {r})
         /\ Covered(k, s \o box, asked \cup {r})
<1>1. PICK u : u = s \o box
  OBVIOUS
<1>2. /\ Len(s) \in Nat /\ Len(u) = Len(s) + Len(box)
      /\ \A i \in 1..Len(s) : u[i] = s[i]
      /\ \A i \in 1..Len(box) : u[Len(s) + i] = box[i]
  BY <1>1, ConcatFacts
<1>3. PICK last : last = Len(s) + 1
  OBVIOUS
<1>4. 1 \in 1..Len(box) /\ Len(u) = last /\ u[last] = box[1] /\ IsCancel(box[1], r)
  BY <1>2, <1>3 DEF OneCancel
<1>5. /\ last \in 1..Len(u) /\ IsCancel(u[last], r) /\ \A x : ~IsRun(u[last], x)
      /\ \A i \in 1..Len(u) : i \in 1..Len(s) \/ i = last
      /\ \A i \in 1..Len(s) : i \in 1..Len(u) /\ last > i /\ u[i] = s[i]
  BY <1>2, <1>3, <1>4 DEF IsRun, IsCancel
<1>6. CancelFollows(u, asked \cup {r})
  <2> SUFFICES ASSUME NEW i \in 1..Len(u), NEW x \in asked \cup {r}, IsRun(u[i], x)
               PROVE  \E j \in 1..Len(u) : j > i /\ IsCancel(u[j], x)
    BY DEF CancelFollows
  <2>1. i \in 1..Len(s) /\ IsRun(s[i], x)
    BY <1>5
  <2>2. CASE x = r
    BY <1>5, <2>1, <2>2
  <2>3. CASE x \in asked
    <3>1. PICK j \in 1..Len(s) : j > i /\ IsCancel(s[j], x)
      BY <2>1, <2>3 DEF CancelFollows
    <3> QED BY <1>5, <3>1
  <2> QED BY <2>2, <2>3
<1>7. Covered(k, u, asked \cup {r})
  <2> SUFFICES ASSUME NEW x \in asked \cup {r}, x \in RunIds(k), x \notin k.cancelled
               PROVE  HasCancel(u, x)
    BY DEF Covered
  <2>1. CASE x = r
    BY <1>5, <2>1 DEF HasCancel
  <2>2. CASE x \in asked
    <3>1. PICK j \in 1..Len(s) : IsCancel(s[j], x)
      BY <2>2 DEF Covered, HasCancel
    <3> QED BY <1>5, <3>1 DEF HasCancel
  <2> QED BY <2>1, <2>2
<1> QED BY <1>1, <1>6, <1>7

(* The first message leaves the channel: no run loses its cancel.          *)
LEMMA TailKeepsOrder ==
  ASSUME NEW asked, NEW s \in Seq(Command), s # <<>>, CancelFollows(s, asked)
  PROVE  /\ CancelFollows(Tail(s), asked)
         /\ \A r \in asked : HasCancel(s, r) => IsCancel(Head(s), r) \/ HasCancel(Tail(s), r)
         /\ \A r \in asked : IsRun(Head(s), r) => HasCancel(Tail(s), r)
<1>1. PICK t : t = Tail(s)
  OBVIOUS
<1>2. /\ Head(s) = s[1] /\ t \in Seq(Command) /\ Len(s) \in Nat /\ Len(s) >= 1
      /\ Len(t) = Len(s) - 1
      /\ \A i \in 1..Len(t) : i + 1 \in 1..Len(s) /\ t[i] = s[i + 1]
  BY <1>1, TailFacts
<1>3. \A j \in 1..Len(s) : j > 1 => j - 1 \in 1..Len(t) /\ t[j - 1] = s[j]
  <2> SUFFICES ASSUME NEW j \in 1..Len(s), j > 1 PROVE j - 1 \in 1..Len(t) /\ t[j - 1] = s[j]
    OBVIOUS
  <2>1. j - 1 \in 1..Len(t) /\ (j - 1) + 1 = j
    BY <1>2
  <2> QED BY <1>2, <2>1
<1>4. CancelFollows(t, asked)
  <2> SUFFICES ASSUME NEW i \in 1..Len(t), NEW r \in asked, IsRun(t[i], r)
               PROVE  \E j \in 1..Len(t) : j > i /\ IsCancel(t[j], r)
    BY DEF CancelFollows
  <2>1. i + 1 \in 1..Len(s) /\ IsRun(s[i + 1], r)
    BY <1>2
  <2>2. PICK j \in 1..Len(s) : j > i + 1 /\ IsCancel(s[j], r)
    BY <2>1 DEF CancelFollows
  <2>3. j > 1 /\ j - 1 > i
    BY <1>2, <2>2
  <2> QED BY <1>3, <2>2, <2>3
<1>5. ASSUME NEW r \in asked, HasCancel(s, r), ~IsCancel(Head(s), r)
      PROVE  HasCancel(t, r)
  <2>1. PICK j \in 1..Len(s) : IsCancel(s[j], r)
    BY <1>5 DEF HasCancel
  <2>2. j > 1
    BY <1>2, <1>5, <2>1
  <2> QED BY <1>3, <2>1, <2>2 DEF HasCancel
<1>6. ASSUME NEW r \in asked, IsRun(Head(s), r) PROVE HasCancel(t, r)
  <2>1. 1 \in 1..Len(s) /\ IsRun(s[1], r)
    BY <1>2, <1>6
  <2>2. PICK j \in 1..Len(s) : j > 1 /\ IsCancel(s[j], r)
    BY <2>1 DEF CancelFollows
  <2> QED BY <1>3, <2>2 DEF HasCancel
<1> QED BY <1>1, <1>4, <1>5, <1>6

(* The page lets go of its outbox: what it sends has left it.              *)
LEMMA OutboxLeaves ==
  ASSUME NEW asked, NEW out, NEW p, PageOk(p, asked, out), NEW out2,
         out2 \subseteq out \cup RunsOf(p.outbox)
  PROVE  PageOk([p EXCEPT !.outbox = <<>>], asked, out2)
<1>1. PICK q : q = [p EXCEPT !.outbox = <<>>]
  OBVIOUS
<1>2. /\ p \in Page /\ p.runId \in Nat /\ p.outbox \in Seq(Command)
      /\ out \subseteq Nat /\ asked \subseteq Nat
  BY DEF PageOk, Page
<1>3. /\ q \in Page /\ q.tasks = p.tasks /\ q.request = p.request /\ q.outbox = <<>>
      /\ q.runId = p.runId /\ q.intent = p.intent /\ q.posted = p.posted
      /\ q.latched = p.latched
  <2>1. PICK e : e = <<>>
    OBVIOUS
  <2>2. e \in Seq(Command) /\ q = [p EXCEPT !.outbox = e]
    BY <1>1, <2>1
  <2> QED BY <1>2, <2>1, <2>2 DEF Page
<1>4. ASSUME NEW r \in RunsOf(p.outbox)
      PROVE  /\ r \in Nat /\ r <= p.runId
             /\ \A j \in 1..Len(p.tasks) : p.tasks[j].runId # r
  <2>1. PICK i \in 1..Len(p.outbox) : p.outbox[i].type = "run" /\ r = p.outbox[i].runId
    BY DEF RunsOf
  <2>2. p.outbox[i] \in Command
    BY <1>2
  <2> QED BY <2>1, <2>2, CommandNumbers DEF PageOk, OutboxOk
<1>5. out2 \subseteq Nat
  BY <1>2, <1>4
<1>6. TasksLatched(q, asked, out2)
  BY <1>3, <1>4 DEF PageOk, TasksLatched
<1>7. NumbersBound(q, asked, out2)
  BY <1>3, <1>4 DEF PageOk, NumbersBound
<1>8. OutboxOk(q, asked)
  <2>1. Len(q.outbox) = 0
    BY <1>3
  <2> QED BY <2>1 DEF OutboxOk, CancelFollows
<1>9. PageOk(q, asked, out2)
  BY <1>3, <1>5, <1>6, <1>7, <1>8 DEF PageOk, TasksOrdered
<1> QED BY <1>1, <1>9

(* The numbers of what leaves a channel, and of what enters it.            *)
LEMMA NumbersOfTail ==
  ASSUME NEW S, NEW s \in Seq(S), s # <<>>
  PROVE  /\ RunsOf(Tail(s)) \subseteq RunsOf(s) /\ ResultsOf(Tail(s)) \subseteq ResultsOf(s)
         /\ Head(s).type = "run" => Head(s).runId \in RunsOf(s)
         /\ Head(s).type = "result" => Head(s).runId \in ResultsOf(s)
<1>1. PICK t : t = Tail(s)
  OBVIOUS
<1>2. /\ Head(s) = s[1] /\ 1 \in 1..Len(s)
      /\ \A i \in 1..Len(t) : i + 1 \in 1..Len(s) /\ t[i] = s[i + 1]
  BY <1>1, TailFacts
<1>3. RunsOf(t) \subseteq RunsOf(s) /\ ResultsOf(t) \subseteq ResultsOf(s)
  BY <1>2 DEF RunsOf, ResultsOf
<1> QED BY <1>1, <1>2, <1>3 DEF RunsOf, ResultsOf

LEMMA NumbersOfAppend ==
  ASSUME NEW S, NEW s \in Seq(S), NEW m \in S
  PROVE  /\ ResultsOf(Append(s, m)) \subseteq ResultsOf(s) \cup {m.runId}
         /\ m.type # "result" => ResultsOf(Append(s, m)) \subseteq ResultsOf(s)
<1>1. PICK t : t = Append(s, m)
  OBVIOUS
<1>2. /\ Len(s) \in Nat /\ Len(t) = Len(s) + 1 /\ t[Len(s) + 1] = m
      /\ \A i \in 1..Len(s) : t[i] = s[i]
  BY <1>1, AppendFacts
<1>3. \A i \in 1..Len(t) : (i \in 1..Len(s) /\ t[i] = s[i]) \/ t[i] = m
  BY <1>2
<1> QED BY <1>1, <1>3 DEF ResultsOf

LEMMA NumbersOfConcat ==
  ASSUME NEW s \in Seq(Command), NEW t \in Seq(Command)
  PROVE  RunsOf(s \o t) \subseteq RunsOf(s) \cup RunsOf(t)
<1>1. PICK u : u = s \o t
  OBVIOUS
<1>2. \A i \in 1..Len(u) : (i \in 1..Len(s) /\ u[i] = s[i])
                          \/ (i - Len(s) \in 1..Len(t) /\ u[i] = t[i - Len(s)])
  BY <1>1, ConcatFacts
<1> QED BY <1>1, <1>2 DEF RunsOf

-----------------------------------------------------------------------------
(* The steps of the system *)

(* A step of the page: asked is what is to be cancelled after it.          *)
LEMMA PageStep ==
  ASSUME CancelInv, NEW p, PageOk(p, past'.asked, Out), Proceeds(p), PostOutbox(p),
         kernel' = kernel, past' \in Past, toHost' \in Seq(Posts),
         ResultsOf(toHost') \subseteq ResultsOf(toHost),
         CancelFollows(toKernel \o p.outbox, past'.asked),
         Covered(kernel, toKernel \o p.outbox, past'.asked)
  PROVE  CancelInv'
<1>1. PICK asked : asked = past'.asked
  OBVIOUS
<1>2. page' = [p EXCEPT !.outbox = <<>>] /\ toKernel' = toKernel \o p.outbox
  BY DEF PostOutbox
<1>3. p \in Page /\ p.outbox \in Seq(Command) /\ toKernel \in Seq(Command)
  BY DEF PageOk, Page, CancelInv, TypeInv
<1>4. toKernel' \in Seq(Command) /\ RunsOf(toKernel') \subseteq RunsOf(toKernel) \cup RunsOf(p.outbox)
  BY <1>2, <1>3, ConcatFacts, NumbersOfConcat
<1>5. PICK out2 : out2 = RunIds(kernel) \cup RunsOf(toKernel') \cup ResultsOf(toHost')
  OBVIOUS
<1>6. out2 \subseteq Out \cup RunsOf(p.outbox)
  BY <1>4, <1>5 DEF Out
<1>7. PageOk(page', asked, out2)
  BY <1>1, <1>2, <1>6, OutboxLeaves
<1>8. page'.outbox = <<>> /\ page'.tasks = p.tasks /\ page'.request = p.request
  BY <1>2, <1>3 DEF Page
<1>9. PageOk(page, past.asked, Out)'
  BY <1>1, <1>5, <1>7 DEF Out
<1>10. TypeInv'
  BY <1>4, <1>7 DEF CancelInv, TypeInv, PageOk
<1>11. (CancelFollows(toKernel, past.asked) /\ Covered(kernel, toKernel, past.asked))'
  BY <1>2
<1>12. TasksProceed' /\ QueueDistinct'
  BY <1>8 DEF CancelInv, TasksProceed, Proceeds, QueueDistinct
<1> QED BY <1>8, <1>9, <1>10, <1>11, <1>12 DEF CancelInv

(* Most steps of the page ask for no cancel.                               *)
LEMMA PlainPageStep ==
  ASSUME CancelInv, NEW p, PageOk(p, past.asked, Out), Proceeds(p), PostOutbox(p),
         kernel' = kernel, past' \in Past, past'.asked = past.asked, toHost' \in Seq(Posts),
         ResultsOf(toHost') \subseteq ResultsOf(toHost)
  PROVE  CancelInv'
<1>1. p.outbox \in Seq(Command) /\ CancelFollows(p.outbox, past.asked)
  BY DEF PageOk, Page, OutboxOk
<1>2. /\ toKernel \in Seq(Command) /\ CancelFollows(toKernel, past.asked)
      /\ Covered(kernel, toKernel, past.asked)
  BY DEF CancelInv, TypeInv
<1>3. /\ CancelFollows(toKernel \o p.outbox, past.asked)
      /\ Covered(kernel, toKernel \o p.outbox, past.asked)
  BY <1>1, <1>2, PostKeepsOrder
<1> QED BY <1>3, PageStep

(* A step of the worker.                                                   *)
LEMMA WorkerStep ==
  ASSUME CancelInv, UNCHANGED pageVars, kernel' \in Kernel, toKernel' \in Seq(Command),
         toHost' \in Seq(Posts), Out' \subseteq Out, CancelFollows(toKernel', past.asked),
         Covered(kernel', toKernel', past.asked), QueueDistinct'
  PROVE  CancelInv'
<1>1. page' = page /\ past' = past
  BY DEF pageVars
<1>2. PageOk(page, past.asked, Out')
  <2>1. PICK out2 : out2 = Out'
    OBVIOUS
  <2>2. out2 \subseteq Out
    BY <2>1
  <2>3. PageOk(page, past.asked, out2)
    BY <2>2 DEF CancelInv, PageOk, TasksLatched, NumbersBound
  <2> QED BY <2>1, <2>3
<1>3. PageOk(page, past.asked, Out)'
  BY <1>1, <1>2
<1>4. TypeInv' /\ TasksProceed'
  BY <1>1 DEF CancelInv, TypeInv, TasksProceed
<1>5. (CancelFollows(toKernel, past.asked) /\ Covered(kernel, toKernel, past.asked))'
  BY <1>1
<1> QED BY <1>1, <1>3, <1>4, <1>5 DEF CancelInv

LEMMA DeliverToPageKeeps ==
  ASSUME CancelInv, DeliverToPage PROVE CancelInv'
<1>1. /\ toHost \in Seq(Posts) /\ toHost # <<>> /\ toHost' = Tail(toHost)
      /\ kernel' = kernel /\ past' = past /\ past \in Past
      /\ PostOutbox(OnPageMessage(page, Head(toHost)))
  BY DEF DeliverToPage, CancelInv, TypeInv
<1>2. Head(toHost) \in Posts /\ Tail(toHost) \in Seq(Posts)
  BY <1>1, TailFacts
<1>3. /\ Head(toHost).type = "result" => Head(toHost).runId \in Out
      /\ ResultsOf(toHost') \subseteq ResultsOf(toHost)
  BY <1>1, NumbersOfTail DEF Out
<1>4. PICK p : p = OnPageMessage(page, Head(toHost))
  OBVIOUS
<1>5. PageOk(p, past.asked, Out) /\ Proceeds(p)
  BY <1>2, <1>3, <1>4, MessageKeeps DEF CancelInv, TasksProceed
<1> QED BY <1>1, <1>2, <1>3, <1>4, <1>5, PlainPageStep

LEMMA EventFacts ==
  ASSUME past \in Past
  PROVE  Event \in Past /\ Event.asked = past.asked /\ Fault \in Past /\ Fault.asked = past.asked
<1>1. PICK n : n = past.events + 1
  OBVIOUS
<1>2. n \in Nat
  BY <1>1 DEF Past
<1>3. Event = [past EXCEPT !.events = n]
  BY <1>1 DEF Event
<1>4. Event \in Past /\ Event.asked = past.asked
  BY <1>2, <1>3 DEF Past
<1>5. Fault = [Event EXCEPT !.faulty = TRUE]
  BY DEF Fault
<1> QED BY <1>4, <1>5 DEF Past

LEMMA RecordFacts ==
  ASSUME CancelInv, NEW e \in Past, e.asked = past.asked
  PROVE  /\ [e EXCEPT !.runs = RecordRun] \in Past
         /\ [e EXCEPT !.runs = RecordRun].asked = past.asked
<1>1. PICK runs : runs = RecordRun
  OBVIOUS
<1>2. runs \in Seq([text : Texts, edit : Nat])
  <2>1. [text |-> page.text, edit |-> page.edit] \in [text : Texts, edit : Nat]
    BY DEF CancelInv, TypeInv, Page
  <2>2. past.runs \in Seq([text : Texts, edit : Nat])
    BY DEF CancelInv, TypeInv, Past
  <2> QED BY <1>1, <2>1, <2>2, AppendFacts DEF RecordRun
<1>3. [e EXCEPT !.runs = runs] \in Past /\ [e EXCEPT !.runs = runs].asked = past.asked
  BY <1>2 DEF Past
<1> QED BY <1>1, <1>3

LEMMA DebounceKeeps ==
  ASSUME CancelInv, DebounceElapses PROVE CancelInv'
<1>1. PICK q : q = [page EXCEPT !.due = FALSE]
  OBVIOUS
<1>2. /\ q \in Page /\ q.tasks = page.tasks /\ q.request = page.request
      /\ q.outbox = page.outbox /\ q.runId = page.runId /\ q.intent = page.intent
      /\ q.posted = page.posted /\ q.latched = page.latched
  BY <1>1 DEF CancelInv, TypeInv, Page
<1>3. PageOk(q, past.asked, Out) /\ Proceeds(q)
  BY <1>2, SameTasksKeep DEF CancelInv, TasksProceed, Proceeds
<1>4. PICK p : p = Execute(q)
  OBVIOUS
<1>5. PageOk(p, past.asked, Out) /\ Proceeds(p)
  BY <1>3, <1>4, ExecuteKeeps
<1>6. past' \in Past /\ past'.asked = past.asked
  BY RecordFacts DEF DebounceElapses, CancelInv, TypeInv
<1>7. PostOutbox(p) /\ kernel' = kernel /\ toHost' = toHost /\ toHost \in Seq(Posts)
  BY <1>1, <1>4 DEF DebounceElapses, CancelInv, TypeInv
<1> QED BY <1>5, <1>6, <1>7, PlainPageStep

LEMMA TimeoutKeeps ==
  ASSUME CancelInv, CommandTimesOut PROVE CancelInv'
<1>1. PICK p : p = Reject(page)
  OBVIOUS
<1>2. page.tasks # <<>> /\ PageOk(page, past.asked, Out)
  BY DEF CommandTimesOut, CancelInv, PageOk
<1>3. PageOk(p, past.asked, Out) /\ Proceeds(p)
  BY <1>1, <1>2, RejectKeeps
<1>4. past' \in Past /\ past'.asked = past.asked
  BY EventFacts DEF CommandTimesOut, CancelInv, TypeInv
<1>5. PostOutbox(p) /\ kernel' = kernel /\ toHost' = toHost /\ toHost \in Seq(Posts)
  BY <1>1 DEF CommandTimesOut, CancelInv, TypeInv
<1> QED BY <1>3, <1>4, <1>5, PlainPageStep

(* The user types, or takes a fixture.                                     *)
LEMMA EditKeeps ==
  ASSUME CancelInv, NEW text \in Texts, NEW replace \in BOOLEAN, NEW intent \in Nat,
         intent >= page.intent, NEW doc \in [revision : Nat, text : Text], NEW q,
         q = [page EXCEPT !.text = text, !.edit = @ + 1, !.due = TRUE, !.intent = intent,
                          !.replace = replace, !.doc = doc],
         PostOutbox(q), kernel' = kernel, toHost' = toHost, past' = Event
  PROVE  CancelInv'
<1>1. page \in Page /\ PageOk(page, past.asked, Out) /\ Proceeds(page) /\ page.intent \in Nat
  BY DEF CancelInv, TypeInv, TasksProceed, Page
<1>2. PICK n : n = page.edit + 1
  OBVIOUS
<1>3. n \in Nat
  BY <1>1, <1>2 DEF Page
<1>4. q = [page EXCEPT !.text = text, !.edit = n, !.due = TRUE, !.intent = intent,
                       !.replace = replace, !.doc = doc]
  BY <1>2
<1>5. /\ q \in Page /\ q.tasks = page.tasks /\ q.request = page.request
      /\ q.outbox = page.outbox /\ q.runId = page.runId /\ q.intent = intent
      /\ q.posted = page.posted /\ q.latched = page.latched
  <2>1. /\ q.tasks = page.tasks /\ q.request = page.request
        /\ q.outbox = page.outbox /\ q.runId = page.runId /\ q.intent = intent
        /\ q.posted = page.posted /\ q.latched = page.latched
    BY <1>1, <1>4 DEF Page
  <2>2. PICK p : p = [page EXCEPT !.text = text, !.edit = n, !.due = TRUE]
    OBVIOUS
  <2>3. p \in Page
    BY <1>1, <1>3, <2>2 DEF Page
  <2>4. q = [p EXCEPT !.intent = intent, !.replace = replace, !.doc = doc]
    BY <1>1, <1>4, <2>2 DEF Page
  <2>5. q \in Page
    BY <2>3, <2>4 DEF Page
  <2> QED BY <2>1, <2>5
<1>6. \A i \in 1..Len(page.tasks) : page.tasks[i].intent \in Nat
  <2>1. \A i \in 1..Len(page.tasks) : page.tasks[i] \in PageTask
    BY <1>1 DEF Page
  <2> QED BY <2>1 DEF PageTask
<1>7. TasksOrdered(q)
  BY <1>1, <1>5, <1>6 DEF PageOk, TasksOrdered
<1>8. PageOk(q, past.asked, Out) /\ Proceeds(q)
  BY <1>1, <1>5, <1>7 DEF PageOk, TasksLatched, NumbersBound, OutboxOk, Proceeds
<1>9. past' \in Past /\ past'.asked = past.asked /\ toHost' \in Seq(Posts)
  BY EventFacts DEF CancelInv, TypeInv
<1> QED BY <1>8, <1>9, PlainPageStep

LEMMA UserEditsKeeps ==
  ASSUME CancelInv, NEW text \in Texts, UserEdits(text) PROVE CancelInv'
<1>1. page \in Page /\ page.intent \in Nat /\ page.replace \in BOOLEAN
      /\ page.doc \in [revision : Nat, text : Text]
  BY DEF CancelInv, TypeInv, Page
<1>2. PICK q : q = Edit(page, text)
  OBVIOUS
<1>3. q = [page EXCEPT !.text = text, !.edit = @ + 1, !.due = TRUE, !.intent = page.intent,
                       !.replace = page.replace, !.doc = page.doc]
  BY <1>1, <1>2 DEF Edit, Page
<1>4. PostOutbox(q) /\ kernel' = kernel /\ toHost' = toHost /\ past' = Event
  BY <1>2 DEF UserEdits, Act
<1>5. page.intent >= page.intent
  BY <1>1
<1> QED BY <1>1, <1>3, <1>4, <1>5, EditKeeps

LEMMA UserSelectsFixtureKeeps ==
  ASSUME CancelInv, UserSelectsFixture PROVE CancelInv'
<1>1. page \in Page /\ page.intent \in Nat /\ FixtureText \in Texts
      /\ NoDocument \in [revision : Nat, text : Text]
  BY PlaygroundAssumption DEF CancelInv, TypeInv, Page, NoDocument, Text
<1>2. PICK q, n : /\ q = [Edit(page, FixtureText) EXCEPT !.intent = @ + 1, !.replace = TRUE,
                                                          !.doc = NoDocument]
                  /\ n = page.intent + 1
  OBVIOUS
<1>3. n \in Nat /\ n >= page.intent
  BY <1>1, <1>2
<1>4. q = [page EXCEPT !.text = FixtureText, !.edit = @ + 1, !.due = TRUE, !.intent = n,
                       !.replace = TRUE, !.doc = NoDocument]
  BY <1>1, <1>2 DEF Edit, Page
<1>5. PostOutbox(q) /\ kernel' = kernel /\ toHost' = toHost /\ past' = Event
  BY <1>2 DEF UserSelectsFixture, Act
<1> QED BY <1>1, <1>3, <1>4, <1>5, EditKeeps

LEMMA UserRunsKeeps ==
  ASSUME CancelInv, UserRuns PROVE CancelInv'
<1>1. PICK p : p = Execute(page)
  OBVIOUS
<1>2. PageOk(p, past.asked, Out) /\ Proceeds(p)
  BY <1>1, ExecuteKeeps DEF CancelInv, TasksProceed
<1>3. past' \in Past /\ past'.asked = past.asked
  BY RecordFacts, EventFacts DEF UserRuns, CancelInv, TypeInv
<1>4. PostOutbox(p) /\ kernel' = kernel /\ toHost' = toHost /\ toHost \in Seq(Posts)
  BY <1>1 DEF UserRuns, Act, CancelInv, TypeInv
<1> QED BY <1>2, <1>3, <1>4, PlainPageStep

(* The cancel is posted behind every run that has left the page, and       *)
(* latched for one that has not.                                           *)
LEMMA UserCancelsKeeps ==
  ASSUME CancelInv, UserCancels PROVE CancelInv'
<1>1. /\ page \in Page /\ page.runId \in Nat /\ page.latched \in SUBSET Nat
      /\ PageOk(page, past.asked, Out) /\ page.outbox = <<>> /\ past \in Past
      /\ past.asked \subseteq Nat /\ toKernel \in Seq(Command)
  BY DEF CancelInv, TypeInv, Page, Past
<1>2. PICK r : r = page.runId
  OBVIOUS
<1>3. PICK c : c = Cancellation(r)
  OBVIOUS
<1>4. c \in Command /\ IsCancel(c, r) /\ c.type = "cancel"
  BY <1>1, <1>2, <1>3 DEF Command, CancelCommand, Cancellation, IsCancel
<1>5. PICK asked : asked = past.asked \cup {r}
  OBVIOUS
<1>6. past' \in Past /\ past'.asked = asked
  <2>1. past' = [Event EXCEPT !.asked = @ \cup {page.runId}]
    BY DEF UserCancels
  <2>2. past' = [Event EXCEPT !.asked = asked]
    BY <1>1, <1>2, <1>5, <2>1, EventFacts
  <2>3. asked \in SUBSET Nat
    BY <1>1, <1>2, <1>5
  <2> QED BY <1>1, <2>2, <2>3, EventFacts DEF Past
<1>7. PICK ls, box : /\ ls = IF r \in page.posted THEN page.latched ELSE page.latched \cup {r}
                     /\ box = Append(page.outbox, c)
  OBVIOUS
<1>8. PICK q : q = [page EXCEPT !.latched = ls, !.outbox = box]
  OBVIOUS
<1>9. PostOutbox(q) /\ kernel' = kernel /\ toHost' = toHost /\ toHost \in Seq(Posts)
  BY <1>1, <1>2, <1>3, <1>7, <1>8 DEF UserCancels, Act, CancelInv, TypeInv
<1>10. box \in Seq(Command) /\ Len(box) = 1 /\ box[1] = c /\ ls \in SUBSET Nat
  BY <1>1, <1>2, <1>4, <1>7
<1>11. /\ q \in Page /\ q.tasks = page.tasks /\ q.request = page.request /\ q.outbox = box
       /\ q.runId = page.runId /\ q.intent = page.intent /\ q.posted = page.posted
       /\ q.latched = ls
  BY <1>1, <1>8, <1>10 DEF Page
<1>12. TasksLatched(q, asked, Out)
  BY <1>1, <1>5, <1>7, <1>11 DEF PageOk, TasksLatched
<1>13. NumbersBound(q, asked, Out) /\ asked \subseteq Nat
  BY <1>1, <1>2, <1>5, <1>11 DEF PageOk, NumbersBound
<1>14. \A i \in 1..Len(box) : box[i] = c
  BY <1>10
<1>15. OutboxOk(q, asked)
  BY <1>4, <1>11, <1>14 DEF OutboxOk, CancelFollows, IsRun
<1>16. PageOk(q, asked, Out) /\ Proceeds(q)
  BY <1>1, <1>11, <1>12, <1>13, <1>15 DEF PageOk, TasksOrdered, CancelInv, TasksProceed, Proceeds
<1>17. CancelFollows(toKernel \o box, asked) /\ Covered(kernel, toKernel \o box, asked)
  <2>1. CancelFollows(toKernel, past.asked) /\ Covered(kernel, toKernel, past.asked)
    BY DEF CancelInv
  <2>2. OneCancel(box, r)
    BY <1>4, <1>10 DEF OneCancel
  <2> QED BY <1>1, <1>5, <1>10, <2>1, <2>2, CancelAfter
<1> QED BY <1>6, <1>9, <1>11, <1>16, <1>17, PageStep

(* An error in the worker is one more message.                             *)
LEMMA FailureFacts ==
  ASSUME toHost \in Seq(Posts)
  PROVE  LET t == Append(toHost, [type |-> "failure", requestId |-> 0, runId |-> 0,
                                  ok |-> FALSE, revision |-> 0, text |-> NoText])
         IN  t \in Seq(Posts) /\ ResultsOf(t) \subseteq ResultsOf(toHost)
<1>1. PICK m : m = [type |-> "failure", requestId |-> 0, runId |-> 0, ok |-> FALSE,
                    revision |-> 0, text |-> NoText]
  OBVIOUS
<1>2. m \in Posts /\ m.type # "result"
  BY <1>1 DEF Posts, OtherPost, Text
<1>3. Append(toHost, m) \in Seq(Posts) /\ ResultsOf(Append(toHost, m)) \subseteq ResultsOf(toHost)
  BY <1>2, AppendFacts, NumbersOfAppend
<1> QED BY <1>1, <1>3

(* The page waits for nothing new: its outbox stays empty.                 *)
LEMMA NothingPosted ==
  ASSUME CancelInv, page' = page, toKernel' = toKernel
  PROVE  PostOutbox(page)
<1>1. page \in Page /\ page.outbox = <<>> /\ toKernel \in Seq(Command)
  BY DEF CancelInv, TypeInv
<1>2. page = [page EXCEPT !.outbox = <<>>]
  BY <1>1 DEF Page
<1>3. toKernel \o page.outbox = toKernel
  BY <1>1
<1> QED BY <1>2, <1>3 DEF PostOutbox

LEMMA UncaughtKeeps ==
  ASSUME CancelInv, UncaughtError PROVE CancelInv'
<1>1. PostOutbox(page)
  BY NothingPosted DEF UncaughtError
<1>2. past' \in Past /\ past'.asked = past.asked
  BY EventFacts DEF UncaughtError, CancelInv, TypeInv
<1>3. toHost' \in Seq(Posts) /\ ResultsOf(toHost') \subseteq ResultsOf(toHost)
  BY FailureFacts DEF UncaughtError, CancelInv, TypeInv
<1>4. kernel' = kernel
  BY DEF UncaughtError
<1> QED BY <1>1, <1>2, <1>3, <1>4, PlainPageStep DEF CancelInv, TasksProceed

LEMMA WorkerDoesNotStartKeeps ==
  ASSUME CancelInv, WorkerDoesNotStart PROVE CancelInv'
<1>1. toHost' \in Seq(Posts) /\ ResultsOf(toHost') \subseteq ResultsOf(toHost)
  BY FailureFacts DEF WorkerDoesNotStart, Fail, CancelInv, TypeInv
<1>2. /\ kernel' = [kernel EXCEPT !.up = FALSE] /\ toKernel' = toKernel
      /\ UNCHANGED pageVars /\ kernel \in Kernel
  BY DEF WorkerDoesNotStart, Fail, CancelInv, TypeInv
<1>3. kernel' \in Kernel /\ kernel'.queue = kernel.queue /\ kernel'.cancelled = kernel.cancelled
  BY <1>2 DEF Kernel
<1>4. RunIds(kernel') = RunIds(kernel)
  BY <1>3 DEF RunIds
<1>5. Out' \subseteq Out
  BY <1>1, <1>2, <1>4 DEF Out
<1>6. Covered(kernel', toKernel', past.asked) /\ CancelFollows(toKernel', past.asked)
  BY <1>2, <1>3, <1>4 DEF CancelInv, Covered
<1>7. toKernel' \in Seq(Command) /\ QueueDistinct'
  BY <1>2, <1>3 DEF CancelInv, TypeInv, QueueDistinct
<1> QED BY <1>1, <1>2, <1>3, <1>5, <1>6, <1>7, WorkerStep

(* The worker takes a message that is no run and no cancel, and answers.   *)
LEMMA DocumentCommandKeeps ==
  ASSUME CancelInv, UNCHANGED pageVars, toKernel # <<>>, toKernel' = Tail(toKernel),
         Head(toKernel).type \notin {"run", "cancel"}, kernel' \in Kernel,
         kernel'.queue = kernel.queue, kernel'.cancelled = kernel.cancelled,
         NEW m \in Posts, m.type # "result", toHost' = Append(toHost, m)
  PROVE  CancelInv'
<1>1. toKernel \in Seq(Command) /\ toHost \in Seq(Posts)
  BY DEF CancelInv, TypeInv
<1>2. toHost' \in Seq(Posts) /\ ResultsOf(toHost') \subseteq ResultsOf(toHost)
  BY <1>1, AppendFacts, NumbersOfAppend
<1>3. toKernel' \in Seq(Command) /\ RunsOf(toKernel') \subseteq RunsOf(toKernel)
  BY <1>1, TailFacts, NumbersOfTail
<1>4. RunIds(kernel') = RunIds(kernel)
  BY DEF RunIds
<1>5. Out' \subseteq Out
  BY <1>2, <1>3, <1>4 DEF Out
<1>6. /\ CancelFollows(Tail(toKernel), past.asked)
      /\ \A r \in past.asked : HasCancel(toKernel, r) =>
           IsCancel(Head(toKernel), r) \/ HasCancel(Tail(toKernel), r)
  BY <1>1, TailKeepsOrder DEF CancelInv
<1>7. \A r \in past.asked : ~IsCancel(Head(toKernel), r)
  BY DEF IsCancel
<1>8. Covered(kernel', toKernel', past.asked)
  BY <1>4, <1>6, <1>7 DEF CancelInv, Covered
<1>9. QueueDistinct'
  BY DEF CancelInv, QueueDistinct
<1> QED BY <1>2, <1>3, <1>5, <1>6, <1>8, <1>9, WorkerStep

LEMMA AnswerFacts ==
  ASSUME NEW n \in Nat \ {0}, NEW m, m.requestId = n, NEW ok \in BOOLEAN, NEW k \in Kernel
  PROVE  Answer(m, ok, k) \in Posts /\ Answer(m, ok, k).type # "result"
BY DEF Answer, Posts, AnswerPost, Kernel

LEMMA HandleOpenKeeps ==
  ASSUME CancelInv, HandleOpen, UNCHANGED pageVars PROVE CancelInv'
<1>1. /\ toKernel \in Seq(Command) /\ toKernel # <<>> /\ toKernel' = Tail(toKernel)
      /\ kernel \in Kernel /\ Message = Head(toKernel) /\ Message.type = "open"
  BY DEF HandleOpen, Arrives, CancelInv, TypeInv, Message
<1>2. Message \in OpenCommand
  <2>1. Message \in Command
    BY <1>1, TailFacts
  <2> QED BY <1>1, <2>1 DEF Command, Asks, ChangeCommand, SubscribeCommand, RunCommand, CancelCommand
<1>3. /\ kernel' \in Kernel /\ kernel'.queue = kernel.queue
      /\ kernel'.cancelled = kernel.cancelled
  <2>1. PICK n, text : n = kernel.session + 1 /\ text = Message.text
    OBVIOUS
  <2>2. kernel' = kernel \/ kernel' = [kernel EXCEPT !.session = n, !.revision = 1, !.text = text]
    BY <2>1 DEF HandleOpen
  <2>3. n \in Nat /\ text \in Text /\ 1 \in Nat
    BY <1>1, <1>2, <2>1 DEF Kernel, OpenCommand
  <2> QED BY <1>1, <2>2, <2>3 DEF Kernel
<1>4. PICK m : m = Answer(Message, TRUE, kernel')
  OBVIOUS
<1>5. m \in Posts /\ m.type # "result"
  BY <1>2, <1>3, <1>4, AnswerFacts DEF OpenCommand
<1>6. toHost' = Append(toHost, m)
  BY <1>4 DEF HandleOpen
<1> QED BY <1>1, <1>3, <1>5, <1>6, DocumentCommandKeeps

LEMMA HandleChangeKeeps ==
  ASSUME CancelInv, HandleChange, UNCHANGED pageVars PROVE CancelInv'
<1>1. /\ toKernel \in Seq(Command) /\ toKernel # <<>> /\ toKernel' = Tail(toKernel)
      /\ kernel \in Kernel /\ Message = Head(toKernel) /\ Message.type = "change"
  BY DEF HandleChange, Arrives, CancelInv, TypeInv, Message
<1>2. Message \in ChangeCommand
  <2>1. Message \in Command
    BY <1>1, TailFacts
  <2> QED BY <1>1, <2>1 DEF Command, Asks, OpenCommand, SubscribeCommand, RunCommand, CancelCommand
<1>3. /\ kernel' \in Kernel /\ kernel'.queue = kernel.queue
      /\ kernel'.cancelled = kernel.cancelled
  <2>1. PICK text, n : /\ text = IF kernel.text = Message.before THEN Message.after ELSE Garbled
                       /\ n = kernel.revision + 1
    OBVIOUS
  <2>2. kernel' = kernel \/ kernel' = [kernel EXCEPT !.revision = n, !.text = text]
    BY <2>1 DEF HandleChange, Applied
  <2>3. n \in Nat /\ text \in Text
    BY <1>1, <1>2, <2>1 DEF Kernel, ChangeCommand, Text
  <2> QED BY <1>1, <2>2, <2>3 DEF Kernel
<1>4. PICK m, ok : m = Answer(Message, ok, kernel') /\ ok = AcceptsChange(kernel, Message)
  OBVIOUS
<1>5. ok \in BOOLEAN
  BY <1>4 DEF AcceptsChange
<1>6. m \in Posts /\ m.type # "result"
  BY <1>2, <1>3, <1>4, <1>5, AnswerFacts DEF ChangeCommand
<1>7. toHost' = Append(toHost, m)
  BY <1>4 DEF HandleChange
<1> QED BY <1>1, <1>3, <1>6, <1>7, DocumentCommandKeeps

LEMMA HandleSubscribeKeeps ==
  ASSUME CancelInv, HandleSubscribe, UNCHANGED pageVars PROVE CancelInv'
<1>1. /\ toKernel \in Seq(Command) /\ toKernel # <<>> /\ toKernel' = Tail(toKernel)
      /\ kernel \in Kernel /\ Message = Head(toKernel) /\ Message.type = "subscribe"
      /\ kernel' = kernel
  BY DEF HandleSubscribe, Arrives, CancelInv, TypeInv, Message
<1>2. Message \in SubscribeCommand
  <2>1. Message \in Command
    BY <1>1, TailFacts
  <2> QED BY <1>1, <2>1 DEF Command, Asks, OpenCommand, ChangeCommand, RunCommand, CancelCommand
<1>3. PICK m, ok : m = Answer(Message, ok, kernel) /\ ok = (kernel.session # 0)
  OBVIOUS
<1>4. m \in Posts /\ m.type # "result"
  BY <1>1, <1>2, <1>3, AnswerFacts DEF SubscribeCommand
<1>5. toHost' = Append(toHost, m)
  BY <1>3 DEF HandleSubscribe
<1> QED BY <1>1, <1>4, <1>5, DocumentCommandKeeps

(* A run that is accepted is not in the queue yet, and its cancel is       *)
(* behind it; one that is refused is answered.                             *)
LEMMA HandleRunKeeps ==
  ASSUME CancelInv, HandleRun, UNCHANGED pageVars PROVE CancelInv'
<1>1. /\ toKernel \in Seq(Command) /\ toKernel # <<>> /\ toKernel' = Tail(toKernel)
      /\ kernel \in Kernel /\ Message = Head(toKernel) /\ Message.type = "run"
      /\ toHost \in Seq(Posts)
  BY DEF HandleRun, Arrives, CancelInv, TypeInv, Message
<1>2. Message \in RunCommand
  <2>1. Message \in Command
    BY <1>1, TailFacts
  <2> QED BY <1>1, <2>1 DEF Command, Asks, OpenCommand, ChangeCommand, SubscribeCommand, CancelCommand
<1>3. PICK r : r = Message.runId
  OBVIOUS
<1>4. r \in Nat /\ r \in RunsOf(toKernel) /\ r \in Out /\ IsRun(Head(toKernel), r)
  BY <1>1, <1>2, <1>3, NumbersOfTail DEF RunCommand, Out, IsRun
<1>5. toKernel' \in Seq(Command) /\ RunsOf(toKernel') \subseteq RunsOf(toKernel)
  BY <1>1, TailFacts, NumbersOfTail
<1>6. /\ CancelFollows(toKernel', past.asked)
      /\ \A x \in past.asked : HasCancel(toKernel, x) =>
           IsCancel(Head(toKernel), x) \/ HasCancel(toKernel', x)
      /\ r \in past.asked => HasCancel(toKernel', r)
  BY <1>1, <1>4, TailKeepsOrder DEF CancelInv
<1>7. \A x \in past.asked : x \in RunIds(kernel) => x \in kernel.cancelled \/ HasCancel(toKernel', x)
  BY <1>1, <1>6 DEF CancelInv, Covered, IsCancel
<1>8. PICK run : run = Captured(kernel, Message)
  OBVIOUS
<1>9. run \in KernelRun /\ run.runId = r
  BY <1>1, <1>2, <1>3, <1>8 DEF Captured, KernelRun, RunCommand, Kernel
<1>10. CASE AcceptsRun(kernel, Message)
  <2>1. PICK q : q = Append(kernel.queue, run)
    OBVIOUS
  <2>2. /\ q \in Seq(KernelRun) /\ Len(kernel.queue) \in Nat
        /\ Len(q) = Len(kernel.queue) + 1 /\ q[Len(kernel.queue) + 1] = run
        /\ \A i \in 1..Len(kernel.queue) : q[i] = kernel.queue[i]
    BY <1>1, <1>9, <2>1, AppendFacts DEF Kernel
  <2>3. kernel' = [kernel EXCEPT !.queue = q] /\ toHost' = toHost
    BY <1>8, <1>10, <2>1 DEF HandleRun
  <2>4. /\ kernel' \in Kernel /\ kernel'.queue = q /\ kernel'.cancelled = kernel.cancelled
    BY <1>1, <2>2, <2>3 DEF Kernel
  <2>5. /\ DOMAIN q = 1..Len(q) /\ DOMAIN kernel.queue = 1..Len(kernel.queue)
        /\ \A i \in 1..Len(q) : i \in 1..Len(kernel.queue) \/ i = Len(kernel.queue) + 1
    BY <1>1, <2>2 DEF Kernel
  <2>6. RunIds(kernel') \subseteq RunIds(kernel) \cup {r}
    BY <1>9, <2>2, <2>4, <2>5 DEF RunIds
  <2>7. Out' \subseteq Out
    BY <1>4, <1>5, <2>3, <2>6 DEF Out
  <2>8. Covered(kernel', toKernel', past.asked)
    BY <1>6, <1>7, <2>4, <2>6 DEF Covered
  <2>9. \A i \in 1..Len(kernel.queue) : kernel.queue[i].runId # r
    BY <1>3, <1>10, <2>5 DEF AcceptsRun, RunIds
  <2>10. QueueDistinct'
    <3>1. \A i, j \in 1..Len(q) : q[i].runId = q[j].runId => i = j
      BY <1>9, <2>2, <2>5, <2>9 DEF CancelInv, QueueDistinct
    <3> QED BY <2>4, <3>1 DEF QueueDistinct
  <2> QED BY <1>1, <1>5, <1>6, <2>3, <2>4, <2>7, <2>8, <2>10, WorkerStep
<1>11. CASE ~AcceptsRun(kernel, Message)
  <2>1. PICK m : m = Result([run EXCEPT !.text = NoText], FALSE)
    OBVIOUS
  <2>2. m \in Posts /\ m.runId = r
    BY <1>9, <2>1 DEF Result, KernelRun, Posts, OtherPost, Text
  <2>3. kernel' = kernel /\ toHost' = Append(toHost, m)
    BY <1>8, <1>11, <2>1 DEF HandleRun
  <2>4. toHost' \in Seq(Posts) /\ ResultsOf(toHost') \subseteq ResultsOf(toHost) \cup {r}
    BY <1>1, <2>2, <2>3, AppendFacts, NumbersOfAppend
  <2>5. Out' \subseteq Out
    BY <1>4, <1>5, <2>3, <2>4 DEF Out
  <2>6. Covered(kernel', toKernel', past.asked)
    BY <1>7, <2>3 DEF Covered
  <2>7. QueueDistinct'
    BY <2>3 DEF CancelInv, QueueDistinct
  <2> QED BY <1>1, <1>5, <1>6, <2>3, <2>4, <2>5, <2>6, <2>7, WorkerStep
<1> QED BY <1>10, <1>11

(* A cancel reaches its run in the queue, or its run is gone.              *)
LEMMA HandleCancelKeeps ==
  ASSUME CancelInv, HandleCancel, UNCHANGED pageVars PROVE CancelInv'
<1>1. /\ toKernel \in Seq(Command) /\ toKernel # <<>> /\ toKernel' = Tail(toKernel)
      /\ kernel \in Kernel /\ Message = Head(toKernel) /\ Message.type = "cancel"
      /\ toHost \in Seq(Posts)
  BY DEF HandleCancel, Arrives, CancelInv, TypeInv, Message
<1>2. Message \in CancelCommand
  <2>1. Message \in Command
    BY <1>1, TailFacts
  <2> QED BY <1>1, <2>1 DEF Command, Asks, OpenCommand, ChangeCommand, SubscribeCommand, RunCommand
<1>3. PICK c : c = kernel.cancelled \cup ({Message.runId} \cap RunIds(kernel))
  OBVIOUS
<1>4. Message.runId \in Nat /\ Message.requestId = 0 /\ c \in SUBSET Nat
  BY <1>1, <1>2, <1>3 DEF CancelCommand, Kernel
<1>5. kernel' = [kernel EXCEPT !.cancelled = c] /\ toHost' = toHost
  BY <1>3, <1>4 DEF HandleCancel
<1>6. kernel' \in Kernel /\ kernel'.queue = kernel.queue /\ kernel'.cancelled = c
  BY <1>1, <1>4, <1>5 DEF Kernel
<1>7. RunIds(kernel') = RunIds(kernel)
  BY <1>6 DEF RunIds
<1>8. toKernel' \in Seq(Command) /\ RunsOf(toKernel') \subseteq RunsOf(toKernel)
  BY <1>1, TailFacts, NumbersOfTail
<1>9. Out' \subseteq Out
  BY <1>5, <1>7, <1>8 DEF Out
<1>10. /\ CancelFollows(toKernel', past.asked)
       /\ \A x \in past.asked : HasCancel(toKernel, x) =>
            IsCancel(Head(toKernel), x) \/ HasCancel(toKernel', x)
  BY <1>1, TailKeepsOrder DEF CancelInv
<1>11. Covered(kernel', toKernel', past.asked)
  BY <1>1, <1>3, <1>6, <1>7, <1>10 DEF CancelInv, Covered, IsCancel
<1>12. QueueDistinct'
  BY <1>6 DEF CancelInv, QueueDistinct
<1> QED BY <1>1, <1>5, <1>6, <1>8, <1>9, <1>10, <1>11, <1>12, WorkerStep

(* A run ends: no other one has its number.                                *)
LEMMA EndRunKeeps ==
  ASSUME CancelInv, NEW ok \in BOOLEAN, EndRun(ok), UNCHANGED pageVars PROVE CancelInv'
<1>1. /\ kernel \in Kernel /\ kernel.queue \in Seq(KernelRun) /\ kernel.queue # <<>>
      /\ toKernel' = toKernel /\ toKernel \in Seq(Command) /\ toHost \in Seq(Posts)
  BY DEF EndRun, CancelInv, TypeInv, Kernel
<1>2. PICK run, q, c, m : /\ run = Head(kernel.queue) /\ q = Tail(kernel.queue)
                          /\ c = kernel.cancelled \ {run.runId}
                          /\ m = Result(run, ok /\ run.runId \notin kernel.cancelled)
  OBVIOUS
<1>3. kernel' = [kernel EXCEPT !.queue = q, !.cancelled = c] /\ toHost' = Append(toHost, m)
  BY <1>2 DEF EndRun
<1>4. /\ run \in KernelRun /\ run = kernel.queue[1] /\ q \in Seq(KernelRun)
      /\ 1 \in 1..Len(kernel.queue)
      /\ \A i \in 1..Len(q) : i + 1 \in 1..Len(kernel.queue) /\ q[i] = kernel.queue[i + 1]
  BY <1>1, <1>2, TailFacts
<1>5. kernel' \in Kernel /\ kernel'.queue = q /\ kernel'.cancelled = c
  <2>1. c \in SUBSET Nat
    BY <1>1, <1>2 DEF Kernel
  <2> QED BY <1>1, <1>3, <1>4, <2>1 DEF Kernel
<1>6. m \in Posts /\ m.runId = run.runId
  <2>1. PICK b : b = (ok /\ run.runId \notin kernel.cancelled)
    OBVIOUS
  <2>2. b \in BOOLEAN
    BY <2>1
  <2> QED BY <1>2, <1>4, <2>1, <2>2 DEF Result, KernelRun, Posts, OtherPost
<1>7. toHost' \in Seq(Posts) /\ ResultsOf(toHost') \subseteq ResultsOf(toHost) \cup {run.runId}
  BY <1>1, <1>3, <1>6, AppendFacts, NumbersOfAppend
<1>8. DOMAIN q = 1..Len(q) /\ DOMAIN kernel.queue = 1..Len(kernel.queue)
  BY <1>1, <1>4
<1>9. run.runId \in RunIds(kernel) /\ RunIds(kernel') \subseteq RunIds(kernel)
  <2>1. RunIds(kernel) = {kernel.queue[i].runId : i \in 1..Len(kernel.queue)}
    BY <1>8 DEF RunIds
  <2>2. RunIds(kernel') = {q[i].runId : i \in 1..Len(q)}
    BY <1>5, <1>8 DEF RunIds
  <2> QED BY <1>4, <2>1, <2>2
<1>10. Out' \subseteq Out
  BY <1>1, <1>7, <1>9 DEF Out
<1>11. \A i \in 1..Len(q) : q[i].runId # run.runId
  <2> TAKE i \in 1..Len(q)
  <2>1. i + 1 # 1 /\ i + 1 \in 1..Len(kernel.queue) /\ 1 \in 1..Len(kernel.queue)
    BY <1>4
  <2>2. kernel.queue[i + 1].runId # kernel.queue[1].runId
    BY <2>1 DEF CancelInv, QueueDistinct
  <2> QED BY <1>4, <2>2
<1>12. run.runId \notin RunIds(kernel')
  BY <1>5, <1>8, <1>11 DEF RunIds
<1>13. Covered(kernel', toKernel', past.asked) /\ CancelFollows(toKernel', past.asked)
  BY <1>1, <1>2, <1>5, <1>9, <1>12 DEF CancelInv, Covered
<1>14. QueueDistinct'
  <2>1. ASSUME NEW i \in 1..Len(q), NEW j \in 1..Len(q), q[i].runId = q[j].runId PROVE i = j
    <3>1. /\ i + 1 \in 1..Len(kernel.queue) /\ j + 1 \in 1..Len(kernel.queue)
          /\ kernel.queue[i + 1].runId = kernel.queue[j + 1].runId
      BY <1>4, <2>1
    <3>2. i + 1 = j + 1
      BY <3>1 DEF CancelInv, QueueDistinct
    <3> QED BY <3>2
  <2> QED BY <1>5, <2>1 DEF QueueDistinct
<1> QED BY <1>1, <1>5, <1>7, <1>10, <1>13, <1>14, WorkerStep

-----------------------------------------------------------------------------
(* Theorems *)

LEMMA InitCancelInv == PlaygroundInit => CancelInv
<1> SUFFICES ASSUME PlaygroundInit PROVE CancelInv
  OBVIOUS
<1>1. /\ page = EmptyPage(FixtureText) /\ toKernel = <<>> /\ toHost = <<>>
      /\ kernel = [session |-> 0, revision |-> 0, text |-> NoText, queue |-> <<>>,
                   cancelled |-> {}, up |-> TRUE]
      /\ past = [events |-> 0, faulty |-> FALSE, asked |-> {}, runs |-> <<>>]
  BY DEF PlaygroundInit, EndpointInit
<1>2. page \in Page
  <2>1. PICK shown, none : shown = [runId |-> 0, ok |-> FALSE, text |-> NoText] /\ none = <<>>
    OBVIOUS
  <2>2. /\ shown \in Shown /\ NoDocument \in [revision : Nat, text : Text]
        /\ NoRequest \in Request /\ none \in Seq(PageTask) /\ none \in Seq(Command)
        /\ FixtureText \in Texts
    BY <2>1, PlaygroundAssumption DEF Shown, Text, NoDocument, Request
  <2>3. page = [text |-> FixtureText, edit |-> 0, due |-> TRUE, running |-> TRUE,
                shown |-> shown, runId |-> 0, requestId |-> 0, intent |-> 0,
                replace |-> FALSE, doc |-> NoDocument, tasks |-> none,
                request |-> NoRequest, posted |-> {}, latched |-> {}, outbox |-> none]
    BY <1>1, <2>1 DEF EmptyPage
  <2> QED BY <2>2, <2>3 DEF Page
<1>3. /\ page.tasks = <<>> /\ page.request = NoRequest /\ page.outbox = <<>>
      /\ page.posted = {} /\ past.asked = {}
  BY <1>1 DEF EmptyPage
<1>4. kernel \in Kernel /\ RunIds(kernel) = {} /\ Len(kernel.queue) = 0
  BY <1>1 DEF Kernel, Text, RunIds
<1>5. past \in Past /\ toKernel \in Seq(Command) /\ toHost \in Seq(Posts)
  BY <1>1 DEF Past
<1>6. Len(toKernel) = 0 /\ Len(toHost) = 0 /\ Len(page.tasks) = 0 /\ Len(page.outbox) = 0
  BY <1>1, <1>3
<1>7. Out = {}
  BY <1>4, <1>6 DEF Out, RunsOf, ResultsOf
<1>8. PageOk(page, past.asked, Out)
  BY <1>2, <1>3, <1>6, <1>7 DEF PageOk, TasksOrdered, TasksLatched, NumbersBound, OutboxOk,
     CancelFollows
<1> QED BY <1>2, <1>3, <1>4, <1>5, <1>6, <1>8 DEF CancelInv, TypeInv, CancelFollows, Covered,
     TasksProceed, Proceeds, QueueDistinct

LEMMA NextCancelInv == CancelInv /\ [PlaygroundNext]_playgroundVars => CancelInv'
<1> SUFFICES ASSUME CancelInv, [PlaygroundNext]_playgroundVars PROVE CancelInv'
  OBVIOUS
<1>1. CASE DeliverToPage
  BY <1>1, DeliverToPageKeeps
<1>2. CASE DebounceElapses
  BY <1>2, DebounceKeeps
<1>3. CASE CommandTimesOut
  BY <1>3, TimeoutKeeps
<1>4. CASE UncaughtError
  BY <1>4, UncaughtKeeps
<1>5. CASE WorkerDoesNotStart
  BY <1>5, WorkerDoesNotStartKeeps
<1>6. CASE \E text \in Texts : UserEdits(text)
  BY <1>6, UserEditsKeeps
<1>7. CASE UserSelectsFixture
  BY <1>7, UserSelectsFixtureKeeps
<1>8. CASE UserRuns
  BY <1>8, UserRunsKeeps
<1>9. CASE UserCancels
  BY <1>9, UserCancelsKeeps
<1>10. CASE Endpoint({TRUE}) /\ UNCHANGED pageVars
  <2>1. CASE HandleOpen
    BY <1>10, <2>1, HandleOpenKeeps
  <2>2. CASE HandleChange
    BY <1>10, <2>2, HandleChangeKeeps
  <2>3. CASE HandleSubscribe
    BY <1>10, <2>3, HandleSubscribeKeeps
  <2>4. CASE HandleRun
    BY <1>10, <2>4, HandleRunKeeps
  <2>5. CASE HandleCancel
    BY <1>10, <2>5, HandleCancelKeeps
  <2>6. CASE EndRun(TRUE)
    BY <1>10, <2>6, EndRunKeeps
  <2> QED BY <1>10, <2>1, <2>2, <2>3, <2>4, <2>5, <2>6 DEF Endpoint
<1>11. CASE UNCHANGED playgroundVars
  <2>1. /\ page' = page /\ past' = past /\ kernel' = kernel /\ toKernel' = toKernel
        /\ toHost' = toHost
    BY <1>11 DEF playgroundVars, endpointVars
  <2>2. Out' = Out
    BY <2>1 DEF Out
  <2> QED BY <2>1, <2>2 DEF CancelInv, TypeInv, TasksProceed, QueueDistinct
<1> QED BY <1>1, <1>2, <1>3, <1>4, <1>5, <1>6, <1>7, <1>8, <1>9, <1>10, <1>11 DEF PlaygroundNext

(* The two halves of the invariant are what CancelReachesRun says.         *)
LEMMA CancelInvSuffices == CancelInv => CancelReachesRun
<1> SUFFICES ASSUME CancelInv, NEW r \in past.asked
             PROVE  LET cancels == {i \in DOMAIN toKernel : /\ toKernel[i].type = "cancel"
                                                            /\ toKernel[i].runId = r}
                    IN  /\ r \in RunIds(kernel) => r \in kernel.cancelled \/ cancels # {}
                        /\ \A i \in DOMAIN toKernel :
                             toKernel[i].type = "run" /\ toKernel[i].runId = r =>
                               \E j \in cancels : j > i
  BY DEF CancelReachesRun
<1>1. PICK cancels : cancels = {i \in DOMAIN toKernel : /\ toKernel[i].type = "cancel"
                                                        /\ toKernel[i].runId = r}
  OBVIOUS
<1>2. DOMAIN toKernel = 1..Len(toKernel)
  BY DEF CancelInv, TypeInv
<1>3. r \in RunIds(kernel) => r \in kernel.cancelled \/ cancels # {}
  BY <1>1, <1>2 DEF CancelInv, Covered, HasCancel, IsCancel
<1>4. ASSUME NEW i \in DOMAIN toKernel, toKernel[i].type = "run", toKernel[i].runId = r
      PROVE  \E j \in cancels : j > i
  BY <1>1, <1>2, <1>4 DEF CancelInv, CancelFollows, IsRun, IsCancel
<1> QED BY <1>1, <1>3, <1>4

(* A cancel the user asks for reaches its run, wherever the run is: in the *)
(* page's queue of tasks, on its way, or in the worker's queue             *)
(* (app/page.tsx:1616-1623, 1651-1657).                                    *)
THEOREM CancelsReachTheirRuns == PlaygroundSpec => []CancelReachesRun
<1>1. PlaygroundInit => CancelInv
  BY InitCancelInv
<1>2. CancelInv /\ [PlaygroundNext]_playgroundVars => CancelInv'
  BY NextCancelInv
<1>3. CancelInv => CancelReachesRun
  BY CancelInvSuffices
<1> QED BY <1>1, <1>2, <1>3, PTL DEF PlaygroundSpec

(* The page's queue of tasks never stalls: while there is a task, one is   *)
(* under way and waits for an answer that comes, or for its time-out       *)
(* (app/page.tsx:1535-1649).                                               *)
THEOREM TasksNeverStall == PlaygroundSpec => []TasksProceed
<1>1. PlaygroundInit => CancelInv
  BY InitCancelInv
<1>2. CancelInv /\ [PlaygroundNext]_playgroundVars => CancelInv'
  BY NextCancelInv
<1>3. CancelInv => TasksProceed
  BY DEF CancelInv
<1> QED BY <1>1, <1>2, <1>3, PTL DEF PlaygroundSpec
=============================================================================
