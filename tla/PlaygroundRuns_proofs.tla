------------------------ MODULE PlaygroundRuns_proofs ------------------------
(***************************************************************************)
(* Proofs about PlaygroundHost: a run is of the text the page showed when  *)
(* it started it, in the kernel and on display, and the kernel refuses     *)
(* nothing the page sends while no command times out and no error is       *)
(* reported.                                                               *)
(*                                                                         *)
(* The invariant is about a page p, the wire s from it to the kernel (the  *)
(* channel and behind it the page's outbox), the kernel k, the channel h   *)
(* back, and the runs the page has started.                                *)
(***************************************************************************)
EXTENDS PlaygroundHost_proofs

Runs == Seq([text : Texts, edit : Nat])

IsAsk(m) == m.type \in {"open", "change", "subscribe"}
NoAsks(s) == \A i \in 1..Len(s) : ~IsAsk(s[i])
NoOpens(s) == \A i \in 1..Len(s) : s[i].type # "open"

(* The text of a run.                                                      *)
OfRun(runs, r, text) == r \in 1..Len(runs) /\ text = runs[r].text

(* The revision had this text, if the kernel has not opened it since.      *)
Agrees(k, revision, text) ==
  revision <= k.revision /\ (revision = k.revision => k.text = text)

(* The page will not open the document again before it uses what it knows. *)
Usable(p) == ~p.replace \/ p.request.step = "subscribe"

TasksSound(p, runs) ==
  /\ p.runId = Len(runs)
  /\ \A i \in 1..Len(p.tasks) : OfRun(runs, p.tasks[i].runId, p.tasks[i].text)

QueueSound(k, runs) ==
  \A i \in 1..Len(k.queue) : OfRun(runs, k.queue[i].runId, k.queue[i].text)

ShownSound(p, runs) == p.shown.ok => OfRun(runs, p.shown.runId, p.shown.text)

ResultsSound(h, runs) ==
  \A i \in 1..Len(h) : h[i].type = "result" /\ h[i].ok => OfRun(runs, h[i].runId, h[i].text)

(* A run on the wire names a revision that had its text, and the document  *)
(* is not opened before it.                                                *)
RunsSound(s, k, runs) ==
  \A i \in 1..Len(s) : s[i].type = "run" =>
    /\ s[i].runId \in 1..Len(runs)
    /\ Agrees(k, s[i].revision, runs[s[i].runId].text)
    /\ \A j \in 1..i : s[j].type # "open"

(* The command a task waits for.                                           *)
IsCurrent(p, m) == IsAsk(m) /\ m.requestId = p.request.id

AsksSound(p, s) ==
  \A i \in 1..Len(s) :
    /\ IsAsk(s[i]) => s[i].requestId <= p.requestId
    /\ s[i].type = "change" =>
         s[i].before = s[i].baseVersion /\ s[i].before \in Texts /\ s[i].after \in Texts
    /\ IsCurrent(p, s[i]) =>
         /\ s[i].type = p.request.step
         /\ s[i].type = "open" => s[i].text = Task(p).text
         /\ s[i].type = "change" => s[i].after = Task(p).text
         /\ \A j \in 1..Len(s) : j > i => ~IsAsk(s[j])

(* What the page knows of the document is true as long as it is of use.    *)
DocSound(p, s, k) ==
  p.doc # NoDocument =>
    /\ p.doc.text \in Texts
    /\ Usable(p) => NoOpens(s) /\ Agrees(k, p.doc.revision, p.doc.text)

KnowsOpened(p) ==
  p.request.step = "subscribe" /\ ~IsObsolete(p) =>
    p.doc # NoDocument /\ p.doc.text = Task(p).text

(* The answer a task waits for is of the kernel's document.                *)
AnswersSound(p, s, k, h) ==
  \A i \in 1..Len(h) : h[i].type = "answer" =>
    /\ h[i].requestId <= p.requestId
    /\ h[i].requestId = p.request.id =>
         /\ NoAsks(s)
         /\ h[i].ok /\ p.request.step \in {"open", "change"} =>
              k.session # 0 /\ h[i].revision = k.revision /\ k.text = Task(p).text

Sound(p, s, k, h, runs) ==
  /\ p \in Page /\ s \in Seq(Command) /\ k \in Kernel /\ h \in Seq(Posts) /\ runs \in Runs
  /\ p.requestId >= p.request.id
  /\ TasksSound(p, runs) /\ QueueSound(k, runs) /\ ShownSound(p, runs) /\ ResultsSound(h, runs)
  /\ RunsSound(s, k, runs) /\ AsksSound(p, s)
  /\ DocSound(p, s, k) /\ KnowsOpened(p) /\ AnswersSound(p, s, k, h)

-----------------------------------------------------------------------------
(* Without a fault, nothing is refused.                                    *)

(* All the page asks for is under way, and fits the kernel's document.     *)
AsksFit(p, s, k) ==
  \A i \in 1..Len(s) : IsAsk(s[i]) =>
    /\ s[i].requestId = p.request.id
    /\ s[i].type # "open" => k.session # 0
    /\ s[i].type = "change" => s[i].baseRevision = k.revision /\ s[i].baseVersion = k.text

RunsFit(s, k) ==
  \A i \in 1..Len(s) : s[i].type = "run" =>
    /\ k.session # 0 /\ s[i].revision = k.revision /\ s[i].runId \notin RunIds(k)
    /\ \A j \in 1..i : ~IsAsk(s[j])
    /\ \A j \in 1..Len(s) : s[j].type = "run" /\ s[j].runId = s[i].runId => i = j

TasksFresh(p, s, k) ==
  \A i \in 1..Len(p.tasks) :
    /\ p.tasks[i].runId \notin RunIds(k)
    /\ \A j \in 1..Len(s) : ~IsRun(s[j], p.tasks[i].runId)

(* What the page knows of the document is the kernel's.                    *)
DocFits(p, k) ==
  p.doc # NoDocument /\ Usable(p) /\ p.request.step # "change" =>
    k.session # 0 /\ p.doc.revision = k.revision /\ p.doc.text = k.text

Unrefused(p, s, k) == AsksFit(p, s, k) /\ RunsFit(s, k) /\ TasksFresh(p, s, k) /\ DocFits(p, k)

Accepted(h) ==
  \A i \in 1..Len(h) :
    /\ h[i].type = "result" => h[i].text # NoText
    /\ h[i].type = "answer" => h[i].ok

NoFailure(h) == \A i \in 1..Len(h) : h[i].type # "failure"

RunsInv ==
  /\ CancelInv
  /\ Sound(page, toKernel, kernel, toHost, past.runs)
  /\ ~past.faulty => Accepted(toHost)
  /\ ~past.faulty /\ kernel.up => Unrefused(page, toKernel, kernel) /\ NoFailure(toHost)

-----------------------------------------------------------------------------
(* Messages and sequences                                                  *)

LEMMA CommandCases ==
  ASSUME NEW m \in Command
  PROVE  /\ m.type \in {"open", "change", "subscribe", "run", "cancel"}
         /\ m.type = "open" => m \in OpenCommand
         /\ m.type = "change" => m \in ChangeCommand
         /\ m.type = "subscribe" => m \in SubscribeCommand
         /\ m.type = "run" => m \in RunCommand
         /\ m.type = "cancel" => m \in CancelCommand
         /\ IsAsk(m) => m.requestId \in Nat \ {0}
<1>1. CASE m \in OpenCommand
  BY <1>1 DEF OpenCommand, IsAsk
<1>2. CASE m \in ChangeCommand
  BY <1>2 DEF ChangeCommand, IsAsk
<1>3. CASE m \in SubscribeCommand
  BY <1>3 DEF SubscribeCommand, IsAsk
<1>4. CASE m \in RunCommand
  BY <1>4 DEF RunCommand, IsAsk
<1>5. CASE m \in CancelCommand
  BY <1>5 DEF CancelCommand, IsAsk
<1> QED BY <1>1, <1>2, <1>3, <1>4, <1>5 DEF Command, Asks

LEMMA PostCases ==
  ASSUME NEW m \in Posts
  PROVE  /\ m.type \in {"answer", "result", "failure"}
         /\ m.type = "answer" => m \in AnswerPost /\ m.requestId \in Nat \ {0}
         /\ m.type # "answer" => m \in OtherPost
         /\ m.runId \in Nat /\ m.ok \in BOOLEAN /\ m.revision \in Nat /\ m.text \in Text
<1>1. CASE m \in AnswerPost
  BY <1>1 DEF AnswerPost
<1>2. CASE m \in OtherPost
  BY <1>2 DEF OtherPost
<1> QED BY <1>1, <1>2 DEF Posts

(* The page's outbox is the end of the wire.                               *)
Wire(s, p) == s \o p.outbox

LEMMA WireAppend ==
  ASSUME NEW s \in Seq(Command), NEW box \in Seq(Command), NEW m \in Command
  PROVE  s \o Append(box, m) = Append(s \o box, m)
  OBVIOUS

RunBox(out, m, c, latched) == out \o <<m>> \o (IF latched THEN <<c>> ELSE <<>>)

LEMMA WireRun ==
  ASSUME NEW s \in Seq(Command), NEW out \in Seq(Command), NEW m \in Command, NEW c \in Command,
         NEW latched \in BOOLEAN
  PROVE  /\ RunBox(out, m, c, latched) \in Seq(Command)
         /\ s \o RunBox(out, m, c, latched) =
              IF latched THEN Append(Append(s \o out, m), c) ELSE Append(s \o out, m)
<1>1. \A x \in Seq(Command), y \in Command :
        x \o <<y>> = Append(x, y) /\ Append(x, y) \in Seq(Command)
  OBVIOUS
<1>2. \A x \in Seq(Command) : x \o <<>> = x
  OBVIOUS
<1>3. PICK u, v : u = Append(out, m) /\ v = Append(u, c)
  OBVIOUS
<1>4. /\ u \in Seq(Command) /\ v \in Seq(Command) /\ out \o <<m>> = u /\ u \o <<>> = u
      /\ u \o <<c>> = v
  BY <1>1, <1>2, <1>3
<1>5. RunBox(out, m, c, latched) = IF latched THEN v ELSE u
  BY <1>4 DEF RunBox
<1>6. s \o u = Append(s \o out, m) /\ s \o v = Append(s \o u, c)
  BY <1>3, <1>4, WireAppend
<1> QED BY <1>4, <1>5, <1>6

(* What is behind the end of the wire.                                     *)
LEMMA AppendCases ==
  ASSUME NEW s \in Seq(Command), NEW m \in Command, NEW t, t = Append(s, m)
  PROVE  /\ t \in Seq(Command) /\ Len(s) \in Nat /\ Len(t) = Len(s) + 1
         /\ \A i \in 1..Len(t) : (i \in 1..Len(s) /\ t[i] = s[i]) \/ (i = Len(s) + 1 /\ t[i] = m)
         /\ \A i \in 1..Len(s) : i \in 1..Len(t) /\ t[i] = s[i]
BY AppendFacts

-----------------------------------------------------------------------------
(* One change of the page at a time                                        *)

(* The head of the queue may go.                                           *)
LEMMA FewerTasks ==
  ASSUME NEW p \in Page, NEW q \in Page, p.tasks # <<>>, q.tasks = Tail(p.tasks),
         q.runId = p.runId, NEW runs, NEW s, NEW k
  PROVE  /\ TasksSound(p, runs) => TasksSound(q, runs)
         /\ TasksFresh(p, s, k) => TasksFresh(q, s, k)
<1>1. PICK t : t = Tail(p.tasks)
  OBVIOUS
<1>2. \A i \in 1..Len(t) : i + 1 \in 1..Len(p.tasks) /\ t[i] = p.tasks[i + 1]
  <2>1. p.tasks \in Seq(PageTask)
    BY DEF Page
  <2> QED BY <1>1, <2>1, TailFacts
<1> QED BY <1>1, <1>2 DEF TasksSound, TasksFresh

(* A page that waits for nothing waits for no message of the wire.         *)
LEMMA NothingCurrent ==
  ASSUME NEW p, p.request = NoRequest, NEW s \in Seq(Command), NEW h \in Seq(Posts)
  PROVE  /\ \A i \in 1..Len(s) : ~IsCurrent(p, s[i])
         /\ \A i \in 1..Len(h) : h[i].type = "answer" => h[i].requestId # p.request.id
<1>1. p.request.id = 0
  BY DEF NoRequest
<1>2. ASSUME NEW i \in 1..Len(s) PROVE ~IsCurrent(p, s[i])
  <2>1. s[i] \in Command
    OBVIOUS
  <2> QED BY <1>1, <2>1, CommandCases DEF IsCurrent
<1>3. ASSUME NEW i \in 1..Len(h), h[i].type = "answer" PROVE h[i].requestId # p.request.id
  <2>1. h[i] \in Posts
    OBVIOUS
  <2> QED BY <1>1, <1>3, <2>1, PostCases
<1> QED BY <1>2, <1>3

(* The page stops waiting.                                                 *)
LEMMA RestSound ==
  ASSUME NEW p, NEW s, NEW k, NEW h, NEW runs, Sound(p, s, k, h, runs), NEW q \in Page,
         q.request = NoRequest, q.requestId = p.requestId,
         TasksSound(q, runs), ShownSound(q, runs), DocSound(q, s, k)
  PROVE  Sound(q, s, k, h, runs)
<1>1. s \in Seq(Command) /\ h \in Seq(Posts)
  BY DEF Sound
<1>2. /\ \A i \in 1..Len(s) : ~IsCurrent(q, s[i])
      /\ \A i \in 1..Len(h) : h[i].type = "answer" => h[i].requestId # q.request.id
  BY <1>1, NothingCurrent
<1>3. AsksSound(q, s)
  BY <1>2 DEF Sound, AsksSound
<1>4. AnswersSound(q, s, k, h)
  BY <1>2 DEF Sound, AnswersSound
<1>5. KnowsOpened(q)
  BY DEF KnowsOpened, NoRequest
<1>6. q.requestId >= q.request.id
  BY DEF Sound, Page, NoRequest
<1> QED BY <1>3, <1>4, <1>5, <1>6 DEF Sound

LEMMA RestUnrefused ==
  ASSUME NEW p, NEW s, NEW k, Unrefused(p, s, k), NEW q, NoAsks(s), TasksFresh(q, s, k),
         DocFits(q, k)
  PROVE  Unrefused(q, s, k)
BY DEF Unrefused, AsksFit, NoAsks

(* Without a fault a page that waits for nothing has asked for nothing.    *)
LEMMA NothingAsked ==
  ASSUME NEW p, p.request = NoRequest, NEW s \in Seq(Command), NEW k, Unrefused(p, s, k)
  PROVE  NoAsks(s)
<1> SUFFICES ASSUME NEW i \in 1..Len(s), IsAsk(s[i]) PROVE FALSE
  BY DEF NoAsks
<1>1. s[i].requestId = 0
  BY DEF Unrefused, AsksFit, NoRequest
<1>2. s[i] \in Command
  OBVIOUS
<1> QED BY <1>1, <1>2, CommandCases

(* The rest of the page has no part in it.                                 *)
LEMMA OtherFields ==
  ASSUME NEW p, NEW s, NEW k, NEW h, NEW runs, Sound(p, s, k, h, runs), NEW q \in Page,
         q.request = p.request, q.requestId = p.requestId, q.runId = p.runId,
         q.tasks = p.tasks, q.intent = p.intent, q.doc = p.doc, q.replace = p.replace,
         ShownSound(q, runs)
  PROVE  /\ Sound(q, s, k, h, runs)
         /\ Unrefused(p, s, k) => Unrefused(q, s, k)
<1>1. Sound(q, s, k, h, runs)
  BY DEF Sound, TasksSound, AsksSound, IsCurrent, DocSound, Usable, KnowsOpened, AnswersSound,
     Task, IsObsolete
<1>2. Unrefused(p, s, k) => Unrefused(q, s, k)
  BY DEF Unrefused, AsksFit, TasksFresh, DocFits, Usable
<1> QED BY <1>1, <1>2

(* The page asks for something: m is the last on the wire.                 *)
LEMMA AskSent ==
  ASSUME NEW p, NEW s, NEW k, NEW h, NEW runs, Sound(p, s, k, h, runs),
         p.request = NoRequest, p.tasks # <<>>, NEW m \in Asks, m.requestId = p.requestId + 1,
         m.type = "open" => m.text = Task(p).text,
         m.type = "change" => /\ m.before = m.baseVersion /\ m.before \in Texts
                              /\ m.after = Task(p).text,
         NEW q \in Page, q.requestId = m.requestId,
         q.request = [id |-> m.requestId, step |-> m.type], q.tasks = p.tasks,
         q.runId = p.runId, q.shown = p.shown, NEW t, t = Append(s, m),
         DocSound(q, t, k), KnowsOpened(q)
  PROVE  Sound(q, t, k, h, runs)
<1>1. /\ s \in Seq(Command) /\ h \in Seq(Posts) /\ p \in Page /\ p.requestId \in Nat
      /\ k \in Kernel /\ runs \in Runs /\ m \in Command
  BY DEF Sound, Page, Command
<1>2. /\ t \in Seq(Command) /\ Len(s) \in Nat /\ Len(t) = Len(s) + 1
      /\ \A i \in 1..Len(t) : (i \in 1..Len(s) /\ t[i] = s[i]) \/ (i = Len(s) + 1 /\ t[i] = m)
      /\ \A i \in 1..Len(s) : i \in 1..Len(t) /\ t[i] = s[i]
  BY <1>1, AppendCases
<1>3. m.type \in {"open", "change", "subscribe"} /\ m.type # "run" /\ IsAsk(m)
  BY DEF Asks, OpenCommand, ChangeCommand, SubscribeCommand, IsAsk
<1>4. RunsSound(t, k, runs)
  <2> SUFFICES ASSUME NEW i \in 1..Len(t), t[i].type = "run"
               PROVE  /\ t[i].runId \in 1..Len(runs)
                      /\ Agrees(k, t[i].revision, runs[t[i].runId].text)
                      /\ \A j \in 1..i : t[j].type # "open"
    BY DEF RunsSound
  <2>1. i \in 1..Len(s) /\ t[i] = s[i]
    BY <1>2, <1>3
  <2>2. \A j \in 1..i : t[j] = s[j]
    BY <1>2, <2>1
  <2> QED BY <2>1, <2>2 DEF Sound, RunsSound
<1>5. Task(q) = Task(p) /\ Task(p).text \in Texts /\ q.request.id = m.requestId /\ q.request.step = m.type
  <2>1. Task(p) \in PageTask
    BY <1>1, TailFacts DEF Page, Task
  <2> QED BY <2>1 DEF Task, PageTask
<1>6. \A i \in 1..Len(s) : IsAsk(s[i]) => s[i].requestId <= p.requestId /\ s[i].requestId \in Nat
  <2> SUFFICES ASSUME NEW i \in 1..Len(s), IsAsk(s[i])
               PROVE  s[i].requestId <= p.requestId /\ s[i].requestId \in Nat
    OBVIOUS
  <2>1. s[i] \in Command
    BY <1>1
  <2> QED BY <2>1, CommandCases DEF Sound, AsksSound
<1>7. AsksSound(q, t)
  <2> SUFFICES ASSUME NEW i \in 1..Len(t)
               PROVE  /\ IsAsk(t[i]) => t[i].requestId <= q.requestId
                      /\ t[i].type = "change" =>
                           /\ t[i].before = t[i].baseVersion /\ t[i].before \in Texts
                           /\ t[i].after \in Texts
                      /\ IsCurrent(q, t[i]) =>
                           /\ t[i].type = q.request.step
                           /\ t[i].type = "open" => t[i].text = Task(q).text
                           /\ t[i].type = "change" => t[i].after = Task(q).text
                           /\ \A j \in 1..Len(t) : j > i => ~IsAsk(t[j])
    BY DEF AsksSound
  <2>1. CASE i \in 1..Len(s) /\ t[i] = s[i]
    <3>1. ~IsCurrent(q, t[i])
      BY <1>1, <1>5, <1>6, <2>1 DEF IsCurrent
    <3>2. IsAsk(t[i]) => t[i].requestId <= q.requestId
      BY <1>1, <1>6, <2>1
    <3> QED BY <2>1, <3>1, <3>2 DEF Sound, AsksSound
  <2>2. CASE i = Len(s) + 1 /\ t[i] = m
    <3>1. \A j \in 1..Len(t) : ~(j > i)
      BY <1>2, <2>2
    <3>2. t[i].requestId <= q.requestId
      BY <1>1, <2>2
    <3> QED BY <1>5, <2>2, <3>1, <3>2
  <2> QED BY <1>2, <2>1, <2>2
<1>8. AnswersSound(q, t, k, h)
  <2> SUFFICES ASSUME NEW i \in 1..Len(h), h[i].type = "answer"
               PROVE  h[i].requestId <= q.requestId /\ h[i].requestId # q.request.id
    BY DEF AnswersSound
  <2>1. h[i].requestId <= p.requestId
    BY DEF Sound, AnswersSound
  <2>2. h[i].requestId \in Nat
    BY <1>1, PostCases
  <2> QED BY <1>1, <1>5, <2>1, <2>2
<1>9. TasksSound(q, runs) /\ ShownSound(q, runs) /\ q.requestId >= q.request.id
  BY <1>1, <1>5 DEF Sound, TasksSound, ShownSound
<1> QED BY <1>1, <1>2, <1>4, <1>7, <1>8, <1>9 DEF Sound

LEMMA AskUnrefused ==
  ASSUME NEW p, NEW s \in Seq(Command), NEW k, Unrefused(p, s, k), NoAsks(s), NEW m \in Asks,
         m.type # "open" => k.session # 0,
         m.type = "change" => m.baseRevision = k.revision /\ m.baseVersion = k.text,
         NEW q, q.request.id = m.requestId, q.tasks = p.tasks, NEW t, t = Append(s, m),
         DocFits(q, k)
  PROVE  Unrefused(q, t, k)
<1>1. m \in Command /\ m.type # "run" /\ IsAsk(m)
  BY DEF Command, Asks, OpenCommand, ChangeCommand, SubscribeCommand, IsAsk
<1>2. /\ t \in Seq(Command) /\ Len(s) \in Nat /\ Len(t) = Len(s) + 1
      /\ \A i \in 1..Len(t) : (i \in 1..Len(s) /\ t[i] = s[i]) \/ (i = Len(s) + 1 /\ t[i] = m)
      /\ \A i \in 1..Len(s) : i \in 1..Len(t) /\ t[i] = s[i]
  BY <1>1, AppendCases
<1>3. AsksFit(q, t, k)
  BY <1>2 DEF AsksFit, NoAsks
<1>4. RunsFit(t, k)
  <2> SUFFICES ASSUME NEW i \in 1..Len(t), t[i].type = "run"
               PROVE  /\ k.session # 0 /\ t[i].revision = k.revision /\ t[i].runId \notin RunIds(k)
                      /\ \A j \in 1..i : ~IsAsk(t[j])
                      /\ \A j \in 1..Len(t) : t[j].type = "run" /\ t[j].runId = t[i].runId => i = j
    BY DEF RunsFit
  <2>1. i \in 1..Len(s) /\ t[i] = s[i]
    BY <1>1, <1>2
  <2>2. \A j \in 1..i : t[j] = s[j] /\ j \in 1..Len(s)
    BY <1>2, <2>1
  <2>3. \A j \in 1..Len(t) : t[j].type = "run" => j \in 1..Len(s) /\ t[j] = s[j]
    BY <1>1, <1>2
  <2> QED BY <2>1, <2>2, <2>3 DEF Unrefused, RunsFit
<1>5. TasksFresh(q, t, k)
  <2>1. \A j \in 1..Len(t) : t[j] = m \/ (j \in 1..Len(s) /\ t[j] = s[j])
    BY <1>2
  <2> QED BY <1>1, <2>1 DEF Unrefused, TasksFresh, IsRun
<1> QED BY <1>3, <1>4, <1>5 DEF Unrefused

(* The page posts the run of its task.                                     *)
LEMMA RunSent ==
  ASSUME NEW p, NEW s, NEW k, NEW h, NEW runs, Sound(p, s, k, h, runs),
         p.request = NoRequest, p.tasks # <<>>, NEW m \in RunCommand,
         m.runId = Task(p).runId, m.revision = p.doc.revision,
         NoOpens(s), Agrees(k, p.doc.revision, Task(p).text),
         NEW q \in Page, q.request = NoRequest, q.requestId = p.requestId + 1,
         q.tasks = Tail(p.tasks), q.runId = p.runId, q.shown = p.shown, q.doc = p.doc,
         q.replace = p.replace, NEW t, t = Append(s, m)
  PROVE  Sound(q, t, k, h, runs)
<1>1. /\ s \in Seq(Command) /\ h \in Seq(Posts) /\ p \in Page /\ p.requestId \in Nat
      /\ k \in Kernel /\ runs \in Runs /\ m \in Command /\ m.type = "run" /\ ~IsAsk(m)
  BY DEF Sound, Page, Command, RunCommand, IsAsk
<1>2. /\ t \in Seq(Command) /\ Len(s) \in Nat /\ Len(t) = Len(s) + 1
      /\ \A i \in 1..Len(t) : (i \in 1..Len(s) /\ t[i] = s[i]) \/ (i = Len(s) + 1 /\ t[i] = m)
      /\ \A i \in 1..Len(s) : i \in 1..Len(t) /\ t[i] = s[i]
  BY <1>1, AppendCases
<1>3. OfRun(runs, m.runId, Task(p).text)
  <2>1. 1 \in 1..Len(p.tasks) /\ Task(p) = p.tasks[1]
    BY <1>1, TailFacts DEF Page, Task
  <2> QED BY <2>1 DEF Sound, TasksSound
<1>4. NoOpens(t)
  BY <1>1, <1>2 DEF NoOpens
<1>5. RunsSound(t, k, runs)
  <2> SUFFICES ASSUME NEW i \in 1..Len(t), t[i].type = "run"
               PROVE  /\ t[i].runId \in 1..Len(runs)
                      /\ Agrees(k, t[i].revision, runs[t[i].runId].text)
    BY <1>2, <1>4 DEF RunsSound, NoOpens
  <2>1. CASE i \in 1..Len(s) /\ t[i] = s[i]
    BY <2>1 DEF Sound, RunsSound
  <2>2. CASE t[i] = m
    BY <1>3, <2>2 DEF OfRun
  <2> QED BY <1>2, <2>1, <2>2
<1>6. /\ \A i \in 1..Len(t) : ~IsCurrent(q, t[i])
      /\ \A i \in 1..Len(h) : h[i].type = "answer" => h[i].requestId # q.request.id
  BY <1>1, <1>2, NothingCurrent
<1>7. AsksSound(q, t)
  <2> SUFFICES ASSUME NEW i \in 1..Len(t)
               PROVE  /\ IsAsk(t[i]) => t[i].requestId <= q.requestId
                      /\ t[i].type = "change" =>
                           /\ t[i].before = t[i].baseVersion /\ t[i].before \in Texts
                           /\ t[i].after \in Texts
    BY <1>6 DEF AsksSound
  <2>1. CASE i \in 1..Len(s) /\ t[i] = s[i]
    <3>1. s[i] \in Command
      BY <1>1, <2>1
    <3>2. IsAsk(s[i]) => s[i].requestId <= p.requestId /\ s[i].requestId \in Nat
      BY <2>1, <3>1, CommandCases DEF Sound, AsksSound
    <3>3. IsAsk(t[i]) => t[i].requestId <= q.requestId
      BY <1>1, <2>1, <3>2
    <3> QED BY <2>1, <3>3 DEF Sound, AsksSound
  <2>2. CASE t[i] = m
    BY <1>1, <2>2
  <2> QED BY <1>2, <2>1, <2>2
<1>8. AnswersSound(q, t, k, h)
  <2> SUFFICES ASSUME NEW i \in 1..Len(h), h[i].type = "answer"
               PROVE  h[i].requestId <= q.requestId
    BY <1>6 DEF AnswersSound
  <2>1. h[i].requestId <= p.requestId
    BY DEF Sound, AnswersSound
  <2>2. h[i].requestId \in Nat
    BY <1>1, PostCases
  <2> QED BY <1>1, <2>1, <2>2
<1>9. /\ TasksSound(q, runs) /\ ShownSound(q, runs) /\ KnowsOpened(q)
      /\ q.requestId >= q.request.id
  <2>1. TasksSound(p, runs) /\ ShownSound(p, runs)
    BY DEF Sound
  <2>2. TasksSound(q, runs)
    BY <1>1, <2>1, FewerTasks
  <2>3. ShownSound(q, runs) /\ KnowsOpened(q)
    BY <2>1 DEF ShownSound, KnowsOpened, NoRequest
  <2> QED BY <1>1, <2>2, <2>3 DEF NoRequest
<1>10. DocSound(q, t, k)
  BY <1>4 DEF Sound, DocSound, Usable
<1> QED BY <1>1, <1>2, <1>5, <1>7, <1>8, <1>9, <1>10 DEF Sound

(* The run is none that the kernel has, or will have from the wire.        *)
LEMMA RunUnrefused ==
  ASSUME NEW p \in Page, NEW s \in Seq(Command), NEW k, Unrefused(p, s, k), NoAsks(s),
         p.tasks # <<>>, TasksOrdered(p), NEW m \in RunCommand, m.runId = Task(p).runId,
         m.revision = k.revision, k.session # 0,
         NEW q \in Page, q.request = p.request, q.tasks = Tail(p.tasks), q.doc = p.doc,
         q.runId = p.runId, q.replace = p.replace, NEW t, t = Append(s, m)
  PROVE  Unrefused(q, t, k)
<1>1. m \in Command /\ m.type = "run" /\ ~IsAsk(m) /\ m.runId \in Nat
  BY DEF Command, RunCommand, IsAsk
<1>2. /\ t \in Seq(Command) /\ Len(s) \in Nat /\ Len(t) = Len(s) + 1
      /\ \A i \in 1..Len(t) : (i \in 1..Len(s) /\ t[i] = s[i]) \/ (i = Len(s) + 1 /\ t[i] = m)
      /\ \A i \in 1..Len(s) : i \in 1..Len(t) /\ t[i] = s[i]
  BY <1>1, AppendCases
<1>3. NoAsks(t)
  BY <1>1, <1>2 DEF NoAsks
<1>4. PICK u : u = Tail(p.tasks)
  OBVIOUS
<1>5. /\ Task(p) = p.tasks[1] /\ 1 \in 1..Len(p.tasks)
      /\ \A i \in 1..Len(u) : i + 1 \in 1..Len(p.tasks) /\ u[i] = p.tasks[i + 1]
      /\ \A i \in 1..Len(p.tasks) : p.tasks[i].runId \in Nat
  <2>1. p.tasks \in Seq(PageTask)
    BY DEF Page
  <2>2. \A i \in 1..Len(p.tasks) : p.tasks[i] \in PageTask
    BY <2>1
  <2> QED BY <1>4, <2>1, <2>2, TailFacts DEF Task, PageTask
<1>6. \A i \in 1..Len(u) : u[i].runId # m.runId
  <2> TAKE i \in 1..Len(u)
  <2>1. p.tasks[1].runId < p.tasks[i + 1].runId
    BY <1>5 DEF TasksOrdered
  <2> QED BY <1>5, <2>1
<1>7. m.runId \notin RunIds(k) /\ \A j \in 1..Len(s) : ~IsRun(s[j], m.runId)
  BY <1>5 DEF Unrefused, TasksFresh
<1>8. RunsFit(t, k)
  <2> SUFFICES ASSUME NEW i \in 1..Len(t), t[i].type = "run"
               PROVE  /\ k.session # 0 /\ t[i].revision = k.revision /\ t[i].runId \notin RunIds(k)
                      /\ \A j \in 1..Len(t) : t[j].type = "run" /\ t[j].runId = t[i].runId => i = j
    BY <1>2, <1>3 DEF RunsFit, NoAsks
  <2>1. CASE i \in 1..Len(s) /\ t[i] = s[i]
    <3>1. t[i].runId # m.runId
      BY <1>7, <2>1 DEF IsRun
    <3> QED BY <1>2, <2>1, <3>1 DEF Unrefused, RunsFit
  <2>2. CASE i = Len(s) + 1 /\ t[i] = m
    BY <1>2, <1>7, <2>2 DEF IsRun
  <2> QED BY <1>2, <2>1, <2>2
<1>9. TasksFresh(q, t, k)
  <2>1. TasksFresh(q, s, k)
    BY FewerTasks DEF Unrefused
  <2>2. \A j \in 1..Len(t) : t[j] = m \/ (j \in 1..Len(s) /\ t[j] = s[j])
    BY <1>2
  <2> QED BY <1>4, <1>6, <2>1, <2>2 DEF TasksFresh, IsRun
<1>10. AsksFit(q, t, k) /\ DocFits(q, k)
  BY <1>3 DEF Unrefused, AsksFit, NoAsks, DocFits, Usable
<1> QED BY <1>8, <1>9, <1>10 DEF Unrefused

(* A cancel changes nothing of it.                                         *)
LEMMA CancelSent ==
  ASSUME NEW p, NEW s, NEW k, NEW h, NEW runs, Sound(p, s, k, h, runs),
         NEW m \in CancelCommand, NEW t, t = Append(s, m)
  PROVE  /\ Sound(p, t, k, h, runs)
         /\ Unrefused(p, s, k) => Unrefused(p, t, k)
<1>1. s \in Seq(Command) /\ m \in Command /\ m.type = "cancel" /\ ~IsAsk(m)
  BY DEF Sound, Command, CancelCommand, IsAsk
<1>2. /\ t \in Seq(Command) /\ Len(s) \in Nat /\ Len(t) = Len(s) + 1
      /\ \A i \in 1..Len(t) : (i \in 1..Len(s) /\ t[i] = s[i]) \/ (i = Len(s) + 1 /\ t[i] = m)
      /\ \A i \in 1..Len(s) : i \in 1..Len(t) /\ t[i] = s[i]
  BY <1>1, AppendCases
<1>3. \A i \in 1..Len(t) : t[i].type # "cancel" => i \in 1..Len(s) /\ t[i] = s[i]
  BY <1>1, <1>2
<1>4. \A i \in 1..Len(t) : IsAsk(t[i]) => i \in 1..Len(s) /\ t[i] = s[i]
  BY <1>1, <1>2
<1>5. RunsSound(t, k, runs)
  <2> SUFFICES ASSUME NEW i \in 1..Len(t), t[i].type = "run"
               PROVE  /\ t[i].runId \in 1..Len(runs)
                      /\ Agrees(k, t[i].revision, runs[t[i].runId].text)
                      /\ \A j \in 1..i : t[j].type # "open"
    BY DEF RunsSound
  <2>1. i \in 1..Len(s) /\ t[i] = s[i]
    BY <1>3
  <2>2. \A j \in 1..i : t[j] = s[j]
    BY <1>2, <2>1
  <2> QED BY <2>1, <2>2 DEF Sound, RunsSound
<1>6. AsksSound(p, t)
  BY <1>3, <1>4 DEF Sound, AsksSound, IsCurrent
<1>7. NoAsks(s) => NoAsks(t)
  BY <1>4 DEF NoAsks
<1>8. NoOpens(s) => NoOpens(t)
  BY <1>3 DEF NoOpens
<1>9. DocSound(p, t, k) /\ AnswersSound(p, t, k, h)
  BY <1>7, <1>8 DEF Sound, DocSound, AnswersSound
<1>10. Sound(p, t, k, h, runs)
  BY <1>2, <1>5, <1>6, <1>9 DEF Sound
<1>11. ASSUME Unrefused(p, s, k) PROVE Unrefused(p, t, k)
  <2>1. AsksFit(p, t, k)
    BY <1>4, <1>11 DEF Unrefused, AsksFit
  <2>2. RunsFit(t, k)
    <3> SUFFICES ASSUME NEW i \in 1..Len(t), t[i].type = "run"
                 PROVE  /\ k.session # 0 /\ t[i].revision = k.revision /\ t[i].runId \notin RunIds(k)
                        /\ \A j \in 1..i : ~IsAsk(t[j])
                        /\ \A j \in 1..Len(t) : t[j].type = "run" /\ t[j].runId = t[i].runId => i = j
      BY DEF RunsFit
    <3>1. i \in 1..Len(s) /\ t[i] = s[i]
      BY <1>3
    <3>2. \A j \in 1..i : t[j] = s[j] /\ j \in 1..Len(s)
      BY <1>2, <3>1
    <3> QED BY <1>3, <1>11, <3>1, <3>2 DEF Unrefused, RunsFit
  <2>3. TasksFresh(p, t, k)
    BY <1>3, <1>11 DEF Unrefused, TasksFresh, IsRun
  <2> QED BY <1>11, <2>1, <2>2, <2>3 DEF Unrefused
<1> QED BY <1>10, <1>11

-----------------------------------------------------------------------------
(* The page between two answers                                            *)

(* free: no fault has happened.                                            *)
Flow(p, s, k, h, runs, free) ==
  /\ Sound(p, Wire(s, p), k, h, runs)
  /\ free => Unrefused(p, Wire(s, p), k)

LEMMA RestFlows ==
  ASSUME NEW s, NEW k, NEW h, NEW runs, NEW free, NEW p, Flow(p, s, k, h, runs, free),
         NEW q \in Page, q.request = NoRequest, q.requestId = p.requestId,
         q.runId = p.runId, q.outbox = p.outbox,
         q.tasks = p.tasks \/ (p.tasks # <<>> /\ q.tasks = Tail(p.tasks)),
         ShownSound(q, runs), DocSound(q, Wire(s, p), k),
         free => NoAsks(Wire(s, p)) /\ DocFits(q, k)
  PROVE  Flow(q, s, k, h, runs, free)
<1>1. PICK w : w = Wire(s, p)
  OBVIOUS
<1>2. Wire(s, q) = w
  BY <1>1 DEF Wire
<1>3. p \in Page /\ Sound(p, w, k, h, runs) /\ TasksSound(p, runs)
  BY <1>1 DEF Flow, Sound
<1>4. TasksSound(q, runs)
  BY <1>3, FewerTasks DEF TasksSound
<1>5. Sound(q, w, k, h, runs)
  BY <1>1, <1>3, <1>4, RestSound
<1>6. ASSUME free PROVE Unrefused(q, w, k)
  <2>1. Unrefused(p, w, k) /\ NoAsks(w) /\ DocFits(q, k)
    BY <1>1, <1>6 DEF Flow
  <2>2. TasksFresh(q, w, k)
    BY <1>3, <2>1, FewerTasks DEF Unrefused, TasksFresh
  <2> QED BY <2>1, <2>2, RestUnrefused
<1> QED BY <1>2, <1>5, <1>6 DEF Flow

LEMMA SendFlows ==
  ASSUME NEW s \in Seq(Command), NEW k, NEW h, NEW runs, NEW free, NEW p,
         Flow(p, s, k, h, runs, free), p.request = NoRequest, p.tasks # <<>>,
         NEW m \in Asks, m.requestId = p.requestId + 1,
         m.type = "open" => m.text = Task(p).text /\ (p.doc = NoDocument \/ p.replace),
         m.type # "open" => /\ p.doc # NoDocument /\ NoOpens(Wire(s, p))
                            /\ Agrees(k, p.doc.revision, p.doc.text),
         m.type # "open" /\ free => /\ k.session # 0 /\ p.doc.revision = k.revision
                                    /\ p.doc.text = k.text,
         m.type = "change" => /\ m.baseRevision = p.doc.revision /\ m.baseVersion = p.doc.text
                              /\ m.before = p.doc.text /\ m.after = Task(p).text,
         m.type = "subscribe" => p.doc.text = Task(p).text
  PROVE  Flow(SendKernelCommand(p, m), s, k, h, runs, free)
<1>1. PICK w, t, box : w = Wire(s, p) /\ t = Append(w, m) /\ box = Append(p.outbox, m)
  OBVIOUS
<1>2. /\ p \in Page /\ w \in Seq(Command) /\ p.outbox \in Seq(Command) /\ p.requestId \in Nat
      /\ m \in Command /\ m.requestId \in Nat \ {0}
      /\ m.type \in {"open", "change", "subscribe"} /\ Sound(p, w, k, h, runs)
  BY <1>1 DEF Flow, Sound, Page, Asks, Command, OpenCommand, ChangeCommand, SubscribeCommand
<1>3. PICK q : q = SendKernelCommand(p, m)
  OBVIOUS
<1>4. /\ q \in Page /\ q.outbox = box /\ q.tasks = p.tasks /\ q.shown = p.shown
      /\ q.runId = p.runId /\ q.requestId = m.requestId /\ q.doc = p.doc
      /\ q.replace = p.replace
      /\ q.request = [id |-> m.requestId, step |-> m.type]
  <2>1. q = [p EXCEPT !.requestId = m.requestId,
                      !.request = [id |-> m.requestId, step |-> m.type], !.outbox = box]
    BY <1>1, <1>3 DEF SendKernelCommand
  <2>2. [id |-> m.requestId, step |-> m.type] \in Request /\ box \in Seq(Command)
    BY <1>1, <1>2, AppendFacts DEF Request
  <2> QED BY <1>2, <2>1, <2>2 DEF Page
<1>5. Wire(s, q) = t
  BY <1>1, <1>2, <1>4, WireAppend DEF Wire
<1>6. q.request.step = m.type /\ q.request.id = m.requestId /\ Task(q) = Task(p)
  BY <1>4 DEF Task
<1>7. m.type # "open" => NoOpens(t)
  BY <1>1, <1>2, AppendCases DEF NoOpens
<1>8. DocSound(q, t, k)
  <2> SUFFICES ASSUME p.doc # NoDocument
               PROVE  /\ p.doc.text \in Texts
                      /\ Usable(q) => NoOpens(t) /\ Agrees(k, p.doc.revision, p.doc.text)
    BY <1>4 DEF DocSound
  <2>1. p.doc.text \in Texts
    BY <1>2 DEF Sound, DocSound
  <2>2. m.type = "open" => ~Usable(q)
    BY <1>4, <1>6 DEF Usable
  <2> QED BY <1>7, <2>1, <2>2
<1>9. KnowsOpened(q)
  BY <1>4, <1>6 DEF KnowsOpened
<1>10. m.type = "change" => m.before = m.baseVersion /\ m.before \in Texts
  BY <1>2 DEF Sound, DocSound
<1>11. Sound(q, t, k, h, runs)
  BY <1>1, <1>2, <1>4, <1>8, <1>9, <1>10, AskSent
<1>12. ASSUME free PROVE Unrefused(q, t, k)
  <2>1. Unrefused(p, w, k)
    BY <1>1, <1>12 DEF Flow
  <2>2. NoAsks(w)
    BY <1>2, <2>1, NothingAsked
  <2>3. DocFits(q, k)
    <3>1. m.type = "open" => p.doc = NoDocument \/ ~Usable(q)
      BY <1>4, <1>6 DEF Usable
    <3>2. m.type = "subscribe" => /\ k.session # 0 /\ p.doc.revision = k.revision
                                  /\ p.doc.text = k.text
      BY <1>12
    <3> QED BY <1>2, <1>4, <1>6, <3>1, <3>2 DEF DocFits
  <2>4. /\ m.type # "open" => k.session # 0
        /\ m.type = "change" => m.baseRevision = k.revision /\ m.baseVersion = k.text
    BY <1>12
  <2> QED BY <1>1, <1>2, <1>4, <1>6, <2>1, <2>2, <2>3, <2>4, AskUnrefused
<1> QED BY <1>3, <1>5, <1>11, <1>12 DEF Flow

(* What the page knows is forgotten with the task.                         *)
LEMMA AbandonFlows ==
  ASSUME NEW s \in Seq(Command), NEW k, NEW h, NEW runs, NEW free, NEW p,
         Flow(p, s, k, h, runs, free), p.tasks # <<>>, free => NoAsks(Wire(s, p)),
         NEW q, q = [p EXCEPT !.request = NoRequest]
  PROVE  Flow(AbandonObsoleteIntent(q), s, k, h, runs, free)
<1>1. p \in Page /\ ShownSound(p, runs) /\ Tail(p.tasks) \in Seq(PageTask)
  BY TailFacts DEF Flow, Sound, Page
<1>2. PICK u, t, ls : /\ u = AbandonObsoleteIntent(q) /\ t = Tail(p.tasks)
                      /\ ls = p.latched \ {Task(q).runId}
  OBVIOUS
<1>3. q.tasks = p.tasks /\ q.latched = p.latched
  BY <1>1 DEF Page
<1>4. u = [p EXCEPT !.request = NoRequest, !.doc = NoDocument, !.latched = ls, !.tasks = t]
  BY <1>1, <1>2, <1>3 DEF AbandonObsoleteIntent, Page
<1>5. /\ NoRequest \in Request /\ NoDocument \in [revision : Nat, text : Text]
      /\ ls \in SUBSET Nat /\ t \in Seq(PageTask)
  BY <1>1, <1>2 DEF Page, Request, NoDocument, Text
<1>6. /\ u \in Page /\ u.request = NoRequest /\ u.requestId = p.requestId
      /\ u.runId = p.runId /\ u.outbox = p.outbox /\ u.tasks = t /\ u.shown = p.shown
      /\ u.doc = NoDocument
  BY <1>1, <1>4, <1>5 DEF Page
<1>7. ShownSound(u, runs) /\ DocSound(u, Wire(s, p), k) /\ DocFits(u, k)
  BY <1>1, <1>6 DEF ShownSound, DocSound, DocFits
<1>8. Flow(u, s, k, h, runs, free)
  BY <1>2, <1>6, <1>7, RestFlows
<1> QED BY <1>2, <1>8

(* A task fails only after a fault.                                        *)
LEMMA CatchFlows ==
  ASSUME NEW s \in Seq(Command), NEW k, NEW h, NEW runs, NEW p,
         Flow(p, s, k, h, runs, FALSE), p.tasks # <<>>,
         NEW q, q = [p EXCEPT !.request = NoRequest]
  PROVE  Flow(Catch(q), s, k, h, runs, FALSE)
<1>1. /\ p \in Page /\ ShownSound(p, runs) /\ Tail(p.tasks) \in Seq(PageTask)
      /\ Task(p) \in PageTask /\ DocSound(p, Wire(s, p), k)
  BY TailFacts DEF Flow, Sound, Page, Task
<1>2. PICK u, t, r, ls, ps : /\ u = Catch(q) /\ t = Tail(p.tasks) /\ r = Task(p).runId
                             /\ ls = p.latched \ {r} /\ ps = p.posted \ {r}
  OBVIOUS
<1>3. /\ q.tasks = p.tasks /\ q.latched = p.latched /\ q.posted = p.posted
      /\ Task(q) = Task(p) /\ q.intent = p.intent
  BY <1>1 DEF Page, Task
<1>4. /\ NoRequest \in Request /\ NoDocument \in [revision : Nat, text : Text]
      /\ ls \in SUBSET Nat /\ ps \in SUBSET Nat /\ t \in Seq(PageTask)
      /\ [runId |-> r, ok |-> FALSE, text |-> NoText] \in Shown
  BY <1>1, <1>2 DEF Page, Request, NoDocument, Text, Shown, PageTask
<1>5. CASE IsObsolete(q)
  <2>1. u = [p EXCEPT !.request = NoRequest, !.tasks = t]
    BY <1>1, <1>2, <1>3, <1>5 DEF Catch, Page
  <2>2. /\ u \in Page /\ u.request = NoRequest /\ u.requestId = p.requestId
        /\ u.runId = p.runId /\ u.outbox = p.outbox /\ u.tasks = t /\ u.shown = p.shown
        /\ u.doc = p.doc /\ u.replace = p.replace
    BY <1>1, <1>4, <2>1 DEF Page
  <2>3. Usable(u) => Usable(p)
    BY <2>2 DEF Usable, NoRequest
  <2>4. ShownSound(u, runs) /\ DocSound(u, Wire(s, p), k)
    BY <1>1, <2>2, <2>3 DEF ShownSound, DocSound
  <2>5. Flow(u, s, k, h, runs, FALSE)
    BY <1>2, <2>2, <2>4, RestFlows
  <2> QED BY <1>2, <2>5
<1>6. CASE ~IsObsolete(q)
  <2>1. u = [p EXCEPT !.request = NoRequest, !.doc = NoDocument, !.latched = ls,
                      !.posted = ps, !.tasks = t,
                      !.shown = [runId |-> r, ok |-> FALSE, text |-> NoText],
                      !.running = FALSE]
    BY <1>1, <1>2, <1>3, <1>6 DEF Catch, ShowFailure, Page
  <2>2. /\ u.request = NoRequest /\ u.requestId = p.requestId
        /\ u.runId = p.runId /\ u.outbox = p.outbox /\ u.tasks = t
        /\ u.shown = [runId |-> r, ok |-> FALSE, text |-> NoText] /\ u.doc = NoDocument
    BY <1>1, <2>1 DEF Page
  <2>3. u \in Page
    <3>1. PICK v : v = [p EXCEPT !.request = NoRequest, !.doc = NoDocument, !.latched = ls]
      OBVIOUS
    <3>2. v \in Page
      BY <1>1, <1>4, <3>1 DEF Page
    <3>3. u = [v EXCEPT !.posted = ps, !.tasks = t,
                        !.shown = [runId |-> r, ok |-> FALSE, text |-> NoText],
                        !.running = FALSE]
      BY <1>1, <2>1, <3>1 DEF Page
    <3> QED BY <1>4, <3>2, <3>3 DEF Page
  <2>4. ShownSound(u, runs) /\ DocSound(u, Wire(s, p), k)
    BY <2>2 DEF ShownSound, DocSound
  <2>5. Flow(u, s, k, h, runs, FALSE)
    BY <1>2, <2>2, <2>3, <2>4, RestFlows
  <2> QED BY <1>2, <2>5
<1> QED BY <1>5, <1>6

(* What the page knows of the document is what the run is of.              *)
LEMMA PostRunFlows ==
  ASSUME NEW s \in Seq(Command), NEW k, NEW h, NEW runs, NEW free, NEW p,
         Flow(p, s, k, h, runs, free), TasksOrdered(p), p.request = NoRequest, p.tasks # <<>>,
         NoOpens(Wire(s, p)), Agrees(k, p.doc.revision, Task(p).text),
         free => k.session # 0 /\ p.doc.revision = k.revision
  PROVE  Flow(PostRun(p), s, k, h, runs, free)
<1>1. PICK w : w = Wire(s, p)
  OBVIOUS
<1>2. /\ p \in Page /\ w \in Seq(Command) /\ p.outbox \in Seq(Command) /\ p.requestId \in Nat
      /\ Sound(p, w, k, h, runs) /\ Tail(p.tasks) \in Seq(PageTask) /\ Task(p) \in PageTask
      /\ p.doc.revision \in Nat /\ p.latched \in SUBSET Nat /\ p.posted \in SUBSET Nat
  BY <1>1, TailFacts DEF Flow, Sound, Page, Task
<1>3. PICK r, tasks, n : r = Task(p).runId /\ tasks = Tail(p.tasks) /\ n = p.requestId + 1
  OBVIOUS
<1>4. PICK m, c : /\ m = [type |-> "run", requestId |-> n, runId |-> r,
                          revision |-> p.doc.revision]
                  /\ c = Cancellation(r)
  OBVIOUS
<1>5. /\ m \in RunCommand /\ c \in CancelCommand /\ m \in Command /\ c \in Command
      /\ m.runId = r /\ m.revision = p.doc.revision /\ r \in Nat /\ n \in Nat
  <2>1. r \in Nat /\ n \in Nat \ {0}
    BY <1>2, <1>3 DEF PageTask
  <2>2. m \in RunCommand /\ m.runId = r /\ m.revision = p.doc.revision
    BY <1>2, <1>4, <2>1 DEF RunCommand
  <2>3. c \in CancelCommand
    BY <1>4, <2>1 DEF CancelCommand, Cancellation
  <2> QED BY <2>1, <2>2, <2>3 DEF Command
<1>6. PICK q, latched, ps, ls : /\ q = PostRun(p) /\ latched = (r \in p.latched)
                                /\ ps = p.posted \cup {r} /\ ls = p.latched \ {r}
  OBVIOUS
<1>7. PICK t, box : t = Append(w, m) /\ box = RunBox(p.outbox, m, c, latched)
  OBVIOUS
<1>8. box \in Seq(Command) /\ s \o box = IF latched THEN Append(t, c) ELSE t
  <2>1. latched \in BOOLEAN
    BY <1>6
  <2>2. w = s \o p.outbox
    BY <1>1 DEF Wire
  <2>3. /\ box \in Seq(Command)
        /\ s \o box = IF latched THEN Append(Append(s \o p.outbox, m), c)
                                 ELSE Append(s \o p.outbox, m)
    <3>1. p.outbox \in Seq(Command) /\ m \in Command /\ c \in Command
      BY <1>2, <1>5
    <3>2. /\ RunBox(p.outbox, m, c, latched) \in Seq(Command)
          /\ s \o RunBox(p.outbox, m, c, latched) =
               IF latched THEN Append(Append(s \o p.outbox, m), c) ELSE Append(s \o p.outbox, m)
      BY <2>1, <3>1, WireRun, Zenon
    <3> QED BY <1>7, <3>2, Zenon
  <2> QED BY <1>7, <2>2, <2>3
<1>9. /\ q \in Page /\ q.outbox = box /\ q.tasks = tasks /\ q.request = NoRequest
      /\ q.requestId = p.requestId + 1 /\ q.runId = p.runId /\ q.shown = p.shown
      /\ q.doc = p.doc /\ q.replace = p.replace
  <2>1. q = [p EXCEPT !.requestId = n, !.tasks = tasks, !.posted = ps, !.latched = ls,
                      !.outbox = box]
    BY <1>3, <1>4, <1>6, <1>7 DEF PostRun, RunBox
  <2>2. ps \in SUBSET Nat /\ ls \in SUBSET Nat
    BY <1>2, <1>5, <1>6
  <2> QED BY <1>2, <1>3, <1>5, <1>8, <2>1, <2>2 DEF Page
<1>10. Sound(q, t, k, h, runs)
  BY <1>1, <1>2, <1>3, <1>5, <1>7, <1>9, RunSent
<1>11. ASSUME free PROVE Unrefused(q, t, k)
  <2>1. Unrefused(p, w, k) /\ NoAsks(w)
    BY <1>1, <1>2, <1>11, NothingAsked DEF Flow
  <2> QED BY <1>2, <1>3, <1>5, <1>7, <1>9, <1>11, <2>1, RunUnrefused
<1>12. CASE latched
  <2>1. Wire(s, q) = Append(t, c)
    BY <1>8, <1>9, <1>12 DEF Wire
  <2> QED BY <1>5, <1>6, <1>10, <1>11, <2>1, CancelSent DEF Flow
<1>13. CASE ~latched
  <2>1. Wire(s, q) = t
    BY <1>8, <1>9, <1>13 DEF Wire
  <2> QED BY <1>6, <1>10, <1>11, <2>1 DEF Flow
<1> QED BY <1>12, <1>13

LEMMA BeginFlows ==
  ASSUME NEW asked, NEW out, NEW p, PageOk(p, asked, out), p.tasks # <<>>,
         p.request = NoRequest, NEW s \in Seq(Command), NEW k, NEW h, NEW runs, NEW free,
         Flow(p, s, k, h, runs, free)
  PROVE  Flow(Begin(p), s, k, h, runs, free)
<1>1. /\ p \in Page /\ p.requestId \in Nat /\ p.replace \in BOOLEAN
      /\ p.doc \in [revision : Nat, text : Text] /\ Task(p) \in PageTask
      /\ Sound(p, Wire(s, p), k, h, runs)
  BY TailFacts DEF PageOk, Page, Task, Flow
<1>2. Task(p).text \in Text /\ p.doc.revision \in Nat /\ p.doc.text \in Text
      /\ p.requestId + 1 \in Nat \ {0}
  BY <1>1 DEF PageTask, Text
<1>3. ASSUME ~p.replace, p.doc # NoDocument
      PROVE  /\ NoOpens(Wire(s, p)) /\ Agrees(k, p.doc.revision, p.doc.text)
             /\ free => k.session # 0 /\ p.doc.revision = k.revision /\ p.doc.text = k.text
  <2>1. Usable(p) /\ p.request.step # "change"
    BY <1>3 DEF Usable, NoRequest
  <2> QED BY <1>1, <1>3, <2>1 DEF Sound, DocSound, Flow, Unrefused, DocFits
<1>4. CASE p.replace \/ p.doc = NoDocument
  <2>1. PICK m : m = [type |-> "open", requestId |-> p.requestId + 1,
                      replaceSession |-> p.replace, text |-> Task(p).text]
    OBVIOUS
  <2>2. m \in Asks /\ m.type = "open" /\ m.text = Task(p).text /\ m.requestId = p.requestId + 1
    BY <1>1, <1>2, <2>1 DEF Asks, OpenCommand
  <2>3. Begin(p) = SendKernelCommand(p, m)
    BY <1>1, <1>4, <2>1 DEF Begin, SendOpen
  <2> QED BY <1>4, <2>2, <2>3, SendFlows
<1>5. CASE ~p.replace /\ p.doc # NoDocument /\ p.doc.text # Task(p).text
  <2>1. PICK m : m = [type |-> "change", requestId |-> p.requestId + 1,
                      baseRevision |-> p.doc.revision, baseVersion |-> p.doc.text,
                      before |-> p.doc.text, after |-> Task(p).text]
    OBVIOUS
  <2>2. /\ m \in Asks /\ m.type = "change" /\ m.requestId = p.requestId + 1
        /\ m.baseRevision = p.doc.revision /\ m.baseVersion = p.doc.text
        /\ m.before = p.doc.text /\ m.after = Task(p).text
    BY <1>2, <2>1 DEF Asks, ChangeCommand
  <2>3. Begin(p) = SendKernelCommand(p, m)
    BY <1>1, <1>5, <2>1 DEF Begin, SendChange
  <2> QED BY <1>3, <1>5, <2>2, <2>3, SendFlows
<1>6. CASE ~p.replace /\ p.doc # NoDocument /\ p.doc.text = Task(p).text
  <2>1. Begin(p) = RunOrAbandon(p)
    BY <1>1, <1>6 DEF Begin
  <2>2. CASE IsObsolete(p)
    <3>1. p = [p EXCEPT !.request = NoRequest]
      BY <1>1 DEF Page
    <3>2. free => NoAsks(Wire(s, p))
      BY <1>1, NothingAsked DEF Flow, Sound
    <3> QED BY <2>1, <2>2, <3>1, <3>2, AbandonFlows DEF RunOrAbandon
  <2>3. CASE ~IsObsolete(p)
    BY <1>3, <1>6, <2>1, <2>3, PostRunFlows DEF RunOrAbandon, PageOk
  <2> QED BY <2>2, <2>3
<1> QED BY <1>1, <1>4, <1>5, <1>6

LEMMA StartTasksFlow ==
  ASSUME NEW asked, NEW out, NEW p, PageOk(p, asked, out),
         NEW s \in Seq(Command), NEW k, NEW h, NEW runs, NEW free,
         Flow(p, s, k, h, runs, free)
  PROVE  Flow(StartTasks(p), s, k, h, runs, free)
<1>1. ASSUME NEW q, PageOk(q, asked, out), Flow(q, s, k, h, runs, free)
      PROVE  /\ PageOk(StartTask(q), asked, out)
             /\ Flow(StartTask(q), s, k, h, runs, free)
  <2>1. CASE q.request = NoRequest /\ q.tasks # <<>>
    BY <1>1, <2>1, BeginKeeps, BeginFlows DEF StartTask
  <2>2. CASE ~(q.request = NoRequest /\ q.tasks # <<>>)
    BY <1>1, <2>2 DEF StartTask
  <2> QED BY <2>1, <2>2
<1>2. PageOk(StartTask(p), asked, out) /\ Flow(StartTask(p), s, k, h, runs, free)
  BY <1>1
<1> QED BY <1>1, <1>2 DEF StartTasks

LEMMA RejectFlows ==
  ASSUME NEW asked, NEW out, NEW p, PageOk(p, asked, out), p.tasks # <<>>,
         NEW s \in Seq(Command), NEW k, NEW h, NEW runs, Flow(p, s, k, h, runs, FALSE)
  PROVE  Flow(Reject(p), s, k, h, runs, FALSE)
<1>1. PICK q : q = [p EXCEPT !.request = NoRequest]
  OBVIOUS
<1>2. PageOk(q, asked, out) /\ q.tasks # <<>> /\ q.request = NoRequest
  <2>1. p \in Page /\ NoRequest \in Request
    BY DEF PageOk, Request
  <2>2. /\ q \in Page /\ q.tasks = p.tasks /\ q.request = NoRequest /\ q.outbox = p.outbox
        /\ q.runId = p.runId /\ q.intent = p.intent /\ q.posted = p.posted
        /\ q.latched = p.latched
    BY <1>1, <2>1 DEF Page
  <2> QED BY <2>2, SameTasksKeep
<1>3. PageOk(Catch(q), asked, out)
  BY <1>2, CatchKeeps
<1>4. Flow(Catch(q), s, k, h, runs, FALSE)
  BY <1>1, CatchFlows
<1>5. Reject(p) = StartTasks(Catch(q))
  BY <1>1 DEF Reject
<1> QED BY <1>3, <1>4, <1>5, StartTasksFlow

(* The answer m is to what the task asked for last.                        *)
Answers(m, p, s, k, free) ==
  /\ NoAsks(s)
  /\ m.ok /\ p.request.step \in {"open", "change"} =>
       k.session # 0 /\ m.revision = k.revision /\ k.text = Task(p).text
  /\ free => m.ok

LEMMA ContinueFlows ==
  ASSUME NEW asked, NEW out, NEW p, PageOk(p, asked, out), p.request # NoRequest,
         NEW s \in Seq(Command), NEW k, NEW h, NEW runs, NEW free \in BOOLEAN,
         Flow(p, s, k, h, runs, free), NEW m \in Posts, Answers(m, p, Wire(s, p), k, free),
         NEW q, q = [p EXCEPT !.request = NoRequest]
  PROVE  Flow(ContinueTask(q, p.request.step, m), s, k, h, runs, free)
<1>1. /\ p \in Page /\ p.requestId \in Nat /\ p.replace \in BOOLEAN /\ p.tasks # <<>>
      /\ p.doc \in [revision : Nat, text : Text] /\ Task(p) \in PageTask
      /\ p.request.step \in {"open", "change", "subscribe"} /\ NoRequest \in Request
      /\ p.tasks \in Seq(PageTask)
  BY TailFacts DEF PageOk, Page, Task, Request
<1>2. m.ok \in BOOLEAN /\ m.revision \in Nat /\ Task(p).text \in Texts /\ Task(p).text \in Text
  BY <1>1, PostCases DEF PageTask, Text
<1>3. /\ q \in Page /\ q.tasks = p.tasks /\ q.request = NoRequest /\ q.outbox = p.outbox
      /\ q.runId = p.runId /\ q.intent = p.intent /\ q.posted = p.posted
      /\ q.latched = p.latched /\ q.requestId = p.requestId /\ q.shown = p.shown
      /\ q.doc = p.doc /\ q.replace = p.replace
      /\ Task(q) = Task(p) /\ (IsObsolete(q) <=> IsObsolete(p))
  BY <1>1 DEF Page, Task, IsObsolete
<1>4. PageOk(q, asked, out) /\ TasksOrdered(q)
  BY <1>3, SameTasksKeep DEF PageOk
<1>5. PICK w : w = Wire(s, p)
  OBVIOUS
<1>6. /\ NoAsks(w) /\ NoOpens(w) /\ Sound(p, w, k, h, runs) /\ ShownSound(p, runs)
      /\ k \in Kernel
  BY <1>5 DEF Answers, NoAsks, NoOpens, IsAsk, Flow, Sound
<1>7. PICK doc, known : /\ doc = [revision |-> m.revision, text |-> Task(p).text]
                        /\ known = [q EXCEPT !.doc = doc]
  OBVIOUS
<1>8. /\ known \in Page /\ known.tasks = p.tasks /\ known.request = NoRequest
      /\ known.outbox = p.outbox /\ known.runId = p.runId /\ known.intent = p.intent
      /\ known.posted = p.posted /\ known.latched = p.latched
      /\ known.requestId = p.requestId /\ known.shown = p.shown /\ known.doc = doc
      /\ doc.text = Task(p).text /\ doc.revision = m.revision /\ Task(known) = Task(p)
      /\ Wire(s, known) = w
  <2>1. doc \in [revision : Nat, text : Text]
    BY <1>2, <1>7
  <2> QED BY <1>3, <1>5, <1>7, <2>1 DEF Page, Task, Wire
<1>9. ASSUME m.ok, p.request.step \in {"open", "change"}
      PROVE  /\ Flow(known, s, k, h, runs, free) /\ NoOpens(Wire(s, known))
             /\ Agrees(k, doc.revision, doc.text) /\ TasksOrdered(known)
             /\ k.session # 0 /\ doc.revision = k.revision /\ doc.text = k.text
  <2>1. k.session # 0 /\ doc.revision = k.revision /\ doc.text = k.text
    BY <1>8, <1>9 DEF Answers
  <2>2. Agrees(k, doc.revision, doc.text)
    BY <1>6, <2>1 DEF Agrees, Kernel
  <2>3. ShownSound(known, runs) /\ DocSound(known, w, k) /\ DocFits(known, k)
    BY <1>2, <1>6, <1>8, <2>1, <2>2 DEF ShownSound, DocSound, DocFits
  <2>4. Flow(known, s, k, h, runs, free)
    BY <1>5, <1>6, <1>8, <2>3, RestFlows
  <2> QED BY <1>4, <1>6, <1>3, <1>8, <2>1, <2>2, <2>4 DEF TasksOrdered
<1>10. CASE ~m.ok
  <2>1. ~free
    BY <1>10 DEF Answers
  <2>2. ContinueTask(q, p.request.step, m) = Catch(q)
    BY <1>2, <1>10 DEF ContinueTask
  <2>3. Flow(p, s, k, h, runs, FALSE)
    BY DEF Flow
  <2>4. Flow(Catch(q), s, k, h, runs, FALSE)
    BY <1>1, <2>3, CatchFlows
  <2> QED BY <2>1, <2>2, <2>4 DEF Flow
<1>11. CASE m.ok /\ IsObsolete(q)
  <2>1. ContinueTask(q, p.request.step, m) = AbandonObsoleteIntent(q)
    BY <1>11 DEF ContinueTask
  <2> QED BY <1>1, <1>5, <1>6, <2>1, AbandonFlows
<1>12. CASE m.ok /\ ~IsObsolete(q) /\ p.request.step = "open"
  <2>1. ContinueTask(q, p.request.step, m) = SendSubscribe(known)
    BY <1>3, <1>7, <1>12 DEF ContinueTask
  <2>2. PICK c : c = [type |-> "subscribe", requestId |-> known.requestId + 1]
    OBVIOUS
  <2>3. c \in Asks /\ c.type = "subscribe" /\ c.requestId = known.requestId + 1
    BY <1>1, <1>8, <2>2 DEF Asks, SubscribeCommand
  <2>4. known.doc # NoDocument
    BY <1>2, <1>8, PlaygroundAssumption DEF NoDocument
  <2>5. SendSubscribe(known) = SendKernelCommand(known, c)
    BY <2>2 DEF SendSubscribe
  <2> QED BY <1>1, <1>8, <1>9, <1>12, <2>1, <2>3, <2>4, <2>5, SendFlows
<1>13. CASE m.ok /\ ~IsObsolete(q) /\ p.request.step = "change"
  <2>1. ContinueTask(q, p.request.step, m) = PostRun(known)
    BY <1>3, <1>7, <1>13 DEF ContinueTask
  <2> QED BY <1>1, <1>8, <1>9, <1>13, <2>1, PostRunFlows
<1>14. CASE m.ok /\ ~IsObsolete(q) /\ p.request.step = "subscribe"
  <2>1. PICK u : u = [q EXCEPT !.replace = FALSE]
    OBVIOUS
  <2>2. /\ u \in Page /\ u.tasks = p.tasks /\ u.request = NoRequest
        /\ u.outbox = p.outbox /\ u.runId = p.runId /\ u.intent = p.intent
        /\ u.posted = p.posted /\ u.latched = p.latched
        /\ u.requestId = p.requestId /\ u.shown = p.shown /\ u.doc = p.doc
        /\ Task(u) = Task(p) /\ Wire(s, u) = w
    BY <1>3, <1>5, <2>1 DEF Page, Task, Wire
  <2>3. p.doc # NoDocument /\ p.doc.text = Task(p).text
    BY <1>3, <1>6, <1>14 DEF Sound, KnowsOpened
  <2>4. p.doc.text \in Texts /\ Agrees(k, p.doc.revision, p.doc.text)
    BY <1>6, <1>14, <2>3 DEF Sound, DocSound, Usable
  <2>5. free => k.session # 0 /\ p.doc.revision = k.revision /\ p.doc.text = k.text
    BY <1>14, <2>3 DEF Flow, Unrefused, DocFits, Usable
  <2>6. ShownSound(u, runs) /\ DocSound(u, w, k) /\ (free => DocFits(u, k))
    BY <1>6, <2>2, <2>4, <2>5 DEF ShownSound, DocSound, DocFits
  <2>7. Flow(u, s, k, h, runs, free)
    BY <1>5, <1>6, <2>2, <2>6, RestFlows
  <2>8. TasksOrdered(u)
    BY <1>3, <1>4, <2>2 DEF TasksOrdered
  <2>9. ContinueTask(q, p.request.step, m) = PostRun(u)
    BY <1>14, <2>1 DEF ContinueTask
  <2> QED BY <1>1, <1>6, <2>2, <2>3, <2>4, <2>5, <2>7, <2>8, <2>9, PostRunFlows
<1> QED BY <1>1, <1>2, <1>10, <1>11, <1>12, <1>13, <1>14

-----------------------------------------------------------------------------
(* What the worker posts                                                   *)

LEMMA HostTail ==
  ASSUME NEW p, NEW s, NEW k, NEW h, NEW runs, Sound(p, s, k, h, runs), h # <<>>
  PROVE  Sound(p, s, k, Tail(h), runs)
<1>1. PICK t : t = Tail(h)
  OBVIOUS
<1>2. t \in Seq(Posts) /\ \A i \in 1..Len(t) : i + 1 \in 1..Len(h) /\ t[i] = h[i + 1]
  BY <1>1, TailFacts DEF Sound
<1>3. ResultsSound(t, runs) /\ AnswersSound(p, s, k, t)
  BY <1>2 DEF Sound, ResultsSound, AnswersSound
<1> QED BY <1>1, <1>2, <1>3 DEF Sound

LEMMA AnswerFlows ==
  ASSUME NEW asked, NEW out, NEW p, PageOk(p, asked, out),
         NEW s \in Seq(Command), NEW k, NEW h, NEW runs, NEW free \in BOOLEAN,
         Flow(p, s, k, h, runs, free), h # <<>>, NEW m, m = Head(h), m.type = "answer",
         free => m.ok
  PROVE  Flow(OnAnswer(p, m), s, k, Tail(h), runs, free)
<1>1. Flow(p, s, k, Tail(h), runs, free)
  BY HostTail DEF Flow
<1>2. CASE m.requestId # p.request.id
  BY <1>1, <1>2 DEF OnAnswer
<1>3. CASE m.requestId = p.request.id
  <2>1. 1 \in 1..Len(h) /\ m = h[1] /\ m \in Posts /\ p.request \in Request /\ p \in Page
    BY TailFacts DEF Flow, Sound, Page
  <2>2. p.request # NoRequest
    BY <1>3, <2>1, PostCases DEF NoRequest
  <2>3. Answers(m, p, Wire(s, p), k, free)
    BY <1>3, <2>1 DEF Flow, Sound, AnswersSound, Answers
  <2>4. PICK q, step : q = [p EXCEPT !.request = NoRequest] /\ step = p.request.step
    OBVIOUS
  <2>5. Flow(ContinueTask(q, step, m), s, k, Tail(h), runs, free)
    BY <1>1, <2>1, <2>2, <2>3, <2>4, ContinueFlows
  <2>6. PageOk(ContinueTask(q, step, m), asked, out)
    <3>1. /\ q \in Page /\ q.tasks = p.tasks /\ q.request = NoRequest /\ q.outbox = p.outbox
          /\ q.runId = p.runId /\ q.intent = p.intent /\ q.posted = p.posted
          /\ q.latched = p.latched
      BY <2>1, <2>4 DEF Page, Request
    <3>2. PageOk(q, asked, out) /\ q.tasks # <<>>
      BY <2>2, <3>1, SameTasksKeep DEF PageOk
    <3>3. step \in {"open", "change", "subscribe"}
      BY <2>1, <2>2, <2>4 DEF Request
    <3> QED BY <2>1, <3>1, <3>2, <3>3, ContinueKeeps
  <2>7. OnAnswer(p, m) = StartTasks(ContinueTask(q, step, m))
    BY <1>3, <2>4 DEF OnAnswer
  <2> QED BY <2>5, <2>6, <2>7, StartTasksFlow
<1> QED BY <1>2, <1>3

(* What is shown is what the kernel says of the run.                       *)
LEMMA ResultFlows ==
  ASSUME NEW s \in Seq(Command), NEW k, NEW h, NEW runs, NEW free, NEW p,
         Flow(p, s, k, h, runs, free), h # <<>>, NEW m, m = Head(h), m.type = "result"
  PROVE  Flow(OnResult(p, m), s, k, Tail(h), runs, free)
<1>1. /\ Sound(p, Wire(s, p), k, Tail(h), runs) /\ (free => Unrefused(p, Wire(s, p), k))
      /\ p \in Page /\ ShownSound(p, runs)
  BY HostTail DEF Flow, Sound
<1>2. /\ m.runId \in Nat /\ m.ok \in BOOLEAN /\ m.text \in Text
      /\ m.ok => OfRun(runs, m.runId, m.text)
  <2>1. 1 \in 1..Len(h) /\ m = h[1] /\ m \in Posts
    BY TailFacts DEF Flow, Sound
  <2> QED BY <2>1, PostCases DEF Flow, Sound, ResultsSound
<1>3. PICK q : q = OnResult(p, m)
  OBVIOUS
<1>4. PICK r, ps, ls, shown : /\ r = m.runId /\ ps = p.posted \ {r} /\ ls = p.latched \ {r}
                              /\ shown = [runId |-> r, ok |-> m.ok, text |-> m.text]
  OBVIOUS
<1>5. ps \in SUBSET Nat /\ ls \in SUBSET Nat /\ shown \in Shown
  BY <1>1, <1>2, <1>4 DEF Page, Shown
<1>6. /\ q \in Page /\ q.request = p.request /\ q.requestId = p.requestId
      /\ q.runId = p.runId /\ q.tasks = p.tasks /\ q.intent = p.intent /\ q.doc = p.doc
      /\ q.replace = p.replace /\ q.outbox = p.outbox /\ q.shown \in {p.shown, shown}
  <2>1. CASE r # p.runId
    <3>1. q = [p EXCEPT !.posted = ps, !.latched = ls]
      BY <1>3, <1>4, <2>1 DEF OnResult
    <3> QED BY <1>1, <1>5, <3>1 DEF Page
  <2>2. CASE r = p.runId
    <3>1. q = [p EXCEPT !.posted = ps, !.latched = ls, !.shown = shown, !.running = FALSE]
      BY <1>1, <1>3, <1>4, <2>2 DEF OnResult, Page
    <3> QED BY <1>1, <1>5, <3>1 DEF Page
  <2> QED BY <2>1, <2>2
<1>7. ShownSound(q, runs)
  BY <1>1, <1>2, <1>4, <1>6 DEF ShownSound
<1>8. Sound(q, Wire(s, p), k, Tail(h), runs) /\ (free => Unrefused(q, Wire(s, p), k))
  BY <1>1, <1>6, <1>7, OtherFields
<1> QED BY <1>3, <1>6, <1>8 DEF Flow, Wire

LEMMA ErrorFlows ==
  ASSUME NEW asked, NEW out, NEW p, PageOk(p, asked, out),
         NEW s \in Seq(Command), NEW k, NEW h, NEW runs, Flow(p, s, k, h, runs, FALSE)
  PROVE  Flow(OnError(p), s, k, h, runs, FALSE)
<1>1. PICK q, shown : /\ q = ShowFailure(p, p.runId)
                      /\ shown = [runId |-> p.runId, ok |-> FALSE, text |-> NoText]
  OBVIOUS
<1>2. p \in Page /\ shown \in Shown
  BY <1>1 DEF PageOk, Page, Shown, Text
<1>3. q = [p EXCEPT !.shown = shown, !.running = FALSE]
  BY <1>1 DEF ShowFailure
<1>4. /\ q \in Page /\ q.request = p.request /\ q.requestId = p.requestId
      /\ q.runId = p.runId /\ q.tasks = p.tasks /\ q.intent = p.intent /\ q.doc = p.doc
      /\ q.replace = p.replace /\ q.outbox = p.outbox /\ q.shown = shown
      /\ q.posted = p.posted /\ q.latched = p.latched
  BY <1>2, <1>3 DEF Page
<1>5. ShownSound(q, runs)
  BY <1>1, <1>4 DEF ShownSound
<1>6. Sound(q, Wire(s, p), k, h, runs)
  BY <1>4, <1>5, OtherFields DEF Flow
<1>7. Flow(q, s, k, h, runs, FALSE) /\ PageOk(q, asked, out)
  BY <1>4, <1>6, SameTasksKeep DEF Flow, Wire
<1>8. CASE q.request = NoRequest
  BY <1>1, <1>7, <1>8 DEF OnError
<1>9. CASE q.request # NoRequest
  <2>1. q.tasks # <<>>
    BY <1>7, <1>9 DEF PageOk
  <2> QED BY <1>1, <1>7, <1>9, <2>1, RejectFlows DEF OnError
<1> QED BY <1>8, <1>9

LEMMA MessageFlows ==
  ASSUME NEW asked, NEW out, NEW p, PageOk(p, asked, out),
         NEW s \in Seq(Command), NEW k, NEW h, NEW runs, NEW free \in BOOLEAN,
         Flow(p, s, k, h, runs, free), h # <<>>, free => Accepted(h) /\ NoFailure(h)
  PROVE  Flow(OnPageMessage(p, Head(h)), s, k, Tail(h), runs, free)
<1>1. PICK m : m = Head(h)
  OBVIOUS
<1>2. 1 \in 1..Len(h) /\ m = h[1] /\ m \in Posts
  BY <1>1, TailFacts DEF Flow, Sound
<1>3. CASE m.type = "answer"
  <2>1. free => m.ok
    BY <1>2, <1>3 DEF Accepted
  <2> QED BY <1>1, <1>3, <2>1, AnswerFlows DEF OnPageMessage
<1>4. CASE m.type = "result"
  BY <1>1, <1>4, ResultFlows DEF OnPageMessage
<1>5. CASE m.type = "failure"
  <2>1. ~free
    BY <1>2, <1>5 DEF NoFailure
  <2>2. Flow(p, s, k, Tail(h), runs, FALSE)
    BY HostTail DEF Flow
  <2>3. Flow(OnError(p), s, k, Tail(h), runs, FALSE)
    BY <2>2, ErrorFlows
  <2> QED BY <1>1, <1>5, <2>1, <2>3 DEF OnPageMessage, Flow
<1> QED BY <1>2, <1>3, <1>4, <1>5, PostCases

-----------------------------------------------------------------------------
(* Timers and the user                                                     *)

(* The texts of the runs there are stay what they are.                     *)
LEMMA MoreRuns ==
  ASSUME NEW runs \in Runs, NEW run \in [text : Texts, edit : Nat], NEW runs2,
         runs2 = Append(runs, run), NEW p, NEW s, NEW k, NEW h
  PROVE  /\ runs2 \in Runs /\ Len(runs) \in Nat /\ Len(runs2) = Len(runs) + 1
         /\ OfRun(runs2, Len(runs) + 1, run.text)
         /\ \A r, text : OfRun(runs, r, text) => OfRun(runs2, r, text)
         /\ QueueSound(k, runs) => QueueSound(k, runs2)
         /\ ShownSound(p, runs) => ShownSound(p, runs2)
         /\ ResultsSound(h, runs) => ResultsSound(h, runs2)
         /\ RunsSound(s, k, runs) => RunsSound(s, k, runs2)
<1>1. /\ runs2 \in Runs /\ Len(runs) \in Nat /\ Len(runs2) = Len(runs) + 1
      /\ runs2[Len(runs) + 1] = run /\ \A i \in 1..Len(runs) : runs2[i] = runs[i]
  BY AppendFacts DEF Runs
<1>2. \A i \in 1..Len(runs) : i \in 1..Len(runs2)
  BY <1>1
<1>3. \A r, text : OfRun(runs, r, text) => OfRun(runs2, r, text)
  BY <1>1, <1>2 DEF OfRun
<1>4. OfRun(runs2, Len(runs) + 1, run.text)
  BY <1>1 DEF OfRun
<1>5. RunsSound(s, k, runs) => RunsSound(s, k, runs2)
  BY <1>1, <1>2 DEF RunsSound
<1> QED BY <1>1, <1>3, <1>4, <1>5 DEF QueueSound, ShownSound, ResultsSound

(* The task of a new run makes the one under way obsolete.                 *)
LEMMA QueuedFlows ==
  ASSUME NEW asked, NEW out, NEW p, PageOk(p, asked, out),
         NEW s \in Seq(Command), NEW k, NEW h, NEW runs, NEW free,
         Flow(p, s, k, h, runs, free), NEW run \in [text : Texts, edit : Nat],
         run.text = p.text, NEW runs2, runs2 = Append(runs, run)
  PROVE  Flow(Queued(p), s, k, h, runs2, free)
<1>1. PICK q, w, task : q = Queued(p) /\ w = Wire(s, p) /\ task = NewTask(p)
  OBVIOUS
<1>2. /\ q \in Page /\ q.request = p.request /\ q.outbox = p.outbox
      /\ q.requestId = p.requestId /\ q.shown = p.shown /\ q.doc = p.doc
      /\ q.replace = p.replace /\ q.runId = p.runId + 1 /\ q.intent = p.intent + 1
      /\ q.tasks = Append(p.tasks, task) /\ task \in PageTask
  <2>1. PageOk(q, asked, out)
    BY <1>1, QueuedKeeps
  <2>2. p \in Page /\ q \in Page
    BY <2>1 DEF PageOk
  <2> QED BY <1>1, <2>2, QueuedFields
<1>3. /\ p \in Page /\ w \in Seq(Command) /\ k \in Kernel /\ h \in Seq(Posts) /\ runs \in Runs
      /\ p.runId = Len(runs) /\ p.intent \in Nat /\ p.tasks \in Seq(PageTask)
      /\ Sound(p, w, k, h, runs) /\ task.runId = p.runId + 1 /\ task.text = p.text
  BY <1>1 DEF Flow, Sound, TasksSound, Page, NewTask
<1>4. PICK t, n : t = q.tasks /\ n = Len(p.tasks)
  OBVIOUS
<1>5. /\ n \in Nat /\ Len(t) = n + 1 /\ t[n + 1] = task
      /\ \A i \in 1..n : t[i] = p.tasks[i]
      /\ \A i \in 1..Len(t) : i \in 1..n \/ i = n + 1
  BY <1>2, <1>3, <1>4, AppendFacts
<1>6. /\ runs2 \in Runs /\ Len(runs) \in Nat /\ Len(runs2) = Len(runs) + 1
      /\ OfRun(runs2, Len(runs) + 1, run.text)
      /\ \A r, text : OfRun(runs, r, text) => OfRun(runs2, r, text)
      /\ QueueSound(k, runs2) /\ ShownSound(p, runs2) /\ ResultsSound(h, runs2)
      /\ RunsSound(w, k, runs2)
  BY <1>3, MoreRuns DEF Sound
<1>7. TasksSound(q, runs2)
  <2> SUFFICES ASSUME NEW i \in 1..Len(t) PROVE OfRun(runs2, t[i].runId, t[i].text)
    BY <1>2, <1>3, <1>4, <1>6 DEF TasksSound
  <2>1. CASE i \in 1..n
    BY <1>3, <1>4, <1>5, <1>6, <2>1 DEF Sound, TasksSound
  <2>2. CASE i = n + 1
    BY <1>3, <1>5, <1>6, <2>2
  <2> QED BY <1>5, <2>1, <2>2
<1>8. ASSUME p.request # NoRequest
      PROVE  Task(q) = Task(p) /\ IsObsolete(q)
  <2>1. n >= 1 /\ 1 \in 1..n /\ Task(p) = p.tasks[1] /\ Task(p) \in PageTask
    BY <1>3, <1>4, <1>8, TailFacts DEF PageOk, Task
  <2>2. t[1] = p.tasks[1] /\ Head(t) = t[1]
    BY <1>2, <1>3, <1>4, <1>5, <2>1
  <2>3. p.tasks[1].intent <= p.intent /\ p.tasks[1].intent \in Nat
    BY <1>4, <2>1 DEF PageOk, TasksOrdered, PageTask
  <2> QED BY <1>2, <1>3, <1>4, <2>1, <2>2, <2>3 DEF Task, IsObsolete
<1>9. AsksSound(q, w)
  <2>1. CASE p.request = NoRequest
    <3>1. \A i \in 1..Len(w) : ~IsCurrent(q, w[i])
      BY <1>2, <1>3, <2>1, NothingCurrent
    <3> QED BY <1>2, <1>3, <3>1 DEF Sound, AsksSound
  <2>2. CASE p.request # NoRequest
    BY <1>2, <1>3, <1>8, <2>2 DEF Sound, AsksSound, IsCurrent
  <2> QED BY <2>1, <2>2
<1>10. AnswersSound(q, w, k, h)
  <2>1. CASE p.request = NoRequest
    <3>1. \A i \in 1..Len(h) : h[i].type = "answer" => h[i].requestId # q.request.id
      BY <1>2, <1>3, <2>1, NothingCurrent
    <3> QED BY <1>2, <1>3, <3>1 DEF Sound, AnswersSound
  <2>2. CASE p.request # NoRequest
    BY <1>2, <1>3, <1>8, <2>2 DEF Sound, AnswersSound
  <2> QED BY <2>1, <2>2
<1>11. KnowsOpened(q)
  BY <1>2, <1>8 DEF KnowsOpened, NoRequest
<1>12. DocSound(q, w, k) /\ ShownSound(q, runs2) /\ q.requestId >= q.request.id
  BY <1>2, <1>3, <1>6 DEF Sound, DocSound, Usable, ShownSound
<1>13. Sound(q, w, k, h, runs2)
  BY <1>2, <1>3, <1>6, <1>7, <1>9, <1>10, <1>11, <1>12 DEF Sound
<1>14. ASSUME free PROVE Unrefused(q, w, k)
  <2>1. Unrefused(p, w, k)
    BY <1>1, <1>14 DEF Flow
  <2>2. task.runId \notin RunIds(k)
    <3>1. DOMAIN k.queue = 1..Len(k.queue)
      BY <1>3 DEF Kernel
    <3>2. \A i \in 1..Len(k.queue) : k.queue[i].runId # task.runId
      BY <1>3, <1>6 DEF Sound, QueueSound, OfRun
    <3> QED BY <3>1, <3>2 DEF RunIds
  <2>3. \A j \in 1..Len(w) : ~IsRun(w[j], task.runId)
    BY <1>3, <1>6 DEF Sound, RunsSound, IsRun
  <2>4. TasksFresh(q, w, k)
    BY <1>4, <1>5, <2>1, <2>2, <2>3 DEF Unrefused, TasksFresh
  <2> QED BY <1>2, <2>1, <2>4 DEF Unrefused, AsksFit, DocFits, Usable
<1> QED BY <1>1, <1>2, <1>13, <1>14 DEF Flow, Wire

LEMMA ExecuteFlows ==
  ASSUME NEW asked, NEW out, NEW p, PageOk(p, asked, out),
         NEW s \in Seq(Command), NEW k, NEW h, NEW runs, NEW free,
         Flow(p, s, k, h, runs, free), NEW run \in [text : Texts, edit : Nat],
         run.text = p.text, NEW runs2, runs2 = Append(runs, run)
  PROVE  Flow(Execute(p), s, k, h, runs2, free)
<1>1. Flow(Queued(p), s, k, h, runs2, free) /\ PageOk(Queued(p), asked, out)
  BY QueuedFlows, QueuedKeeps
<1>2. CASE p.tasks = <<>>
  BY <1>1, <1>2, QueuedKeeps, StartTasksFlow
<1>3. CASE p.tasks # <<>>
  BY <1>1, <1>3, QueuedKeeps
<1> QED BY <1>2, <1>3

-----------------------------------------------------------------------------
(* The steps of the page                                                   *)

LEMMA PageSettles ==
  ASSUME NEW q, PostOutbox(q), kernel' = kernel, NEW h, NEW runs, NEW free,
         Flow(q, toKernel, kernel, h, runs, free)
  PROVE  /\ Sound(page', toKernel', kernel', h, runs)
         /\ free => Unrefused(page', toKernel', kernel')
<1>1. PICK u, w : u = [q EXCEPT !.outbox = <<>>] /\ w = Wire(toKernel, q)
  OBVIOUS
<1>2. page' = u /\ toKernel' = w
  BY <1>1 DEF PostOutbox, Wire
<1>3. q \in Page /\ Sound(q, w, kernel, h, runs) /\ ShownSound(q, runs)
      /\ (free => Unrefused(q, w, kernel))
  BY <1>1 DEF Flow, Sound
<1>4. /\ u \in Page /\ u.request = q.request /\ u.requestId = q.requestId
      /\ u.runId = q.runId /\ u.tasks = q.tasks /\ u.intent = q.intent /\ u.doc = q.doc
      /\ u.replace = q.replace /\ u.shown = q.shown
  <2>1. PICK none : none = <<>>
    OBVIOUS
  <2>2. none \in Seq(Command) /\ u = [q EXCEPT !.outbox = none] /\ q \in Page
    BY <1>1, <1>3, <2>1
  <2>3. u \in Page
    BY <2>2 DEF Page
  <2> QED BY <2>2, <2>3 DEF Page
<1>5. ShownSound(u, runs)
  BY <1>3, <1>4 DEF ShownSound
<1>6. Sound(u, w, kernel, h, runs) /\ (free => Unrefused(u, w, kernel))
  BY <1>3, <1>4, <1>5, OtherFields
<1> QED BY <1>2, <1>6

LEMMA PageFlows ==
  ASSUME RunsInv
  PROVE  Flow(page, toKernel, kernel, toHost, past.runs, ~past.faulty /\ kernel.up)
<1>1. toKernel \in Seq(Command) /\ page.outbox = <<>>
  BY DEF RunsInv, CancelInv, TypeInv
<1>2. Wire(toKernel, page) = toKernel
  BY <1>1 DEF Wire
<1> QED BY <1>2 DEF Flow, RunsInv

LEMMA PageStepRuns ==
  ASSUME CancelInv', NEW q, PostOutbox(q), kernel' = kernel,
         Flow(q, toKernel, kernel, toHost', past'.runs, ~past'.faulty /\ kernel.up),
         ~past'.faulty => Accepted(toHost'),
         ~past'.faulty /\ kernel.up => NoFailure(toHost')
  PROVE  RunsInv'
<1>1. PICK free : free = (~past'.faulty /\ kernel.up)
  OBVIOUS
<1>2. Flow(q, toKernel, kernel, toHost', past'.runs, free)
  BY <1>1
<1>3. /\ Sound(page', toKernel', kernel', toHost', past'.runs)
      /\ free => Unrefused(page', toKernel', kernel')
  BY <1>2, PageSettles
<1> QED BY <1>1, <1>3 DEF RunsInv

LEMMA TailAccepted ==
  ASSUME NEW h \in Seq(Posts), h # <<>>
  PROVE  /\ Accepted(h) => Accepted(Tail(h))
         /\ NoFailure(h) => NoFailure(Tail(h))
<1>1. PICK t : t = Tail(h)
  OBVIOUS
<1>2. \A i \in 1..Len(t) : i + 1 \in 1..Len(h) /\ t[i] = h[i + 1]
  BY <1>1, TailFacts
<1> QED BY <1>1, <1>2 DEF Accepted, NoFailure

LEMMA AppendAccepted ==
  ASSUME NEW h \in Seq(Posts), NEW m \in Posts
  PROVE  /\ Accepted(h) /\ (m.type = "result" => m.text # NoText) /\ (m.type = "answer" => m.ok)
              => Accepted(Append(h, m))
         /\ NoFailure(h) /\ m.type # "failure" => NoFailure(Append(h, m))
<1>1. PICK t : t = Append(h, m)
  OBVIOUS
<1>2. \A i \in 1..Len(t) : (i \in 1..Len(h) /\ t[i] = h[i]) \/ t[i] = m
  BY <1>1, AppendFacts
<1> QED BY <1>1, <1>2 DEF Accepted, NoFailure

LEMMA DeliverToPageRuns ==
  ASSUME RunsInv, CancelInv', DeliverToPage PROVE RunsInv'
<1>1. /\ toHost \in Seq(Posts) /\ toHost # <<>> /\ toHost' = Tail(toHost)
      /\ kernel' = kernel /\ past' = past /\ toKernel \in Seq(Command)
      /\ past.faulty \in BOOLEAN /\ kernel.up \in BOOLEAN
      /\ PostOutbox(OnPageMessage(page, Head(toHost)))
      /\ PageOk(page, past.asked, Out)
  BY DEF DeliverToPage, RunsInv, CancelInv, TypeInv, Past, Kernel
<1>2. PICK free, q, runs : /\ free = (~past.faulty /\ kernel.up) /\ runs = past.runs
                           /\ q = OnPageMessage(page, Head(toHost))
  OBVIOUS
<1>3. Flow(page, toKernel, kernel, toHost, runs, free) /\ free \in BOOLEAN
  BY <1>1, <1>2, PageFlows
<1>4. free => Accepted(toHost) /\ NoFailure(toHost)
  BY <1>2 DEF RunsInv
<1>5. Flow(q, toKernel, kernel, Tail(toHost), runs, free)
  BY <1>1, <1>2, <1>3, <1>4, MessageFlows
<1>6. ~past.faulty => Accepted(toHost')
  BY <1>1, TailAccepted DEF RunsInv
<1>7. free => NoFailure(toHost')
  BY <1>1, <1>4, TailAccepted
<1> QED BY <1>1, <1>2, <1>5, <1>6, <1>7, PageStepRuns

LEMMA OtherFlows ==
  ASSUME NEW p, NEW s, NEW k, NEW h, NEW runs, NEW free, Flow(p, s, k, h, runs, free),
         NEW q \in Page, q.request = p.request, q.requestId = p.requestId, q.runId = p.runId,
         q.tasks = p.tasks, q.intent = p.intent, q.doc = p.doc, q.replace = p.replace,
         q.shown = p.shown, q.outbox = p.outbox
  PROVE  Flow(q, s, k, h, runs, free)
<1>1. PICK w : w = Wire(s, p)
  OBVIOUS
<1>2. Sound(p, w, k, h, runs) /\ (free => Unrefused(p, w, k)) /\ Wire(s, q) = w
  BY <1>1 DEF Flow, Wire
<1>3. ShownSound(q, runs)
  BY <1>2 DEF Sound, ShownSound
<1>4. Sound(q, w, k, h, runs) /\ (free => Unrefused(q, w, k))
  BY <1>2, <1>3, OtherFields
<1> QED BY <1>2, <1>4 DEF Flow

LEMMA PastFacts ==
  ASSUME past \in Past, NEW e, e \in {past, Event}
  PROVE  /\ e.runs = past.runs /\ e.faulty = past.faulty /\ e \in Past
         /\ Fault.runs = past.runs /\ Fault.faulty = TRUE
         /\ [e EXCEPT !.runs = RecordRun].runs = RecordRun
         /\ [e EXCEPT !.runs = RecordRun].faulty = past.faulty
<1>1. PICK n, runs : n = past.events + 1 /\ runs = RecordRun
  OBVIOUS
<1>2. Event = [past EXCEPT !.events = n] /\ Fault = [Event EXCEPT !.faulty = TRUE]
  BY <1>1 DEF Event, Fault
<1>3. /\ Event \in Past /\ Event.runs = past.runs /\ Event.faulty = past.faulty
  BY <1>1, <1>2, EventFacts DEF Past
<1>4. Fault.runs = past.runs /\ Fault.faulty = TRUE
  BY <1>2, <1>3 DEF Past
<1>5. e \in Past /\ e.runs = past.runs /\ e.faulty = past.faulty
  BY <1>3
<1>6. [e EXCEPT !.runs = runs].runs = runs /\ [e EXCEPT !.runs = runs].faulty = e.faulty
  BY <1>5 DEF Past
<1> QED BY <1>1, <1>4, <1>5, <1>6

(* The page runs what it shows.                                            *)
LEMMA ExecuteRuns ==
  ASSUME RunsInv, CancelInv', NEW q, PageOk(q, past.asked, Out), q.text = page.text,
         Flow(q, toKernel, kernel, toHost, past.runs, ~past.faulty /\ kernel.up),
         PostOutbox(Execute(q)), kernel' = kernel, toHost' = toHost,
         NEW e, e \in {past, Event}, past' = [e EXCEPT !.runs = RecordRun]
  PROVE  RunsInv'
<1>1. PICK free, runs, run, runs2, p :
        /\ free = (~past.faulty /\ kernel.up) /\ runs = past.runs
        /\ run = [text |-> page.text, edit |-> page.edit] /\ runs2 = Append(runs, run)
        /\ p = Execute(q)
  OBVIOUS
<1>2. past \in Past /\ page \in Page /\ toKernel \in Seq(Command)
  BY DEF RunsInv, CancelInv, TypeInv
<1>3. run \in [text : Texts, edit : Nat] /\ run.text = q.text
  BY <1>1, <1>2 DEF Page
<1>4. Flow(q, toKernel, kernel, toHost, runs, free)
  BY <1>1
<1>5. Flow(p, toKernel, kernel, toHost, runs2, free)
  BY <1>1, <1>2, <1>3, <1>4, ExecuteFlows
<1>6. past'.runs = runs2 /\ past'.faulty = past.faulty
  BY <1>1, <1>2, PastFacts DEF RecordRun
<1> QED BY <1>1, <1>5, <1>6, PageStepRuns DEF RunsInv

LEMMA DebounceRuns ==
  ASSUME RunsInv, CancelInv', DebounceElapses PROVE RunsInv'
<1>1. PICK q : q = [page EXCEPT !.due = FALSE]
  OBVIOUS
<1>2. page \in Page /\ PageOk(page, past.asked, Out)
  BY DEF RunsInv, CancelInv, TypeInv
<1>3. /\ q \in Page /\ q.tasks = page.tasks /\ q.request = page.request
      /\ q.outbox = page.outbox /\ q.runId = page.runId /\ q.intent = page.intent
      /\ q.posted = page.posted /\ q.latched = page.latched /\ q.requestId = page.requestId
      /\ q.doc = page.doc /\ q.replace = page.replace /\ q.shown = page.shown
      /\ q.text = page.text
  BY <1>1, <1>2 DEF Page
<1>4. PageOk(q, past.asked, Out)
  BY <1>2, <1>3, SameTasksKeep DEF PageOk
<1>5. Flow(q, toKernel, kernel, toHost, past.runs, ~past.faulty /\ kernel.up)
  BY <1>3, PageFlows, OtherFlows
<1>6. /\ PostOutbox(Execute(q)) /\ kernel' = kernel /\ toHost' = toHost
      /\ past' = [past EXCEPT !.runs = RecordRun]
  BY <1>1 DEF DebounceElapses
<1> QED BY <1>3, <1>4, <1>5, <1>6, ExecuteRuns

LEMMA UserRunsRuns ==
  ASSUME RunsInv, CancelInv', UserRuns PROVE RunsInv'
<1>1. PageOk(page, past.asked, Out)
  BY DEF RunsInv, CancelInv
<1>2. Flow(page, toKernel, kernel, toHost, past.runs, ~past.faulty /\ kernel.up)
  BY PageFlows
<1>3. /\ PostOutbox(Execute(page)) /\ kernel' = kernel /\ toHost' = toHost
      /\ past' = [Event EXCEPT !.runs = RecordRun]
  BY DEF UserRuns, Act
<1> QED BY <1>1, <1>2, <1>3, ExecuteRuns

LEMMA TimeoutRuns ==
  ASSUME RunsInv, CancelInv', CommandTimesOut PROVE RunsInv'
<1>1. /\ page.tasks # <<>> /\ PageOk(page, past.asked, Out) /\ toKernel \in Seq(Command)
      /\ past \in Past /\ PostOutbox(Reject(page)) /\ kernel' = kernel /\ toHost' = toHost
  BY DEF CommandTimesOut, RunsInv, CancelInv, PageOk, TypeInv
<1>2. PICK free, runs, q, none : /\ free = (~past.faulty /\ kernel.up) /\ runs = past.runs
                                 /\ q = Reject(page) /\ none = (~past'.faulty /\ kernel.up)
  OBVIOUS
<1>3. /\ past'.runs = runs /\ ~none
      /\ ~past'.faulty => ~past.faulty
  BY <1>1, <1>2, PastFacts DEF CommandTimesOut
<1>4. Flow(page, toKernel, kernel, toHost, runs, free)
  BY <1>2, PageFlows
<1>5. Flow(page, toKernel, kernel, toHost, runs, FALSE)
  BY <1>4 DEF Flow
<1>6. Flow(q, toKernel, kernel, toHost, runs, FALSE)
  BY <1>1, <1>2, <1>5, RejectFlows
<1>7. Flow(q, toKernel, kernel, toHost, runs, none)
  BY <1>3, <1>6 DEF Flow
<1> QED BY <1>1, <1>2, <1>3, <1>7, PageStepRuns DEF RunsInv

(* One more message to the page.                                           *)
LEMMA HostAppend ==
  ASSUME NEW p, NEW s, NEW k, NEW h, NEW runs, Sound(p, s, k, h, runs), NEW m \in Posts,
         m.type = "result" /\ m.ok => OfRun(runs, m.runId, m.text),
         m.type = "answer" =>
           /\ m.requestId <= p.requestId
           /\ m.requestId = p.request.id =>
                /\ NoAsks(s)
                /\ m.ok /\ p.request.step \in {"open", "change"} =>
                     k.session # 0 /\ m.revision = k.revision /\ k.text = Task(p).text
  PROVE  Sound(p, s, k, Append(h, m), runs)
<1>1. PICK t : t = Append(h, m)
  OBVIOUS
<1>2. /\ t \in Seq(Posts)
      /\ \A i \in 1..Len(t) : (i \in 1..Len(h) /\ t[i] = h[i]) \/ t[i] = m
  BY <1>1, AppendFacts DEF Sound
<1>3. ResultsSound(t, runs)
  BY <1>2 DEF Sound, ResultsSound
<1>4. AnswersSound(p, s, k, t)
  BY <1>2 DEF Sound, AnswersSound
<1> QED BY <1>1, <1>2, <1>3, <1>4 DEF Sound

LEMMA FailureTold ==
  ASSUME RunsInv, NEW h, h = Append(toHost, [type |-> "failure", requestId |-> 0, runId |-> 0,
                                             ok |-> FALSE, revision |-> 0, text |-> NoText])
  PROVE  /\ Sound(page, toKernel, kernel, h, past.runs)
         /\ ~past.faulty => Accepted(h)
<1>1. PICK m : m = [type |-> "failure", requestId |-> 0, runId |-> 0, ok |-> FALSE,
                    revision |-> 0, text |-> NoText]
  OBVIOUS
<1>2. m \in Posts /\ m.type = "failure" /\ h = Append(toHost, m) /\ toHost \in Seq(Posts)
  BY <1>1 DEF Posts, OtherPost, Text, RunsInv, CancelInv, TypeInv
<1>3. Sound(page, toKernel, kernel, h, past.runs)
  BY <1>2, HostAppend DEF RunsInv
<1> QED BY <1>2, <1>3, AppendAccepted DEF RunsInv

LEMMA UncaughtRuns ==
  ASSUME RunsInv, CancelInv', UncaughtError PROVE RunsInv'
<1>1. page' = page /\ toKernel' = toKernel /\ kernel' = kernel /\ past' = Fault /\ past \in Past
  BY DEF UncaughtError, RunsInv, CancelInv, TypeInv
<1>2. past'.runs = past.runs /\ past'.faulty = TRUE
  BY <1>1, PastFacts
<1>3. Sound(page, toKernel, kernel, toHost', past.runs)
  BY FailureTold DEF UncaughtError
<1>4. Sound(page, toKernel, kernel, toHost, past.runs)'
  BY <1>1, <1>2, <1>3
<1> QED BY <1>2, <1>4 DEF RunsInv

LEMMA WorkerDoesNotStartRuns ==
  ASSUME RunsInv, CancelInv', WorkerDoesNotStart PROVE RunsInv'
<1>1. PICK k, h : k = kernel' /\ h = toHost'
  OBVIOUS
<1>2. /\ page' = page /\ past' = past /\ toKernel' = toKernel
      /\ k = [kernel EXCEPT !.up = FALSE] /\ kernel \in Kernel
  BY <1>1 DEF WorkerDoesNotStart, Fail, pageVars, RunsInv, CancelInv, TypeInv
<1>3. /\ k \in Kernel /\ k.session = kernel.session /\ k.revision = kernel.revision
      /\ k.text = kernel.text /\ k.queue = kernel.queue /\ ~k.up
  BY <1>2 DEF Kernel
<1>4. Sound(page, toKernel, kernel, h, past.runs) /\ (~past.faulty => Accepted(h))
  BY <1>1, FailureTold DEF WorkerDoesNotStart, Fail
<1>5. Sound(page, toKernel, k, h, past.runs)
  BY <1>3, <1>4 DEF Sound, QueueSound, RunsSound, Agrees, DocSound, AnswersSound
<1>6. Sound(page, toKernel, kernel, toHost, past.runs)'
  BY <1>1, <1>2, <1>5
<1> QED BY <1>1, <1>2, <1>3, <1>4, <1>6 DEF RunsInv

LEMMA UserEditsRuns ==
  ASSUME RunsInv, CancelInv', NEW text \in Texts, UserEdits(text) PROVE RunsInv'
<1>1. PICK q, n : q = Edit(page, text) /\ n = page.edit + 1
  OBVIOUS
<1>2. page \in Page /\ past \in Past
  BY DEF RunsInv, CancelInv, TypeInv
<1>3. q = [page EXCEPT !.text = text, !.edit = n, !.due = TRUE] /\ n \in Nat
  BY <1>1, <1>2 DEF Edit, Page
<1>4. /\ q \in Page /\ q.tasks = page.tasks /\ q.request = page.request
      /\ q.outbox = page.outbox /\ q.runId = page.runId /\ q.intent = page.intent
      /\ q.requestId = page.requestId /\ q.doc = page.doc /\ q.replace = page.replace
      /\ q.shown = page.shown
  BY <1>2, <1>3 DEF Page
<1>5. /\ PostOutbox(q) /\ kernel' = kernel /\ toHost' = toHost
      /\ past'.runs = past.runs /\ past'.faulty = past.faulty
  BY <1>1, <1>2, PastFacts DEF UserEdits, Act
<1>6. Flow(q, toKernel, kernel, toHost, past.runs, ~past.faulty /\ kernel.up)
  BY <1>4, PageFlows, OtherFlows
<1> QED BY <1>5, <1>6, PageStepRuns DEF RunsInv

(* What the page knew of the document is forgotten, and the task that is   *)
(* under way is obsolete.                                                  *)
LEMMA UserSelectsFixtureRuns ==
  ASSUME RunsInv, CancelInv', UserSelectsFixture PROVE RunsInv'
<1>1. PICK q, e, n : /\ q = [Edit(page, FixtureText) EXCEPT !.intent = @ + 1, !.replace = TRUE,
                                                            !.doc = NoDocument]
                     /\ e = page.edit + 1 /\ n = page.intent + 1
  OBVIOUS
<1>2. /\ page \in Page /\ past \in Past /\ PageOk(page, past.asked, Out) /\ FixtureText \in Texts
      /\ NoDocument \in [revision : Nat, text : Text]
  BY PlaygroundAssumption DEF RunsInv, CancelInv, TypeInv, NoDocument, Text
<1>3. /\ q = [page EXCEPT !.text = FixtureText, !.edit = e, !.due = TRUE, !.intent = n,
                          !.replace = TRUE, !.doc = NoDocument]
      /\ e \in Nat /\ n \in Nat /\ n > page.intent
  BY <1>1, <1>2 DEF Edit, Page
<1>4. /\ q.tasks = page.tasks /\ q.request = page.request
      /\ q.outbox = page.outbox /\ q.runId = page.runId /\ q.intent = n
      /\ q.requestId = page.requestId /\ q.doc = NoDocument /\ q.replace = TRUE
      /\ q.shown = page.shown
  BY <1>2, <1>3 DEF Page
<1>5. q \in Page
  <2>1. PICK u : u = [page EXCEPT !.text = FixtureText, !.edit = e, !.due = TRUE]
    OBVIOUS
  <2>2. u \in Page
    BY <1>2, <1>3, <2>1 DEF Page
  <2>3. PICK doc, replace : doc = NoDocument /\ replace = TRUE
    OBVIOUS
  <2>4. q = [u EXCEPT !.intent = n, !.replace = replace, !.doc = doc]
    BY <1>2, <1>3, <2>1, <2>3 DEF Page
  <2>5. doc \in [revision : Nat, text : Text] /\ replace \in BOOLEAN
    BY <1>2, <2>3
  <2> QED BY <1>3, <2>2, <2>4, <2>5 DEF Page
<1>6. /\ PostOutbox(q) /\ kernel' = kernel /\ toHost' = toHost
      /\ past'.runs = past.runs /\ past'.faulty = past.faulty
  BY <1>1, <1>2, PastFacts DEF UserSelectsFixture, Act
<1>7. PICK w, free : w = Wire(toKernel, page) /\ free = (~past.faulty /\ kernel.up)
  OBVIOUS
<1>8. /\ Sound(page, w, kernel, toHost, past.runs)
      /\ free => Unrefused(page, w, kernel)
  BY <1>7, PageFlows DEF Flow
<1>9. KnowsOpened(q)
  <2> SUFFICES ASSUME q.request.step = "subscribe" PROVE IsObsolete(q)
    BY DEF KnowsOpened
  <2>1. page.request # NoRequest
    BY <1>4 DEF NoRequest
  <2>2. page.tasks \in Seq(PageTask) /\ page.tasks # <<>>
    BY <1>2, <2>1 DEF PageOk, Page
  <2>3. Head(page.tasks) = page.tasks[1] /\ 1 \in 1..Len(page.tasks) /\ Head(page.tasks) \in PageTask
    BY <2>2, TailFacts
  <2>4. page.tasks[1].intent <= page.intent /\ page.tasks[1].intent \in Nat
    BY <1>2, <2>3 DEF PageOk, TasksOrdered, PageTask
  <2>5. page.intent \in Nat
    BY <1>2 DEF Page
  <2> QED BY <1>3, <1>4, <2>3, <2>4, <2>5 DEF IsObsolete, Task
<1>10. Sound(q, w, kernel, toHost, past.runs)
  BY <1>4, <1>5, <1>8, <1>9 DEF Sound, TasksSound, ShownSound, AsksSound, IsCurrent, DocSound,
     AnswersSound, Task
<1>11. free => Unrefused(q, w, kernel)
  BY <1>4, <1>8 DEF Unrefused, AsksFit, TasksFresh, DocFits
<1>12. Flow(q, toKernel, kernel, toHost, past.runs, free)
  BY <1>4, <1>7, <1>10, <1>11 DEF Flow, Wire
<1> QED BY <1>6, <1>7, <1>12, PageStepRuns DEF RunsInv

LEMMA UserCancelsRuns ==
  ASSUME RunsInv, CancelInv', UserCancels PROVE RunsInv'
<1>1. PICK ls, c, box, q :
        /\ ls = IF page.runId \in page.posted THEN page.latched ELSE page.latched \cup {page.runId}
        /\ c = Cancellation(page.runId) /\ box = Append(page.outbox, c)
        /\ q = [page EXCEPT !.latched = ls, !.outbox = box]
  OBVIOUS
<1>2. /\ page \in Page /\ past \in Past /\ page.outbox = <<>> /\ toKernel \in Seq(Command)
      /\ page.runId \in Nat
  BY DEF RunsInv, CancelInv, TypeInv, Page
<1>3. c \in CancelCommand /\ c \in Command
  BY <1>1, <1>2 DEF Cancellation, CancelCommand, Command
<1>4. ls \in SUBSET Nat /\ box \in Seq(Command)
  BY <1>1, <1>2, <1>3 DEF Page
<1>5. /\ q \in Page /\ q.tasks = page.tasks /\ q.request = page.request
      /\ q.outbox = box /\ q.runId = page.runId /\ q.intent = page.intent
      /\ q.requestId = page.requestId /\ q.doc = page.doc /\ q.replace = page.replace
      /\ q.shown = page.shown
  BY <1>1, <1>2, <1>4 DEF Page
<1>6. /\ PostOutbox(q) /\ kernel' = kernel /\ toHost' = toHost
      /\ past'.runs = past.runs /\ past'.faulty = past.faulty
  <2>1. [page EXCEPT !.latched = ls, !.outbox = Append(@, Cancellation(page.runId))] = q
    BY <1>1, <1>2 DEF Page
  <2>2. PostOutbox([page EXCEPT !.latched = ls, !.outbox = Append(@, Cancellation(page.runId))])
    BY <1>1, <1>2 DEF UserCancels, Act, Page
  <2>3. past' = [Event EXCEPT !.asked = @ \cup {page.runId}]
    BY DEF UserCancels
  <2>4. past'.runs = Event.runs /\ past'.faulty = Event.faulty
    BY <1>2, <2>3, PastFacts DEF Past
  <2> QED BY <1>2, <2>1, <2>2, <2>4, PastFacts DEF UserCancels, Act
<1>7. PICK w, free : w = Append(toKernel, c) /\ free = (~past.faulty /\ kernel.up)
  OBVIOUS
<1>8. Wire(toKernel, q) = w
  <2>1. toKernel \o page.outbox = toKernel
    BY <1>2
  <2> QED BY <1>1, <1>2, <1>3, <1>5, <1>7, <2>1, WireAppend DEF Wire
<1>9. /\ Sound(page, w, kernel, toHost, past.runs)
      /\ free => Unrefused(page, w, kernel)
  BY <1>3, <1>7, CancelSent DEF RunsInv
<1>10. ShownSound(q, past.runs)
  BY <1>5, <1>9 DEF Sound, ShownSound
<1>11. Flow(q, toKernel, kernel, toHost, past.runs, free)
  BY <1>5, <1>8, <1>9, <1>10, OtherFields DEF Flow
<1> QED BY <1>6, <1>7, <1>11, PageStepRuns DEF RunsInv

-----------------------------------------------------------------------------
(* The steps of the kernel                                                 *)

(* The kernel takes the first message.                                     *)
LEMMA WireTail ==
  ASSUME NEW p, NEW s, NEW k, NEW h, NEW runs, Sound(p, s, k, h, runs), s # <<>>
  PROVE  /\ Sound(p, Tail(s), k, h, runs)
         /\ Unrefused(p, s, k) => Unrefused(p, Tail(s), k)
<1>1. PICK t : t = Tail(s)
  OBVIOUS
<1>2. /\ t \in Seq(Command) /\ Len(s) \in Nat /\ Len(t) = Len(s) - 1
      /\ \A i \in 1..Len(t) : i + 1 \in 1..Len(s) /\ t[i] = s[i + 1]
  BY <1>1, TailFacts DEF Sound
<1>3. RunsSound(t, k, runs)
  <2> SUFFICES ASSUME NEW i \in 1..Len(t), t[i].type = "run"
               PROVE  /\ t[i].runId \in 1..Len(runs)
                      /\ Agrees(k, t[i].revision, runs[t[i].runId].text)
                      /\ \A j \in 1..i : t[j].type # "open"
    BY DEF RunsSound
  <2>1. \A j \in 1..i : t[j] = s[j + 1] /\ j + 1 \in 1..(i + 1)
    BY <1>2
  <2> QED BY <1>2, <2>1 DEF Sound, RunsSound
<1>4. AsksSound(p, t)
  <2>1. ASSUME NEW i \in 1..Len(t), IsCurrent(p, t[i]), NEW j \in 1..Len(t), j > i
        PROVE  ~IsAsk(t[j])
    <3>1. i + 1 \in 1..Len(s) /\ j + 1 \in 1..Len(s) /\ j + 1 > i + 1
      BY <1>2, <2>1
    <3> QED BY <1>2, <2>1, <3>1 DEF Sound, AsksSound
  <2>2. ASSUME NEW i \in 1..Len(t)
        PROVE  /\ IsAsk(t[i]) => t[i].requestId <= p.requestId
               /\ t[i].type = "change" =>
                    t[i].before = t[i].baseVersion /\ t[i].before \in Texts /\ t[i].after \in Texts
               /\ IsCurrent(p, t[i]) =>
                    /\ t[i].type = p.request.step
                    /\ t[i].type = "open" => t[i].text = Task(p).text
                    /\ t[i].type = "change" => t[i].after = Task(p).text
    <3>1. i + 1 \in 1..Len(s) /\ t[i] = s[i + 1] /\ AsksSound(p, s)
      BY <1>2 DEF Sound
    <3>2. PICK j \in 1..Len(s) : t[i] = s[j]
      BY <3>1
    <3> QED BY <3>1, <3>2 DEF AsksSound
  <2> QED BY <2>1, <2>2 DEF AsksSound
<1>5. (NoAsks(s) => NoAsks(t)) /\ (NoOpens(s) => NoOpens(t))
  BY <1>2 DEF NoAsks, NoOpens
<1>6. DocSound(p, t, k) /\ AnswersSound(p, t, k, h)
  BY <1>5 DEF Sound, DocSound, AnswersSound
<1>7. Sound(p, t, k, h, runs)
  BY <1>2, <1>3, <1>4, <1>6 DEF Sound
<1>8. ASSUME Unrefused(p, s, k) PROVE Unrefused(p, t, k)
  <2>1. AsksFit(p, t, k)
    BY <1>2, <1>8 DEF Unrefused, AsksFit
  <2>2. RunsFit(t, k)
    <3> SUFFICES ASSUME NEW i \in 1..Len(t), t[i].type = "run"
                 PROVE  /\ k.session # 0 /\ t[i].revision = k.revision /\ t[i].runId \notin RunIds(k)
                        /\ \A j \in 1..i : ~IsAsk(t[j])
                        /\ \A j \in 1..Len(t) : t[j].type = "run" /\ t[j].runId = t[i].runId => i = j
      BY DEF RunsFit
    <3>1. /\ k.session # 0 /\ s[i + 1].revision = k.revision /\ s[i + 1].runId \notin RunIds(k)
          /\ \A j \in 1..(i + 1) : ~IsAsk(s[j])
          /\ \A j \in 1..Len(s) : s[j].type = "run" /\ s[j].runId = s[i + 1].runId => i + 1 = j
      BY <1>2, <1>8 DEF Unrefused, RunsFit
    <3>2. \A j \in 1..i : t[j] = s[j + 1] /\ j + 1 \in 1..(i + 1)
      BY <1>2
    <3>3. ASSUME NEW j \in 1..Len(t), t[j].type = "run", t[j].runId = t[i].runId PROVE i = j
      <4>1. i + 1 = j + 1
        BY <1>2, <3>1, <3>3
      <4> QED BY <4>1
    <3> QED BY <1>2, <3>1, <3>2, <3>3
  <2>3. TasksFresh(p, t, k)
    BY <1>2, <1>8 DEF Unrefused, TasksFresh
  <2> QED BY <1>8, <2>1, <2>2, <2>3 DEF Unrefused
<1> QED BY <1>1, <1>7, <1>8

(* The kernel's document stays what it is.                                 *)
LEMMA SameDocument ==
  ASSUME NEW p, NEW s, NEW k, NEW h, NEW runs, Sound(p, s, k, h, runs), NEW k2 \in Kernel,
         k2.session = k.session, k2.revision = k.revision, k2.text = k.text,
         QueueSound(k2, runs)
  PROVE  /\ Sound(p, s, k2, h, runs)
         /\ Unrefused(p, s, k) /\ RunIds(k2) \subseteq RunIds(k) => Unrefused(p, s, k2)
<1>1. Sound(p, s, k2, h, runs)
  BY DEF Sound, RunsSound, Agrees, DocSound, AnswersSound
<1>2. ASSUME Unrefused(p, s, k), RunIds(k2) \subseteq RunIds(k) PROVE Unrefused(p, s, k2)
  BY <1>2 DEF Unrefused, AsksFit, RunsFit, TasksFresh, DocFits
<1> QED BY <1>1, <1>2

LEMMA WorkerStepRuns ==
  ASSUME RunsInv, CancelInv', UNCHANGED pageVars, kernel.up,
         Sound(page, toKernel', kernel', toHost', past.runs),
         ~past.faulty => /\ Accepted(toHost') /\ NoFailure(toHost')
                         /\ Unrefused(page, toKernel', kernel')
  PROVE  RunsInv'
<1>1. page' = page /\ past' = past
  BY DEF pageVars
<1>2. Sound(page, toKernel, kernel, toHost, past.runs)'
  BY <1>1
<1>3. ~past'.faulty => Accepted(toHost') /\ NoFailure(toHost') /\ Unrefused(page, toKernel, kernel)'
  BY <1>1
<1> QED BY <1>2, <1>3 DEF RunsInv

LEMMA HandleCancelRuns ==
  ASSUME RunsInv, CancelInv', HandleCancel, UNCHANGED pageVars PROVE RunsInv'
<1>1. /\ toKernel \in Seq(Command) /\ toKernel # <<>> /\ toKernel' = Tail(toKernel)
      /\ kernel \in Kernel /\ Message = Head(toKernel) /\ Message.type = "cancel" /\ kernel.up
      /\ kernel' \in Kernel
  BY DEF HandleCancel, Arrives, RunsInv, CancelInv, TypeInv, Message
<1>2. Message \in CancelCommand
  <2>1. Message \in Command
    BY <1>1, TailFacts
  <2> QED BY <1>1, <2>1, CommandCases
<1>3. PICK k, c : k = kernel' /\ c = kernel.cancelled \cup ({Message.runId} \cap RunIds(kernel))
  OBVIOUS
<1>4. k = [kernel EXCEPT !.cancelled = c] /\ toHost' = toHost
  BY <1>2, <1>3 DEF HandleCancel, CancelCommand
<1>5. /\ k \in Kernel /\ k.session = kernel.session /\ k.revision = kernel.revision
      /\ k.text = kernel.text /\ k.queue = kernel.queue
  BY <1>1, <1>3, <1>4 DEF Kernel
<1>6. RunIds(k) \subseteq RunIds(kernel) /\ QueueSound(k, past.runs)
  BY <1>5 DEF RunIds, RunsInv, Sound, QueueSound
<1>7. /\ Sound(page, Tail(toKernel), kernel, toHost, past.runs)
      /\ ~past.faulty => Unrefused(page, Tail(toKernel), kernel)
  BY <1>1, WireTail DEF RunsInv
<1>8. /\ Sound(page, Tail(toKernel), k, toHost, past.runs)
      /\ ~past.faulty => Unrefused(page, Tail(toKernel), k)
  BY <1>5, <1>6, <1>7, SameDocument
<1>9. ~past.faulty => Accepted(toHost') /\ NoFailure(toHost')
  BY <1>1, <1>4 DEF RunsInv
<1> QED BY <1>1, <1>3, <1>4, <1>8, <1>9, WorkerStepRuns

LEMMA EndRunRuns ==
  ASSUME RunsInv, CancelInv', EndRun(TRUE), UNCHANGED pageVars PROVE RunsInv'
<1>1. /\ kernel \in Kernel /\ kernel.queue \in Seq(KernelRun) /\ kernel.queue # <<>>
      /\ toKernel' = toKernel /\ toHost \in Seq(Posts) /\ kernel.up /\ kernel' \in Kernel
      /\ past.runs \in Runs
  BY DEF EndRun, RunsInv, CancelInv, TypeInv, Kernel, Past, Runs
<1>2. PICK run, q, c, m, k, ok :
        /\ run = Head(kernel.queue) /\ q = Tail(kernel.queue) /\ k = kernel'
        /\ c = kernel.cancelled \ {run.runId} /\ ok = (run.runId \notin kernel.cancelled)
        /\ m = Result(run, ok)
  OBVIOUS
<1>3. k = [kernel EXCEPT !.queue = q, !.cancelled = c] /\ toHost' = Append(toHost, m)
  BY <1>2 DEF EndRun
<1>4. /\ run \in KernelRun /\ run = kernel.queue[1] /\ q \in Seq(KernelRun)
      /\ 1 \in 1..Len(kernel.queue)
      /\ \A i \in 1..Len(q) : i + 1 \in 1..Len(kernel.queue) /\ q[i] = kernel.queue[i + 1]
  BY <1>1, <1>2, TailFacts
<1>5. /\ k \in Kernel /\ k.session = kernel.session /\ k.revision = kernel.revision
      /\ k.text = kernel.text /\ k.queue = q
  BY <1>1, <1>2, <1>3 DEF Kernel
<1>6. QueueSound(k, past.runs) /\ OfRun(past.runs, run.runId, run.text)
  BY <1>4, <1>5 DEF RunsInv, Sound, QueueSound
<1>7. RunIds(k) \subseteq RunIds(kernel)
  <2>1. DOMAIN q = 1..Len(q) /\ DOMAIN kernel.queue = 1..Len(kernel.queue)
    BY <1>1, <1>4
  <2> QED BY <1>4, <1>5, <2>1 DEF RunIds
<1>8. m \in Posts /\ m.type = "result" /\ m.runId = run.runId /\ m.text = run.text
  BY <1>2, <1>4 DEF Result, KernelRun, Posts, OtherPost
<1>9. run.text # NoText
  <2>1. \A i \in 1..Len(past.runs) : past.runs[i].text \in Texts
    <3>1. PICK runs, S : runs = past.runs /\ S = [text : Texts, edit : Nat]
      OBVIOUS
    <3>2. \A i \in 1..Len(runs) : runs[i] \in S
      <4>1. runs \in Seq(S)
        BY <1>1, <3>1 DEF Runs
      <4> QED BY <4>1
    <3> QED BY <3>1, <3>2
  <2> QED BY <1>6, <2>1, PlaygroundAssumption DEF OfRun
<1>10. /\ Sound(page, toKernel, k, toHost, past.runs)
       /\ ~past.faulty => Unrefused(page, toKernel, k)
  BY <1>1, <1>5, <1>6, <1>7, SameDocument DEF RunsInv
<1>11. Sound(page, toKernel, k, toHost', past.runs)
  BY <1>3, <1>6, <1>8, <1>10, HostAppend
<1>12. ~past.faulty => Accepted(toHost') /\ NoFailure(toHost')
  BY <1>1, <1>3, <1>8, <1>9, AppendAccepted DEF RunsInv
<1> QED BY <1>1, <1>2, <1>10, <1>11, <1>12, WorkerStepRuns

(* A run that is accepted captures the text the page ran.                  *)
LEMMA HandleRunRuns ==
  ASSUME RunsInv, CancelInv', HandleRun, UNCHANGED pageVars PROVE RunsInv'
<1>1. /\ toKernel \in Seq(Command) /\ toKernel # <<>> /\ toKernel' = Tail(toKernel)
      /\ kernel \in Kernel /\ Message = Head(toKernel) /\ Message.type = "run" /\ kernel.up
      /\ toHost \in Seq(Posts) /\ kernel' \in Kernel
  BY DEF HandleRun, Arrives, RunsInv, CancelInv, TypeInv, Message
<1>2. PICK m, t, runs : m = Message /\ t = Tail(toKernel) /\ runs = past.runs
  OBVIOUS
<1>3. /\ m \in RunCommand /\ m = toKernel[1] /\ 1 \in 1..Len(toKernel) /\ Len(toKernel) \in Nat
      /\ \A i \in 1..Len(t) : i + 1 \in 1..Len(toKernel) /\ t[i] = toKernel[i + 1]
  <2>1. m \in Command
    BY <1>1, <1>2, TailFacts
  <2> QED BY <1>1, <1>2, <2>1, CommandCases, TailFacts
<1>4. /\ Sound(page, toKernel, kernel, toHost, runs)
      /\ Sound(page, t, kernel, toHost, runs)
      /\ ~past.faulty => Unrefused(page, toKernel, kernel) /\ Unrefused(page, t, kernel)
      /\ ~past.faulty => Accepted(toHost) /\ NoFailure(toHost)
  BY <1>1, <1>2, WireTail DEF RunsInv
<1>5. /\ m.runId \in 1..Len(runs) /\ m.type = "run"
      /\ Agrees(kernel, m.revision, runs[m.runId].text)
  BY <1>1, <1>2, <1>3, <1>4 DEF Sound, RunsSound
<1>6. PICK run : run = Captured(kernel, m)
  OBVIOUS
<1>7. run \in KernelRun /\ run.runId = m.runId /\ run.text = kernel.text
  BY <1>1, <1>3, <1>6 DEF Captured, KernelRun, RunCommand, Kernel
<1>8. CASE AcceptsRun(kernel, m)
  <2>1. PICK k, q : k = kernel' /\ q = Append(kernel.queue, run)
    OBVIOUS
  <2>2. k = [kernel EXCEPT !.queue = q] /\ toHost' = toHost
    BY <1>2, <1>6, <1>8, <2>1 DEF HandleRun
  <2>3. /\ q \in Seq(KernelRun) /\ Len(kernel.queue) \in Nat
        /\ \A i \in 1..Len(q) : (i \in 1..Len(kernel.queue) /\ q[i] = kernel.queue[i]) \/ q[i] = run
    BY <1>1, <1>7, <2>1, AppendFacts DEF Kernel
  <2>4. /\ k \in Kernel /\ k.session = kernel.session /\ k.revision = kernel.revision
        /\ k.text = kernel.text /\ k.queue = q
    BY <1>1, <2>1, <2>2 DEF Kernel
  <2>5. OfRun(runs, run.runId, run.text)
    BY <1>5, <1>7, <1>8 DEF AcceptsRun, Agrees, OfRun
  <2>6. QueueSound(k, runs)
    BY <1>4, <2>3, <2>4, <2>5 DEF Sound, QueueSound
  <2>7. Sound(page, t, k, toHost, runs)
    BY <1>4, <2>4, <2>6, SameDocument
  <2>8. RunIds(k) \subseteq RunIds(kernel) \cup {m.runId}
    <3>1. DOMAIN q = 1..Len(q) /\ DOMAIN kernel.queue = 1..Len(kernel.queue)
      BY <1>1, <2>3 DEF Kernel
    <3> QED BY <1>7, <2>3, <2>4, <3>1 DEF RunIds
  <2>9. ASSUME ~past.faulty PROVE Unrefused(page, t, k)
    <3>1. \A i \in 1..Len(t) : t[i].type = "run" => t[i].runId # m.runId
      <4> SUFFICES ASSUME NEW i \in 1..Len(t), t[i].type = "run", t[i].runId = m.runId
                   PROVE  FALSE
        OBVIOUS
      <4>1. 1 = i + 1
        BY <1>3, <1>4, <1>5, <2>9 DEF Unrefused, RunsFit
      <4> QED BY <4>1
    <3>2. \A i \in 1..Len(page.tasks) : page.tasks[i].runId # m.runId
      BY <1>3, <1>4, <1>5, <2>9 DEF Unrefused, TasksFresh, IsRun
    <3>3. RunsFit(t, k)
      BY <1>4, <2>4, <2>8, <2>9, <3>1 DEF Unrefused, RunsFit
    <3>4. TasksFresh(page, t, k)
      BY <1>4, <2>8, <2>9, <3>2 DEF Unrefused, TasksFresh
    <3> QED BY <1>4, <2>4, <2>9, <3>3, <3>4 DEF Unrefused, AsksFit, DocFits
  <2> QED BY <1>1, <1>2, <1>4, <2>1, <2>2, <2>7, <2>9, WorkerStepRuns
<1>9. CASE ~AcceptsRun(kernel, m)
  <2>1. PICK r : r = Result([run EXCEPT !.text = NoText], FALSE)
    OBVIOUS
  <2>2. r \in Posts /\ r.type = "result" /\ ~r.ok
    BY <1>7, <2>1 DEF Result, KernelRun, Posts, OtherPost, Text
  <2>3. kernel' = kernel /\ toHost' = Append(toHost, r)
    BY <1>2, <1>6, <1>9, <2>1 DEF HandleRun
  <2>4. Sound(page, t, kernel, toHost', runs)
    BY <1>4, <2>2, <2>3, HostAppend
  <2>5. past.faulty
    <3> SUFFICES ASSUME ~past.faulty PROVE FALSE
      OBVIOUS
    <3>1. RunsFit(toKernel, kernel)
      BY <1>4 DEF Unrefused
    <3>2. kernel.session # 0 /\ m.revision = kernel.revision /\ m.runId \notin RunIds(kernel)
      BY <1>3, <1>5, <3>1 DEF RunsFit
    <3> QED BY <1>9, <3>2 DEF AcceptsRun
  <2> QED BY <1>1, <1>2, <2>3, <2>4, <2>5, WorkerStepRuns
<1> QED BY <1>8, <1>9

(* The kernel answers a command of a task: no run is behind it on the      *)
(* wire, and the task waits for nothing else.                              *)
LEMMA AskRuns ==
  ASSUME RunsInv, CancelInv', UNCHANGED pageVars, kernel.up, toKernel # <<>>,
         toKernel' = Tail(toKernel), NEW m, m = Head(toKernel), IsAsk(m),
         kernel'.queue = kernel.queue, NEW ok \in BOOLEAN,
         toHost' = Append(toHost, Answer(m, ok, kernel')),
         RunsSound(toKernel', kernel', past.runs), DocSound(page, toKernel', kernel'),
         IsCurrent(page, m) /\ ok /\ page.request.step \in {"open", "change"} =>
           kernel'.session # 0 /\ kernel'.text = Task(page).text,
         ~past.faulty => ok /\ DocFits(page, kernel')
  PROVE  RunsInv'
<1>1. PICK s, t, k, h, runs, a : /\ s = toKernel /\ t = Tail(s) /\ k = kernel' /\ h = toHost
                                 /\ runs = past.runs /\ a = Answer(m, ok, k)
  OBVIOUS
<1>2. /\ s \in Seq(Command) /\ k \in Kernel /\ h \in Seq(Posts) /\ Len(s) \in Nat
      /\ m = s[1] /\ 1 \in 1..Len(s) /\ m \in Command
      /\ \A i \in 1..Len(t) : i + 1 \in 1..Len(s) /\ t[i] = s[i + 1]
  <2>1. s \in Seq(Command) /\ k \in Kernel /\ h \in Seq(Posts) /\ s # <<>>
    BY <1>1 DEF RunsInv, CancelInv, TypeInv
  <2> QED BY <1>1, <2>1, TailFacts
<1>3. /\ a.type = "answer" /\ a.requestId = m.requestId /\ a.ok = ok /\ a.revision = k.revision
      /\ a \in Posts
  BY <1>1, <1>2, CommandCases, AnswerFacts DEF Answer
<1>4. /\ Sound(page, s, kernel, h, runs) /\ Sound(page, t, kernel, h, runs)
      /\ ~past.faulty => Unrefused(page, s, kernel) /\ Unrefused(page, t, kernel)
      /\ ~past.faulty => Accepted(h) /\ NoFailure(h)
  BY <1>1, WireTail DEF RunsInv
<1>5. IsCurrent(page, m) => NoAsks(t)
  <2> SUFFICES ASSUME IsCurrent(page, m), NEW i \in 1..Len(t) PROVE ~IsAsk(t[i])
    BY DEF NoAsks
  <2>1. i + 1 \in 1..Len(s) /\ i + 1 > 1 /\ t[i] = s[i + 1]
    BY <1>2
  <2> QED BY <1>2, <1>4, <2>1 DEF Sound, AsksSound
<1>6. AnswersSound(page, t, k, h)
  <2>1. \A i \in 1..Len(h) : h[i].type = "answer" => h[i].requestId # page.request.id
    BY <1>2, <1>4 DEF Sound, AnswersSound, NoAsks
  <2> QED BY <1>4, <2>1 DEF Sound, AnswersSound
<1>7. QueueSound(k, runs) /\ RunsSound(t, k, runs) /\ DocSound(page, t, k)
  BY <1>1, <1>4 DEF Sound, QueueSound
<1>8. Sound(page, t, k, h, runs)
  BY <1>2, <1>4, <1>6, <1>7 DEF Sound
<1>9. a.requestId <= page.requestId
  BY <1>2, <1>3, <1>4 DEF Sound, AsksSound
<1>10. a.requestId = page.request.id =>
         /\ NoAsks(t)
         /\ a.ok /\ page.request.step \in {"open", "change"} =>
              k.session # 0 /\ a.revision = k.revision /\ k.text = Task(page).text
  BY <1>1, <1>3, <1>5 DEF IsCurrent
<1>11. PICK h2 : h2 = Append(h, a)
  OBVIOUS
<1>12. Sound(page, t, k, h2, runs)
  BY <1>3, <1>8, <1>9, <1>10, <1>11, HostAppend
<1>13. ~past.faulty => Accepted(h2) /\ NoFailure(h2)
  BY <1>2, <1>3, <1>4, <1>11, AppendAccepted
<1>14. ASSUME ~past.faulty PROVE Unrefused(page, t, k)
  <2>1. m.requestId = page.request.id
    BY <1>2, <1>4, <1>14 DEF Unrefused, AsksFit
  <2>2. NoAsks(t)
    BY <1>5, <2>1 DEF IsCurrent
  <2>3. \A i \in 1..Len(t) : t[i].type # "run"
    <3> SUFFICES ASSUME NEW i \in 1..Len(t), t[i].type = "run" PROVE FALSE
      OBVIOUS
    <3>1. i + 1 \in 1..Len(s) /\ s[i + 1].type = "run" /\ 1 \in 1..(i + 1)
      BY <1>2
    <3>2. ~IsAsk(s[1])
      BY <1>4, <1>14, <3>1 DEF Unrefused, RunsFit
    <3> QED BY <1>2, <3>2
  <2>4. AsksFit(page, t, k) /\ RunsFit(t, k)
    BY <2>2, <2>3 DEF AsksFit, NoAsks, RunsFit
  <2>5. RunIds(k) = RunIds(kernel)
    BY <1>1 DEF RunIds
  <2>6. TasksFresh(page, t, k)
    BY <1>4, <1>14, <2>5 DEF Unrefused, TasksFresh
  <2>7. DocFits(page, k)
    BY <1>1, <1>14
  <2> QED BY <2>4, <2>6, <2>7 DEF Unrefused
<1>15. toKernel' = t /\ toHost' = h2
  BY <1>1, <1>11
<1> QED BY <1>1, <1>12, <1>13, <1>14, <1>15, WorkerStepRuns

(* No run is behind an open, and the page uses nothing it knew.            *)
LEMMA HandleOpenRuns ==
  ASSUME RunsInv, CancelInv', HandleOpen, UNCHANGED pageVars PROVE RunsInv'
<1>1. /\ toKernel \in Seq(Command) /\ toKernel # <<>> /\ toKernel' = Tail(toKernel)
      /\ kernel \in Kernel /\ Message = Head(toKernel) /\ Message.type = "open" /\ kernel.up
  BY DEF HandleOpen, Arrives, RunsInv, CancelInv, TypeInv, Message
<1>2. PICK m, s, t, k : m = Message /\ s = toKernel /\ t = Tail(s) /\ k = kernel'
  OBVIOUS
<1>3. /\ m \in OpenCommand /\ m = s[1] /\ 1 \in 1..Len(s) /\ Len(s) \in Nat /\ IsAsk(m)
      /\ m.type = "open" /\ \A i \in 1..Len(t) : i + 1 \in 1..Len(s) /\ t[i] = s[i + 1]
  <2>1. m \in Command
    BY <1>1, <1>2, TailFacts
  <2> QED BY <1>1, <1>2, <2>1, CommandCases, TailFacts DEF IsAsk
<1>4. /\ k.queue = kernel.queue /\ k.session # 0 /\ k.text = m.text
  <2>1. PICK n : n = kernel.session + 1
    OBVIOUS
  <2>2. \/ k = kernel /\ kernel.session # 0 /\ kernel.text = m.text
        \/ k = [kernel EXCEPT !.session = n, !.revision = 1, !.text = m.text]
    BY <1>2, <2>1 DEF HandleOpen
  <2>3. n # 0
    BY <1>1, <2>1 DEF Kernel
  <2> QED BY <1>1, <2>2, <2>3 DEF Kernel
<1>5. /\ Sound(page, s, kernel, toHost, past.runs)
      /\ ~past.faulty => Unrefused(page, s, kernel)
  BY <1>1, <1>2 DEF RunsInv
<1>6. RunsSound(t, k, past.runs)
  <2> SUFFICES ASSUME NEW i \in 1..Len(t), t[i].type = "run" PROVE FALSE
    BY DEF RunsSound
  <2>1. i + 1 \in 1..Len(s) /\ s[i + 1].type = "run" /\ 1 \in 1..(i + 1)
    BY <1>3
  <2>2. s[1].type # "open"
    BY <1>5, <2>1 DEF Sound, RunsSound
  <2> QED BY <1>3, <2>2
<1>7. page.doc # NoDocument => ~Usable(page) /\ page.doc.text \in Texts
  BY <1>3, <1>5 DEF Sound, DocSound, NoOpens
<1>8. DocSound(page, t, k) /\ DocFits(page, k)
  BY <1>7 DEF DocSound, DocFits
<1>9. IsCurrent(page, m) => m.text = Task(page).text
  BY <1>3, <1>5 DEF Sound, AsksSound
<1>10. toHost' = Append(toHost, Answer(m, TRUE, kernel'))
  BY <1>2 DEF HandleOpen
<1> QED BY <1>1, <1>2, <1>3, <1>4, <1>6, <1>8, <1>9, <1>10, AskRuns

(* A change that is accepted was computed from the kernel's text.          *)
LEMMA HandleChangeRuns ==
  ASSUME RunsInv, CancelInv', HandleChange, UNCHANGED pageVars PROVE RunsInv'
<1>1. /\ toKernel \in Seq(Command) /\ toKernel # <<>> /\ toKernel' = Tail(toKernel)
      /\ kernel \in Kernel /\ Message = Head(toKernel) /\ Message.type = "change" /\ kernel.up
  BY DEF HandleChange, Arrives, RunsInv, CancelInv, TypeInv, Message
<1>2. PICK m, s, t, k, ok : /\ m = Message /\ s = toKernel /\ t = Tail(s) /\ k = kernel'
                            /\ ok = AcceptsChange(kernel, m)
  OBVIOUS
<1>3. /\ m \in ChangeCommand /\ m = s[1] /\ 1 \in 1..Len(s) /\ Len(s) \in Nat /\ IsAsk(m)
      /\ m.type = "change" /\ \A i \in 1..Len(t) : i + 1 \in 1..Len(s) /\ t[i] = s[i + 1]
  <2>1. m \in Command
    BY <1>1, <1>2, TailFacts
  <2> QED BY <1>1, <1>2, <2>1, CommandCases, TailFacts DEF IsAsk
<1>4. /\ Sound(page, s, kernel, toHost, past.runs)
      /\ Sound(page, t, kernel, toHost, past.runs)
      /\ ~past.faulty => Unrefused(page, s, kernel)
  BY <1>1, <1>2, WireTail DEF RunsInv
<1>5. /\ m.before = m.baseVersion /\ m.before \in Texts /\ m.after \in Texts
      /\ IsCurrent(page, m) => m.after = Task(page).text
  BY <1>3, <1>4 DEF Sound, AsksSound
<1>6. ok \in BOOLEAN /\ (ok => kernel.session # 0 /\ kernel.text = m.before)
  BY <1>2, <1>5, PlaygroundAssumption DEF AcceptsChange
<1>7. /\ k.queue = kernel.queue /\ k.session = kernel.session
      /\ k = kernel \/ k.revision = kernel.revision + 1
      /\ ok => k.text = m.after
  <2>1. PICK n : n = kernel.revision + 1
    OBVIOUS
  <2>2. CASE ok
    <3>1. k = Applied(kernel, m)
      BY <1>2, <2>2 DEF HandleChange
    <3>2. k = IF m.after = kernel.text THEN kernel
              ELSE [kernel EXCEPT !.revision = n, !.text = m.after]
      BY <1>6, <2>1, <2>2, <3>1 DEF Applied
    <3> QED BY <1>1, <2>1, <3>2 DEF Kernel
  <2>3. CASE ~ok
    BY <1>2, <2>3 DEF HandleChange
  <2> QED BY <1>6, <2>2, <2>3
<1>8. \A r \in Nat : \A text : Agrees(kernel, r, text) => Agrees(k, r, text)
  BY <1>1, <1>7 DEF Agrees, Kernel
<1>9. RunsSound(t, k, past.runs)
  <2> SUFFICES ASSUME NEW i \in 1..Len(t), t[i].type = "run"
               PROVE  Agrees(k, t[i].revision, past.runs[t[i].runId].text)
    BY <1>4 DEF Sound, RunsSound
  <2>1. t[i] \in Command
    BY <1>4 DEF Sound
  <2>2. t[i].revision \in Nat
    BY <2>1, CommandCases DEF RunCommand
  <2> QED BY <1>4, <1>8, <2>2 DEF Sound, RunsSound
<1>10. DocSound(page, t, k)
  <2>1. page.doc.revision \in Nat
    BY <1>4 DEF Sound, Page
  <2> QED BY <1>4, <1>8, <2>1 DEF Sound, DocSound
<1>11. IsCurrent(page, m) /\ ok /\ page.request.step \in {"open", "change"} =>
         k.session # 0 /\ k.text = Task(page).text
  BY <1>5, <1>6, <1>7
<1>12. ASSUME ~past.faulty PROVE ok /\ DocFits(page, k)
  <2>1. /\ m.requestId = page.request.id /\ kernel.session # 0
        /\ m.baseRevision = kernel.revision /\ m.baseVersion = kernel.text
    BY <1>3, <1>4, <1>12 DEF Unrefused, AsksFit
  <2>2. ok
    BY <1>2, <2>1 DEF AcceptsChange
  <2>3. page.request.step = "change"
    BY <1>3, <1>4, <2>1 DEF Sound, AsksSound, IsCurrent
  <2> QED BY <2>2, <2>3 DEF DocFits
<1>13. toHost' = Append(toHost, Answer(m, ok, kernel'))
  BY <1>2 DEF HandleChange
<1> QED BY <1>1, <1>2, <1>3, <1>6, <1>7, <1>9, <1>10, <1>11, <1>12, <1>13, AskRuns

LEMMA HandleSubscribeRuns ==
  ASSUME RunsInv, CancelInv', HandleSubscribe, UNCHANGED pageVars PROVE RunsInv'
<1>1. /\ toKernel \in Seq(Command) /\ toKernel # <<>> /\ toKernel' = Tail(toKernel)
      /\ kernel \in Kernel /\ Message = Head(toKernel) /\ Message.type = "subscribe" /\ kernel.up
      /\ kernel' = kernel
  BY DEF HandleSubscribe, Arrives, RunsInv, CancelInv, TypeInv, Message
<1>2. PICK m, s, t, ok : /\ m = Message /\ s = toKernel /\ t = Tail(s)
                         /\ ok = (kernel.session # 0)
  OBVIOUS
<1>3. /\ m = s[1] /\ 1 \in 1..Len(s) /\ IsAsk(m) /\ m.type = "subscribe"
  BY <1>1, <1>2, TailFacts DEF IsAsk
<1>4. /\ Sound(page, s, kernel, toHost, past.runs)
      /\ Sound(page, t, kernel, toHost, past.runs)
      /\ ~past.faulty => Unrefused(page, s, kernel)
  BY <1>1, <1>2, WireTail DEF RunsInv
<1>5. RunsSound(t, kernel, past.runs) /\ DocSound(page, t, kernel)
  BY <1>4 DEF Sound
<1>6. IsCurrent(page, m) => page.request.step = "subscribe"
  BY <1>3, <1>4 DEF Sound, AsksSound
<1>7. ASSUME ~past.faulty PROVE ok /\ DocFits(page, kernel)
  BY <1>2, <1>3, <1>4, <1>7 DEF Unrefused, AsksFit
<1>8. toHost' = Append(toHost, Answer(m, ok, kernel')) /\ ok \in BOOLEAN
  BY <1>1, <1>2 DEF HandleSubscribe
<1> QED BY <1>1, <1>2, <1>3, <1>5, <1>6, <1>7, <1>8, AskRuns

-----------------------------------------------------------------------------
(* Theorems                                                                *)

LEMMA InitRunsInv == PlaygroundInit => RunsInv
<1> SUFFICES ASSUME PlaygroundInit PROVE RunsInv
  OBVIOUS
<1>1. CancelInv
  BY InitCancelInv
<1>2. /\ page = EmptyPage(FixtureText) /\ toKernel = <<>> /\ toHost = <<>>
      /\ kernel.queue = <<>> /\ past.runs = <<>>
  BY DEF PlaygroundInit, EndpointInit
<1>3. /\ page.tasks = <<>> /\ page.request = NoRequest /\ page.doc = NoDocument
      /\ page.runId = 0 /\ page.requestId = 0 /\ ~page.shown.ok
  BY <1>2 DEF EmptyPage
<1>4. /\ Len(page.tasks) = 0 /\ Len(toKernel) = 0 /\ Len(toHost) = 0 /\ Len(kernel.queue) = 0
      /\ Len(past.runs) = 0 /\ NoRequest.id = 0 /\ NoRequest.step = "none"
  BY <1>2, <1>3 DEF NoRequest
<1>5. /\ page \in Page /\ toKernel \in Seq(Command) /\ kernel \in Kernel
      /\ toHost \in Seq(Posts) /\ past.runs \in Runs
  BY <1>1 DEF CancelInv, TypeInv, Past, Runs
<1>6. Sound(page, toKernel, kernel, toHost, past.runs)
  BY <1>3, <1>4, <1>5 DEF Sound, TasksSound, QueueSound, ShownSound, ResultsSound, RunsSound,
     AsksSound, DocSound, KnowsOpened, AnswersSound
<1>7. Unrefused(page, toKernel, kernel)
  BY <1>3, <1>4 DEF Unrefused, AsksFit, RunsFit, TasksFresh, DocFits
<1> QED BY <1>1, <1>4, <1>6, <1>7 DEF RunsInv, Accepted, NoFailure

LEMMA NextRunsInv == RunsInv /\ [PlaygroundNext]_playgroundVars => RunsInv'
<1> SUFFICES ASSUME RunsInv, [PlaygroundNext]_playgroundVars PROVE RunsInv'
  OBVIOUS
<1> CancelInv'
  BY NextCancelInv DEF RunsInv
<1>1. CASE DeliverToPage
  BY <1>1, DeliverToPageRuns
<1>2. CASE DebounceElapses
  BY <1>2, DebounceRuns
<1>3. CASE CommandTimesOut
  BY <1>3, TimeoutRuns
<1>4. CASE UncaughtError
  BY <1>4, UncaughtRuns
<1>5. CASE WorkerDoesNotStart
  BY <1>5, WorkerDoesNotStartRuns
<1>6. CASE \E text \in Texts : UserEdits(text)
  BY <1>6, UserEditsRuns
<1>7. CASE UserSelectsFixture
  BY <1>7, UserSelectsFixtureRuns
<1>8. CASE UserRuns
  BY <1>8, UserRunsRuns
<1>9. CASE UserCancels
  BY <1>9, UserCancelsRuns
<1>10. CASE Endpoint({TRUE}) /\ UNCHANGED pageVars
  <2>1. CASE HandleOpen
    BY <1>10, <2>1, HandleOpenRuns
  <2>2. CASE HandleChange
    BY <1>10, <2>2, HandleChangeRuns
  <2>3. CASE HandleSubscribe
    BY <1>10, <2>3, HandleSubscribeRuns
  <2>4. CASE HandleRun
    BY <1>10, <2>4, HandleRunRuns
  <2>5. CASE HandleCancel
    BY <1>10, <2>5, HandleCancelRuns
  <2>6. CASE EndRun(TRUE)
    BY <1>10, <2>6, EndRunRuns
  <2> QED BY <1>10, <2>1, <2>2, <2>3, <2>4, <2>5, <2>6 DEF Endpoint
<1>11. CASE UNCHANGED playgroundVars
  <2>1. /\ page' = page /\ past' = past /\ kernel' = kernel /\ toKernel' = toKernel
        /\ toHost' = toHost
    BY <1>11 DEF playgroundVars, endpointVars
  <2>2. Sound(page, toKernel, kernel, toHost, past.runs)'
    BY <2>1 DEF RunsInv
  <2>3. Unrefused(page, toKernel, kernel) => Unrefused(page, toKernel, kernel)'
    BY <2>1
  <2> QED BY <2>1, <2>2, <2>3 DEF RunsInv
<1> QED BY <1>1, <1>2, <1>3, <1>4, <1>5, <1>6, <1>7, <1>8, <1>9, <1>10, <1>11 DEF PlaygroundNext

LEMMA RunsInvSuffices == RunsInv => RunsWhatItSent
<1> SUFFICES ASSUME RunsInv PROVE RunsWhatItSent
  OBVIOUS
<1>1. /\ DOMAIN kernel.queue = 1..Len(kernel.queue) /\ DOMAIN toHost = 1..Len(toHost)
  BY DEF RunsInv, CancelInv, TypeInv, Kernel
<1>2. \A i \in DOMAIN kernel.queue : OfRun(past.runs, kernel.queue[i].runId, kernel.queue[i].text)
  BY <1>1 DEF RunsInv, Sound, QueueSound
<1>3. page.shown.ok => OfRun(past.runs, page.shown.runId, page.shown.text)
  BY DEF RunsInv, Sound, ShownSound
<1>4. ~past.faulty => Accepted(toHost)
  BY DEF RunsInv
<1> QED BY <1>1, <1>2, <1>3, <1>4 DEF RunsWhatItSent, OfRun, Accepted

(* Whatever the user edits, selects, runs and cancels, and whatever times  *)
(* out or fails, what runs in the kernel and what is on display is of the  *)
(* text the page showed when it started the run; and without a fault the   *)
(* kernel refuses nothing it is sent (app/page.tsx:1550-1649, 1685-1707).  *)
THEOREM RunsAreOfTheirTexts == PlaygroundSpec => []RunsWhatItSent
<1>1. PlaygroundInit => RunsInv
  BY InitRunsInv
<1>2. RunsInv /\ [PlaygroundNext]_playgroundVars => RunsInv'
  BY NextRunsInv
<1>3. RunsInv => RunsWhatItSent
  BY RunsInvSuffices
<1> QED BY <1>1, <1>2, <1>3, PTL DEF PlaygroundSpec
=============================================================================
