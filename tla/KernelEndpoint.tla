---------------------------- MODULE KernelEndpoint ----------------------------
(***************************************************************************)
(* The kernel worker as a host program meets it: a message handler         *)
(* (runtime/worker-entry.js) behind two channels that keep order, with one *)
(* document.  Its commands are those of EditorSessions and its run queue   *)
(* is EditorKernel's; here they also answer, which is what hosts wait for. *)
(*                                                                         *)
(* A text is a sequence of edit numbers.  A change says which text it was  *)
(* computed from and which it makes; applied to another it garbles.        *)
(***************************************************************************)
EXTENDS Integers, Sequences, FiniteSets, SequencesExt

CONSTANTS NoText,    \* no text, or a version that was not given
          Garbled    \* a text no user wrote

VARIABLES
  kernel,     \* the document's session, the runs admitted and cancelled
  toKernel,   \* messages posted to the worker
  toHost      \* messages the worker posted

endpointVars == <<kernel, toKernel, toHost>>

(* session 0: the document is not open.  queue: the active run and the     *)
(* queued ones; last: the run that ended last.                             *)
EndpointInit ==
  /\ kernel = [session |-> 0, revision |-> 0, text |-> NoText,
               queue |-> <<>>, cancelled |-> {}, up |-> TRUE]
  /\ toKernel = <<>>
  /\ toHost = <<>>

Message == Head(toKernel)

Arrives(type) ==
  /\ kernel.up /\ toKernel # <<>>
  /\ Message.type = type
  /\ toKernel' = Tail(toKernel)

(* runId 0: an answer to a command that is not a run.                      *)
Answer(m, ok, k) ==
  [type |-> "answer", requestId |-> m.requestId, runId |-> 0, ok |-> ok,
   revision |-> k.revision, text |-> k.text]
Result(run, ok) ==
  [type |-> "result", requestId |-> run.requestId, runId |-> run.runId, ok |-> ok,
   revision |-> run.revision, text |-> run.text]

-----------------------------------------------------------------------------

(* The same text again is no new session unless one is asked for.          *)
HandleOpen ==
  /\ Arrives("open")
  /\ kernel' = IF ~Message.replaceSession /\ kernel.session # 0 /\ kernel.text = Message.text
               THEN kernel
               ELSE [kernel EXCEPT !.session = @ + 1, !.revision = 1, !.text = Message.text]
  /\ toHost' = Append(toHost, Answer(Message, TRUE, kernel'))

(* A host may leave the version out.                                       *)
AcceptsChange(k, m) ==
  /\ k.session # 0
  /\ m.baseRevision = k.revision
  /\ m.baseVersion \in {NoText, k.text}

Applied(k, m) ==
  LET text == IF k.text = m.before THEN m.after ELSE Garbled
  IN  IF text = k.text THEN k ELSE [k EXCEPT !.revision = @ + 1, !.text = text]

HandleChange ==
  /\ Arrives("change")
  /\ kernel' = IF AcceptsChange(kernel, Message) THEN Applied(kernel, Message) ELSE kernel
  /\ toHost' = Append(toHost, Answer(Message, AcceptsChange(kernel, Message), kernel'))

HandleSubscribe ==
  /\ Arrives("subscribe")
  /\ UNCHANGED kernel
  /\ toHost' = Append(toHost, Answer(Message, kernel.session # 0, kernel))

RunIds(k) == {k.queue[i].runId : i \in DOMAIN k.queue}

(* A run is of the revision it names, and captures its text; a run that is *)
(* refused is answered as one.                                             *)
AcceptsRun(k, m) ==
  /\ m.runId \notin RunIds(k)
  /\ k.session # 0
  /\ m.revision = k.revision

Captured(k, m) == [runId |-> m.runId, requestId |-> m.requestId, revision |-> m.revision,
                   text |-> k.text]

HandleRun ==
  /\ Arrives("run")
  /\ IF AcceptsRun(kernel, Message)
     THEN /\ kernel' = [kernel EXCEPT !.queue = Append(@, Captured(kernel, Message))]
          /\ UNCHANGED toHost
     ELSE /\ UNCHANGED kernel
          /\ toHost' = Append(toHost,
                         Result([Captured(kernel, Message) EXCEPT !.text = NoText], FALSE))

(* A cancel is for a run that is active or queued, and is else forgotten;  *)
(* it is acknowledged when it has a requestId.                             *)
HandleCancel ==
  /\ Arrives("cancel")
  /\ kernel' = [kernel EXCEPT !.cancelled = @ \cup ({Message.runId} \cap RunIds(kernel))]
  /\ toHost' = IF Message.requestId = 0 THEN toHost
               ELSE Append(toHost, Answer(Message, TRUE, kernel))

(* The active run ends, well or not, and the next one starts.              *)
EndRun(ok) ==
  /\ kernel.up /\ kernel.queue # <<>>
  /\ LET run == Head(kernel.queue)
     IN  /\ kernel' = [kernel EXCEPT !.queue = Tail(@), !.cancelled = @ \ {run.runId}]
         /\ toHost' = Append(toHost, Result(run, ok /\ run.runId \notin kernel.cancelled))
  /\ UNCHANGED toKernel

(* The worker fails: what it posted still arrives, and then the news.      *)
Fail ==
  /\ kernel.up
  /\ kernel' = [kernel EXCEPT !.up = FALSE]
  /\ toHost' = Append(toHost, [type |-> "failure", requestId |-> 0, runId |-> 0, ok |-> FALSE,
                               revision |-> 0, text |-> NoText])
  /\ UNCHANGED toKernel

Endpoint(outcomes) ==
  \/ HandleOpen \/ HandleChange \/ HandleSubscribe \/ HandleRun \/ HandleCancel
  \/ \E ok \in outcomes : EndRun(ok)

=============================================================================
