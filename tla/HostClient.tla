------------------------------ MODULE HostClient ------------------------------
(***************************************************************************)
(* A host of the TypeScript SDK: the kernel client                         *)
(* (sdk/typescript/client.ts) over a worker transport                      *)
(* (sdk/node/transport.mjs), and two ways an editor submits what its user  *)
(* types: the CodeMirror binding (sdk/typescript/codemirror.ts), which     *)
(* queues, and the Monaco helper (sdk/typescript/monaco.ts), which does    *)
(* not.  The host's own part (external) is what the SDK's reference asks   *)
(* of it: take the revision from the answers, and after a rejection        *)
(* resynchronize and bind again.                                           *)
(*                                                                         *)
(* Or the host is in another language: the Python client                   *)
(* (sdk/python/textabana_client.py) over the process of CliServe, without  *)
(* a binding.                                                              *)
(*                                                                         *)
(* A promise's continuations run before the next message or key: they are  *)
(* part of the step that settles it.                                       *)
(***************************************************************************)
EXTENDS CliServe

CONSTANTS MaxEdits,   \* bound: edits the user makes, by link
          MaxCalls    \* bound: calls of the client, by link

Links == {"worker", "serve"}

ASSUME HostClientAssumption == MaxEdits \in [Links -> Nat] /\ MaxCalls \in [Links -> Nat]

VARIABLE host

(* The text after n edits.                                                 *)
TextAfter(n) == [i \in 1..n |-> i]

(* link: how the host reaches the worker.  calls: what was asked, for      *)
(* which edit (0: none), and how its promise was settled; the requestId is *)
(* the place.  pending, disposed: the client's.  closed: the transport's,  *)
(* or the process's input.  edits: what the user typed.  revision: what    *)
(* the host knows of the document.  queue, sent, rejected: the binding's.  *)
(* resync: the call that opens the document.  outbox: posted in this step. *)
EmptyHost(link) ==
  [link |-> link, calls |-> <<>>, pending |-> {}, disposed |-> FALSE, closed |-> FALSE, edits |-> 0,
   revision |-> 0, queue |-> <<>>, sent |-> 0, rejected |-> TRUE, resync |-> 0, outbox |-> <<>>]

-----------------------------------------------------------------------------
(* TextabanaKernelClient                                                   *)

NextId(h) == Len(h.calls) + 1

(* postMessage throws once the transport is closed, and asks nothing of a  *)
(* worker that is gone.                                                    *)
Command(h, message, edit) ==
  LET refused == h.disposed \/ h.closed
      call == [type |-> message.type, edit |-> edit,
               outcome |-> IF refused THEN "rejected" ELSE "none"]
  IN  IF refused THEN [h EXCEPT !.calls = Append(@, call)]
      ELSE [h EXCEPT !.calls = Append(@, call), !.pending = @ \cup {message.requestId},
                     !.outbox = Append(@, message)]

Open(h, edits) ==
  Command(h, [type |-> "open", requestId |-> NextId(h), replaceSession |-> FALSE,
              text |-> TextAfter(edits)], edits)

(* The client gives the revision, and no version.                          *)
Change(h, edit) ==
  Command(h, [type |-> "change", requestId |-> NextId(h), baseRevision |-> h.revision,
              baseVersion |-> NoText, before |-> TextAfter(edit - 1), after |-> TextAfter(edit)],
          edit)

Run(h) ==
  Command(h, [type |-> "run", requestId |-> NextId(h), runId |-> NextId(h),
              revision |-> h.revision], 0)

Cancel(h, runId) == Command(h, [type |-> "cancel", requestId |-> NextId(h), runId |-> runId], 0)

(* Mutant: the pending calls are forgotten and not rejected.               *)
DisposeSilently(h) == [h EXCEPT !.disposed = TRUE, !.pending = {}]

Dispose(h) ==
  [h EXCEPT !.disposed = TRUE, !.pending = {},
            !.calls = [i \in DOMAIN @ |->
                        IF i \in h.pending THEN [@[i] EXCEPT !.outcome = "disposed"] ELSE @[i]]]

-----------------------------------------------------------------------------
(* codeMirrorTextabanaBinding                                              *)

(* Mutant: what follows a rejected edit is sent all the same.              *)
RejectOne(h) == [h EXCEPT !.sent = 0, !.queue = IF @ = <<>> THEN @ ELSE Tail(@)]

(* The rest of the chain is rejected without being sent.                   *)
RejectChain(h) == [h EXCEPT !.sent = 0, !.queue = <<>>, !.rejected = TRUE]

(* The head of the queue is sent once what was before it is accepted; a    *)
(* call that is refused at once rejects the chain.                         *)
SendNext(h) ==
  IF h.rejected \/ h.sent # 0 \/ h.queue = <<>> THEN h
  ELSE LET called == Change(h, Head(h.queue))
           id == NextId(h)
       IN  IF id \in called.pending THEN [called EXCEPT !.sent = id] ELSE RejectChain(called)

OnUpdate(h, edit) == IF h.rejected THEN h ELSE SendNext([h EXCEPT !.queue = Append(@, edit)])

(* accepted(response) takes the revision, or throws.                       *)
Accepted(h, m, throws) ==
  IF throws THEN RejectChain(h)
  ELSE SendNext([h EXCEPT !.sent = 0, !.queue = Tail(@), !.revision = m.revision])

-----------------------------------------------------------------------------
(* The host                                                                *)

(* Open what the editor shows; bind once the kernel has all of it.         *)
Resynchronize(h) ==
  LET called == Open(h, h.edits)
      id == NextId(h)
  IN  [RejectChain(called) EXCEPT !.resync = IF id \in called.pending THEN id ELSE 0]

Opened(h, m) ==
  LET known == [h EXCEPT !.resync = 0, !.revision = m.revision]
  IN  IF m.text = TextAfter(h.edits) THEN [known EXCEPT !.rejected = FALSE]
      ELSE Resynchronize(known)

(* What follows an answer.                                                 *)
Continue(h, m, throws) ==
  LET id == m.requestId
      call == h.calls[id]
  IN  CASE id = h.resync -> IF m.ok THEN Opened(h, m) ELSE [h EXCEPT !.resync = 0]
        [] id # h.resync /\ id = h.sent -> IF m.ok THEN Accepted(h, m, throws) ELSE RejectChain(h)
        [] id \notin {h.resync, h.sent} /\ call.type = "change" ->
             IF m.ok THEN [h EXCEPT !.revision = m.revision] ELSE RejectChain(h)
        [] id \notin {h.resync, h.sent} /\ call.type # "change" -> h

(* #onMessage: an answer no call waits for is ignored; a failure without a *)
(* requestId settles them all.                                             *)
OnMessage(h, m, throws) ==
  CASE h.disposed -> h
    [] ~h.disposed /\ m.type = "failure" -> RejectChain(Dispose(h))
    [] ~h.disposed /\ m.type # "failure" ->
         IF m.requestId \notin h.pending THEN h
         ELSE Continue([h EXCEPT !.pending = @ \ {m.requestId},
                                 !.calls[m.requestId].outcome = IF m.ok THEN "resolved" ELSE "rejected"],
                       m, throws)

-----------------------------------------------------------------------------

(* What a step posts reaches a worker or a process that still listens.     *)
Post(h) ==
  /\ host' = [h EXCEPT !.outbox = <<>>]
  /\ toKernel' = IF h.link = "worker" /\ kernel.up THEN toKernel \o h.outbox ELSE toKernel
  /\ stdin' = IF h.link = "serve" /\ serve.running THEN stdin \o h.outbox ELSE stdin
  /\ UNCHANGED <<kernel, serve>>

MayCall == Len(host.calls) < MaxCalls[host.link]

Typed == [host EXCEPT !.edits = @ + 1]

Submit(h) ==
  /\ host.edits < MaxEdits[host.link]
  /\ MayCall /\ ~host.closed
  /\ Post(h)
  /\ UNCHANGED <<toHost, stdout>>

TypeInBinding == host.link = "worker" /\ Submit(OnUpdate(Typed, Typed.edits))

(* applyMonacoChanges, or change of the Python client: the host is to      *)
(* serialize the calls.                                                    *)
TypeInMonaco ==
  /\ ~host.rejected
  /\ \A i \in host.pending : host.calls[i].type # "change"
  /\ Submit(Change(Typed, Typed.edits))

SubmitRun ==
  /\ MayCall /\ ~host.closed /\ host.revision # 0
  /\ Post(Run(host))
  /\ UNCHANGED <<toHost, stdout>>

(* A run's id is that of its call.                                         *)
SubmitCancel ==
  /\ MayCall /\ ~host.closed
  /\ \E runId \in host.pending : host.calls[runId].type = "run" /\ Post(Cancel(host, runId))
  /\ UNCHANGED <<toHost, stdout>>

(* Open at first, and again after a rejection.                             *)
Resync ==
  /\ MayCall /\ ~host.closed
  /\ host.rejected /\ host.resync = 0 /\ ~host.disposed
  /\ Post(Resynchronize(host))
  /\ UNCHANGED <<toHost, stdout>>

DeliverFromWorker(throws) ==
  /\ host.link = "worker" /\ toHost # <<>>
  /\ toHost' = Tail(toHost)
  /\ Post(OnMessage(host, Head(toHost), throws))
  /\ UNCHANGED stdout

(* At the end of the process's output the host disposes of the client.     *)
DeliverFromProcess ==
  /\ host.link = "serve" /\ stdout # <<>>
  /\ stdout' = Tail(stdout)
  /\ Post(OnMessage(host, Head(stdout), FALSE))
  /\ UNCHANGED toHost

(* The client is disposed before the transport is closed.                  *)
Shutdown ==
  /\ host.link = "worker" /\ ~host.disposed
  /\ Post(RejectChain(Dispose([host EXCEPT !.closed = TRUE])))
  /\ UNCHANGED <<toHost, stdout>>

(* The host closes the input, and still reads the answers.                 *)
EndInput ==
  /\ host.link = "serve" /\ ~host.closed
  /\ host' = [host EXCEPT !.closed = TRUE]
  /\ UNCHANGED <<endpointVars, serveVars>>

Process ==
  /\ host.link = "serve"
  /\ ServeLine \/ ServeAnswer \/ ServeFailure \/ (host.closed /\ ServeEndOfInput)
  /\ UNCHANGED host

HostClientInit == EndpointInit /\ ServeInit /\ \E link \in Links : host = EmptyHost(link)

Worker == Endpoint(BOOLEAN) /\ UNCHANGED <<host, serveVars>>
Deliver == DeliverFromProcess \/ \E throws \in BOOLEAN : DeliverFromWorker(throws)

HostClientNext ==
  \/ TypeInBinding \/ TypeInMonaco \/ SubmitRun \/ SubmitCancel \/ Resync \/ Shutdown \/ EndInput
  \/ Deliver \/ Process \/ Worker
  \/ Fail /\ UNCHANGED <<host, serveVars>>

hostClientVars == <<host, endpointVars, serveVars>>

(* The worker's, the process's and the host's event loops go on; no run    *)
(* lasts for ever.                                                         *)
HostClientFairness ==
  /\ WF_hostClientVars(Worker)
  /\ WF_hostClientVars(Process)
  /\ WF_hostClientVars(Deliver)

HostClientSpec == HostClientInit /\ [][HostClientNext]_hostClientVars /\ HostClientFairness

-----------------------------------------------------------------------------
(* Properties                                                              *)

(* Whatever edits overtake each other, are refused, or are accepted by a   *)
(* kernel whose host fails to take note, the kernel's text is always one   *)
(* the user had, with every edit it acknowledged; and when nothing is on   *)
(* its way a bound editor and the kernel agree on text and revision        *)
(* (sdk/typescript/codemirror.ts:19-30, runtime/editor-kernel.js:172-196). *)
EditsLand ==
  /\ kernel.session # 0 /\ host.calls # <<>> =>
       \E n \in 0..host.edits : kernel.text = TextAfter(n)
  /\ \A i \in DOMAIN host.calls :
       host.calls[i].type = "change" /\ host.calls[i].outcome = "resolved" =>
         Len(kernel.text) >= host.calls[i].edit
  /\ host.pending = {} /\ ~host.rejected =>
       kernel.text = TextAfter(host.edits) /\ kernel.revision = host.revision

IsSettled(i) == host.calls[i].outcome # "none"

(* Every call of a client is resolved or rejected at last: by its answer,  *)
(* whatever comes before it, by the failure of the worker, or by dispose   *)
(* (sdk/typescript/client.ts:29-76, docs/reference/sdk.md:54-62).  The     *)
(* calls are bounded, so all of them are in the end.  And a process whose  *)
(* input ends answers every command before it does, unless the worker      *)
(* fails (cli/textabana.mjs:23-53).                                        *)
EveryCallSettles ==
  /\ <>[](\A i \in DOMAIN host.calls : IsSettled(i))
  /\ []((\E i \in DOMAIN host.calls : host.calls[i].outcome = "disposed") /\ host.link = "serve"
        => serve.failed)

=============================================================================
