------------------------------- MODULE CliServe -------------------------------
(***************************************************************************)
(* The kernel worker behind a process: serve of cli/textabana.mjs reads    *)
(* commands from its input, one a line, and writes what the worker posts.  *)
(* It ends when its input has ended and every command it read is answered, *)
(* or when the worker fails.                                               *)
(***************************************************************************)
EXTENDS KernelEndpoint

VARIABLES
  serve,    \* the requestIds pending; whether its input ended, its worker
            \* failed, and it runs
  stdin,    \* lines it has not read
  stdout    \* lines its host has not read

serveVars == <<serve, stdin, stdout>>

ServeInit ==
  /\ serve = [pending |-> {}, ended |-> FALSE, failed |-> FALSE, running |-> TRUE]
  /\ stdin = <<>>
  /\ stdout = <<>>

Failure(id) ==
  [type |-> IF id = 0 THEN "failure" ELSE "answer", requestId |-> id, runId |-> 0, ok |-> FALSE,
   revision |-> 0, text |-> NoText]

(* The process is gone once its worker is; its host reads the end of its   *)
(* output after all of it.                                                 *)
Exit == <<Failure(0)>>

(* Each pending command is answered by the failure.                        *)
FailPending == [i \in 1..Cardinality(serve.pending) |-> Failure(SetToSeq(serve.pending)[i])]

ServeLine ==
  /\ serve.running /\ stdin # <<>>
  /\ stdin' = Tail(stdin)
  /\ serve' = [serve EXCEPT !.pending = @ \cup {Head(stdin).requestId}]
  /\ toKernel' = Append(toKernel, Head(stdin))
  /\ UNCHANGED <<kernel, toHost, stdout>>

IsDone(pending) == pending = {}

(* for await ends and finally closes the transport, now or at the last     *)
(* answer.                                                                 *)
ServeEndOfInput ==
  /\ serve.running /\ ~serve.ended /\ stdin = <<>>
  /\ serve' = [serve EXCEPT !.ended = TRUE, !.running = ~IsDone(serve.pending)]
  /\ kernel' = [kernel EXCEPT !.up = @ /\ ~IsDone(serve.pending)]
  /\ stdout' = IF IsDone(serve.pending) THEN stdout \o Exit ELSE stdout
  /\ UNCHANGED <<toKernel, toHost, stdin>>

ServeAnswer ==
  /\ serve.running /\ toHost # <<>>
  /\ Head(toHost).type # "failure"
  /\ LET pending == serve.pending \ {Head(toHost).requestId}
         done == serve.ended /\ IsDone(pending)
     IN  /\ serve' = [serve EXCEPT !.pending = pending, !.running = ~done]
         /\ kernel' = [kernel EXCEPT !.up = @ /\ ~done]
         /\ stdout' = Append(stdout, Head(toHost)) \o (IF done THEN Exit ELSE <<>>)
  /\ toHost' = Tail(toHost)
  /\ UNCHANGED <<toKernel, stdin>>

(* Lines not read by then never are.                                       *)
ServeFailure ==
  /\ serve.running /\ toHost # <<>>
  /\ Head(toHost).type = "failure"
  /\ serve' = [pending |-> {}, ended |-> TRUE, failed |-> TRUE, running |-> FALSE]
  /\ stdout' = stdout \o FailPending \o Exit
  /\ toHost' = Tail(toHost)
  /\ UNCHANGED <<kernel, toKernel, stdin>>

=============================================================================
