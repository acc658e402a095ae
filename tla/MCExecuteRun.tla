---------------------------- MODULE MCExecuteRun ----------------------------
(***************************************************************************)
(* executeRun (runtime/worker-entry.js:517-800) in two halves: what it     *)
(* makes of a text and its modules, and what it replies of what the stages *)
(* of a plan emit.  The half a behaviour is not about keeps still.         *)
(***************************************************************************)
EXTENDS MCRunPreparation, MCResultReport

VARIABLE half

runVars == <<half, vars, reportVars>>

(* The half that keeps still is in one state, before anything was asked.   *)
NothingPrepared ==
  /\ corpus = "none" /\ project = Library /\ phase = "none" /\ fault = NoFault
  /\ document = EmptyDocument /\ loader = EmptyLoader /\ plan = EmptyGraph /\ preview = NoPreview
  /\ events = <<>> /\ delta = NoDelta /\ baseline = NoBaseline

ExecuteRunInit ==
  \/ /\ half = "preparation" /\ Init
     /\ script = Nothing /\ engine = Nothing /\ reply = NoReply /\ earlier = NoReply
  \/ /\ half = "report" /\ ResultReportInit
     /\ NothingPrepared

OfPreparation(Action) == half = "preparation" /\ Action /\ UNCHANGED <<half, reportVars>>
OfReport(Action) == half = "report" /\ Action /\ UNCHANGED <<half, vars>>

ExecuteRunNext == OfPreparation(Next) \/ OfReport(ResultReportNext)

ExecuteRunSpec == ExecuteRunInit /\ [][ExecuteRunNext]_runVars

(* The offline verifier (runtime/semantic-verification.js) accepts what a  *)
(* run identifies, as far as the run comes: its representation, also of a  *)
(* document that was recovered, its plan, and its committed result.        *)
BundlesVerify == IF half = "preparation" THEN RepresentationsVerify ELSE ResultsVerify

=============================================================================
