----------------------------- MODULE RunPolicy -----------------------------
(***************************************************************************)
(* normalizeRunPolicy and createRunControl of runtime/run-policy.js: the   *)
(* limits a run asks for, those it gets, and what its report says of them. *)
(* A requested limit that is not a positive integer is 0.  Scheduler has   *)
(* the control's deadline and its waves.                                   *)
(***************************************************************************)
EXTENDS Integers

HostLimits == [maxParallelism |-> 8, maxStageResolutions |-> 512, maxChannelEvents |-> 2048,
               maxRenderBytes |-> 1048576, deadlineMs |-> 60000]

NoDeadline == -1
DefaultLimits == [HostLimits EXCEPT !.maxParallelism = 4, !.deadlineMs = NoDeadline]

ValidRequest(requested) == \A limit \in DOMAIN requested : requested[limit] >= 1

NormalizeRunPolicy(requested) ==
  LET asked(limit) == IF limit \in DOMAIN requested THEN requested[limit] ELSE DefaultLimits[limit]
  IN  [limit \in DOMAIN HostLimits |->
        IF asked(limit) < HostLimits[limit] THEN asked(limit) ELSE HostLimits[limit]]

(* The control of a run: what it used, and the last limit it ran into.     *)
RunControl(requested) ==
  [requested |-> requested, effective |-> NormalizeRunPolicy(requested),
   planned |-> 0, resolved |-> 0, fresh |-> 0, channelEvents |-> 0,
   status |-> "within-limits", code |-> ""]

Mark(control, status, code) == [control EXCEPT !.status = status, !.code = code]

LimitStatus ==
  [code \in {"TBA-RUN-CANCELLED-LAB", "TBA-RUN-STAGE-LIMIT-LAB", "TBA-RUN-EVENT-LIMIT-LAB",
             "TBA-RUN-POLICY-LAB"} |->
    CASE code = "TBA-RUN-CANCELLED-LAB" -> "cancelled"
      [] code = "TBA-RUN-STAGE-LIMIT-LAB" -> "stage-limit-exceeded"
      [] code = "TBA-RUN-EVENT-LIMIT-LAB" -> "event-limit-exceeded"
      [] code = "TBA-RUN-POLICY-LAB" -> "invalid-policy"]

(* An error that is none of a limit leaves what was marked before.         *)
MarkError(control, code) ==
  IF code \in DOMAIN LimitStatus THEN Mark(control, LimitStatus[code], code) ELSE control

RegisterPlan(control, stages) ==
  LET planned == [control EXCEPT !.planned = stages]
  IN  IF stages > control.effective.maxStageResolutions
      THEN MarkError(planned, "TBA-RUN-STAGE-LIMIT-LAB") ELSE planned

AtEventLimit(control) == control.channelEvents >= control.effective.maxChannelEvents

RecordChannelEvent(control) == [control EXCEPT !.channelEvents = @ + 1]

(* A wave of one stage, invoked or served.                                 *)
RecordWave(control, invoked) ==
  [control EXCEPT !.resolved = @ + 1, !.fresh = IF invoked THEN @ + 1 ELSE @]

ResourceReport(control) ==
  [requested |-> control.requested, effective |-> control.effective, hostCeilings |-> HostLimits,
   usage |-> [planned |-> control.planned, resolved |-> control.resolved, fresh |-> control.fresh,
              channelEvents |-> control.channelEvents],
   status |-> control.status, diagnosticCode |-> control.code]

=============================================================================
