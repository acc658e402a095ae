---------------------------- MODULE ResultReport ----------------------------
(***************************************************************************)
(* The second half of executeRun (runtime/worker-entry.js:515-800): the    *)
(* stages of a plan, invoked or served from the cache, what they emit, and *)
(* the reply: the result, the identities, the adapters' projections and    *)
(* the conformance report.  A script is what the transforms of a text do   *)
(* and what the host asks of the run; the text is run twice, by two run    *)
(* instances.  Stages run one by one: Scheduler is about their overlap.    *)
(***************************************************************************)
EXTENDS LabConformance, SemanticIdentity

CONSTANT Scripts

VARIABLES
  script,     \* stages, lines and executable of the text; asked (adapters), fixture, strict, limits
  engine,     \* the run: its phase, bus, inspection, plan and next stage
  reply,      \* what the last run answered
  earlier     \* what the one before it did

reportVars == <<script, engine, reply, earlier>>

Instances == {1, 2}
Version == "version"

(* A stage of declared purity; only such a one is ever served.             *)
Cacheable(stage) == stage.declares = <<>> /\ stage.emissions = <<>>

(* What an entry of the cache rests on: two observations, which may have   *)
(* one id when they come from two sessions (StageCache, run transport).    *)
Evidence(node) ==
  {<<[evidenceId |-> <<"observation", run, node>>], [evidenceId |-> <<"observation", "second", node>>]>> :
     run \in {"first", "second"}}

NoReply == [status |-> "none"]

StartRun(instance) ==
  [phase |-> "starting", inspection |-> Nothing, plan |-> Nothing, next |-> 1,
   outcome |-> [status |-> "none", diagnostics |-> <<>>],
   bus |-> CreateChannelBus([instance |-> instance, version |-> Version, strict |-> script.strict,
                             control |-> RunControl(script.limits)])]

ResultReportInit ==
  /\ \E family \in DOMAIN Scripts : script \in Scripts[family]
  /\ engine = StartRun(1)
  /\ reply = NoReply /\ earlier = NoReply

-----------------------------------------------------------------------------
(* The reply                                                               *)

Identities(e, result, identified) == identified @@ [result |-> IdentifyResult(identified, result, e.bus)]

Replied(e, result, adapterRun, report) ==
  [status |-> result.status, result |-> result, adapterRun |-> adapterRun, report |-> report,
   accepted |-> PostCommitAccepted(adapterRun, report),
   resources |-> ResourceReport(e.bus.control),
   identity |-> IF ~result.committed THEN Nothing
                ELSE Identities(e, result, Identified(result.source, script.strict,
                                             e.bus.control.effective, e.inspection, e.plan))]

Reported(e, result, adapterRun) ==
  Replied(e, result, adapterRun,
          BuildConformanceReport(script.fixture, result, e.inspection, e.plan, e.bus.trace, adapterRun))

ReplyOf(e, result) == Reported(e, result, RunAdapters(result, script.asked, ImplementedCapabilities))

(* The run ends; an error's diagnostic is the only one.                    *)
End(e, status, code) ==
  /\ engine' = [e EXCEPT !.phase = "ended", !.bus.control = MarkError(@, code),
                         !.outcome = [status |-> status, diagnostics |-> <<code>>]]
  /\ UNCHANGED <<script, reply, earlier>>

Continue(e) == engine' = e /\ UNCHANGED <<script, reply, earlier>>

-----------------------------------------------------------------------------
(* The run                                                                 *)

(* A malformed policy.                                                     *)
RefusePolicy ==
  /\ engine.phase = "starting" /\ ~ValidRequest(script.limits)
  /\ End([engine EXCEPT !.bus.control = RunControl(Nothing)], "failed", "TBA-RUN-POLICY-LAB")

Parsed == [engine EXCEPT !.phase = "parsed",
                         !.inspection = [version |-> Version, executable |-> script.executable]]

ParseSource ==
  /\ engine.phase = "starting" /\ ValidRequest(script.limits)
  /\ IF script.executable THEN Continue(Parsed) ELSE End(Parsed, "failed", "TBA-PARSE-BLOCK-UNCLOSED-LAB")

Planned == [engine EXCEPT !.phase = "executing",
                          !.plan = [stages |-> Len(script.stages), deterministic |-> TRUE],
                          !.bus.control = RegisterPlan(@, Len(script.stages))]

(* A plan with too many stages is not executed.                            *)
PreparePlan ==
  /\ engine.phase = "parsed"
  /\ IF Planned.bus.control.code # "" THEN End(Planned, "failed", Planned.bus.control.code)
     ELSE Continue(Planned)

Remaining == engine.phase = "executing" /\ engine.next <= Len(script.stages)

Invoked(bus) == [engine EXCEPT !.next = @ + 1, !.bus = [bus EXCEPT !.control = RecordWave(@, TRUE)]]

(* The next stage is invoked; the error that ends a transform ends the     *)
(* run, and so does the name of a function that no module has.             *)
InvokeNext ==
  /\ Remaining
  /\ \E bus \in {InvokeStage(engine.bus, engine.next, script.stages[engine.next])} :
       CASE Field(script.stages[engine.next], "unknown", FALSE) -> End(engine, "failed", RunError)
         [] ~Field(script.stages[engine.next], "unknown", FALSE) /\ bus.fault # NoError ->
              End(Invoked(bus), "failed", bus.fault)
         [] OTHER -> Continue(Invoked(bus))

ServeNext ==
  /\ Remaining /\ Cacheable(script.stages[engine.next])
  /\ \E evidence \in Evidence(engine.next) :
       Continue([engine EXCEPT !.next = @ + 1,
                   !.bus = [MaterializeStage(@, engine.next, evidence)
                            EXCEPT !.control = RecordWave(@, FALSE)]])

(* A cancellation, at any boundary.                                        *)
CancelRun ==
  /\ engine.phase \in {"starting", "parsed", "executing"}
  /\ End(engine, "cancelled", CancelledCode)

(* The stages are done.  A result with a reference that leads nowhere is   *)
(* an error.                                                               *)
CommitResult ==
  /\ engine.phase = "executing" /\ engine.next > Len(script.stages)
  /\ IF ReferencesResolve(BuildResultEnvelope(engine.bus, "succeeded", <<>>, Version), engine.bus)
     THEN Continue([engine EXCEPT !.phase = "ended", !.outcome = [status |-> "succeeded", diagnostics |-> <<>>]])
     ELSE End(engine, "failed", "TBA-IDENTITY-PROFILE")

SourceVersion(e) == IF e.inspection = Nothing THEN "" ELSE Version

(* The envelope, the adapters and the report.  Of the bus of a run that    *)
(* ended with an error they see the trace alone.                           *)
PostReply ==
  /\ engine.phase = "ended"
  /\ reply' = ReplyOf(engine, BuildResultEnvelope(engine.bus, engine.outcome.status,
                                 engine.outcome.diagnostics, SourceVersion(engine)))
  /\ engine' = [engine EXCEPT !.phase = "done"]
  /\ UNCHANGED <<script, earlier>>

(* The same text again, by another run instance.                           *)
RunAgain ==
  /\ engine.phase = "done" /\ reply.status = "succeeded" /\ earlier = NoReply
  /\ engine' = StartRun(2) /\ earlier' = reply /\ reply' = NoReply
  /\ UNCHANGED script

ResultReportNext ==
  \/ RefusePolicy \/ ParseSource \/ PreparePlan \/ InvokeNext \/ ServeNext \/ CancelRun
  \/ CommitResult \/ PostReply \/ RunAgain

ResultReportSpec == ResultReportInit /\ [][ResultReportNext]_reportVars

-----------------------------------------------------------------------------
(* Properties                                                              *)

Committed(r) == r.status = "succeeded"
Published(r) == EventsOf(r.result.channelSnapshots)
PublishedRefs(r) ==
  UNION {{e.payload.refs[name] : name \in DOMAIN e.payload.refs} : e \in Published(r)}

(* A published payload that names a transient event, which the result does *)
(* not contain, carries the run instance's name of it.                     *)
NamesOnlyPublished(r) ==
  \A ref \in PublishedRefs(r) : ref[1] = "event" => \E e \in Published(r) : e.eventId = ref

(* What two runs of one text publish has the same identities whichever     *)
(* instance ran them and whether the cache served their stages: the        *)
(* resultId and the projectionIds, also when payloads refer to events,     *)
(* activities and runs (runtime/result-references.js,                      *)
(* tests/execution-graph.test.mjs:500); the semantic identity, which keeps *)
(* payloads as they are (runtime/semantic-identity.js:134), when they      *)
(* refer to none; and the report's when only the summary is asked for and  *)
(* the gate found the same.                                                *)
ResultIsOfTheText ==
  Committed(reply) /\ Committed(earlier) =>
    /\ NamesOnlyPublished(reply) =>
         /\ reply.result.resultId = earlier.result.resultId
         /\ [i \in DOMAIN reply.adapterRun.projections |-> reply.adapterRun.projections[i].projectionId]
              = [i \in DOMAIN earlier.adapterRun.projections |-> earlier.adapterRun.projections[i].projectionId]
    /\ PublishedRefs(reply) = {} =>
         /\ reply.identity.result = earlier.identity.result
         /\ reply.adapterRun.requested = <<"result-summary">>
              /\ reply.report.blockers = earlier.report.blockers =>
              reply.report.reportId = earlier.report.reportId

(* The gate, on which the cache journal depends, is passed exactly by a    *)
(* run that ended as its fixture expects, with the code it expects, its    *)
(* source parsed; and, if that is a success, all of whose published        *)
(* channels were declared, whose host asked for the summary, none of whose *)
(* adapters failed, whose domain channels were projected and whose served  *)
(* stages rest on two observations (runtime/lab-conformance.js:324-502,    *)
(* runtime/editor-kernel.js:710-712).  Nothing else in the report ever     *)
(* fails: every reference resolves, and a run that did not commit leaves   *)
(* nothing.                                                                *)
GateVouches ==
  LET expected == ExpectedOf(script.fixture)
      projected(p) == p.status = "succeeded"
      domains == UNION {DomainChannels[profile] : profile \in DOMAIN DomainChannels}
      servedOnOne == \E step \in ToSet(engine.bus.trace) :
                       ~step.functionInvoked /\ step.cache.evidence[1] = step.cache.evidence[2]
      asExpected == /\ reply.status = expected.outcome
                    /\ expected.code # "" => expected.code \in ToSet(reply.result.diagnostics)
      declared == \A e \in ToSet(engine.bus.events) :
                    engine.bus.descriptors[e.channel].declared
                      \/ engine.bus.descriptors[e.channel].persistence = "transient"
      adapted == /\ \A p \in ToSet(reply.adapterRun.projections) : p.status # "failed"
                 /\ \E p \in ToSet(reply.adapterRun.projections) : p.adapter = "result-summary"
                 /\ \A e \in Published(reply) : e.channel \in domains =>
                      \E p \in ToSet(reply.adapterRun.projections) :
                        projected(p) /\ p.adapter # "result-summary"
                          /\ e.channel \in DomainChannels[AdapterManifests[p.adapter].profile]
  IN  reply # NoReply =>
        (reply.accepted <=>
           /\ asExpected /\ engine.inspection # Nothing
           /\ Committed(reply) => declared /\ adapted /\ ~servedOnOne)

(* What the adapters show of a committed result is what its events say:    *)
(* an annotation shown as accepted, as current or in the export, was       *)
(* accepted by the only review of its candidate, or replaces a candidate   *)
(* (ANNOTATION-002 and -006, docs/reference/specification/                 *)
(* annotation-observability.md:106,122) - unless a replacement took the id *)
(* of a candidate, which the adapter lets pass; a cell shows the one       *)
(* output that was made from its present source, in the authored order; a  *)
(* row's two inputs are records of the result - unless it has two          *)
(* lineages, of which the adapter checks the first and shows the last.     *)
ProjectionsAreSound ==
  LET on(channel) == ToSet(On(reply.result, channel))
      of(adapter) == {p.output.data : p \in {p \in ToSet(reply.adapterRun.projections) :
                                           p.adapter = adapter /\ p.status = "succeeded"}}
      candidates == {Given(e, "annotationId") : e \in on("annotation.candidates")}
      replacements == {e \in on("annotation.revisions") : IsReplacement(e)}
      decisions(id) == {Given(e, "decision") : e \in
                         {e \in on("annotation.reviews") : Given(e, "annotationId") = id}}
      reciprocal(new, old) == \E e \in on("annotation.reviews") :
                                Given(e, "annotationId") = old /\ Given(e, "supersededBy") = new
      accepted(id) == id \in candidates => decisions(id) = {"accept"}
      rows(id) == {e \in on("data.lineage") : Given(e, "granularity") = "record"
                                               /\ Field(OutputOf(e), "recordId", "") = id}
  IN  Committed(reply) =>
        /\ \A data \in of("annotation-review") :
             (\A r \in replacements : Given(r, "annotationId") \notin candidates) =>
               /\ \A item \in ToSet(data.current) : accepted(item.annotationId)
               /\ \A item \in ToSet(data.items) : item.state = "accepted" => accepted(item.annotationId)
               /\ \A id \in candidates : decisions(id) = {"supersede"} =>
                    \E r \in replacements : reciprocal(Given(r, "annotationId"), id)
                                             /\ Given(r, "supersedes") = id
        /\ \A data \in of("notebook") :
             /\ \A i \in DOMAIN data.cells :
                  \E c \in on("notebook.cells"), o \in on("notebook.outputs") :
                    /\ c.payload.data.index = i - 1 /\ Given(c, "cellId") = data.cells[i].cellId
                    /\ o.sequence = data.cells[i].output /\ Given(o, "cellId") = Given(c, "cellId")
                    /\ Given(o, "sourceDigest") = Given(c, "sourceDigest")
             /\ {data.cells[i].output : i \in DOMAIN data.cells} = {o.sequence : o \in on("notebook.outputs")}
        /\ \A data \in of("data-table") : \A row \in ToSet(data.rows) :
             Cardinality(rows(row.recordId)) = 1 =>
               /\ ToSet(row.inputRecordIds) \subseteq {Given(e, "recordId") : e \in on("data.input.records")}
               /\ \E e \in rows(row.recordId) : e.sequence = row.lineage

(* The bundle of a committed run is one the offline verifier accepts, and  *)
(* the run's references never fail to resolve, provided that no emission   *)
(* that left an anchor named a line past the end of the document, which    *)
(* emit does not refuse (runtime/channels.js:219-224,                      *)
(* runtime/semantic-contract.js:160-200).                                  *)
ResultsVerify ==
  LET within == \A id \in DOMAIN engine.bus.anchors : engine.bus.anchors[id].line <= script.lines
      events == \A e \in ToSet(engine.bus.events) : e.line <= script.lines
  IN  /\ Committed(reply) /\ within /\ events =>
           VerifyBundle(reply.identity, script.lines, Len(script.stages))
      /\ reply # NoReply => "TBA-IDENTITY-PROFILE" \notin ToSet(reply.result.diagnostics)

=============================================================================
