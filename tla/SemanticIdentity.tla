-------------------------- MODULE SemanticIdentity --------------------------
(***************************************************************************)
(* runtime/semantic-identity.js: the bundle of identities a run may ask    *)
(* for, of its source, context, IR, plan and result, each a digest of an   *)
(* artifact that names the digests before it; and what the offline         *)
(* verifier, runtime/semantic-verification.js with semantic-contract.js,   *)
(* wants of such a bundle.  A digest is the value it is made of.           *)
(***************************************************************************)
EXTENDS ResultEnvelope

-----------------------------------------------------------------------------
(* The identities before the result's                                      *)

IdentityContext(source, strict, limits) ==
  [source |-> source, context |-> [source |-> source, strict |-> strict, limits |-> limits]]

IdentifyIR(bundle, inspection) == [source |-> bundle.source, body |-> inspection]

IdentifyPlan(bundle, ir, plan) == [ir |-> ir, context |-> bundle.context, nodes |-> plan]

(* A run's bundle up to its plan.                                          *)
Identified(source, strict, limits, inspection, plan) ==
  LET bundle == IdentityContext(source, strict, limits)
      ir == IdentifyIR(bundle, inspection)
  IN  bundle @@ [ir |-> ir, plan |-> IdentifyPlan(bundle, ir, plan)]

-----------------------------------------------------------------------------
(* identifyResult                                                          *)

(* A published event is named by its channel and its place there.          *)
EventNames(snapshots) ==
  LET places == UNION {{<<name, i>> : i \in DOMAIN snapshots[name].events} : name \in DOMAIN snapshots}
  IN  [id \in {e.eventId : e \in EventsOf(snapshots)} |->
        CHOOSE place \in places : snapshots[place[1]].events[place[2]].eventId = id]

TransientEvents(b) ==
  {e \in ToSet(b.events) : b.descriptors[e.channel].persistence = "transient"}

(* The stage that an activity ran, by its node in the plan.                *)
ActivityNodes(activities) ==
  [id \in {a.activityId : a \in ToSet(activities)} |->
    (CHOOSE a \in ToSet(activities) : a.activityId = id).node]

(* Everything a result refers to is in it or in the transient channels.    *)
ReferencesResolve(result, b) ==
  LET activities == {a.activityId : a \in ToSet(result.activities)}
      events == {e.eventId : e \in EventsOf(result.channelSnapshots) \cup TransientEvents(b)}
  IN  /\ \A e \in EventsOf(result.channelSnapshots) \cup TransientEvents(b) :
           e.target.anchorRef \in DOMAIN result.anchors /\ e.provenanceRef \in activities
      /\ \A m \in ToSet(result.sourceMaps) :
           /\ m.outputRef \in events /\ m.generatingActivity \in activities
           /\ m.inputAnchorRefs \subseteq DOMAIN result.anchors

DurableMaps(result) ==
  SelectSeq(result.sourceMaps,
            LAMBDA m : m.outputRef \in {e.eventId : e \in EventsOf(result.channelSnapshots)})

(* The anchors but for those that only transient events have.              *)
SemanticAnchors(result, b) ==
  LET transient == TransientEvents(b)
      ids == {e.eventId : e \in transient}
      ofTransient == {e.target.anchorRef : e \in transient}
        \cup UNION {m.inputAnchorRefs : m \in {m \in ToSet(result.sourceMaps) : m.outputRef \in ids}}
      durable == {e.target.anchorRef : e \in EventsOf(result.channelSnapshots)}
        \cup UNION {m.inputAnchorRefs : m \in ToSet(DurableMaps(result))}
  IN  {id \in DOMAIN result.anchors : id \notin ofTransient \/ id \in durable}

IdentifyResult(bundle, result, b) ==
  LET snapshots == result.channelSnapshots
      events == EventNames(snapshots)
      node == ActivityNodes(result.activities)
      maps == DurableMaps(result)
      stable(e) == [sequence |-> e.sequence, channel |-> e.channel, name |-> events[e.eventId],
                    line |-> e.line, target |-> e.target, mapping |-> e.mapping,
                    provenance |-> node[e.provenanceRef], payload |-> e.payload]
      anchor(a) == [line |-> a.line, target |-> a.target, node |-> a.node]
  IN  [source |-> bundle.source, context |-> bundle.context, ir |-> bundle.ir, plan |-> bundle.plan,
       channels |-> [name \in DOMAIN snapshots |->
         [descriptor |-> snapshots[name].descriptor,
          events |-> [i \in DOMAIN snapshots[name].events |-> stable(snapshots[name].events[i])]]],
       anchors |-> [id \in SemanticAnchors(result, b) |-> anchor(result.anchors[id])],
       sourceMaps |-> [i \in DOMAIN maps |->
         [output |-> Field(events, maps[i].outputRef, <<>>), inputs |-> maps[i].inputAnchorRefs,
          activity |-> node[maps[i].generatingActivity], mapping |-> maps[i].mapping]],
       diagnostics |-> result.diagnostics]

-----------------------------------------------------------------------------
(* verifyDetachedSemanticBundle                                            *)

(* Each identity names those it was made from.                             *)
ChainHolds(bundle) ==
  LET result == bundle.result
  IN  /\ bundle.context.source = bundle.source /\ bundle.ir.source = bundle.source
      /\ bundle.plan.ir = bundle.ir /\ bundle.plan.context = bundle.context
      /\ <<result.source, result.context, result.ir, result.plan>>
           = <<bundle.source, bundle.context, bundle.ir, bundle.plan>>

AnchorsHold(result, lines, stages) ==
  \A id \in DOMAIN result.anchors :
    result.anchors[id].line \in 1..lines /\ result.anchors[id].node \in 1..stages

EventsHold(result, lines, stages) ==
  \A name \in DOMAIN result.channels :
    LET events == result.channels[name].events
    IN  \A i \in DOMAIN events :
          /\ events[i].channel = name /\ events[i].name = <<name, i>>
          /\ i > 1 => events[i - 1].sequence < events[i].sequence
          /\ events[i].provenance \in 1..stages /\ events[i].line \in 1..lines
          /\ events[i].target.anchorRef \in DOMAIN result.anchors

(* One source map for each event, of the activity that made it.            *)
MapsHold(result) ==
  LET events == UNION {ToSet(result.channels[name].events) : name \in DOMAIN result.channels}
      outputs == [i \in DOMAIN result.sourceMaps |-> result.sourceMaps[i].output]
  IN  /\ IsInjective(outputs) /\ ToSet(outputs) = {e.name : e \in events}
      /\ \A m \in ToSet(result.sourceMaps) :
           /\ m.inputs \subseteq DOMAIN result.anchors
           /\ \E e \in events : e.name = m.output /\ e.provenance = m.activity /\ e.mapping = m.mapping
      /\ Cardinality({e.sequence : e \in events}) = Cardinality(events)

WithinBoundLimits(bundle, stages) ==
  LET limits == bundle.context.limits
      lengths == [name \in DOMAIN bundle.result.channels |-> Len(bundle.result.channels[name].events)]
  IN  /\ FoldFunction(LAMBDA n, total : n + total, 0, lengths) <= limits.maxChannelEvents
      /\ stages <= limits.maxStageResolutions

VerifyBundle(bundle, lines, stages) ==
  /\ ChainHolds(bundle)
  /\ AnchorsHold(bundle.result, lines, stages) /\ EventsHold(bundle.result, lines, stages)
  /\ MapsHold(bundle.result) /\ WithinBoundLimits(bundle, stages)

=============================================================================
