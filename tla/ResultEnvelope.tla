--------------------------- MODULE ResultEnvelope ---------------------------
(***************************************************************************)
(* buildResultEnvelope of runtime/result-envelope.js: what a run publishes *)
(* of its bus, and the resultId, a digest that forgets the run instance    *)
(* (runtime/result-references.js).  A digest is the value it is made of.   *)
(***************************************************************************)
EXTENDS ChannelBus

-----------------------------------------------------------------------------
(* References that say which run instance made them, and what they stand   *)
(* for.                                                                    *)

EventsOf(snapshots) == UNION {ToSet(snapshots[name].events) : name \in DOMAIN snapshots}

(* Mutant: activities keep their names.                                    *)
EventReferenceMap(instance, snapshots, sourceMaps, activities) ==
  [ref \in {event.eventId : event \in EventsOf(snapshots)} |-> [ref EXCEPT ![2] = 0]]

(* A stage is named by its node in the plan, whatever served it.  Only     *)
(* events in the snapshots are renamed, and the mappings of these.         *)
OperationalReferenceMap(instance, snapshots, sourceMaps, activities) ==
  LET events == {event.eventId : event \in EventsOf(snapshots)}
      renamed(refs) == [ref \in refs |-> [ref EXCEPT ![2] = 0]]
      named(kind, refs) == [ref \in refs |-> <<kind, 0, ref[3]>>]
      of(name) == {a[name] : a \in ToSet(activities)}
  IN  (<<"run", instance>> :> <<"run", 0>>)
        @@ renamed(of("stageId") \cup of("invocationId")) @@ named("activity", of("activityId"))
        @@ renamed(events)
        @@ renamed({m.mappingId : m \in {m \in ToSet(sourceMaps) : m.outputRef \in events}})

NormalizeReferences(refs, replacements) ==
  [name \in DOMAIN refs |-> IF refs[name] \in DOMAIN replacements THEN replacements[refs[name]]
                            ELSE refs[name]]

NormalizedPayload(payload, replacements) ==
  [payload EXCEPT !.refs = NormalizeReferences(@, replacements)]

-----------------------------------------------------------------------------
(* The envelope                                                            *)

(* What is published of each channel; a required one even when empty, a    *)
(* transient one never.                                                    *)
ChannelSnapshots(b) ==
  LET on(name) == SelectSeq(b.events, LAMBDA event : event.channel = name)
      published == {name \in DOMAIN b.descriptors :
                     /\ b.descriptors[name].persistence # "transient"
                     /\ b.descriptors[name].required \/ on(name) # <<>>}
  IN  [name \in published |-> [descriptor |-> b.descriptors[name], events |-> on(name)]]

(* The event without the run's own ids.                                    *)
StableEvent(event, replacements) ==
  [sequence |-> event.sequence, version |-> event.documentVersion, channel |-> event.channel,
   target |-> event.target, mapping |-> event.mapping, node |-> event.node,
   payload |-> NormalizedPayload(event.payload, replacements)]

SemanticSnapshots(snapshots, replacements) ==
  [name \in DOMAIN snapshots |->
    [descriptor |-> snapshots[name].descriptor,
     events |-> [i \in DOMAIN snapshots[name].events |->
                  StableEvent(snapshots[name].events[i], replacements)]]]

(* Of each stage the cache served: the entry and what it rests on, each    *)
(* under its own id.                                                       *)
CacheProvenance(trace) ==
  LET entry(step) == step.cache.cacheEntryId :>
        [type |-> "cached-stage-output", node |-> step.node,
         evidenceRefs |-> [i \in DOMAIN step.cache.evidence |-> step.cache.evidence[i].evidenceId]]
      observation(step) == [id \in {e.evidenceId : e \in ToSet(step.cache.evidence)} |->
        [type |-> "cache-observation", node |-> step.node]]
  IN  FoldLeft(LAMBDA entities, step : observation(step) @@ entry(step) @@ entities, Nothing,
               SelectSeq(trace, LAMBDA step : ~step.functionInvoked))

ProvenanceActivity(step) ==
  [activityId |-> step.activityId, stageId |-> step.stageId, invocationId |-> step.invocationId,
   node |-> step.node,
   type |-> IF step.functionInvoked THEN "transform-invocation" ELSE "cache-materialization",
   cacheEntryRef |-> IF step.functionInvoked THEN <<>> ELSE step.cache.cacheEntryId,
   evidenceRefs |-> IF step.functionInvoked THEN <<>>
                    ELSE [i \in DOMAIN step.cache.evidence |-> step.cache.evidence[i].evidenceId]]

(* status, diagnostics and source are those of the run; a run that did not *)
(* succeed publishes nothing of its bus.                                   *)
BuildResultEnvelope(b, status, diagnostics, source) ==
  LET committed == status = "succeeded"
      snapshots == IF committed THEN ChannelSnapshots(b) ELSE Nothing
      sourceMaps == IF committed THEN b.sourceMaps ELSE <<>>
      replacements == OperationalReferenceMap(b.run.instance, snapshots, sourceMaps, b.trace)
  IN  [resultId |-> [status |-> status, source |-> source, diagnostics |-> diagnostics,
                     channels |-> SemanticSnapshots(snapshots, replacements)],
       instance |-> b.run.instance, status |-> status, committed |-> committed, source |-> source,
       render |-> committed,
       channelSnapshots |-> snapshots,
       anchors |-> IF committed THEN b.anchors ELSE Nothing,
       sourceMaps |-> sourceMaps,
       entities |-> IF committed THEN CacheProvenance(b.trace) ELSE Nothing,
       activities |-> IF committed THEN [i \in DOMAIN b.trace |-> ProvenanceActivity(b.trace[i])] ELSE <<>>,
       diagnostics |-> diagnostics]

=============================================================================
