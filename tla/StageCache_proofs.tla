------------------------- MODULE StageCache_proofs -------------------------
(***************************************************************************)
(* Proofs about StageCache for every set of nodes, witnesses, buckets,     *)
(* outputs and limits: type correctness, and that verified entries, hits   *)
(* and execution reports rest on committed evidence.                       *)
(***************************************************************************)
EXTENDS StageCache, TLAPS

(* The types of the state as sets.                                         *)
Maps(S) == UNION {[D -> S] : D \in SUBSET Keys}
Store == [version : Nat, entries : Maps(Entry), quarantined : Maps(Quarantine)]
Captured == [session : Nat, revision : Nat, hasPlan : BOOLEAN, baseline : Store]
Journal == [entries : Maps(Entry), quarantined : Maps(Quarantine),
            resolutions : Seq(Resolution)]
History == [kernel : Nat, session : Nat, revision : Nat, run : Nat,
            witness : Witness, output : Values]

TypeInv ==
  /\ kernel \in Nat /\ session \in Nat /\ revision \in Nat /\ hasPlan \in BOOLEAN
  /\ stageCache \in Store /\ checkpoint \in Store
  /\ runQueue \in Seq(Captured)
  /\ executing \in BOOLEAN /\ runInstance \in Nat
  /\ journal \in Journal
  /\ report \in Seq(Resolution)
  /\ committed \subseteq History

-----------------------------------------------------------------------------
(* Evidence: what a store and a journal may hold when C is committed.      *)

Names(witness, o, C) ==
  \E h \in C : h.witness = witness /\ h.revision = o.revision /\ h.run = o.run
Backed(witness, output, o, C) ==
  \E h \in C : /\ h.witness = witness /\ h.output = output
               /\ h.revision = o.revision /\ h.run = o.run

SoundEntry(e, C) ==
  /\ Len(e.observations) \in 0..2
  /\ \A i \in 1..Len(e.observations) : Backed(e.witness, e.output, e.observations[i], C)
  /\ \A i, j \in 1..Len(e.observations) :
       e.observations[i].revision = e.observations[j].revision => i = j

SoundStore(s, C) ==
  /\ \A k \in DOMAIN s.entries : SoundEntry(s.entries[k], C)
  /\ DOMAIN s.entries \cap DOMAIN s.quarantined = {}

(* A write of a run whose observation is o: o comes last, after committed  *)
(* evidence of another revision.                                           *)
SoundWrite(e, o, C) ==
  /\ Len(e.observations) \in 1..2
  /\ e.observations[Len(e.observations)] = o
  /\ Len(e.observations) = 2 =>
       /\ Backed(e.witness, e.output, e.observations[1], C)
       /\ e.observations[1].revision # o.revision

SoundHit(r, C) ==
  r.hit => \E g, h \in C : /\ g.witness = r.witness /\ h.witness = r.witness
                           /\ g.output = r.output /\ h.output = r.output
                           /\ g.revision # h.revision

(* What a resolution names is committed; a pending one may also name the   *)
(* run's own observation, which its journal then holds.                    *)
NamesAll(r, C) == \A j \in 1..Len(r.evidence) : Names(r.witness, r.evidence[j], C)
NamesFresh(r, es, qs, o, C) ==
  /\ EntryKey(r.witness) \in DOMAIN es \ DOMAIN qs
  /\ es[EntryKey(r.witness)].witness = r.witness
  /\ \A j \in 1..Len(r.evidence) : r.evidence[j] = o \/ Names(r.witness, r.evidence[j], C)

SoundResolution(r, es, qs, base, o, C) ==
  IF r.writePending
  THEN ~Collides(base, r.witness) /\ (NamesAll(r, C) \/ NamesFresh(r, es, qs, o, C))
  ELSE NamesAll(r, C)

SoundJournal(es, qs, rs, base, o, C) ==
  /\ \A k \in DOMAIN es : SoundWrite(es[k], o, C)
  /\ \A k \in DOMAIN es \cup DOMAIN qs :
       \E i \in 1..Len(rs) : rs[i].witness.node = k.node
  /\ \A i \in 1..Len(rs) : SoundHit(rs[i], C)
  /\ \A i \in 1..Len(rs) : SoundResolution(rs[i], es, qs, base, o, C)

Fresh == [revision |-> txn.revision, run |-> runInstance]

CopiesSound == \A s \in Copies : SoundStore(s, committed)
JournalSound ==
  executing => /\ runQueue # <<>>
               /\ SoundJournal(journal.entries, journal.quarantined, journal.resolutions,
                               captured, Fresh, committed)
JournalIdle == ~executing => journal = EmptyJournal
ReportSound == \A i \in 1..Len(report) : NamesAll(report[i], committed)

IInv == TypeInv /\ CopiesSound /\ JournalSound /\ JournalIdle /\ ReportSound

-----------------------------------------------------------------------------
(* Maps and sequences *)

(* Membership in Maps(S), spelt out.                                       *)
LEMMA MapsMember ==
  ASSUME NEW S, NEW f
  PROVE  f \in Maps(S) <=> IsMap(f, S)
  BY DEF Maps, IsMap

(* Mapping one more key keeps a map a map.                                 *)
LEMMA WithIsMap ==
  ASSUME NEW S, NEW m \in Maps(S), NEW k \in Keys, NEW e \in S
  PROVE  With(m, k, e) \in Maps(S)
  BY MapsMember DEF With, IsMap

(* The empty map.                                                          *)
LEMMA EmptyIsMap == ASSUME NEW S PROVE NoneMapped \in Maps(S) /\ DOMAIN NoneMapped = {}
  BY MapsMember DEF NoneMapped, IsMap

(* A witness's key is a key; keys of different nodes differ.               *)
LEMMA KeyOfWitness ==
  ASSUME NEW w \in Witness
  PROVE  EntryKey(w) \in Keys /\ EntryKey(w).node = w.node
  BY DEF Keys, EntryKey

(* slice(-2): what is kept of a sequence one longer than a pair at most.   *)
LEMMA LastTwoKeeps ==
  ASSUME NEW S, NEW s \in Seq(S), Len(s) \in 0..2, NEW x \in S
  PROVE  /\ LastTwo(Append(s, x)) \in Seq(S)
         /\ Len(s) = 0 => Len(LastTwo(Append(s, x))) = 1
         /\ Len(s) > 0 => Len(LastTwo(Append(s, x))) = 2
         /\ LastTwo(Append(s, x))[Len(LastTwo(Append(s, x)))] = x
         /\ Len(s) > 0 => LastTwo(Append(s, x))[1] = s[Len(s)]
<1>1. PICK a : a = Append(s, x)
  OBVIOUS
<1>2. /\ a \in Seq(S) /\ Len(a) = Len(s) + 1 /\ a[Len(a)] = x
      /\ Len(s) > 0 => a[Len(s)] = s[Len(s)]
  BY <1>1
<1>4. CASE Len(s) # 2
  <2>1. LastTwo(a) = a BY <1>2, <1>4 DEF LastTwo
  <2> QED BY <1>1, <1>2, <1>4, <2>1
<1>5. CASE Len(s) = 2
  <2>1. LastTwo(a) = SubSeq(a, 2, 3) BY <1>2, <1>5 DEF LastTwo
  <2>2. SubSeq(a, 2, 3) \in Seq(S) /\ Len(SubSeq(a, 2, 3)) = 2
        /\ SubSeq(a, 2, 3)[1] = a[2] /\ SubSeq(a, 2, 3)[2] = a[3]
    BY <1>2, <1>5
  <2> QED BY <1>1, <1>2, <1>5, <2>1, <2>2
<1> QED BY <1>4, <1>5

(* The journal's run is the queue's head, which submissions leave there.   *)
LEMMA HeadFacts ==
  ASSUME NEW q \in Seq(Captured), q # <<>>
  PROVE  /\ Head(q) \in Captured /\ Head(q) = q[1] /\ 1 \in 1..Len(q)
         /\ Tail(q) \in Seq(Captured) /\ Len(Tail(q)) = Len(q) - 1
         /\ \A i \in 1..Len(Tail(q)) : i + 1 \in 1..Len(q) /\ Tail(q)[i] = q[i + 1]
         /\ \A c \in Captured : Head(Append(q, c)) = Head(q)
  OBVIOUS

(* Committing more observations keeps what is sound so.                    *)
LEMMA SoundMonotone ==
  ASSUME NEW C, NEW D, C \subseteq D, NEW s, SoundStore(s, C)
  PROVE  SoundStore(s, D)
  BY DEF SoundStore, SoundEntry, Backed

-----------------------------------------------------------------------------
(* The store a commit makes *)

(* Eviction only drops.                                                    *)
LEMMA EvictionDrops ==
  ASSUME NEW m \in Maps(Entry), NEW q \in Maps(Quarantine)
  PROVE  /\ EvictEntries(m) \in Maps(Entry)
         /\ DOMAIN EvictEntries(m) \subseteq DOMAIN m
         /\ \A k \in DOMAIN EvictEntries(m) : EvictEntries(m)[k] = m[k]
         /\ EvictQuarantines(q) \in Maps(Quarantine)
         /\ DOMAIN EvictQuarantines(q) \subseteq DOMAIN q
  BY MapsMember DEF EvictEntries, EvictQuarantines, IsMap

(* The merged maps, and where each of their elements comes from.           *)
LEMMA MergeFacts ==
  ASSUME stageCache \in Store, journal \in Journal
  PROVE  /\ MergedQuarantines \in Maps(Quarantine)
         /\ DOMAIN MergedQuarantines =
              DOMAIN stageCache.quarantined \cup DOMAIN journal.quarantined
         /\ MergedEntries \in Maps(Entry)
         /\ \A k \in DOMAIN MergedEntries :
              \/ /\ k \in DOMAIN journal.entries \ DOMAIN MergedQuarantines
                 /\ MergedEntries[k] = journal.entries[k]
              \/ /\ k \in DOMAIN stageCache.entries \ DOMAIN journal.quarantined
                 /\ MergedEntries[k] = stageCache.entries[k]
<1>1. /\ IsMap(stageCache.entries, Entry) /\ IsMap(stageCache.quarantined, Quarantine)
      /\ IsMap(journal.entries, Entry) /\ IsMap(journal.quarantined, Quarantine)
  BY MapsMember DEF Store, Journal
<1>2. /\ IsMap(MergedQuarantines, Quarantine)
      /\ DOMAIN MergedQuarantines =
           DOMAIN stageCache.quarantined \cup DOMAIN journal.quarantined
  BY <1>1 DEF MergedQuarantines, IsMap
<1>3. IsMap(MergedEntries, Entry)
  BY <1>1 DEF MergedEntries, IsMap
<1>4. \A k \in DOMAIN MergedEntries :
        \/ /\ k \in DOMAIN journal.entries \ DOMAIN MergedQuarantines
           /\ MergedEntries[k] = journal.entries[k]
        \/ /\ k \in DOMAIN stageCache.entries \ DOMAIN journal.quarantined
           /\ MergedEntries[k] = stageCache.entries[k]
  BY DEF MergedEntries
<1> QED BY <1>2, <1>3, <1>4, MapsMember

(* A write becomes sound when its own observation is committed.            *)
LEMMA WriteBecomesSound ==
  ASSUME NEW C, NEW D, C \subseteq D, NEW o, NEW e \in Entry, SoundWrite(e, o, C),
         Backed(e.witness, e.output, o, D)
  PROVE  SoundEntry(e, D)
<1>1. CASE Len(e.observations) = 1
  BY <1>1 DEF SoundWrite, SoundEntry
<1>2. CASE Len(e.observations) = 2
  <2>1. /\ e.observations[2] = o /\ e.observations[1].revision # e.observations[2].revision
        /\ Backed(e.witness, e.output, e.observations[1], D)
    BY <1>2 DEF SoundWrite, Backed
  <2>2. \A i \in 1..Len(e.observations) : i = 1 \/ i = 2
    BY <1>2
  <2> QED BY <1>2, <2>1, <2>2 DEF SoundEntry
<1> QED BY <1>1, <1>2 DEF SoundWrite

(* What a commit adds to the committed observations.                       *)
LEMMA CommittedGrows ==
  ASSUME CommitJournal
  PROVE  /\ committed \subseteq committed'
         /\ \A k \in SurvivingEntries :
              Backed(journal.entries[k].witness, journal.entries[k].output, Fresh, committed')
         /\ \A k \in SurvivingEntries :
              Names(journal.entries[k].witness, Fresh, committed')
<1>1. committed' = committed \cup {FreshObservation(k) : k \in SurvivingEntries}
  BY DEF CommitJournal
<1>2. \A k \in SurvivingEntries :
        LET h == FreshObservation(k) IN
        /\ h \in committed' /\ h.witness = journal.entries[k].witness
        /\ h.output = journal.entries[k].output
        /\ h.revision = Fresh.revision /\ h.run = Fresh.run
  BY <1>1 DEF FreshObservation, Fresh
<1>3. committed \subseteq committed'
  BY <1>1
<1> QED BY <1>2, <1>3 DEF Backed, Names

(* The store a commit makes is a store, and sound.                         *)
LEMMA CommitIsSound ==
  ASSUME TypeInv, CopiesSound, JournalSound, CommitJournal
  PROVE  stageCache' \in Store /\ SoundStore(stageCache', committed')
<1> DEFINE es == EvictEntries(MergedEntries)
           qs == EvictQuarantines(MergedQuarantines)
<1>1. stageCache' = [version |-> NextVersion, entries |-> es, quarantined |-> qs]
  BY DEF CommitJournal
<1>2. stageCache \in Store /\ journal \in Journal
  BY DEF TypeInv
<1>3. NextVersion \in Nat
  BY <1>2 DEF NextVersion, Store
<1>4. /\ es \in Maps(Entry) /\ DOMAIN es \subseteq DOMAIN MergedEntries
      /\ \A k \in DOMAIN es : es[k] = MergedEntries[k]
      /\ qs \in Maps(Quarantine) /\ DOMAIN qs \subseteq DOMAIN MergedQuarantines
  BY <1>2, MergeFacts, EvictionDrops
<1>5. SoundStore(stageCache, committed)
  BY DEF CopiesSound, Copies
<1>6. SoundJournal(journal.entries, journal.quarantined, journal.resolutions,
                   captured, Fresh, committed)
  BY DEF JournalSound, CommitJournal
<1>7. ASSUME NEW k \in DOMAIN es
      PROVE  SoundEntry(es[k], committed') /\ k \notin DOMAIN qs
  <2>1. CASE /\ k \in DOMAIN journal.entries \ DOMAIN MergedQuarantines
             /\ MergedEntries[k] = journal.entries[k]
    <3>1. k \in SurvivingEntries
      BY <1>7, <2>1 DEF SurvivingEntries
    <3>2. SoundWrite(journal.entries[k], Fresh, committed)
      BY <1>6, <2>1 DEF SoundJournal
    <3>3. journal.entries[k] \in Entry
      BY <1>2, <2>1, MapsMember DEF Journal, IsMap
    <3>4. SoundEntry(journal.entries[k], committed')
      BY <3>1, <3>2, <3>3, CommittedGrows, WriteBecomesSound
    <3> QED BY <1>4, <1>7, <2>1, <3>4
  <2>2. CASE /\ k \in DOMAIN stageCache.entries \ DOMAIN journal.quarantined
             /\ MergedEntries[k] = stageCache.entries[k]
    <3>1. SoundStore(stageCache, committed')
      BY <1>5, CommittedGrows, SoundMonotone
    <3>2. k \notin DOMAIN stageCache.quarantined
      BY <1>5, <2>2 DEF SoundStore
    <3> QED BY <1>2, <1>4, <1>7, <2>2, <3>1, <3>2, MergeFacts DEF SoundStore
  <2> QED BY <1>2, <1>4, <1>7, <2>1, <2>2, MergeFacts
<1>8. stageCache' \in Store
  BY <1>1, <1>3, <1>4 DEF Store
<1>9. stageCache'.entries = es /\ stageCache'.quarantined = qs
  BY <1>1
<1> HIDE DEF es, qs
<1>10. SoundStore(stageCache', committed')
  BY <1>7, <1>9 DEF SoundStore
<1> QED BY <1>8, <1>10

-----------------------------------------------------------------------------
(* Resolving a stage *)

(* The run that is executing, the store it captured and its observation.   *)
LEMMA ExecutingRun ==
  ASSUME TypeInv, CopiesSound, runQueue # <<>>
  PROVE  /\ txn \in Captured /\ captured \in Store /\ Fresh \in Observation
         /\ SoundStore(captured, committed)
<1>1. txn \in Captured /\ txn = runQueue[1] /\ 1 \in 1..Len(runQueue)
  BY HeadFacts DEF TypeInv, txn
<1>2. captured \in Copies
  BY <1>1 DEF captured, Copies
<1> QED BY <1>1, <1>2 DEF CopiesSound, TypeInv, Captured, captured, Fresh, Observation

(* An entry the captured store holds for a witness names committed         *)
(* observations of it.                                                     *)
LEMMA HeldEntry ==
  ASSUME TypeInv, CopiesSound, runQueue # <<>>, NEW w \in Witness, Holds(captured, w)
  PROVE  /\ captured.entries[EntryKey(w)] \in Entry
         /\ captured.entries[EntryKey(w)].witness = w
         /\ SoundEntry(captured.entries[EntryKey(w)], committed)
         /\ \A i \in 1..Len(captured.entries[EntryKey(w)].observations) :
              Names(w, captured.entries[EntryKey(w)].observations[i], committed)
<1> DEFINE k == EntryKey(w)
           e == captured.entries[k]
<1>1. k \in DOMAIN captured.entries /\ e.witness = w
  BY DEF Holds
<1>2. e \in Entry
  BY <1>1, ExecutingRun, MapsMember DEF Store, IsMap
<1>3. SoundEntry(e, committed)
  BY <1>1, ExecutingRun DEF SoundStore
<1> HIDE DEF e
<1>4. \A i \in 1..Len(e.observations) : Names(w, e.observations[i], committed)
  BY <1>1, <1>3 DEF SoundEntry, Backed, Names
<1> QED BY <1>1, <1>2, <1>3, <1>4 DEF e

(* What a stage reads before its function is called is committed evidence. *)
LEMMA ReadEvidence ==
  ASSUME TypeInv, CopiesSound, runQueue # <<>>, NEW w \in Witness, NEW retained \in BOOLEAN
  PROVE  /\ EvidenceRead(w, retained) \in Seq(Observation)
         /\ \A i \in 1..Len(EvidenceRead(w, retained)) :
              Names(w, EvidenceRead(w, retained)[i], committed)
<1>1. CASE Read(w, retained)
  BY <1>1, HeldEntry DEF EvidenceRead, Read, Entry
<1>2. CASE ~Read(w, retained)
  BY <1>2 DEF EvidenceRead
<1> QED BY <1>1, <1>2

(* A sound journal stays sound when a stage it has not resolved is         *)
(* resolved soundly and only that stage's key is written.                  *)
LEMMA AppendSound ==
  ASSUME NEW C, NEW o, NEW base, NEW es, NEW qs, NEW es2, NEW qs2,
         NEW rs \in Seq(Resolution), NEW r \in Resolution,
         SoundJournal(es, qs, rs, base, o, C),
         \A i \in 1..Len(rs) : rs[i].witness.node # r.witness.node,
         DOMAIN es \subseteq DOMAIN es2,
         DOMAIN es2 \subseteq DOMAIN es \cup {EntryKey(r.witness)},
         DOMAIN qs \subseteq DOMAIN qs2,
         DOMAIN qs2 \subseteq DOMAIN qs \cup {EntryKey(r.witness)},
         \A k \in DOMAIN es \ {EntryKey(r.witness)} : es2[k] = es[k],
         EntryKey(r.witness) \in DOMAIN es2 => SoundWrite(es2[EntryKey(r.witness)], o, C),
         SoundHit(r, C), SoundResolution(r, es2, qs2, base, o, C)
  PROVE  SoundJournal(es2, qs2, Append(rs, r), base, o, C)
<1> DEFINE K == EntryKey(r.witness)
<1>1. PICK rs2 : rs2 = Append(rs, r)
  OBVIOUS
<1>2. /\ Len(rs2) = Len(rs) + 1 /\ Len(rs) \in Nat /\ rs2[Len(rs) + 1] = r
      /\ \A i \in 1..Len(rs) : rs2[i] = rs[i]
  BY <1>1
<1>3. \A i \in 1..Len(rs2) : i \in 1..Len(rs) \/ i = Len(rs) + 1
  BY <1>2
<1>4. K.node = r.witness.node
  BY DEF EntryKey
<1>5. \A k \in DOMAIN es2 : SoundWrite(es2[k], o, C)
  BY DEF SoundJournal
<1>6. \A k \in DOMAIN es2 \cup DOMAIN qs2 :
        \E i \in 1..Len(rs2) : rs2[i].witness.node = k.node
  <2> SUFFICES ASSUME NEW k \in DOMAIN es2 \cup DOMAIN qs2
               PROVE  \E i \in 1..Len(rs2) : rs2[i].witness.node = k.node
    OBVIOUS
  <2>1. CASE k = K
    <3>1. Len(rs) + 1 \in 1..Len(rs2) BY <1>2
    <3> QED BY <1>2, <1>4, <2>1, <3>1
  <2>2. CASE k # K
    <3>1. PICK i \in 1..Len(rs) : rs[i].witness.node = k.node
      BY <2>2 DEF SoundJournal
    <3>2. i \in 1..Len(rs2) BY <1>2
    <3> QED BY <1>2, <3>1, <3>2
  <2> QED BY <2>1, <2>2
<1>7. \A i \in 1..Len(rs2) : SoundHit(rs2[i], C)
  BY <1>2, <1>3 DEF SoundJournal
<1>8. \A i \in 1..Len(rs2) : SoundResolution(rs2[i], es2, qs2, base, o, C)
  <2>1. ASSUME NEW i \in 1..Len(rs)
        PROVE  SoundResolution(rs[i], es2, qs2, base, o, C)
    <3>1. SoundResolution(rs[i], es, qs, base, o, C)
      BY DEF SoundJournal
    <3>2. EntryKey(rs[i].witness) # K
      <4>1. EntryKey(rs[i].witness).node = rs[i].witness.node
        BY DEF EntryKey
      <4> QED BY <1>4, <4>1
    <3>3. NamesFresh(rs[i], es, qs, o, C) => NamesFresh(rs[i], es2, qs2, o, C)
      BY <3>2 DEF NamesFresh
    <3> QED BY <3>1, <3>3 DEF SoundResolution
  <2> QED BY <1>2, <1>3, <2>1
<1>9. SoundJournal(es2, qs2, rs2, base, o, C)
  BY <1>5, <1>6, <1>7, <1>8 DEF SoundJournal
<1> QED BY <1>1, <1>9

(* The invariant's parts a stage relies on, and what it has to leave.      *)
StageReady == TypeInv /\ CopiesSound /\ JournalSound
StageDone ==
  /\ journal' \in Journal
  /\ SoundJournal(journal'.entries, journal'.quarantined, journal'.resolutions,
                  captured, Fresh, committed)

(* Recording a resolution and writing nothing.                             *)
LEMMA RecordsSoundly ==
  ASSUME StageReady, NEW w \in Witness, NEW hit \in BOOLEAN,
         NEW output \in Values \cup {NoValue}, NEW evidence \in Seq(Observation),
         MayResolve(w, FALSE),
         journal' = [journal EXCEPT
           !.resolutions = Resolved(w, hit, output, evidence, FALSE)],
         \A j \in 1..Len(evidence) : Names(w, evidence[j], committed),
         hit => \E g, h \in committed : /\ g.witness = w /\ h.witness = w
                                       /\ g.output = output /\ h.output = output
                                       /\ g.revision # h.revision
  PROVE  StageDone
<1> DEFINE r == [witness |-> w, hit |-> hit, output |-> output, evidence |-> evidence,
                 writePending |-> FALSE, write |-> FALSE]
           rs == journal.resolutions
<1>1. /\ journal \in Journal /\ rs \in Seq(Resolution) /\ r \in Resolution
      /\ \A i \in 1..Len(rs) : rs[i].witness.node # w.node
  BY DEF StageReady, TypeInv, Journal, Resolution, MayResolve, Unresolved
<1>2. SoundJournal(journal.entries, journal.quarantined, rs, captured, Fresh, committed)
  BY DEF StageReady, JournalSound, MayResolve
<1>3. /\ SoundHit(r, committed)
      /\ SoundResolution(r, journal.entries, journal.quarantined, captured, Fresh, committed)
  BY DEF SoundHit, SoundResolution, NamesAll
<1>4. r.witness = w
  OBVIOUS
<1>5. journal' = [journal EXCEPT !.resolutions = Append(rs, r)]
  BY DEF Resolved
<1> HIDE DEF r
<1>6. SoundJournal(journal.entries, journal.quarantined, Append(rs, r),
                   captured, Fresh, committed)
  <2>1. EntryKey(r.witness) \in DOMAIN journal.entries
          => SoundWrite(journal.entries[EntryKey(r.witness)], Fresh, committed)
    BY <1>2 DEF SoundJournal
  <2> QED BY <1>1, <1>2, <1>3, <1>4, <2>1, AppendSound
<1>7. Append(rs, r) \in Seq(Resolution)
  BY <1>1
<1> QED BY <1>1, <1>5, <1>6, <1>7 DEF StageDone, Journal

(* A hit serves what two committed runs produced.                          *)
LEMMA ReuseSound ==
  ASSUME StageReady, NEW w \in Witness, ReuseStage(w)
  PROVE  StageDone
<1> DEFINE e == captured.entries[EntryKey(w)]
<1>1. /\ Holds(captured, w) /\ runQueue # <<>> /\ MayResolve(w, FALSE)
      /\ Verified(e)
      /\ journal' = [journal EXCEPT
           !.resolutions = Resolved(w, TRUE, e.output, e.observations, FALSE)]
  BY DEF ReuseStage, Hits, Read, StageReady, JournalSound, MayResolve
<1>2. /\ e \in Entry /\ e.witness = w /\ SoundEntry(e, committed)
      /\ \A i \in 1..Len(e.observations) : Names(w, e.observations[i], committed)
  BY <1>1, HeldEntry DEF StageReady
<1> HIDE DEF e
<1>3. \E g, h \in committed : /\ g.witness = w /\ h.witness = w
                             /\ g.output = e.output /\ h.output = e.output
                             /\ g.revision # h.revision
  <2>1. Len(e.observations) = 2
    BY <1>1, <1>2 DEF Verified, SoundEntry
  <2>2. 1 \in 1..Len(e.observations) /\ 2 \in 1..Len(e.observations)
    BY <2>1
  <2>3. /\ Backed(w, e.output, e.observations[1], committed)
        /\ Backed(w, e.output, e.observations[2], committed)
        /\ e.observations[1].revision # e.observations[2].revision
    BY <1>2, <2>2 DEF SoundEntry
  <2> QED BY <2>3 DEF Backed
<1>4. e.output \in Values \cup {NoValue} /\ e.observations \in Seq(Observation)
  BY <1>2 DEF Entry
<1> QED BY <1>1, <1>2, <1>3, <1>4, RecordsSoundly

(* A call whose output is not observed writes nothing.                     *)
LEMMA SkipSound ==
  ASSUME StageReady, NEW w \in Witness, NEW retained \in BOOLEAN,
         NEW output \in Values \cup {NoValue}, SkipObservation(w, retained, output)
  PROVE  StageDone
<1>1. runQueue # <<>> /\ MayResolve(w, FALSE)
  BY DEF SkipObservation, Invokes, StageReady, JournalSound, MayResolve
<1>2. /\ EvidenceRead(w, retained) \in Seq(Observation)
      /\ \A i \in 1..Len(EvidenceRead(w, retained)) :
           Names(w, EvidenceRead(w, retained)[i], committed)
  BY <1>1, ReadEvidence DEF StageReady
<1> QED BY <1>1, <1>2, RecordsSoundly DEF SkipObservation

(* The same revision advances nothing.                                     *)
LEMMA IgnoreSound ==
  ASSUME StageReady, NEW w \in Witness, NEW retained \in BOOLEAN,
         NEW output \in Values \cup {NoValue}, IgnoreSameRevision(w, retained, output)
  PROVE  StageDone
<1>1. runQueue # <<>> /\ MayResolve(w, FALSE) /\ Holds(captured, w)
  BY DEF IgnoreSameRevision, Invokes, StageReady, JournalSound, MayResolve, SeenThisRevision
<1>2. /\ captured.entries[EntryKey(w)].observations \in Seq(Observation)
      /\ \A i \in 1..Len(captured.entries[EntryKey(w)].observations) :
           Names(w, captured.entries[EntryKey(w)].observations[i], committed)
  BY <1>1, HeldEntry DEF StageReady, Entry
<1> QED BY <1>1, <1>2, RecordsSoundly DEF IgnoreSameRevision

(* The place in the journal of what the executing run writes next.         *)
LEMMA StampType ==
  ASSUME TypeInv, runQueue # <<>>, CopiesSound
  PROVE  NextStamp \in Stamp
<1>1. captured.version \in Nat
  BY ExecutingRun DEF Store
<1>2. Len(journal.resolutions) \in Nat
  BY DEF TypeInv, Journal
<1> QED BY <1>1, <1>2 DEF NextStamp, Stamp

(* A contradiction writes a quarantine and names what the entry named.     *)
LEMMA QuarantineSound ==
  ASSUME StageReady, NEW w \in Witness, NEW retained \in BOOLEAN,
         NEW output \in Values \cup {NoValue}, QuarantineStage(w, retained, output)
  PROVE  StageDone
<1> DEFINE rs == journal.resolutions
           q == [witness |-> w, stamp |-> NextStamp]
           qs == With(journal.quarantined, EntryKey(w), q)
           r == [witness |-> w, hit |-> FALSE, output |-> output,
                 evidence |-> EvidenceRead(w, retained),
                 writePending |-> TRUE, write |-> FALSE]
<1>1. /\ runQueue # <<>> /\ Unresolved(w) /\ executing /\ ~Collides(captured, w)
      /\ journal' = [journal EXCEPT !.quarantined = qs, !.resolutions = Append(rs, r)]
  BY DEF QuarantineStage, Invokes, Observable, StageReady, JournalSound, MayResolve, Resolved
<1>2. /\ EvidenceRead(w, retained) \in Seq(Observation)
      /\ \A i \in 1..Len(EvidenceRead(w, retained)) :
           Names(w, EvidenceRead(w, retained)[i], committed)
  BY <1>1, ReadEvidence DEF StageReady
<1>3. journal \in Journal /\ rs \in Seq(Resolution) /\ r \in Resolution
  BY <1>2 DEF StageReady, TypeInv, Journal, Resolution
<1>4. qs \in Maps(Quarantine) /\ DOMAIN qs = DOMAIN journal.quarantined \cup {EntryKey(w)}
  <2>1. q \in Quarantine
    BY <1>1, StampType DEF StageReady, Quarantine
  <2>2. qs \in Maps(Quarantine)
    BY <1>3, <2>1, KeyOfWitness, WithIsMap DEF Journal
  <2> QED BY <2>2 DEF With
<1>5. SoundJournal(journal.entries, journal.quarantined, rs, captured, Fresh, committed)
  BY <1>1 DEF StageReady, JournalSound
<1>6. /\ SoundHit(r, committed) /\ r.witness = w
      /\ SoundResolution(r, journal.entries, qs, captured, Fresh, committed)
  BY <1>1, <1>2 DEF SoundHit, SoundResolution, NamesAll
<1>7. \A i \in 1..Len(rs) : rs[i].witness.node # r.witness.node
  BY <1>1, <1>6 DEF Unresolved
<1> HIDE DEF qs, r
<1>8. SoundJournal(journal.entries, qs, Append(rs, r), captured, Fresh, committed)
  <2>1. EntryKey(r.witness) \in DOMAIN journal.entries
          => SoundWrite(journal.entries[EntryKey(r.witness)], Fresh, committed)
    BY <1>5 DEF SoundJournal
  <2> QED BY <1>3, <1>4, <1>5, <1>6, <1>7, <2>1, AppendSound
<1>9. Append(rs, r) \in Seq(Resolution)
  BY <1>3
<1> QED BY <1>1, <1>3, <1>4, <1>8, <1>9 DEF StageDone, Journal

(* The evidence a new observation of w continues, and the entry it writes. *)
Earlier(w) ==
  IF Holds(captured, w) THEN captured.entries[EntryKey(w)].observations ELSE <<>>
Kept(w) == LastTwo(Append(Earlier(w), Fresh))
Written(w, output) ==
  [witness |-> w, output |-> output, observations |-> Kept(w), stamp |-> NextStamp]

(* The evidence it continues is committed, and of other revisions.         *)
LEMMA EarlierEvidence ==
  ASSUME StageReady, runQueue # <<>>, NEW w \in Witness, NEW output,
         ~Mismatch(w, output), ~SeenThisRevision(w)
  PROVE  /\ Earlier(w) \in Seq(Observation) /\ Len(Earlier(w)) \in 0..2
         /\ \A i \in 1..Len(Earlier(w)) :
              /\ Names(w, Earlier(w)[i], committed)
              /\ Backed(w, output, Earlier(w)[i], committed)
              /\ Earlier(w)[i].revision # txn.revision
<1>1. CASE Holds(captured, w)
  <2> DEFINE f == captured.entries[EntryKey(w)]
  <2>1. /\ f \in Entry /\ f.witness = w /\ SoundEntry(f, committed)
        /\ \A i \in 1..Len(f.observations) : Names(w, f.observations[i], committed)
    BY <1>1, HeldEntry DEF StageReady
  <2>2. f.output = output /\ Earlier(w) = f.observations
        /\ \A i \in 1..Len(f.observations) : f.observations[i].revision # txn.revision
    BY <1>1 DEF Mismatch, SeenThisRevision, Earlier
  <2> HIDE DEF f
  <2> QED BY <2>1, <2>2 DEF SoundEntry, Entry
<1>2. CASE ~Holds(captured, w)
  BY <1>2 DEF Earlier
<1> QED BY <1>1, <1>2

(* What it writes rests on the evidence it continues and on itself.        *)
LEMMA ObservedWrite ==
  ASSUME StageReady, runQueue # <<>>, NEW w \in Witness, NEW output \in Values,
         ~Mismatch(w, output), ~SeenThisRevision(w)
  PROVE  Written(w, output) \in Entry /\ SoundWrite(Written(w, output), Fresh, committed)
<1>1. Fresh \in Observation /\ NextStamp \in Stamp /\ Fresh.revision = txn.revision
  BY ExecutingRun, StampType DEF StageReady, Fresh
<1>2. PICK s : s = Earlier(w)
  OBVIOUS
<1>3. PICK t : t = Kept(w)
  OBVIOUS
<1>4. /\ s \in Seq(Observation) /\ Len(s) \in 0..2
      /\ \A i \in 1..Len(s) : /\ Backed(w, output, s[i], committed)
                             /\ s[i].revision # txn.revision
  BY <1>2, EarlierEvidence
<1>5. /\ t \in Seq(Observation) /\ t[Len(t)] = Fresh
      /\ Len(s) = 0 => Len(t) = 1
      /\ Len(s) > 0 => Len(t) = 2 /\ t[1] = s[Len(s)]
  <2>1. t = LastTwo(Append(s, Fresh))
    BY <1>2, <1>3 DEF Kept
  <2>2. /\ LastTwo(Append(s, Fresh)) \in Seq(Observation)
        /\ Len(s) = 0 => Len(LastTwo(Append(s, Fresh))) = 1
        /\ Len(s) > 0 => Len(LastTwo(Append(s, Fresh))) = 2
        /\ LastTwo(Append(s, Fresh))[Len(LastTwo(Append(s, Fresh)))] = Fresh
        /\ Len(s) > 0 => LastTwo(Append(s, Fresh))[1] = s[Len(s)]
    BY <1>1, <1>4, LastTwoKeeps
  <2> QED BY <2>1, <2>2
<1>6. PICK e : e = Written(w, output)
  OBVIOUS
<1>7. e.witness = w /\ e.output = output /\ e.observations = t /\ e \in Entry
  BY <1>1, <1>3, <1>5, <1>6 DEF Written, Entry
<1>8. SoundWrite(e, Fresh, committed)
  <2>1. CASE Len(s) = 0
    <3>1. Len(t) = 1 BY <1>5, <2>1
    <3> QED BY <1>5, <1>7, <3>1 DEF SoundWrite
  <2>2. CASE Len(s) # 0
    <3>1. Len(s) > 0 /\ Len(s) \in 1..Len(s)
      BY <1>4, <2>2
    <3>2. Backed(w, output, t[1], committed) /\ t[1].revision # txn.revision
      BY <1>4, <1>5, <3>1
    <3>3. Len(t) = 2 BY <1>5, <3>1
    <3> QED BY <1>1, <1>5, <1>7, <3>2, <3>3 DEF SoundWrite
  <2> QED BY <2>1, <2>2
<1> QED BY <1>6, <1>7, <1>8

(* An observation writes an entry and may name itself until it completes.  *)
LEMMA ObserveSound ==
  ASSUME StageReady, NEW w \in Witness, NEW retained \in BOOLEAN,
         NEW output \in Values \cup {NoValue}, ObserveStage(w, retained, output)
  PROVE  StageDone
<1> DEFINE rs == journal.resolutions
           e == Written(w, output)
           es == With(journal.entries, EntryKey(w), e)
           r == [witness |-> w, hit |-> FALSE, output |-> output,
                 evidence |-> Append(Earlier(w), Fresh),
                 writePending |-> TRUE, write |-> FALSE]
<1>5. /\ runQueue # <<>> /\ Unresolved(w) /\ executing /\ ~Collides(captured, w)
      /\ output \in Values /\ ~Mismatch(w, output) /\ ~SeenThisRevision(w)
      /\ journal' = [journal EXCEPT !.entries = es, !.resolutions = Append(rs, r)]
  BY DEF ObserveStage, Invokes, Observable, StageReady, JournalSound, MayResolve, Resolved,
     Fresh, Earlier, Kept, Written
<1>6. /\ e \in Entry /\ SoundWrite(e, Fresh, committed) /\ e.witness = w
      /\ Earlier(w) \in Seq(Observation)
      /\ \A i \in 1..Len(Earlier(w)) : Names(w, Earlier(w)[i], committed)
  <2>1. e \in Entry /\ SoundWrite(e, Fresh, committed)
    BY <1>5, ObservedWrite
  <2>2. e.witness = w
    BY DEF Written
  <2> QED BY <1>5, <2>1, <2>2, EarlierEvidence
<1>7. Fresh \in Observation
  BY <1>5, ExecutingRun DEF StageReady
<1>8. journal \in Journal /\ rs \in Seq(Resolution) /\ r \in Resolution
  BY <1>5, <1>6, <1>7 DEF StageReady, TypeInv, Journal, Resolution
<1>9. /\ es \in Maps(Entry) /\ DOMAIN es = DOMAIN journal.entries \cup {EntryKey(w)}
      /\ es[EntryKey(w)] = e
      /\ \A k \in DOMAIN journal.entries \ {EntryKey(w)} : es[k] = journal.entries[k]
  <2>1. es \in Maps(Entry)
    BY <1>6, <1>8, KeyOfWitness, WithIsMap DEF Journal
  <2> QED BY <2>1 DEF With
<1>10. SoundJournal(journal.entries, journal.quarantined, rs, captured, Fresh, committed)
  BY <1>5 DEF StageReady, JournalSound
<1>11. r.witness = w /\ r.writePending = TRUE /\ r.hit = FALSE
       /\ r.evidence = Append(Earlier(w), Fresh)
  OBVIOUS
<1> HIDE DEF r, e, es
<1>12. EntryKey(w) \notin DOMAIN journal.quarantined
  <2>1. EntryKey(w).node = w.node
    BY KeyOfWitness
  <2> QED BY <1>5, <1>10, <2>1 DEF SoundJournal, Unresolved
<1>13. NamesFresh(r, es, journal.quarantined, Fresh, committed)
  <2>1. \A j \in 1..Len(Append(Earlier(w), Fresh)) :
          \/ Append(Earlier(w), Fresh)[j] = Fresh
          \/ j \in 1..Len(Earlier(w)) /\ Append(Earlier(w), Fresh)[j] = Earlier(w)[j]
    BY <1>6, <1>7
  <2>2. es[EntryKey(w)].witness = w
    BY <1>6, <1>9
  <2> QED BY <1>6, <1>9, <1>11, <1>12, <2>1, <2>2 DEF NamesFresh
<1>14. /\ SoundHit(r, committed)
       /\ SoundResolution(r, es, journal.quarantined, captured, Fresh, committed)
  BY <1>5, <1>11, <1>13 DEF SoundHit, SoundResolution
<1>15. \A i \in 1..Len(rs) : rs[i].witness.node # r.witness.node
  BY <1>5, <1>11 DEF Unresolved
<1>16. SoundJournal(es, journal.quarantined, Append(rs, r), captured, Fresh, committed)
  BY <1>6, <1>8, <1>9, <1>10, <1>11, <1>14, <1>15, AppendSound
<1>17. Append(rs, r) \in Seq(Resolution)
  BY <1>8
<1> QED BY <1>5, <1>8, <1>9, <1>16, <1>17 DEF StageDone, Journal

(* Whatever a stage resolves to, the journal stays sound and nothing else  *)
(* changes.                                                                *)
LEMMA ResolveStageSound ==
  ASSUME StageReady, ResolveStage
  PROVE  StageDone /\ OnlyJournal
<1>1. ASSUME NEW w \in Witness, ReuseStage(w) PROVE StageDone /\ OnlyJournal
  BY <1>1, ReuseSound DEF ReuseStage
<1>2. ASSUME NEW w \in Witness, NEW retained \in BOOLEAN, NEW output \in Values \cup {NoValue},
             \/ SkipObservation(w, retained, output)
             \/ QuarantineStage(w, retained, output)
             \/ IgnoreSameRevision(w, retained, output)
             \/ ObserveStage(w, retained, output)
      PROVE  StageDone /\ OnlyJournal
  BY <1>2, SkipSound, QuarantineSound, IgnoreSound, ObserveSound
     DEF SkipObservation, QuarantineStage, IgnoreSameRevision, ObserveStage
<1> QED BY <1>1, <1>2 DEF ResolveStage

-----------------------------------------------------------------------------
(* Completing a run *)

(* A report may always name nothing.                                       *)
LEMMA NamesNothing ==
  ASSUME NEW r \in Resolution, NEW C
  PROVE  LET n == [r EXCEPT !.writePending = FALSE, !.evidence = <<>>]
         IN  n \in Resolution /\ NamesAll(n, C)
<1> DEFINE n == [r EXCEPT !.writePending = FALSE, !.evidence = <<>>]
<1>1. <<>> \in Seq(Observation) /\ Len(<<>>) = 0
  OBVIOUS
<1>2. n \in Resolution
  BY <1>1 DEF Resolution
<1>3. n.evidence = <<>>
  BY DEF Resolution
<1> HIDE DEF n
<1>4. NamesAll(n, C)
  BY <1>3 DEF NamesAll
<1> QED BY <1>2, <1>4 DEF n

(* A discarded write is reported as the evidence that was captured.        *)
LEMMA DiscardSound ==
  ASSUME StageReady, executing, Discarded
  PROVE  /\ report' \in Seq(Resolution)
         /\ \A i \in 1..Len(report') : NamesAll(report'[i], committed)
<1> DEFINE rs == journal.resolutions
<1>1. rs \in Seq(Resolution)
  BY DEF StageReady, TypeInv, Journal
<1>2. runQueue # <<>> /\ \A i \in 1..Len(rs) :
        SoundResolution(rs[i], journal.entries, journal.quarantined, captured, Fresh, committed)
  BY DEF StageReady, JournalSound, SoundJournal
<1>3. ASSUME NEW i \in 1..Len(rs)
      PROVE  DiscardWrite(rs[i]) \in Resolution /\ NamesAll(DiscardWrite(rs[i]), committed)
  <2>1. PICK r \in Resolution : r = rs[i]
    BY <1>1
  <2>2. SoundResolution(r, journal.entries, journal.quarantined, captured, Fresh, committed)
    BY <1>2, <2>1
  <2>3. r.witness \in Witness
    BY DEF Resolution
  <2>4. CASE ~r.writePending
    BY <2>1, <2>2, <2>4 DEF DiscardWrite, SoundResolution
  <2>5. CASE r.writePending /\ EntryKey(r.witness) \in DOMAIN captured.entries
    <3>1. Holds(captured, r.witness)
      BY <2>2, <2>5 DEF SoundResolution, Collides, Holds
    <3>2. DiscardWrite(r) = [r EXCEPT !.writePending = FALSE,
            !.evidence = captured.entries[EntryKey(r.witness)].observations]
      BY <2>5 DEF DiscardWrite
    <3>3. /\ captured.entries[EntryKey(r.witness)].observations \in Seq(Observation)
          /\ \A j \in 1..Len(captured.entries[EntryKey(r.witness)].observations) :
               Names(r.witness, captured.entries[EntryKey(r.witness)].observations[j], committed)
      BY <1>2, <2>3, <3>1, HeldEntry DEF StageReady, Entry
    <3> QED BY <2>1, <3>2, <3>3 DEF Resolution, NamesAll
  <2>6. CASE r.writePending /\ EntryKey(r.witness) \notin DOMAIN captured.entries
    <3>1. DiscardWrite(r) = [r EXCEPT !.writePending = FALSE, !.evidence = <<>>]
      BY <2>6 DEF DiscardWrite
    <3> QED BY <2>1, <3>1, NamesNothing
  <2> QED BY <2>4, <2>5, <2>6
<1>4. report' = [i \in 1..Len(rs) |-> DiscardWrite(rs[i])]
  BY DEF Discarded
<1>5. Len(rs) \in Nat
  BY <1>1
<1> HIDE DEF rs
<1>6. report' \in Seq(Resolution) /\ Len(report') = Len(rs)
  BY <1>3, <1>4, <1>5
<1> QED BY <1>3, <1>4, <1>6

(* A committed run names its own observation only where it was written.    *)
LEMMA CommitReportSound ==
  ASSUME StageReady, CommitJournal
  PROVE  /\ report' \in Seq(Resolution)
         /\ \A i \in 1..Len(report') : NamesAll(report'[i], committed')
<1> DEFINE rs == journal.resolutions
<1>1. rs \in Seq(Resolution)
  BY DEF StageReady, TypeInv, Journal
<1>2. \A i \in 1..Len(rs) :
        SoundResolution(rs[i], journal.entries, journal.quarantined, captured, Fresh, committed)
  BY DEF StageReady, JournalSound, SoundJournal, CommitJournal
<1>3. ASSUME NEW i \in 1..Len(rs)
      PROVE  CommitWrite(rs[i]) \in Resolution /\ NamesAll(CommitWrite(rs[i]), committed')
  <2>1. PICK r \in Resolution : r = rs[i]
    BY <1>1
  <2>2. SoundResolution(r, journal.entries, journal.quarantined, captured, Fresh, committed)
    BY <1>2, <2>1
  <2>3. \A o : Names(r.witness, o, committed) => Names(r.witness, o, committed')
    BY CommittedGrows DEF Names
  <2>4. CASE r.writePending /\ ~Survives(r)
    <3>1. CommitWrite(r) = [r EXCEPT !.writePending = FALSE, !.evidence = <<>>]
      BY <2>4 DEF CommitWrite
    <3> QED BY <2>1, <3>1, NamesNothing
  <2>5. CASE ~(r.writePending /\ ~Survives(r))
    <3>1. CommitWrite(r) = [r EXCEPT !.writePending = FALSE, !.write = r.writePending]
      BY <2>5 DEF CommitWrite
    <3>2. \A j \in 1..Len(r.evidence) : Names(r.witness, r.evidence[j], committed')
      <4>1. CASE NamesAll(r, committed)
        BY <2>3, <4>1 DEF NamesAll
      <4>2. CASE ~NamesAll(r, committed)
        <5>1. /\ r.writePending
              /\ NamesFresh(r, journal.entries, journal.quarantined, Fresh, committed)
          BY <2>2, <4>2 DEF SoundResolution
        <5>2. EntryKey(r.witness) \in SurvivingEntries
          BY <2>5, <5>1 DEF Survives, SurvivingQuarantines, NamesFresh
        <5>3. Names(r.witness, Fresh, committed')
          BY <5>1, <5>2, CommittedGrows DEF NamesFresh
        <5> QED BY <2>3, <5>1, <5>3 DEF NamesFresh
      <4> QED BY <4>1, <4>2
    <3>3. CommitWrite(r) \in Resolution /\ CommitWrite(r).witness = r.witness
          /\ CommitWrite(r).evidence = r.evidence
      BY <3>1 DEF Resolution
    <3> QED BY <2>1, <3>2, <3>3 DEF NamesAll
  <2> QED BY <2>4, <2>5
<1>4. report' = [i \in 1..Len(rs) |-> CommitWrite(rs[i])]
  BY DEF CommitJournal
<1>5. Len(rs) \in Nat
  BY <1>1
<1> HIDE DEF rs
<1>6. report' \in Seq(Resolution) /\ Len(report') = Len(rs)
  BY <1>3, <1>4, <1>5
<1> QED BY <1>3, <1>4, <1>6

-----------------------------------------------------------------------------
(* The copies of the store over a step *)

(* The empty store and the empty journal are sound.                        *)
LEMMA EmptySound ==
  /\ EmptyStore \in Store /\ EmptyJournal \in Journal
  /\ \A C : SoundStore(EmptyStore, C)
  /\ \A base, o, C : SoundJournal(EmptyJournal.entries, EmptyJournal.quarantined,
                                  EmptyJournal.resolutions, base, o, C)
<1>1. /\ NoneMapped \in Maps(Entry) /\ NoneMapped \in Maps(Quarantine)
      /\ DOMAIN NoneMapped = {}
  BY EmptyIsMap
<1> QED BY <1>1 DEF EmptyStore, EmptyJournal, Store, Journal, SoundStore, SoundJournal

(* If every copy of the store is an old one or the document's new store,   *)
(* and that is sound, all are.                                             *)
LEMMA CopiesKept ==
  ASSUME CopiesSound, committed \subseteq committed',
         SoundStore(stageCache', committed'),
         checkpoint' \in Copies,
         \A i \in 1..Len(runQueue') : runQueue'[i].baseline \in Copies
  PROVE  CopiesSound'
<1>1. \A s \in Copies' : s = stageCache' \/ s \in Copies
  BY DEF Copies
<1>2. \A s \in Copies : SoundStore(s, committed')
  BY SoundMonotone DEF CopiesSound
<1> QED BY <1>1, <1>2 DEF CopiesSound

(* Completing a run shortens the queue.                                    *)
LEMMA FinishedQueue ==
  ASSUME TypeInv, runQueue # <<>>, Finished
  PROVE  /\ runQueue' \in Seq(Captured)
         /\ \A i \in 1..Len(runQueue') : runQueue'[i].baseline \in Copies
<1>1. runQueue \in Seq(Captured) /\ runQueue' = Tail(runQueue)
  BY DEF TypeInv, Finished
<1>2. /\ runQueue' \in Seq(Captured)
      /\ \A i \in 1..Len(runQueue') :
           i + 1 \in 1..Len(runQueue) /\ runQueue'[i] = runQueue[i + 1]
  BY <1>1, HeadFacts
<1> QED BY <1>2 DEF Copies

-----------------------------------------------------------------------------
(* The invariant *)

LEMMA InitIInv == Init => IInv
<1> SUFFICES ASSUME Init PROVE IInv
  OBVIOUS
<1>1. TypeInv
  <2>1. EmptyStore \in Store /\ EmptyJournal \in Journal
    BY EmptySound
  <2>2. hasPlan \in BOOLEAN /\ executing \in BOOLEAN
    BY DEF Init
  <2>3. runQueue \in Seq(Captured) /\ report \in Seq(Resolution)
    BY DEF Init
  <2> QED BY <2>1, <2>2, <2>3 DEF Init, TypeInv
<1>2. CopiesSound
  BY EmptySound DEF Init, CopiesSound, Copies
<1>3. JournalSound /\ JournalIdle /\ ReportSound
  BY DEF Init, JournalSound, JournalIdle, ReportSound
<1> QED BY <1>1, <1>2, <1>3 DEF IInv

(* Steps of the host and of the document leave runs and reports alone.     *)
LEMMA DocumentStep ==
  ASSUME IInv,
         \/ OpenEditorDocument \/ ApplyEditorChange
         \/ ExportEditorCache \/ ImportEditorCache
  PROVE  IInv'
<1>1. UNCHANGED <<runQueue, executing, runInstance, journal, report, committed>>
  BY DEF OpenEditorDocument, ApplyEditorChange, ExportEditorCache, ImportEditorCache, runVars
<1>2. TypeInv'
  <2>1. EmptyStore \in Store
    BY EmptySound
  <2>2. kernel' \in Nat /\ session' \in Nat /\ revision' \in Nat
    BY DEF IInv, TypeInv, OpenEditorDocument, ApplyEditorChange, ExportEditorCache,
       ImportEditorCache, docVars
  <2>3. hasPlan' \in BOOLEAN
    BY DEF IInv, TypeInv, OpenEditorDocument, ApplyEditorChange, ExportEditorCache,
       ImportEditorCache, docVars
  <2>4. stageCache' \in Store /\ checkpoint' \in Store
    BY <2>1 DEF IInv, TypeInv, OpenEditorDocument, ApplyEditorChange, ExportEditorCache,
       ImportEditorCache, docVars
  <2> QED BY <1>1, <2>2, <2>3, <2>4 DEF IInv, TypeInv
<1>3. CopiesSound'
  <2>1. SoundStore(stageCache', committed') /\ checkpoint' \in Copies
    BY <1>1, EmptySound DEF IInv, CopiesSound, Copies, OpenEditorDocument, ApplyEditorChange,
       ExportEditorCache, ImportEditorCache, docVars
  <2> QED BY <1>1, <2>1, CopiesKept DEF IInv, Copies
<1>4. JournalSound' /\ JournalIdle' /\ ReportSound'
  BY <1>1 DEF IInv, JournalSound, JournalIdle, ReportSound, Fresh, captured, txn
<1> QED BY <1>2, <1>3, <1>4 DEF IInv

(* A submission keeps the executing run and captures the document's store. *)
LEMMA SubmitStep ==
  ASSUME IInv, SubmitRun
  PROVE  IInv'
<1>1. /\ UNCHANGED <<kernel, session, revision, hasPlan, stageCache, executing, runInstance,
                     journal, checkpoint, report, committed>>
      /\ runQueue' = Append(runQueue, CaptureEditorRun)
      /\ runQueue \in Seq(Captured)
  BY DEF SubmitRun, docVars, IInv, TypeInv
<1>2. CaptureEditorRun \in Captured /\ CaptureEditorRun.baseline = stageCache
  BY DEF IInv, TypeInv, CaptureEditorRun, Captured
<1>3. /\ runQueue' \in Seq(Captured) /\ runQueue' # <<>>
      /\ \A i \in 1..Len(runQueue') :
           runQueue'[i] = CaptureEditorRun \/ (i \in 1..Len(runQueue) /\ runQueue'[i] = runQueue[i])
  BY <1>1, <1>2
<1>4. TypeInv'
  BY <1>1, <1>3 DEF IInv, TypeInv
<1>5. CopiesSound'
  <2>1. stageCache \in Copies /\ checkpoint \in Copies
    BY DEF Copies
  <2>2. \A i \in 1..Len(runQueue') : runQueue'[i].baseline \in Copies
    BY <1>2, <1>3, <2>1 DEF Copies
  <2> QED BY <1>1, <2>1, <2>2, CopiesKept DEF IInv, CopiesSound
<1>6. JournalSound'
  <2>1. ASSUME executing PROVE captured' = captured /\ Fresh' = Fresh
    <3>1. Head(runQueue') = Head(runQueue)
      BY <1>1, <1>2, <2>1, HeadFacts DEF IInv, JournalSound
    <3> QED BY <1>1, <3>1 DEF captured, txn, Fresh
  <2> QED BY <1>1, <1>3, <2>1 DEF IInv, JournalSound
<1>7. JournalIdle' /\ ReportSound'
  BY <1>1 DEF IInv, JournalIdle, ReportSound
<1> QED BY <1>4, <1>5, <1>6, <1>7 DEF IInv

(* A run starts with an empty journal.                                     *)
LEMMA StartStep ==
  ASSUME IInv, StartRun
  PROVE  IInv'
<1>1. UNCHANGED <<kernel, session, revision, hasPlan, stageCache, runQueue, journal,
                  checkpoint, committed>>
  BY DEF StartRun, docVars
<1>2. executing' = TRUE /\ runInstance' = runInstance + 1 /\ report' = <<>>
      /\ runQueue # <<>> /\ journal = EmptyJournal
  BY DEF StartRun, IInv, JournalIdle
<1>3. TypeInv'
  BY <1>1, <1>2 DEF IInv, TypeInv
<1>4. CopiesSound'
  BY <1>1 DEF IInv, CopiesSound, Copies
<1>5. JournalSound'
  BY <1>1, <1>2, EmptySound DEF JournalSound
<1>6. JournalIdle' /\ ReportSound'
  BY <1>2 DEF JournalIdle, ReportSound
<1> QED BY <1>3, <1>4, <1>5, <1>6 DEF IInv

(* Resolving a stage only extends the journal.                             *)
LEMMA ResolveStep ==
  ASSUME IInv, ResolveStage
  PROVE  IInv'
<1>1. StageDone /\ OnlyJournal
  BY ResolveStageSound DEF IInv, StageReady
<1>2. UNCHANGED <<kernel, session, revision, hasPlan, stageCache, runQueue, executing,
                  runInstance, checkpoint, report, committed>>
  BY <1>1 DEF OnlyJournal, docVars
<1>3. executing
  <2>1. ASSUME NEW w, NEW retained, MayResolve(w, retained) \/ Invokes(w, retained)
        PROVE  executing
    BY <2>1 DEF Invokes, MayResolve
  <2>2. ASSUME NEW w, ReuseStage(w) PROVE executing
    BY <2>1, <2>2 DEF ReuseStage
  <2>3. ASSUME NEW w, NEW retained, NEW output,
               SkipObservation(w, retained, output) \/ QuarantineStage(w, retained, output)
        PROVE  executing
    BY <2>1, <2>3 DEF SkipObservation, QuarantineStage
  <2>4. ASSUME NEW w, NEW retained, NEW output,
               IgnoreSameRevision(w, retained, output) \/ ObserveStage(w, retained, output)
        PROVE  executing
    BY <2>1, <2>4 DEF IgnoreSameRevision, ObserveStage
  <2> QED BY <2>2, <2>3, <2>4 DEF ResolveStage
<1>4. TypeInv'
  BY <1>1, <1>2 DEF StageDone, IInv, TypeInv
<1>5. CopiesSound' /\ ReportSound'
  BY <1>2 DEF IInv, CopiesSound, Copies, ReportSound
<1>6. JournalSound'
  BY <1>1, <1>2 DEF StageDone, IInv, JournalSound, captured, txn, Fresh
<1>7. JournalIdle'
  BY <1>2, <1>3 DEF JournalIdle
<1> QED BY <1>4, <1>5, <1>6, <1>7 DEF IInv

(* A commit installs a sound store and reports what it wrote.              *)
LEMMA CommitStep ==
  ASSUME IInv, CommitJournal
  PROVE  IInv'
<1>1. StageReady /\ executing /\ runQueue # <<>> /\ Finished /\ hasPlan' = TRUE
  BY DEF IInv, StageReady, CommitJournal, JournalSound
<1>2. stageCache' \in Store /\ SoundStore(stageCache', committed')
  BY CommitIsSound DEF IInv
<1>3. committed \subseteq committed'
  BY CommittedGrows
<1>4. /\ runQueue' \in Seq(Captured)
      /\ \A i \in 1..Len(runQueue') : runQueue'[i].baseline \in Copies
  BY <1>1, FinishedQueue DEF IInv
<1>5. /\ report' \in Seq(Resolution)
      /\ \A i \in 1..Len(report') : NamesAll(report'[i], committed')
  BY <1>1, CommitReportSound
<1>6. executing' = FALSE /\ journal' = EmptyJournal
      /\ UNCHANGED <<kernel, session, revision, runInstance, checkpoint>>
  BY <1>1 DEF Finished
<1>7. committed' \subseteq History
  <2>1. \A k \in SurvivingEntries : journal.entries[k] \in Entry
    BY MapsMember DEF SurvivingEntries, IInv, TypeInv, Journal, IsMap
  <2>2. txn \in Captured
    BY <1>1, ExecutingRun DEF IInv
  <2>3. \A k \in SurvivingEntries : FreshObservation(k) \in History
    BY <2>1, <2>2 DEF FreshObservation, History, IInv, TypeInv, Entry, Captured
  <2> QED BY <2>3 DEF CommitJournal, IInv, TypeInv
<1>8. TypeInv'
  BY <1>1, <1>2, <1>4, <1>5, <1>6, <1>7, EmptySound DEF IInv, TypeInv
<1>9. CopiesSound'
  <2>1. checkpoint' \in Copies
    BY <1>6 DEF Copies
  <2> QED BY <1>2, <1>3, <1>4, <2>1, CopiesKept DEF IInv
<1>10. JournalSound' /\ JournalIdle' /\ ReportSound'
  BY <1>5, <1>6 DEF JournalSound, JournalIdle, ReportSound
<1> QED BY <1>8, <1>9, <1>10 DEF IInv

(* A run that is not committed leaves every store as it was.               *)
LEMMA DiscardStep ==
  ASSUME IInv, PublishWithoutCommit \/ AbandonRun
  PROVE  IInv'
<1>1. StageReady /\ executing /\ runQueue # <<>> /\ Discarded /\ Finished
      /\ hasPlan' \in BOOLEAN
  BY DEF IInv, StageReady, PublishWithoutCommit, AbandonRun, JournalSound, Discarded, TypeInv
<1>2. UNCHANGED <<stageCache, committed>>
  BY <1>1 DEF Discarded
<1>3. /\ runQueue' \in Seq(Captured)
      /\ \A i \in 1..Len(runQueue') : runQueue'[i].baseline \in Copies
  BY <1>1, FinishedQueue DEF IInv
<1>4. /\ report' \in Seq(Resolution)
      /\ \A i \in 1..Len(report') : NamesAll(report'[i], committed)
  BY <1>1, DiscardSound
<1>5. executing' = FALSE /\ journal' = EmptyJournal
      /\ UNCHANGED <<kernel, session, revision, runInstance, checkpoint>>
  BY <1>1 DEF Finished
<1>6. TypeInv'
  BY <1>1, <1>2, <1>3, <1>4, <1>5, EmptySound DEF IInv, TypeInv
<1>7. CopiesSound'
  <2>1. checkpoint' \in Copies /\ SoundStore(stageCache', committed')
    BY <1>2, <1>5 DEF Copies, IInv, CopiesSound
  <2> QED BY <1>2, <1>3, <2>1, CopiesKept DEF IInv
<1>8. JournalSound' /\ JournalIdle' /\ ReportSound'
  BY <1>2, <1>4, <1>5 DEF JournalSound, JournalIdle, ReportSound
<1> QED BY <1>6, <1>7, <1>8 DEF IInv

(* Another kernel instance keeps the host's checkpoint only.               *)
LEMMA RestartStep ==
  ASSUME IInv, RestartKernel
  PROVE  IInv'
<1>1. TypeInv'
  <2>1. EmptyStore \in Store /\ EmptyJournal \in Journal
    BY EmptySound
  <2>2. hasPlan' \in BOOLEAN /\ executing' \in BOOLEAN
    BY DEF RestartKernel
  <2>3. runQueue' \in Seq(Captured) /\ report' \in Seq(Resolution)
    BY DEF RestartKernel
  <2> QED BY <2>1, <2>2, <2>3 DEF IInv, TypeInv, RestartKernel
<1>2. CopiesSound'
  <2>1. committed' = committed /\ checkpoint' \in Copies
    BY DEF RestartKernel, Copies
  <2>2. SoundStore(stageCache', committed')
    BY EmptySound DEF RestartKernel
  <2>3. \A i \in 1..Len(runQueue') : runQueue'[i].baseline \in Copies
    BY DEF RestartKernel
  <2> QED BY <2>1, <2>2, <2>3, CopiesKept DEF IInv
<1>3. JournalSound' /\ JournalIdle' /\ ReportSound'
  BY DEF RestartKernel, JournalSound, JournalIdle, ReportSound
<1> QED BY <1>1, <1>2, <1>3 DEF IInv

LEMMA NextIInv == IInv /\ [Next]_vars => IInv'
<1> SUFFICES ASSUME IInv, [Next]_vars PROVE IInv'
  OBVIOUS
<1>1. CASE UNCHANGED vars
  BY <1>1 DEF vars, docVars, runVars, IInv, TypeInv, CopiesSound, Copies, JournalSound,
     JournalIdle, ReportSound, captured, txn, Fresh
<1>2. CASE Next
  BY <1>2, DocumentStep, SubmitStep, StartStep, ResolveStep, CommitStep, DiscardStep,
     RestartStep DEF Next
<1> QED BY <1>1, <1>2

-----------------------------------------------------------------------------
(* Theorems *)

(* IInv is an invariant.                                                   *)
LEMMA IInvHolds == Spec => []IInv
  BY InitIInv, NextIInv, PTL DEF Spec

(* Every part of the state keeps its type: the store, the captures, the    *)
(* journal and the report the code passes around as plain objects.         *)
THEOREM TypeCorrect == Spec => []TypeOK
<1>1. \A s \in Store : IsStore(s)
  BY MapsMember DEF Store, IsStore
<1>2. TypeInv => TypeOK
  <2> SUFFICES ASSUME TypeInv PROVE TypeOK
    OBVIOUS
  <2>1. \A i \in 1..Len(runQueue) : runQueue[i] \in Captured
    BY DEF TypeInv
  <2> QED BY <1>1, <2>1, MapsMember DEF TypeInv, TypeOK, Captured, Journal, History
<1> QED BY <1>2, IInvHolds, PTL DEF IInv

(* RUN-005: verified evidence is committed, of one witness and output and  *)
(* of different revisions, in every copy of the store.                     *)
THEOREM EvidenceCommitted == Spec => []EvidenceIsCommitted
<1>1. IInv => EvidenceIsCommitted
  BY DEF IInv, CopiesSound, SoundStore, SoundEntry, Backed, EvidenceIsCommitted, Backing
<1> QED BY <1>1, IInvHolds, PTL

(* RUN-005: what a hit serves, two committed runs of different revisions   *)
(* produced for its witness.                                               *)
THEOREM HitsServeEvidence == Spec => []HitServesEvidence
<1>1. IInv => HitServesEvidence
  <2> SUFFICES ASSUME IInv PROVE HitServesEvidence
    OBVIOUS
  <2>1. CASE executing
    BY <2>1 DEF IInv, JournalSound, SoundJournal, SoundHit, HitServesEvidence
  <2>2. CASE ~executing
    BY <2>2 DEF IInv, JournalIdle, EmptyJournal, HitServesEvidence
  <2> QED BY <2>1, <2>2
<1> QED BY <1>1, IInvHolds, PTL

(* A key in quarantine has no entry, in any copy of the store.             *)
THEOREM QuarantineHolds == Spec => []QuarantineBars
<1>1. IInv => QuarantineBars
  BY DEF IInv, CopiesSound, SoundStore, QuarantineBars
<1> QED BY <1>1, IInvHolds, PTL

(* RUN-006: an execution report names committed evidence only, whether its *)
(* run was committed, discarded or partly evicted.                         *)
THEOREM ReportsNameEvidence == Spec => []ReportNamesCommittedEvidence
<1>1. IInv => ReportNamesCommittedEvidence
  BY DEF IInv, ReportSound, NamesAll, Names, ReportNamesCommittedEvidence
<1> QED BY <1>1, IInvHolds, PTL
=============================================================================
