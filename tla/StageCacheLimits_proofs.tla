----------------------- MODULE StageCacheLimits_proofs -----------------------
(***************************************************************************)
(* Proofs about the size and the versions of StageCache's stores and the   *)
(* writes its reports claim, for every set of nodes, buckets and outputs   *)
(* and all limits: every copy of a store is within the three limits, a     *)
(* version names one content, and a run reports a write exactly where the  *)
(* store then has it.                                                      *)
(*                                                                         *)
(* The first two belong together.  A commit that writes nothing keeps the  *)
(* version, so it must keep the content: its eviction drops nothing        *)
(* because the store was within the limits before.  A commit that writes   *)
(* must advance the version: its newest write survives the eviction,       *)
(* because it is newer than the store and fits alone.                      *)
(***************************************************************************)
EXTENDS StageCache_proofs, FiniteSetTheorems, NaturalsInduction, WellFoundedInduction

(* A store is finite, and its elements were written by the version it has  *)
(* or an older one.                                                        *)
Stamped(m, version) == \A k \in DOMAIN m : m[k].stamp[1] <= version
Tidy(s) ==
  /\ IsFiniteSet(DOMAIN s.entries) /\ IsFiniteSet(DOMAIN s.quarantined)
  /\ Stamped(s.entries, s.version) /\ Stamped(s.quarantined, s.version)
InLimits(s) ==
  /\ Fits(s.entries, DOMAIN s.entries)
  /\ Cardinality(DOMAIN s.quarantined) <= MaxQuarantines

CopiesTidy == \A s \in Copies : Tidy(s)

(* What the executing run writes is newer than the store it captured, and  *)
(* no two of its stages write at one place.                                *)
WrittenBy(k, stamp, rs, version) ==
  \E i \in 1..Len(rs) : EntryKey(rs[i].witness) = k /\ stamp = <<version + 1, i>>
AllWritten(m, rs, version) == \A k \in DOMAIN m : WrittenBy(k, m[k].stamp, rs, version)
NewTo(s, es, qs, rs) ==
  /\ IsFiniteSet(DOMAIN es) /\ IsFiniteSet(DOMAIN qs)
  /\ AllWritten(es, rs, s.version) /\ AllWritten(qs, rs, s.version)
  /\ DOMAIN es \cap DOMAIN s.quarantined = {}
JournalNew ==
  executing => NewTo(captured, journal.entries, journal.quarantined, journal.resolutions)

(* A waiting run captured an earlier session's store, or the session's     *)
(* store at its present version or an older one.                           *)
QueueOrdered ==
  \A i \in 1..Len(runQueue) :
    /\ runQueue[i].session <= session
    /\ runQueue[i].session = session => runQueue[i].baseline.version <= stageCache.version

LimitsInv == CopiesTidy /\ WithinLimits /\ JournalNew /\ QueueOrdered /\ VersionNamesContent

-----------------------------------------------------------------------------
(* Bytes and budgets *)

(* Fewer entries take no more bytes, and they are finitely many.           *)
LEMMA BytesMonotone ==
  ASSUME NEW m, NEW S, IsFiniteSet(S), NEW T \in SUBSET S
  PROVE  Bytes(m, S) \in Nat /\ Bytes(m, T) \in Nat /\ Bytes(m, T) <= Bytes(m, S)
<1> DEFINE bytes(U) == {b \in U \X (1..MaxBytes) : b[2] <= BytesOf[m[b[1]].output]}
<1>1. IsFiniteSet(1..MaxBytes)
  BY FS_Interval, CacheAssumption
<1>2. IsFiniteSet(S \X (1..MaxBytes))
  BY <1>1, FS_Product
<1>3. bytes(S) \in SUBSET (S \X (1..MaxBytes)) /\ bytes(T) \in SUBSET bytes(S)
  OBVIOUS
<1>4. IsFiniteSet(bytes(S)) /\ IsFiniteSet(bytes(T))
  BY <1>2, <1>3, FS_Subset
<1>5. Cardinality(bytes(S)) \in Nat /\ Cardinality(bytes(T)) \in Nat
  BY <1>4, FS_CardinalityType
<1>6. Cardinality(bytes(T)) <= Cardinality(bytes(S))
  BY <1>3, <1>4, FS_Subset
<1> QED BY <1>5, <1>6 DEF Bytes

(* Entries that are the same take the same bytes.                          *)
LEMMA BytesExtensional ==
  ASSUME NEW m, NEW n, NEW S, \A k \in S : m[k] = n[k]
  PROVE  Bytes(m, S) = Bytes(n, S)
<1>1. \A b \in S \X (1..MaxBytes) : m[b[1]] = n[b[1]]
  OBVIOUS
<1>2. {b \in S \X (1..MaxBytes) : b[2] <= BytesOf[m[b[1]].output]}
        = {b \in S \X (1..MaxBytes) : b[2] <= BytesOf[n[b[1]].output]}
  BY <1>1
<1> QED BY <1>2 DEF Bytes

(* A part of what fits fits.                                               *)
LEMMA PartFits ==
  ASSUME NEW m, NEW S, IsFiniteSet(S), Fits(m, S), NEW T \in SUBSET S
  PROVE  Fits(m, T)
<1>1. Cardinality(S) \in Nat /\ Cardinality(T) \in Nat /\ Cardinality(T) <= Cardinality(S)
  BY FS_Subset, FS_CardinalityType
<1>2. Bytes(m, S) \in Nat /\ Bytes(m, T) \in Nat /\ Bytes(m, T) <= Bytes(m, S)
  BY BytesMonotone
<1> QED BY <1>1, <1>2, CacheAssumption DEF Fits

(* Nothing fits, and so does any single entry.                             *)
LEMMA NothingFits == ASSUME NEW m PROVE Fits(m, {})
<1>1. {b \in {} \X (1..MaxBytes) : b[2] <= BytesOf[m[b[1]].output]} = {}
  OBVIOUS
<1> QED BY <1>1, FS_EmptySet, CacheAssumption DEF Fits, Bytes

LEMMA OneFits ==
  ASSUME NEW m, NEW k, m[k] \in Entry
  PROVE  Fits(m, {k})
<1>1. PICK n : n = BytesOf[m[k].output]
  OBVIOUS
<1> DEFINE bytes == {b \in {k} \X (1..MaxBytes) : b[2] <= BytesOf[m[b[1]].output]}
<1>2. n \in Nat /\ n <= MaxBytes
  BY <1>1, CacheAssumption DEF Entry
<1>3. bytes \in SUBSET ({k} \X (1..n))
  BY <1>1, <1>2, CacheAssumption
<1>4. IsFiniteSet({k}) /\ Cardinality({k}) = 1
  BY FS_Singleton
<1>5. IsFiniteSet(1..n) /\ Cardinality(1..n) = n
  BY <1>2, FS_Interval
<1>6. IsFiniteSet({k} \X (1..n)) /\ Cardinality({k} \X (1..n)) = 1 * n
  <2>1. PICK A, B : A = {k} /\ B = 1..n
    OBVIOUS
  <2>2. /\ IsFiniteSet(A) /\ IsFiniteSet(B) /\ Cardinality(A) = 1 /\ Cardinality(B) = n
    BY <1>4, <1>5, <2>1
  <2>3. IsFiniteSet(A \X B) /\ Cardinality(A \X B) = Cardinality(A) * Cardinality(B)
    BY <2>2, FS_Product
  <2> QED BY <2>1, <2>2, <2>3
<1>7. Cardinality(bytes) \in Nat /\ Cardinality(bytes) <= 1 * n
  BY <1>3, <1>6, FS_Subset, FS_CardinalityType
<1>8. Cardinality(bytes) <= MaxBytes
  BY <1>2, <1>7, CacheAssumption
<1> QED BY <1>4, <1>8, CacheAssumption DEF Fits, Bytes

-----------------------------------------------------------------------------
(* Insertion order *)

(* Every nonempty set of numbers has a least member.                       *)
LEMMA LeastNumber ==
  ASSUME NEW T, T \subseteq Nat, T # {}
  PROVE  \E x \in T : \A y \in T : x <= y
<1>1. IsWellFoundedOn(OpToRel(<, Nat), Nat)
  BY NatLessThanWellFounded
<1>2. PICK x \in T : \A y \in T : ~(<<y, x>> \in OpToRel(<, Nat))
  BY <1>1, WFMin, Zenon
<1>3. ASSUME NEW y \in T PROVE x <= y
  <2>1. x \in Nat /\ y \in Nat
    OBVIOUS
  <2>2. y < x => <<y, x>> \in OpToRel(<, Nat)
    BY <2>1 DEF OpToRel
  <2>3. ~(y < x)
    BY <1>2, <2>2, Zenon
  <2> QED BY <2>1, <2>3
<1> QED BY <1>3

(* Every nonempty part of a map has an oldest element.                     *)
LEMMA OldestExists ==
  ASSUME NEW m, NEW T, T # {}, \A k \in T : m[k].stamp \in Stamp
  PROVE  \E k \in T : \A j \in T : ~Before(m[j].stamp, m[k].stamp)
<1>1. PICK a \in {m[k].stamp[1] : k \in T} : \A b \in {m[k].stamp[1] : k \in T} : a <= b
  <2>1. {m[k].stamp[1] : k \in T} \subseteq Nat /\ {m[k].stamp[1] : k \in T} # {}
    BY DEF Stamp
  <2> QED BY <2>1, LeastNumber
<1> DEFINE first == {k \in T : m[k].stamp[1] = a}
<1>2. PICK c \in {m[k].stamp[2] : k \in first} : \A b \in {m[k].stamp[2] : k \in first} : c <= b
  <2>1. {m[k].stamp[2] : k \in first} \subseteq Nat /\ {m[k].stamp[2] : k \in first} # {}
    BY <1>1 DEF Stamp
  <2> QED BY <2>1, LeastNumber
<1>3. PICK k \in first : m[k].stamp[2] = c
  BY <1>2
<1>4. ASSUME NEW j \in T PROVE ~Before(m[j].stamp, m[k].stamp)
  <2>1. /\ m[j].stamp[1] \in Nat /\ m[j].stamp[2] \in Nat
        /\ m[k].stamp[1] \in Nat /\ m[k].stamp[2] \in Nat
    BY DEF Stamp
  <2>2. m[k].stamp[1] <= m[j].stamp[1]
    BY <1>1, <1>3
  <2>3. m[j].stamp[1] = m[k].stamp[1] => m[k].stamp[2] <= m[j].stamp[2]
    BY <1>2, <1>3
  <2> QED BY <2>1, <2>2, <2>3 DEF Before
<1> QED BY <1>3, <1>4

(* Of what one journal wrote, one element is newer than all the others.    *)
NewestOf(m, k, version) ==
  /\ k \in DOMAIN m /\ m[k].stamp \in Stamp /\ m[k].stamp[1] = version
  /\ \A j \in DOMAIN m \ {k} : Before(m[j].stamp, m[k].stamp)

LEMMA NewestExists ==
  ASSUME NEW m, DOMAIN m # {}, NEW rs, Len(rs) \in Nat, NEW v \in Nat, AllWritten(m, rs, v)
  PROVE  \E k : NewestOf(m, k, v + 1)
<1> DEFINE T == DOMAIN m
           n == Len(rs)
           key(i) == EntryKey(rs[i].witness)
           places == {n - i : i \in {i \in 1..n : /\ key(i) \in T
                                                  /\ m[key(i)].stamp = <<v + 1, i>>}}
<1> HIDE DEF key, T
<1>1. \A k \in T : \E i \in 1..n : key(i) = k /\ m[k].stamp = <<v + 1, i>>
  BY DEF AllWritten, WrittenBy, key, T
<1>2. PICK p \in places : \A q \in places : p <= q
  <2>1. places \subseteq Nat /\ places # {}
    BY <1>1 DEF T
  <2> QED BY <2>1, LeastNumber
<1>3. PICK i \in 1..n : p = n - i /\ key(i) \in T /\ m[key(i)].stamp = <<v + 1, i>>
  BY <1>2
<1>4. ASSUME NEW j \in T \ {key(i)} PROVE Before(m[j].stamp, m[key(i)].stamp)
  <2>1. PICK l \in 1..n : key(l) = j /\ m[j].stamp = <<v + 1, l>>
    BY <1>1
  <2>2. n - l \in places /\ l # i
    BY <2>1
  <2>3. l < i
    <3>1. n - i <= n - l
      BY <1>2, <1>3, <2>2
    <3> QED BY <2>2, <3>1
  <2>4. /\ m[j].stamp[1] = v + 1 /\ m[key(i)].stamp[1] = v + 1
        /\ m[j].stamp[2] = l /\ m[key(i)].stamp[2] = i
    BY <1>3, <2>1
  <2> QED BY <2>3, <2>4 DEF Before
<1>5. m[key(i)].stamp \in Stamp /\ m[key(i)].stamp[1] = v + 1
  BY <1>3 DEF Stamp
<1> QED BY <1>3, <1>4, <1>5 DEF NewestOf, T

(* The newest element of a map is alone among the elements not older.      *)
LEMMA NewestIsAlone ==
  ASSUME NEW m, NEW k \in DOMAIN m, m[k].stamp \in Stamp,
         \A j \in DOMAIN m \ {k} : Before(m[j].stamp, m[k].stamp)
  PROVE  NotOlder(m, k) = {k}
<1>1. ~Before(m[k].stamp, m[k].stamp)
  BY DEF Before, Stamp
<1> QED BY <1>1 DEF NotOlder

-----------------------------------------------------------------------------
(* Eviction *)

(* What eviction keeps of the entries is within the limits.                *)
LEMMA EvictedEntriesFit ==
  ASSUME NEW m \in Maps(Entry), IsFiniteSet(DOMAIN m)
  PROVE  Fits(EvictEntries(m), DOMAIN EvictEntries(m)) /\ IsFiniteSet(DOMAIN EvictEntries(m))
<1> DEFINE T == DOMAIN EvictEntries(m)
<1>1. /\ T = {j \in DOMAIN m : Fits(m, NotOlder(m, j))}
      /\ \A k \in T : EvictEntries(m)[k] = m[k]
  BY DEF EvictEntries
<1> HIDE DEF T
<1>2. \A k \in T : m[k] \in Entry /\ m[k].stamp \in Stamp
  <2>1. IsMap(m, Entry)
    BY MapsMember
  <2> QED BY <1>1, <2>1 DEF IsMap, Entry
<1>3. IsFiniteSet(T)
  BY <1>1, FS_Subset
<1>4. Fits(m, T)
  <2>1. CASE T = {}
    BY <2>1, NothingFits
  <2>2. CASE T # {}
    <3>1. PICK k \in T : \A j \in T : ~Before(m[j].stamp, m[k].stamp)
      BY <1>2, <2>2, OldestExists
    <3>2. NotOlder(m, k) \in SUBSET (DOMAIN m) /\ T \in SUBSET NotOlder(m, k)
      BY <1>1, <3>1 DEF NotOlder
    <3>3. IsFiniteSet(NotOlder(m, k)) /\ Fits(m, NotOlder(m, k))
      BY <1>1, <3>1, <3>2, FS_Subset
    <3> QED BY <3>2, <3>3, PartFits
  <2> QED BY <2>1, <2>2
<1>5. Fits(EvictEntries(m), T)
  BY <1>1, <1>4, BytesExtensional DEF Fits
<1> QED BY <1>3, <1>5 DEF T

(* What eviction keeps of the quarantines is within the limit.             *)
LEMMA EvictedQuarantinesFit ==
  ASSUME NEW m \in Maps(Quarantine), IsFiniteSet(DOMAIN m)
  PROVE  /\ Cardinality(DOMAIN EvictQuarantines(m)) <= MaxQuarantines
         /\ IsFiniteSet(DOMAIN EvictQuarantines(m))
<1> DEFINE T == DOMAIN EvictQuarantines(m)
<1>1. T = {j \in DOMAIN m : Cardinality(NotOlder(m, j)) <= MaxQuarantines}
  BY DEF EvictQuarantines
<1> HIDE DEF T
<1>2. \A k \in T : m[k].stamp \in Stamp
  <2>1. IsMap(m, Quarantine)
    BY MapsMember
  <2> QED BY <1>1, <2>1 DEF IsMap, Quarantine
<1>3. IsFiniteSet(T)
  BY <1>1, FS_Subset
<1>4. Cardinality(T) <= MaxQuarantines
  <2>1. CASE T = {}
    BY <2>1, FS_EmptySet, CacheAssumption
  <2>2. CASE T # {}
    <3>1. PICK k \in T : \A j \in T : ~Before(m[j].stamp, m[k].stamp)
      BY <1>2, <2>2, OldestExists
    <3>2. NotOlder(m, k) \in SUBSET (DOMAIN m) /\ T \in SUBSET NotOlder(m, k)
      BY <1>1, <3>1 DEF NotOlder
    <3>3. /\ IsFiniteSet(NotOlder(m, k)) /\ Cardinality(NotOlder(m, k)) <= MaxQuarantines
      BY <1>1, <3>1, <3>2, FS_Subset
    <3>4. /\ Cardinality(T) <= Cardinality(NotOlder(m, k))
          /\ Cardinality(T) \in Nat /\ Cardinality(NotOlder(m, k)) \in Nat
      BY <1>3, <3>2, <3>3, FS_Subset, FS_CardinalityType
    <3> QED BY <3>3, <3>4, CacheAssumption
  <2> QED BY <2>1, <2>2
<1> QED BY <1>3, <1>4 DEF T

(* Eviction keeps all of a map that is within the limits.                  *)
LEMMA EvictionKeepsWhatFits ==
  ASSUME NEW s \in Store, Tidy(s), InLimits(s)
  PROVE  EvictEntries(s.entries) = s.entries /\ EvictQuarantines(s.quarantined) = s.quarantined
<1>1. \A k \in DOMAIN s.entries : Fits(s.entries, NotOlder(s.entries, k))
  <2>1. \A k \in DOMAIN s.entries : NotOlder(s.entries, k) \in SUBSET (DOMAIN s.entries)
    BY DEF NotOlder
  <2> QED BY <2>1, PartFits DEF Tidy, InLimits
<1>2. ASSUME NEW k \in DOMAIN s.quarantined
      PROVE  Cardinality(NotOlder(s.quarantined, k)) <= MaxQuarantines
  <2>1. NotOlder(s.quarantined, k) \in SUBSET (DOMAIN s.quarantined)
    BY DEF NotOlder
  <2>2. /\ Cardinality(NotOlder(s.quarantined, k)) <= Cardinality(DOMAIN s.quarantined)
        /\ Cardinality(NotOlder(s.quarantined, k)) \in Nat
        /\ Cardinality(DOMAIN s.quarantined) \in Nat
    BY <2>1, FS_Subset, FS_CardinalityType DEF Tidy
  <2> QED BY <2>2, CacheAssumption DEF InLimits
<1>3. /\ s.entries = [k \in DOMAIN s.entries |-> s.entries[k]]
      /\ s.quarantined = [k \in DOMAIN s.quarantined |-> s.quarantined[k]]
  BY MapsMember DEF Store, IsMap
<1>4. EvictEntries(s.entries) = s.entries
  BY <1>1, <1>3 DEF EvictEntries
<1>5. EvictQuarantines(s.quarantined) = s.quarantined
  BY <1>2, <1>3 DEF EvictQuarantines
<1> QED BY <1>4, <1>5

-----------------------------------------------------------------------------
(* Committing a journal *)

(* A run commits onto the store it captured, content and all.              *)
LEMMA CommitsOntoCapture ==
  ASSUME IInv, LimitsInv, CommitJournal
  PROVE  /\ captured = stageCache /\ stageCache \in Store /\ journal \in Journal
         /\ Tidy(stageCache) /\ InLimits(stageCache)
         /\ runQueue # <<>>
<1>1. runQueue \in Seq(Captured) /\ runQueue # <<>> /\ stageCache \in Store /\ journal \in Journal
  BY DEF IInv, TypeInv, JournalSound, CommitJournal
<1>2. txn = runQueue[1] /\ 1 \in 1..Len(runQueue)
  BY <1>1, HeadFacts DEF txn
<1>3. captured = stageCache
  BY <1>2 DEF LimitsInv, VersionNamesContent, CommitJournal, HeadMatches, BaselineIsCurrent,
     captured
<1>4. Tidy(stageCache) /\ InLimits(stageCache)
  BY DEF LimitsInv, CopiesTidy, WithinLimits, Copies, InLimits
<1> QED BY <1>1, <1>3, <1>4

(* An older store's elements come before a newer stamp.                    *)
LEMMA OlderComeBefore ==
  ASSUME NEW m, NEW v \in Nat, Stamped(m, v), NEW stamp \in Stamp, stamp[1] = v + 1,
         NEW k \in DOMAIN m, m[k].stamp \in Stamp
  PROVE  Before(m[k].stamp, stamp)
  BY DEF Stamped, Stamp, Before

(* A journal that wrote survives in part: its newest quarantine or, if     *)
(* there is none, its newest entry.                                        *)
LEMMA WritesSurvive ==
  ASSUME IInv, LimitsInv, CommitJournal,
         DOMAIN journal.entries \cup DOMAIN journal.quarantined # {}
  PROVE  SurvivingEntries \cup SurvivingQuarantines # {}
<1> DEFINE v == stageCache.version
<1>1. /\ captured = stageCache /\ stageCache \in Store /\ journal \in Journal
      /\ Tidy(stageCache)
  BY CommitsOntoCapture
<1>2. /\ v \in Nat /\ journal.resolutions \in Seq(Resolution) /\ captured.version = v
      /\ Len(journal.resolutions) \in Nat
      /\ IsMap(stageCache.entries, Entry) /\ IsMap(stageCache.quarantined, Quarantine)
  BY <1>1, MapsMember DEF Store, Journal
<1>3. /\ AllWritten(journal.entries, journal.resolutions, v)
      /\ AllWritten(journal.quarantined, journal.resolutions, v)
      /\ DOMAIN journal.entries \cap DOMAIN stageCache.quarantined = {}
  BY <1>1 DEF LimitsInv, JournalNew, NewTo, CommitJournal
<1> HIDE DEF v
<1>4. CASE DOMAIN journal.quarantined # {}
  <2>1. PICK k : NewestOf(journal.quarantined, k, v + 1)
    BY <1>2, <1>3, <1>4, NewestExists
  <2>2. PICK m : m = MergedQuarantines
    OBVIOUS
  <2>3. /\ DOMAIN m = DOMAIN stageCache.quarantined \cup DOMAIN journal.quarantined
        /\ \A j \in DOMAIN journal.quarantined : m[j] = journal.quarantined[j]
        /\ \A j \in DOMAIN m \ DOMAIN journal.quarantined : m[j] = stageCache.quarantined[j]
    BY <2>2 DEF MergedQuarantines
  <2>4. ASSUME NEW j \in DOMAIN m \ {k} PROVE Before(m[j].stamp, m[k].stamp)
    <3>1. CASE j \in DOMAIN journal.quarantined
      BY <2>1, <2>3, <3>1 DEF NewestOf
    <3>2. CASE j \notin DOMAIN journal.quarantined
      <4>1. /\ j \in DOMAIN stageCache.quarantined
            /\ stageCache.quarantined[j].stamp \in Stamp
        BY <1>2, <2>3, <3>2 DEF IsMap, Quarantine
      <4>2. Before(stageCache.quarantined[j].stamp, journal.quarantined[k].stamp)
        BY <1>1, <1>2, <2>1, <4>1, OlderComeBefore DEF NewestOf, Tidy, v
      <4> QED BY <2>1, <2>3, <3>2, <4>2 DEF NewestOf
    <3> QED BY <3>1, <3>2
  <2>5. NotOlder(m, k) = {k}
    BY <2>1, <2>3, <2>4, NewestIsAlone DEF NewestOf
  <2>6. Cardinality(NotOlder(m, k)) <= MaxQuarantines
    <3>1. Cardinality({k}) = 1
      BY FS_Singleton
    <3> QED BY <2>5, <3>1, CacheAssumption
  <2>7. k \in DOMAIN EvictQuarantines(m)
    BY <2>1, <2>3, <2>6 DEF NewestOf, EvictQuarantines
  <2> QED BY <2>1, <2>2, <2>7 DEF NewestOf, SurvivingQuarantines
<1>5. CASE DOMAIN journal.quarantined = {}
  <2>1. PICK k : NewestOf(journal.entries, k, v + 1)
    BY <1>2, <1>3, <1>5, NewestExists
  <2>2. PICK m : m = MergedEntries
    OBVIOUS
  <2>3. /\ DOMAIN m = DOMAIN stageCache.entries \cup DOMAIN journal.entries
        /\ \A j \in DOMAIN journal.entries : m[j] = journal.entries[j]
        /\ \A j \in DOMAIN m \ DOMAIN journal.entries : m[j] = stageCache.entries[j]
    BY <1>3, <1>5, <2>2 DEF MergedEntries, MergedQuarantines
  <2>4. ASSUME NEW j \in DOMAIN m \ {k} PROVE Before(m[j].stamp, m[k].stamp)
    <3>1. CASE j \in DOMAIN journal.entries
      BY <2>1, <2>3, <3>1 DEF NewestOf
    <3>2. CASE j \notin DOMAIN journal.entries
      <4>1. j \in DOMAIN stageCache.entries /\ stageCache.entries[j].stamp \in Stamp
        BY <1>2, <2>3, <3>2 DEF IsMap, Entry
      <4>2. Before(stageCache.entries[j].stamp, journal.entries[k].stamp)
        BY <1>1, <1>2, <2>1, <4>1, OlderComeBefore DEF NewestOf, Tidy, v
      <4> QED BY <2>1, <2>3, <3>2, <4>2 DEF NewestOf
    <3> QED BY <3>1, <3>2
  <2>5. NotOlder(m, k) = {k}
    BY <2>1, <2>3, <2>4, NewestIsAlone DEF NewestOf
  <2>6. m[k] \in Entry
    BY <1>1, <2>1, <2>3, MapsMember DEF NewestOf, Journal, IsMap
  <2>7. k \in DOMAIN EvictEntries(m)
    BY <2>1, <2>3, <2>5, <2>6, OneFits DEF NewestOf, EvictEntries
  <2> QED BY <2>1, <2>2, <2>7 DEF NewestOf, SurvivingEntries
<1> QED BY <1>4, <1>5

(* A journal that wrote nothing leaves the store as it is.                 *)
LEMMA NothingWritten ==
  ASSUME IInv, LimitsInv, CommitJournal,
         DOMAIN journal.entries \cup DOMAIN journal.quarantined = {}
  PROVE  stageCache' = stageCache
<1>1. stageCache \in Store /\ Tidy(stageCache) /\ InLimits(stageCache)
  BY CommitsOntoCapture
<1>2. IsMap(stageCache.entries, Entry) /\ IsMap(stageCache.quarantined, Quarantine)
  BY <1>1, MapsMember DEF Store
<1>3. /\ stageCache.entries = [k \in DOMAIN stageCache.entries |-> stageCache.entries[k]]
      /\ stageCache.quarantined
           = [k \in DOMAIN stageCache.quarantined |-> stageCache.quarantined[k]]
  BY <1>2 DEF IsMap
<1>4. MergedQuarantines = stageCache.quarantined
  BY <1>3 DEF MergedQuarantines
<1>5. MergedEntries = stageCache.entries
  BY <1>3 DEF MergedEntries
<1>6. /\ EvictEntries(MergedEntries) = stageCache.entries
      /\ EvictQuarantines(MergedQuarantines) = stageCache.quarantined
  BY <1>1, <1>4, <1>5, EvictionKeepsWhatFits
<1>7. NextVersion = stageCache.version
  BY DEF NextVersion, SurvivingEntries, SurvivingQuarantines
<1>8. stageCache' = [version |-> stageCache.version, entries |-> stageCache.entries,
                     quarantined |-> stageCache.quarantined]
  BY <1>6, <1>7 DEF CommitJournal
<1> QED BY <1>1, <1>8 DEF Store

(* The store a commit makes is within the limits; it is the old one or a   *)
(* newer version.                                                          *)
LEMMA CommitKeepsLimits ==
  ASSUME IInv, LimitsInv, CommitJournal
  PROVE  /\ Tidy(stageCache') /\ InLimits(stageCache')
         /\ stageCache' = stageCache \/ stageCache'.version = stageCache.version + 1
<1>1. /\ captured = stageCache /\ stageCache \in Store /\ journal \in Journal
      /\ Tidy(stageCache) /\ InLimits(stageCache)
  BY CommitsOntoCapture
<1>2. CASE DOMAIN journal.entries \cup DOMAIN journal.quarantined = {}
  BY <1>1, <1>2, NothingWritten
<1>3. CASE DOMAIN journal.entries \cup DOMAIN journal.quarantined # {}
  <2>1. PICK v \in Nat : v = stageCache.version
    BY <1>1 DEF Store
  <2>2. PICK es, qs : es = EvictEntries(MergedEntries) /\ qs = EvictQuarantines(MergedQuarantines)
    OBVIOUS
  <2>3. stageCache' = [version |-> v + 1, entries |-> es, quarantined |-> qs]
    BY <1>3, <2>1, <2>2, WritesSurvive DEF CommitJournal, NextVersion
  <2>4. /\ \A k \in DOMAIN journal.entries : journal.entries[k].stamp[1] = v + 1
        /\ \A k \in DOMAIN journal.quarantined : journal.quarantined[k].stamp[1] = v + 1
        /\ IsFiniteSet(DOMAIN journal.entries) /\ IsFiniteSet(DOMAIN journal.quarantined)
    BY <1>1, <2>1 DEF LimitsInv, JournalNew, NewTo, AllWritten, WrittenBy, CommitJournal
  <2>5. /\ MergedEntries \in Maps(Entry) /\ MergedQuarantines \in Maps(Quarantine)
        /\ IsFiniteSet(DOMAIN MergedEntries) /\ IsFiniteSet(DOMAIN MergedQuarantines)
    <3>1. /\ MergedEntries \in Maps(Entry) /\ MergedQuarantines \in Maps(Quarantine)
      BY <1>1, MergeFacts
    <3>2. /\ DOMAIN MergedEntries
               \in SUBSET (DOMAIN stageCache.entries \cup DOMAIN journal.entries)
          /\ DOMAIN MergedQuarantines
               = DOMAIN stageCache.quarantined \cup DOMAIN journal.quarantined
      BY DEF MergedEntries, MergedQuarantines
    <3>3. /\ IsFiniteSet(DOMAIN stageCache.entries \cup DOMAIN journal.entries)
          /\ IsFiniteSet(DOMAIN stageCache.quarantined \cup DOMAIN journal.quarantined)
      BY <1>1, <2>4, FS_Union DEF Tidy
    <3> QED BY <3>1, <3>2, <3>3, FS_Subset
  <2>6. /\ Fits(es, DOMAIN es) /\ IsFiniteSet(DOMAIN es)
        /\ Cardinality(DOMAIN qs) <= MaxQuarantines /\ IsFiniteSet(DOMAIN qs)
    BY <2>2, <2>5, EvictedEntriesFit, EvictedQuarantinesFit
  <2>7. Stamped(MergedEntries, v + 1) /\ Stamped(MergedQuarantines, v + 1)
    <3>1. IsMap(stageCache.entries, Entry) /\ IsMap(stageCache.quarantined, Quarantine)
      BY <1>1, MapsMember DEF Store
    <3>2. /\ \A k \in DOMAIN stageCache.entries : stageCache.entries[k].stamp[1] <= v + 1
          /\ \A k \in DOMAIN stageCache.quarantined : stageCache.quarantined[k].stamp[1] <= v + 1
      <4>1. /\ \A k \in DOMAIN stageCache.entries : stageCache.entries[k].stamp[1] \in Nat
            /\ \A k \in DOMAIN stageCache.quarantined : stageCache.quarantined[k].stamp[1] \in Nat
        BY <3>1 DEF IsMap, Entry, Quarantine, Stamp
      <4>2. Stamped(stageCache.entries, v) /\ Stamped(stageCache.quarantined, v)
        BY <1>1, <2>1 DEF Tidy
      <4> QED BY <4>1, <4>2 DEF Stamped
    <3>3. Stamped(MergedEntries, v + 1)
      BY <2>4, <3>2 DEF Stamped, MergedEntries
    <3>4. Stamped(MergedQuarantines, v + 1)
      BY <2>4, <3>2 DEF Stamped, MergedQuarantines
    <3> QED BY <3>3, <3>4
  <2>8. Stamped(es, v + 1) /\ Stamped(qs, v + 1)
    BY <2>2, <2>7 DEF Stamped, EvictEntries, EvictQuarantines
  <2> QED BY <2>1, <2>3, <2>6, <2>8 DEF Tidy, InLimits
<1> QED BY <1>2, <1>3

-----------------------------------------------------------------------------
(* The invariant *)

(* Every copy is tidy and within the limits if the document's new store is *)
(* and the others are copies it had.                                       *)
LEMMA LimitsKept ==
  ASSUME CopiesTidy, WithinLimits, Tidy(stageCache'), InLimits(stageCache'),
         checkpoint' \in Copies,
         \A i \in 1..Len(runQueue') : runQueue'[i].baseline \in Copies
  PROVE  CopiesTidy' /\ WithinLimits'
<1>1. \A s \in Copies' : s = stageCache' \/ s \in Copies
  BY DEF Copies
<1>2. \A s \in Copies : Tidy(s) /\ InLimits(s)
  BY DEF CopiesTidy, WithinLimits, InLimits
<1>3. \A s \in Copies' : Tidy(s) /\ InLimits(s)
  BY <1>1, <1>2
<1> QED BY <1>3 DEF CopiesTidy, WithinLimits, InLimits

(* The empty store is tidy and within the limits.                          *)
LEMMA EmptyIsTidy == Tidy(EmptyStore) /\ InLimits(EmptyStore)
<1>1. DOMAIN NoneMapped = {} /\ IsFiniteSet({}) /\ Cardinality({}) = 0
  BY FS_EmptySet DEF NoneMapped
<1>2. Fits(NoneMapped, {})
  BY NothingFits
<1> QED BY <1>1, <1>2, CacheAssumption DEF EmptyStore, Tidy, InLimits, Stamped

(* What completing a run does to the waiting runs.                         *)
LEMMA WaitingRuns ==
  ASSUME TypeInv, runQueue # <<>>, Finished
  PROVE  /\ \A i \in 1..Len(runQueue') :
              \E j \in 1..Len(runQueue) : runQueue'[i] = runQueue[j]
         /\ checkpoint' \in Copies
         /\ \A i \in 1..Len(runQueue') : runQueue'[i].baseline \in Copies
         /\ session' = session /\ executing' = FALSE
<1>1. runQueue \in Seq(Captured) /\ runQueue' = Tail(runQueue)
  BY DEF TypeInv, Finished
<1>2. \A i \in 1..Len(runQueue') :
        i + 1 \in 1..Len(runQueue) /\ runQueue'[i] = runQueue[i + 1]
  BY <1>1, HeadFacts
<1> QED BY <1>2, FinishedQueue DEF Finished, Copies

LEMMA InitLimits == Init => LimitsInv
<1> SUFFICES ASSUME Init PROVE LimitsInv
  OBVIOUS
<1>1. \A s \in Copies : Tidy(s) /\ InLimits(s)
  BY EmptyIsTidy DEF Init, Copies
<1>2. JournalNew /\ QueueOrdered /\ VersionNamesContent
  BY DEF Init, JournalNew, QueueOrdered, VersionNamesContent
<1> QED BY <1>1, <1>2 DEF LimitsInv, CopiesTidy, WithinLimits, InLimits

(* Steps of the host and of the document: a new session's number is above  *)
(* every waiting run's, and a checkpoint is imported when none waits.      *)
LEMMA DocumentKeepsLimits ==
  ASSUME IInv, LimitsInv,
         \/ OpenEditorDocument \/ ApplyEditorChange
         \/ ExportEditorCache \/ ImportEditorCache
  PROVE  LimitsInv'
<1>1. UNCHANGED <<runQueue, executing, runInstance, journal>>
  BY DEF OpenEditorDocument, ApplyEditorChange, ExportEditorCache, ImportEditorCache, runVars
<1>2. /\ checkpoint' \in Copies
      /\ stageCache' \in Copies \/ stageCache' = EmptyStore
  BY DEF OpenEditorDocument, ApplyEditorChange, ExportEditorCache, ImportEditorCache,
     docVars, Copies
<1>3. Tidy(stageCache') /\ InLimits(stageCache')
  BY <1>2, EmptyIsTidy DEF LimitsInv, CopiesTidy, WithinLimits, InLimits
<1>4. CopiesTidy' /\ WithinLimits'
  BY <1>1, <1>2, <1>3, LimitsKept DEF LimitsInv, Copies
<1>5. JournalNew'
  BY <1>1 DEF LimitsInv, JournalNew, captured, txn
<1>6. /\ session \in Nat /\ runQueue \in Seq(Captured)
      /\ \A i \in 1..Len(runQueue) : runQueue[i].session \in Nat
  <2>1. session \in Nat /\ runQueue \in Seq(Captured)
    BY DEF IInv, TypeInv
  <2>2. \A c \in Captured : c.session \in Nat
    BY DEF Captured
  <2> QED BY <2>1, <2>2
<1>7. QueueOrdered' /\ VersionNamesContent'
  <2>1. CASE session' = session + 1
    BY <1>1, <1>6, <2>1 DEF LimitsInv, QueueOrdered, VersionNamesContent
  <2>2. CASE session' = session /\ stageCache' = stageCache
    BY <1>1, <2>2 DEF LimitsInv, QueueOrdered, VersionNamesContent
  <2>3. CASE runQueue = <<>>
    BY <1>1, <2>3 DEF QueueOrdered, VersionNamesContent
  <2> QED BY <2>1, <2>2, <2>3 DEF OpenEditorDocument, ApplyEditorChange, ExportEditorCache,
             ImportEditorCache, ImportAllowed, docVars
<1> QED BY <1>4, <1>5, <1>7 DEF LimitsInv

(* A submission captures the store as it is.                               *)
LEMMA SubmitKeepsLimits ==
  ASSUME IInv, LimitsInv, SubmitRun
  PROVE  LimitsInv'
<1>1. /\ UNCHANGED <<session, stageCache, executing, journal, checkpoint>>
      /\ runQueue' = Append(runQueue, CaptureEditorRun) /\ runQueue \in Seq(Captured)
  BY DEF SubmitRun, docVars, IInv, TypeInv
<1>2. /\ CaptureEditorRun \in Captured /\ CaptureEditorRun.baseline = stageCache
      /\ CaptureEditorRun.session = session
  BY DEF IInv, TypeInv, CaptureEditorRun, Captured
<1>3. \A i \in 1..Len(runQueue') :
        runQueue'[i] = CaptureEditorRun \/ (i \in 1..Len(runQueue) /\ runQueue'[i] = runQueue[i])
  BY <1>1, <1>2
<1>4. CopiesTidy' /\ WithinLimits'
  <2>1. stageCache \in Copies /\ checkpoint \in Copies
    BY DEF Copies
  <2>2. \A i \in 1..Len(runQueue') : runQueue'[i].baseline \in Copies
    BY <1>2, <1>3, <2>1 DEF Copies
  <2>3. Tidy(stageCache) /\ InLimits(stageCache)
    BY <2>1 DEF LimitsInv, CopiesTidy, WithinLimits, InLimits
  <2> QED BY <1>1, <2>1, <2>2, <2>3, LimitsKept DEF LimitsInv
<1>5. JournalNew'
  <2>1. ASSUME executing PROVE captured' = captured
    <3>1. Head(runQueue') = Head(runQueue)
      BY <1>1, <1>2, <2>1, HeadFacts DEF IInv, JournalSound
    <3> QED BY <1>1, <3>1 DEF captured, txn
  <2> QED BY <1>1, <2>1 DEF LimitsInv, JournalNew
<1>6. session \in Nat /\ stageCache.version \in Nat
  BY DEF IInv, TypeInv, Store
<1>7. QueueOrdered' /\ VersionNamesContent'
  BY <1>1, <1>2, <1>3, <1>6 DEF LimitsInv, QueueOrdered, VersionNamesContent
<1> QED BY <1>4, <1>5, <1>7 DEF LimitsInv

(* A run starts with an empty journal.                                     *)
LEMMA StartKeepsLimits ==
  ASSUME IInv, LimitsInv, StartRun
  PROVE  LimitsInv'
<1>1. UNCHANGED <<session, stageCache, runQueue, journal, checkpoint>> /\ journal = EmptyJournal
  BY DEF StartRun, docVars, IInv, JournalIdle
<1>2. DOMAIN NoneMapped = {} /\ IsFiniteSet({})
  BY FS_EmptySet DEF NoneMapped
<1>3. JournalNew'
  BY <1>1, <1>2 DEF JournalNew, NewTo, AllWritten, EmptyJournal
<1> QED BY <1>1, <1>3 DEF LimitsInv, CopiesTidy, WithinLimits, QueueOrdered,
           VersionNamesContent, Copies

(* Mapping one more key keeps a map finite.                                *)
LEMMA WithIsFinite ==
  ASSUME NEW m, NEW k, NEW e, IsFiniteSet(DOMAIN m)
  PROVE  IsFiniteSet(DOMAIN With(m, k, e))
<1>1. DOMAIN With(m, k, e) = DOMAIN m \cup {k}
  BY DEF With
<1>2. IsFiniteSet(DOMAIN m \cup {k})
  BY FS_AddElement
<1> QED BY <1>1, <1>2

(* A stage writes at a place of its own, and no entry under a quarantined  *)
(* key.                                                                    *)
LEMMA ResolveKeepsLimits ==
  ASSUME IInv, LimitsInv, ResolveStage
  PROVE  LimitsInv'
<1>1. UNCHANGED <<session, stageCache, runQueue, executing, checkpoint>>
  BY ResolveStageSound DEF IInv, StageReady, OnlyJournal, docVars
<1>2. PICK w, r :
        /\ w \in Witness
        /\ journal'.resolutions = Append(journal.resolutions, r) /\ r.witness = w
        /\ \/ journal'.entries = journal.entries
           \/ \E e : /\ journal'.entries = With(journal.entries, EntryKey(w), e)
                     /\ e.stamp = NextStamp
                     /\ EntryKey(w) \notin DOMAIN captured.quarantined
        /\ \/ journal'.quarantined = journal.quarantined
           \/ \E e : /\ journal'.quarantined = With(journal.quarantined, EntryKey(w), e)
                     /\ e.stamp = NextStamp
  <2>1. journal \in Journal
    BY DEF IInv, TypeInv
  <2>2. ASSUME NEW w \in Witness, ReuseStage(w)
        PROVE  \E r : /\ journal'.resolutions = Append(journal.resolutions, r) /\ r.witness = w
                      /\ journal'.entries = journal.entries
                      /\ journal'.quarantined = journal.quarantined
    BY <2>1, <2>2 DEF ReuseStage, Resolved, Journal
  <2>3. ASSUME NEW w \in Witness, NEW retained \in BOOLEAN, NEW output,
               SkipObservation(w, retained, output) \/ IgnoreSameRevision(w, retained, output)
        PROVE  \E r : /\ journal'.resolutions = Append(journal.resolutions, r) /\ r.witness = w
                      /\ journal'.entries = journal.entries
                      /\ journal'.quarantined = journal.quarantined
    BY <2>1, <2>3 DEF SkipObservation, IgnoreSameRevision, Resolved, Journal
  <2>4. ASSUME NEW w \in Witness, NEW retained \in BOOLEAN, NEW output,
               QuarantineStage(w, retained, output)
        PROVE  \E r : /\ journal'.resolutions = Append(journal.resolutions, r) /\ r.witness = w
                      /\ journal'.entries = journal.entries
                      /\ \E e : /\ e.stamp = NextStamp
                                /\ journal'.quarantined
                                     = With(journal.quarantined, EntryKey(w), e)
    <3>1. PICK r, e : /\ r.witness = w /\ e.stamp = NextStamp
                      /\ journal' = [journal EXCEPT
                           !.quarantined = With(journal.quarantined, EntryKey(w), e),
                           !.resolutions = Append(journal.resolutions, r)]
      BY <2>4 DEF QuarantineStage, Resolved
    <3> QED BY <2>1, <3>1 DEF Journal
  <2>5. ASSUME NEW w \in Witness, NEW retained \in BOOLEAN, NEW output,
               ObserveStage(w, retained, output)
        PROVE  \E r : /\ journal'.resolutions = Append(journal.resolutions, r) /\ r.witness = w
                      /\ journal'.quarantined = journal.quarantined
                      /\ EntryKey(w) \notin DOMAIN captured.quarantined
                      /\ \E e : /\ e.stamp = NextStamp
                                /\ journal'.entries = With(journal.entries, EntryKey(w), e)
    <3>1. EntryKey(w) \notin DOMAIN captured.quarantined
      BY <2>5 DEF ObserveStage, Observable, InQuarantine
    <3>2. PICK r, e : /\ r.witness = w /\ e.stamp = NextStamp
                      /\ journal' = [journal EXCEPT
                           !.entries = With(journal.entries, EntryKey(w), e),
                           !.resolutions = Append(journal.resolutions, r)]
      <4> DEFINE e == Written(w, output)
                 r == [witness |-> w, hit |-> FALSE, output |-> output,
                       evidence |-> Append(Earlier(w), Fresh),
                       writePending |-> TRUE, write |-> FALSE]
      <4>1. journal' = [journal EXCEPT
                !.entries = With(journal.entries, EntryKey(w), e),
                !.resolutions = Append(journal.resolutions, r)]
        BY <2>5 DEF ObserveStage, Resolved, Fresh, Earlier, Kept, Written
      <4>2. r.witness = w /\ e.stamp = NextStamp
        BY DEF Written
      <4> QED BY <4>1, <4>2
    <3> QED BY <2>1, <3>1, <3>2 DEF Journal
  <2> QED BY <2>2, <2>3, <2>4, <2>5 DEF ResolveStage
<1>3. executing /\ journal.resolutions \in Seq(Resolution)
  <2>1. \A w1, retained : Invokes(w1, retained) \/ MayResolve(w1, retained) => executing
    BY DEF Invokes, MayResolve
  <2> QED BY <2>1 DEF ResolveStage, ReuseStage, SkipObservation, QuarantineStage,
             IgnoreSameRevision, ObserveStage, IInv, TypeInv, Journal
<1>4. PICK n, v, rs, rs2 :
        /\ n \in Nat /\ n = Len(rs) /\ v = captured.version
        /\ rs = journal.resolutions /\ rs2 = journal'.resolutions
  BY <1>3
<1>5. /\ \A k, stamp : WrittenBy(k, stamp, rs, v) => WrittenBy(k, stamp, rs2, v)
      /\ WrittenBy(EntryKey(w), NextStamp, rs2, v)
  <2>1. rs2 = Append(rs, r) /\ rs \in Seq(Resolution)
    BY <1>2, <1>3, <1>4
  <2>2. /\ n + 1 \in 1..Len(rs2) /\ rs2[n + 1] = r
        /\ \A i \in 1..Len(rs) : i \in 1..Len(rs2) /\ rs2[i] = rs[i]
    BY <1>4, <2>1
  <2>3. NextStamp = <<v + 1, n + 1>>
    BY <1>4 DEF NextStamp
  <2> QED BY <1>2, <2>2, <2>3 DEF WrittenBy
<1>6. NewTo(captured, journal'.entries, journal'.quarantined, rs2)
  <2>1. PICK es, es2, qs, qs2 : /\ es = journal.entries /\ es2 = journal'.entries
                                /\ qs = journal.quarantined /\ qs2 = journal'.quarantined
    OBVIOUS
  <2>2. /\ IsFiniteSet(DOMAIN es) /\ IsFiniteSet(DOMAIN qs)
        /\ \A k \in DOMAIN es :
             WrittenBy(k, es[k].stamp, rs2, v) /\ k \notin DOMAIN captured.quarantined
        /\ \A k \in DOMAIN qs : WrittenBy(k, qs[k].stamp, rs2, v)
    BY <1>3, <1>4, <1>5, <2>1 DEF LimitsInv, JournalNew, NewTo, AllWritten
  <2>3. /\ IsFiniteSet(DOMAIN es2)
        /\ \A k \in DOMAIN es2 :
             WrittenBy(k, es2[k].stamp, rs2, v) /\ k \notin DOMAIN captured.quarantined
    <3>1. CASE es2 = es
      BY <2>2, <3>1
    <3>2. ASSUME NEW e, es2 = With(es, EntryKey(w), e), e.stamp = NextStamp,
                 EntryKey(w) \notin DOMAIN captured.quarantined
          PROVE  /\ IsFiniteSet(DOMAIN es2)
                 /\ \A k \in DOMAIN es2 :
                      WrittenBy(k, es2[k].stamp, rs2, v) /\ k \notin DOMAIN captured.quarantined
      <4>1. IsFiniteSet(DOMAIN es2)
        <5>1. IsFiniteSet(DOMAIN es)
          BY <2>2
        <5>2. IsFiniteSet(DOMAIN With(es, EntryKey(w), e))
          BY <5>1, WithIsFinite, Zenon
        <5> QED BY <3>2, <5>2
      <4>2. /\ es2[EntryKey(w)] = e /\ DOMAIN es2 = DOMAIN es \cup {EntryKey(w)}
            /\ \A j \in DOMAIN es \ {EntryKey(w)} : es2[j] = es[j]
        BY <3>2 DEF With
      <4> QED BY <1>5, <2>2, <3>2, <4>1, <4>2
    <3> QED BY <1>2, <2>1, <3>1, <3>2
  <2>4. /\ IsFiniteSet(DOMAIN qs2)
        /\ \A k \in DOMAIN qs2 : WrittenBy(k, qs2[k].stamp, rs2, v)
    <3>1. CASE qs2 = qs
      BY <2>2, <3>1
    <3>2. ASSUME NEW e, qs2 = With(qs, EntryKey(w), e), e.stamp = NextStamp
          PROVE  /\ IsFiniteSet(DOMAIN qs2)
                 /\ \A k \in DOMAIN qs2 : WrittenBy(k, qs2[k].stamp, rs2, v)
      <4>1. IsFiniteSet(DOMAIN qs2)
        <5>1. IsFiniteSet(DOMAIN qs)
          BY <2>2
        <5>2. IsFiniteSet(DOMAIN With(qs, EntryKey(w), e))
          BY <5>1, WithIsFinite, Zenon
        <5> QED BY <3>2, <5>2
      <4>2. /\ qs2[EntryKey(w)] = e /\ DOMAIN qs2 = DOMAIN qs \cup {EntryKey(w)}
            /\ \A j \in DOMAIN qs \ {EntryKey(w)} : qs2[j] = qs[j]
        BY <3>2 DEF With
      <4> QED BY <1>5, <2>2, <3>2, <4>1, <4>2
    <3> QED BY <1>2, <2>1, <3>1, <3>2
  <2> QED BY <1>4, <2>1, <2>3, <2>4 DEF NewTo, AllWritten
<1>7. JournalNew'
  BY <1>1, <1>4, <1>6 DEF JournalNew, captured, txn
<1> QED BY <1>1, <1>7 DEF LimitsInv, CopiesTidy, WithinLimits, QueueOrdered,
           VersionNamesContent, Copies

(* A commit keeps the store or makes a newer version; the runs that wait   *)
(* captured no newer one.                                                  *)
LEMMA CommitStepKeepsLimits ==
  ASSUME IInv, LimitsInv, CommitJournal
  PROVE  LimitsInv'
<1>1. runQueue # <<>> /\ Finished /\ TypeInv
  BY DEF IInv, JournalSound, CommitJournal
<1>2. /\ \A i \in 1..Len(runQueue') :
           \E j \in 1..Len(runQueue) : runQueue'[i] = runQueue[j]
      /\ checkpoint' \in Copies
      /\ \A i \in 1..Len(runQueue') : runQueue'[i].baseline \in Copies
      /\ session' = session /\ executing' = FALSE
  BY <1>1, WaitingRuns
<1>3. /\ Tidy(stageCache') /\ InLimits(stageCache')
      /\ stageCache' = stageCache \/ stageCache'.version = stageCache.version + 1
  BY CommitKeepsLimits
<1>4. CopiesTidy' /\ WithinLimits'
  BY <1>2, <1>3, LimitsKept DEF LimitsInv
<1>5. /\ stageCache.version \in Nat
      /\ \A j \in 1..Len(runQueue) : runQueue[j].baseline.version \in Nat
  <2>1. \A j \in 1..Len(runQueue) : runQueue[j] \in Captured
    BY <1>1 DEF TypeInv
  <2> QED BY <1>1, <2>1 DEF TypeInv, Store, Captured
<1>6. QueueOrdered' /\ VersionNamesContent'
  <2>1. ASSUME NEW j \in 1..Len(runQueue)
        PROVE  /\ runQueue[j].session <= session'
               /\ runQueue[j].session = session' =>
                    /\ runQueue[j].baseline.version <= stageCache'.version
                    /\ runQueue[j].baseline.version = stageCache'.version =>
                         runQueue[j].baseline = stageCache'
    BY <1>2, <1>3, <1>5 DEF LimitsInv, QueueOrdered, VersionNamesContent
  <2> QED BY <1>2, <2>1 DEF QueueOrdered, VersionNamesContent
<1>7. JournalNew'
  BY <1>2 DEF JournalNew
<1> QED BY <1>4, <1>6, <1>7 DEF LimitsInv

(* A run that does not commit leaves the store.                            *)
LEMMA DiscardKeepsLimits ==
  ASSUME IInv, LimitsInv, PublishWithoutCommit \/ AbandonRun
  PROVE  LimitsInv'
<1>1. runQueue # <<>> /\ Finished /\ TypeInv /\ stageCache' = stageCache
  BY DEF IInv, JournalSound, PublishWithoutCommit, AbandonRun, Discarded
<1>2. /\ \A i \in 1..Len(runQueue') :
           \E j \in 1..Len(runQueue) : runQueue'[i] = runQueue[j]
      /\ checkpoint' \in Copies
      /\ \A i \in 1..Len(runQueue') : runQueue'[i].baseline \in Copies
      /\ session' = session /\ executing' = FALSE
  BY <1>1, WaitingRuns
<1>3. Tidy(stageCache) /\ InLimits(stageCache)
  BY DEF LimitsInv, CopiesTidy, WithinLimits, InLimits, Copies
<1>4. CopiesTidy' /\ WithinLimits'
  BY <1>1, <1>2, <1>3, LimitsKept DEF LimitsInv
<1>5. QueueOrdered' /\ VersionNamesContent'
  BY <1>1, <1>2 DEF LimitsInv, QueueOrdered, VersionNamesContent
<1>6. JournalNew'
  BY <1>2 DEF JournalNew
<1> QED BY <1>4, <1>5, <1>6 DEF LimitsInv

(* A kernel that starts has no queue and an empty store.                   *)
LEMMA RestartKeepsLimits ==
  ASSUME IInv, LimitsInv, RestartKernel
  PROVE  LimitsInv'
<1>1. /\ stageCache' = EmptyStore /\ runQueue' = <<>> /\ executing' = FALSE
      /\ checkpoint' = checkpoint
  BY DEF RestartKernel
<1>2. CopiesTidy' /\ WithinLimits'
  BY <1>1, EmptyIsTidy, LimitsKept DEF LimitsInv, Copies
<1> QED BY <1>1, <1>2 DEF LimitsInv, JournalNew, QueueOrdered, VersionNamesContent

(* Every step keeps the invariant.                                         *)
LEMMA NextLimits == IInv /\ LimitsInv /\ [Next]_vars => LimitsInv'
<1> SUFFICES ASSUME IInv, LimitsInv, [Next]_vars PROVE LimitsInv'
  OBVIOUS
<1>1. CASE OpenEditorDocument \/ ApplyEditorChange \/ ExportEditorCache \/ ImportEditorCache
  BY <1>1, DocumentKeepsLimits
<1>2. CASE SubmitRun
  BY <1>2, SubmitKeepsLimits
<1>3. CASE StartRun
  BY <1>3, StartKeepsLimits
<1>4. CASE ResolveStage
  BY <1>4, ResolveKeepsLimits
<1>5. CASE CommitJournal
  BY <1>5, CommitStepKeepsLimits
<1>6. CASE PublishWithoutCommit \/ AbandonRun
  BY <1>6, DiscardKeepsLimits
<1>7. CASE RestartKernel
  BY <1>7, RestartKeepsLimits
<1>8. CASE UNCHANGED vars
  BY <1>8 DEF vars, docVars, runVars, LimitsInv, CopiesTidy, WithinLimits, JournalNew,
     QueueOrdered, VersionNamesContent, Copies, captured, txn
<1> QED BY <1>1, <1>2, <1>3, <1>4, <1>5, <1>6, <1>7, <1>8 DEF Next

-----------------------------------------------------------------------------
(* Theorems *)

(* Every copy of a store - the document's, the host's checkpoint, the      *)
(* waiting runs' baselines - keeps to the limits on entries, bytes and     *)
(* quarantines that the report names.                                      *)
THEOREM StoresStayWithinLimits == Spec => []WithinLimits
<1>1. Init => IInv /\ LimitsInv
  BY InitIInv, InitLimits
<1>2. IInv /\ LimitsInv /\ [Next]_vars => (IInv /\ LimitsInv)'
  BY NextIInv, NextLimits
<1>3. IInv /\ LimitsInv => WithinLimits
  BY DEF LimitsInv
<1> QED BY <1>1, <1>2, <1>3, PTL DEF Spec

(* A waiting run whose baseline has the version of its session's store has *)
(* its content: comparing versions is enough to let a journal be written.  *)
THEOREM VersionsNameContents == Spec => []VersionNamesContent
<1>1. Init => IInv /\ LimitsInv
  BY InitIInv, InitLimits
<1>2. IInv /\ LimitsInv /\ [Next]_vars => (IInv /\ LimitsInv)'
  BY NextIInv, NextLimits
<1>3. IInv /\ LimitsInv => VersionNamesContent
  BY DEF LimitsInv
<1> QED BY <1>1, <1>2, <1>3, PTL DEF Spec

-----------------------------------------------------------------------------
(* What a report claims was written                                        *)

(* A resolution of the executing run is pending exactly if the journal     *)
(* holds its key, once, and as a quarantine only if the store did not.     *)
ClaimsOf(es, qs, rs, base) ==
  /\ DOMAIN es \cap DOMAIN qs = {} /\ DOMAIN qs \cap DOMAIN base.quarantined = {}
  /\ \A i \in 1..Len(rs) :
       /\ rs[i].write = FALSE
       /\ rs[i].writePending <=> EntryKey(rs[i].witness) \in DOMAIN es \cup DOMAIN qs
JournalClaims ==
  executing => ClaimsOf(journal.entries, journal.quarantined, journal.resolutions, captured)

WritesInv == IInv /\ LimitsInv /\ JournalClaims

(* A step of a stage appends a resolution of a node that had none, and     *)
(* writes under its key if the resolution says so.                         *)
Appends(w, r) ==
  /\ executing
  /\ journal'.resolutions = Append(journal.resolutions, r)
  /\ r.witness = w /\ r.write = FALSE
  /\ \A i \in 1..Len(journal.resolutions) : journal.resolutions[i].witness.node # w.node
SameKeys(m) == DOMAIN m' = DOMAIN m
OneMoreKey(m, k) == DOMAIN m' = DOMAIN m \cup {k}
WritesAsItSays(w, r) ==
  \/ ~r.writePending /\ SameKeys(journal.entries) /\ SameKeys(journal.quarantined)
  \/ /\ r.writePending /\ EntryKey(w) \notin DOMAIN captured.quarantined
     /\ \/ OneMoreKey(journal.entries, EntryKey(w)) /\ SameKeys(journal.quarantined)
        \/ OneMoreKey(journal.quarantined, EntryKey(w)) /\ SameKeys(journal.entries)

LEMMA StageWrites ==
  ASSUME IInv, ResolveStage
  PROVE  \E w \in Witness, r \in Resolution : Appends(w, r) /\ WritesAsItSays(w, r)
<1>1. journal \in Journal
  BY DEF IInv, TypeInv
<1>2. StageDone
  BY ResolveStageSound DEF IInv, StageReady
<1>3. ASSUME NEW w, NEW r, journal'.resolutions = Append(journal.resolutions, r)
      PROVE  r \in Resolution
  <2>1. PICK rs : rs = journal.resolutions
    OBVIOUS
  <2>2. rs \in Seq(Resolution) /\ Append(rs, r) \in Seq(Resolution)
    BY <1>1, <1>2, <1>3, <2>1 DEF Journal, StageDone
  <2>3. Append(rs, r)[Len(rs) + 1] = r /\ Len(rs) + 1 \in 1..Len(Append(rs, r))
    BY <2>2
  <2> QED BY <2>2, <2>3
<1>4. ASSUME NEW w \in Witness, NEW retained, MayResolve(w, retained)
      PROVE  /\ executing
             /\ \A i \in 1..Len(journal.resolutions) : journal.resolutions[i].witness.node # w.node
  BY <1>4 DEF MayResolve, Unresolved
<1>5. ASSUME NEW w \in Witness, NEW retained, MayResolve(w, retained),
             NEW hit, NEW output, NEW evidence,
             journal' = [journal EXCEPT
               !.resolutions = Resolved(w, hit, output, evidence, FALSE)]
      PROVE  \E r \in Resolution : Appends(w, r) /\ WritesAsItSays(w, r)
  <2> DEFINE r == [witness |-> w, hit |-> hit, output |-> output, evidence |-> evidence,
                   writePending |-> FALSE, write |-> FALSE]
  <2>1. /\ journal'.resolutions = Append(journal.resolutions, r)
        /\ journal'.entries = journal.entries /\ journal'.quarantined = journal.quarantined
    BY <1>1, <1>5 DEF Resolved, Journal
  <2>2. r.witness = w /\ r.write = FALSE /\ r.writePending = FALSE
    OBVIOUS
  <2> HIDE DEF r
  <2>3. r \in Resolution
    BY <1>3, <2>1
  <2>4. Appends(w, r)
    BY <1>4, <1>5, <2>1, <2>2 DEF Appends
  <2>5. WritesAsItSays(w, r)
    BY <2>1, <2>2 DEF WritesAsItSays, SameKeys
  <2> QED BY <2>3, <2>4, <2>5
<1>6. ASSUME NEW w \in Witness, NEW retained, MayResolve(w, retained),
             NEW output, NEW evidence, NEW e,
             EntryKey(w) \notin DOMAIN captured.quarantined,
             \/ journal' = [journal EXCEPT !.entries = With(@, EntryKey(w), e),
                  !.resolutions = Resolved(w, FALSE, output, evidence, TRUE)]
             \/ journal' = [journal EXCEPT !.quarantined = With(@, EntryKey(w), e),
                  !.resolutions = Resolved(w, FALSE, output, evidence, TRUE)]
      PROVE  \E r \in Resolution : Appends(w, r) /\ WritesAsItSays(w, r)
  <2> DEFINE r == [witness |-> w, hit |-> FALSE, output |-> output, evidence |-> evidence,
                   writePending |-> TRUE, write |-> FALSE]
  <2>1. /\ journal'.resolutions = Append(journal.resolutions, r)
        /\ \/ /\ journal'.entries = With(journal.entries, EntryKey(w), e)
              /\ journal'.quarantined = journal.quarantined
           \/ /\ journal'.quarantined = With(journal.quarantined, EntryKey(w), e)
              /\ journal'.entries = journal.entries
    BY <1>1, <1>6 DEF Resolved, Journal
  <2>2. r.witness = w /\ r.write = FALSE /\ r.writePending = TRUE
    OBVIOUS
  <2> HIDE DEF r
  <2>3. r \in Resolution
    BY <1>3, <2>1
  <2>4. Appends(w, r)
    BY <1>4, <1>6, <2>1, <2>2 DEF Appends
  <2>5. \A m : DOMAIN With(m, EntryKey(w), e) = DOMAIN m \cup {EntryKey(w)}
    BY DEF With
  <2>6. WritesAsItSays(w, r)
    BY <1>6, <2>1, <2>2, <2>5 DEF WritesAsItSays, SameKeys, OneMoreKey
  <2> QED BY <2>3, <2>4, <2>6
<1>7. ASSUME NEW w \in Witness, ReuseStage(w)
      PROVE  \E r \in Resolution : Appends(w, r) /\ WritesAsItSays(w, r)
  BY <1>5, <1>7 DEF ReuseStage
<1>8. ASSUME NEW w \in Witness, NEW retained \in BOOLEAN, NEW output,
             SkipObservation(w, retained, output) \/ IgnoreSameRevision(w, retained, output)
      PROVE  \E r \in Resolution : Appends(w, r) /\ WritesAsItSays(w, r)
  BY <1>5, <1>8 DEF SkipObservation, IgnoreSameRevision, Invokes
<1>9. ASSUME NEW w \in Witness, NEW retained \in BOOLEAN, NEW output,
             QuarantineStage(w, retained, output)
      PROVE  \E r \in Resolution : Appends(w, r) /\ WritesAsItSays(w, r)
  BY <1>6, <1>9 DEF QuarantineStage, Invokes, Observable, InQuarantine
<1>10. ASSUME NEW w \in Witness, NEW retained \in BOOLEAN, NEW output,
              ObserveStage(w, retained, output)
       PROVE  \E r \in Resolution : Appends(w, r) /\ WritesAsItSays(w, r)
  BY <1>6, <1>10 DEF ObserveStage, Invokes, Observable, InQuarantine
<1> QED BY <1>7, <1>8, <1>9, <1>10 DEF ResolveStage

(* A stage's claim is that of its key, which no other stage shares.        *)
LEMMA ResolveKeepsClaims ==
  ASSUME WritesInv, ResolveStage
  PROVE  JournalClaims'
<1>1. PICK w \in Witness, r \in Resolution : Appends(w, r) /\ WritesAsItSays(w, r)
  BY StageWrites DEF WritesInv
<1>2. UNCHANGED <<runQueue, executing>>
  BY ResolveStageSound DEF WritesInv, IInv, StageReady, OnlyJournal
<1>3. PICK rs, rs2, k, E, Q, E2, Q2, B :
        /\ rs = journal.resolutions /\ rs2 = journal'.resolutions /\ k = EntryKey(w)
        /\ E = DOMAIN journal.entries /\ Q = DOMAIN journal.quarantined
        /\ E2 = DOMAIN journal'.entries /\ Q2 = DOMAIN journal'.quarantined
        /\ B = DOMAIN captured.quarantined
  OBVIOUS
<1>4. /\ rs \in Seq(Resolution) /\ rs2 = Append(rs, r) /\ r.witness = w /\ r.write = FALSE
      /\ \A i \in 1..Len(rs) : rs[i].witness.node # w.node
  BY <1>1, <1>3 DEF Appends, WritesInv, IInv, TypeInv, Journal
<1>5. /\ E \cap Q = {} /\ Q \cap B = {}
      /\ \A i \in 1..Len(rs) : /\ rs[i].write = FALSE
                               /\ rs[i].writePending <=> EntryKey(rs[i].witness) \in E \cup Q
  BY <1>1, <1>3 DEF Appends, WritesInv, JournalClaims, ClaimsOf
<1>6. k \notin E \cup Q /\ \A i \in 1..Len(rs) : EntryKey(rs[i].witness) # k
  <2>1. \A j \in E \cup Q : \E i \in 1..Len(rs) : rs[i].witness.node = j.node
    BY <1>1, <1>3 DEF Appends, WritesInv, IInv, JournalSound, SoundJournal
  <2>2. k.node = w.node
    BY <1>3, KeyOfWitness
  <2>3. ASSUME NEW i \in 1..Len(rs) PROVE EntryKey(rs[i].witness).node = rs[i].witness.node
    <3>1. rs[i] \in Resolution
      BY <1>4
    <3>2. rs[i].witness \in Witness
      BY <3>1 DEF Resolution
    <3> QED BY <3>2, KeyOfWitness
  <2> QED BY <1>4, <2>1, <2>2, <2>3
<1>7. \/ ~r.writePending /\ E2 = E /\ Q2 = Q
      \/ /\ r.writePending /\ k \notin B
         /\ (E2 = E \cup {k} /\ Q2 = Q) \/ (Q2 = Q \cup {k} /\ E2 = E)
  BY <1>1, <1>3 DEF WritesAsItSays, SameKeys, OneMoreKey
<1>8. E2 \cap Q2 = {} /\ Q2 \cap B = {}
  BY <1>5, <1>6, <1>7
<1>9. ASSUME NEW i \in 1..Len(rs2)
      PROVE  /\ rs2[i].write = FALSE
             /\ rs2[i].writePending <=> EntryKey(rs2[i].witness) \in E2 \cup Q2
  <2>1. CASE i = Len(rs) + 1
    <3>1. rs2[i] = r
      BY <1>4, <2>1
    <3>2. r.writePending <=> k \in E2 \cup Q2
      BY <1>6, <1>7
    <3> QED BY <1>3, <1>4, <3>1, <3>2
  <2>2. CASE i # Len(rs) + 1
    <3>1. i \in 1..Len(rs) /\ rs2[i] = rs[i]
      BY <1>4, <2>2
    <3>2. EntryKey(rs[i].witness) \in E2 \cup Q2 <=> EntryKey(rs[i].witness) \in E \cup Q
      BY <1>6, <1>7, <3>1
    <3> QED BY <1>5, <3>1, <3>2
  <2> QED BY <2>1, <2>2
<1>10. captured' = captured
  BY <1>2 DEF captured, txn
<1> QED BY <1>3, <1>8, <1>9, <1>10 DEF JournalClaims, ClaimsOf

(* The other steps leave the journal, or empty it.                         *)
LEMMA NextClaims ==
  WritesInv /\ [Next]_vars => WritesInv'
<1> SUFFICES ASSUME WritesInv, [Next]_vars PROVE JournalClaims'
  BY NextIInv, NextLimits DEF WritesInv
<1>1. CASE ResolveStage
  BY <1>1, ResolveKeepsClaims
<1>2. ASSUME UNCHANGED <<executing, journal, runQueue>> PROVE JournalClaims'
  BY <1>2 DEF WritesInv, JournalClaims, captured, txn
<1>3. CASE OpenEditorDocument \/ ApplyEditorChange \/ ExportEditorCache \/ ImportEditorCache
           \/ UNCHANGED vars
  BY <1>2, <1>3 DEF OpenEditorDocument, ApplyEditorChange, ExportEditorCache,
     ImportEditorCache, runVars, vars
<1>4. CASE SubmitRun
  <2>1. /\ UNCHANGED <<executing, journal>>
        /\ runQueue' = Append(runQueue, CaptureEditorRun) /\ runQueue \in Seq(Captured)
    BY <1>4 DEF SubmitRun, WritesInv, IInv, TypeInv
  <2>2. CaptureEditorRun \in Captured
    BY DEF WritesInv, IInv, TypeInv, CaptureEditorRun, Captured
  <2>3. ASSUME executing PROVE captured' = captured
    <3>1. Head(runQueue') = Head(runQueue)
      BY <2>1, <2>2, <2>3, HeadFacts DEF WritesInv, IInv, JournalSound
    <3> QED BY <3>1 DEF captured, txn
  <2> QED BY <2>1, <2>3 DEF WritesInv, JournalClaims
<1>5. CASE StartRun
  <2>1. journal' = EmptyJournal
    BY <1>5 DEF StartRun, WritesInv, IInv, JournalIdle
  <2> QED BY <2>1 DEF JournalClaims, ClaimsOf, EmptyJournal, NoneMapped
<1>6. CASE CommitJournal \/ PublishWithoutCommit \/ AbandonRun \/ RestartKernel
  BY <1>6 DEF CommitJournal, PublishWithoutCommit, AbandonRun, Discarded, Finished,
     RestartKernel, JournalClaims
<1> QED BY <1>1, <1>3, <1>4, <1>5, <1>6 DEF Next

LEMMA WritesInvHolds == Spec => []WritesInv
<1>1. Init => WritesInv
  BY InitIInv, InitLimits DEF WritesInv, Init, JournalClaims
<1> QED BY <1>1, NextClaims, PTL DEF Spec

(* A run that is not committed writes nothing and says so.                 *)
LEMMA DiscardReports ==
  ASSUME WritesInv, PublishWithoutCommit \/ AbandonRun, NEW i \in 1..Len(journal.resolutions)
  PROVE  report'[i].write <=> Wrote(journal.resolutions[i].witness)
<1>1. executing /\ Discarded
  BY DEF PublishWithoutCommit, AbandonRun
<1>2. journal.resolutions[i].write = FALSE /\ journal.resolutions[i] \in Resolution
  <2>1. journal.resolutions \in Seq(Resolution)
    BY DEF WritesInv, IInv, TypeInv, Journal
  <2> QED BY <1>1, <2>1 DEF WritesInv, JournalClaims, ClaimsOf
<1>3. report'[i] = DiscardWrite(journal.resolutions[i])
  BY <1>1 DEF Discarded
<1>4. report'[i].write = FALSE
  BY <1>2, <1>3 DEF DiscardWrite, Resolution
<1>5. stageCache' = stageCache
  BY <1>1 DEF Discarded
<1>6. ~Wrote(journal.resolutions[i].witness)
  BY <1>5 DEF Wrote
<1> QED BY <1>4, <1>6

(* What a commit puts under a key: the journal's entry or quarantine if it *)
(* survives the eviction, else what the store had or nothing.              *)
LEMMA CommittedKey ==
  ASSUME WritesInv, CommitJournal, NEW k
  PROVE  /\ k \in DOMAIN journal.entries =>
              /\ k \in DOMAIN stageCache'.entries <=> k \in SurvivingEntries
              /\ k \in SurvivingEntries => stageCache'.entries[k] = journal.entries[k]
              /\ k \notin DOMAIN stageCache'.quarantined /\ k \notin SurvivingQuarantines
         /\ k \in DOMAIN journal.quarantined =>
              /\ k \notin DOMAIN stageCache'.entries /\ k \notin SurvivingEntries
              /\ k \notin DOMAIN stageCache.quarantined
              /\ k \in DOMAIN stageCache'.quarantined <=> k \in SurvivingQuarantines
         /\ k \notin DOMAIN journal.entries \cup DOMAIN journal.quarantined =>
              /\ k \in DOMAIN stageCache'.entries =>
                   k \in DOMAIN stageCache.entries /\ stageCache'.entries[k] = stageCache.entries[k]
              /\ k \in DOMAIN stageCache'.quarantined => k \in DOMAIN stageCache.quarantined
<1>1. captured = stageCache /\ stageCache \in Store /\ journal \in Journal
  BY CommitsOntoCapture DEF WritesInv
<1>2. /\ DOMAIN journal.entries \cap DOMAIN journal.quarantined = {}
      /\ DOMAIN journal.quarantined \cap DOMAIN stageCache.quarantined = {}
      /\ DOMAIN journal.entries \cap DOMAIN stageCache.quarantined = {}
  BY <1>1 DEF WritesInv, JournalClaims, ClaimsOf, LimitsInv, JournalNew, NewTo, CommitJournal
<1>3. PICK es, qs : es = EvictEntries(MergedEntries) /\ qs = EvictQuarantines(MergedQuarantines)
  OBVIOUS
<1>4. stageCache'.entries = es /\ stageCache'.quarantined = qs
  BY <1>3 DEF CommitJournal
<1>5. /\ DOMAIN es \subseteq DOMAIN MergedEntries
      /\ \A j \in DOMAIN es : es[j] = MergedEntries[j]
      /\ DOMAIN qs \subseteq DOMAIN MergedQuarantines
  BY <1>1, <1>3, MergeFacts, EvictionDrops
<1>6. /\ SurvivingEntries = DOMAIN journal.entries \cap DOMAIN es
      /\ SurvivingQuarantines = DOMAIN journal.quarantined \cap DOMAIN qs
  BY <1>3 DEF SurvivingEntries, SurvivingQuarantines
<1>7. DOMAIN MergedQuarantines = DOMAIN stageCache.quarantined \cup DOMAIN journal.quarantined
  BY DEF MergedQuarantines
<1>8. /\ DOMAIN MergedEntries = (DOMAIN stageCache.entries \ DOMAIN journal.quarantined)
                                  \cup DOMAIN journal.entries
      /\ \A j \in DOMAIN journal.entries : MergedEntries[j] = journal.entries[j]
      /\ \A j \in DOMAIN MergedEntries \ DOMAIN journal.entries :
           MergedEntries[j] = stageCache.entries[j]
  BY <1>2, <1>7 DEF MergedEntries
<1>9. CASE k \in DOMAIN journal.entries
  BY <1>2, <1>4, <1>5, <1>6, <1>7, <1>8, <1>9
<1>10. CASE k \in DOMAIN journal.quarantined
  BY <1>2, <1>4, <1>5, <1>6, <1>7, <1>8, <1>10
<1>11. CASE k \notin DOMAIN journal.entries \cup DOMAIN journal.quarantined
  BY <1>4, <1>5, <1>7, <1>8, <1>11
<1> QED BY <1>9, <1>10, <1>11

(* A journal's entry ends with its run's observation, and is newer than    *)
(* what the store had under its key.                                       *)
LEMMA JournalEntryIsFresh ==
  ASSUME WritesInv, CommitJournal, NEW k \in DOMAIN journal.entries
  PROVE  /\ journal.entries[k].observations[Len(journal.entries[k].observations)] = Fresh
         /\ k \in DOMAIN stageCache.entries => journal.entries[k] # stageCache.entries[k]
<1>1. /\ captured = stageCache /\ stageCache \in Store /\ Tidy(stageCache)
  BY CommitsOntoCapture DEF WritesInv
<1>2. SoundWrite(journal.entries[k], Fresh, committed)
  BY DEF WritesInv, IInv, JournalSound, SoundJournal, CommitJournal
<1>3. PICK v \in Nat : v = stageCache.version
  BY <1>1 DEF Store
<1>4. journal.entries[k].stamp[1] = v + 1
  BY <1>1, <1>3 DEF WritesInv, LimitsInv, JournalNew, NewTo, AllWritten, WrittenBy, CommitJournal
<1>5. ASSUME k \in DOMAIN stageCache.entries PROVE journal.entries[k] # stageCache.entries[k]
  <2>1. stageCache.entries[k] \in Entry
    BY <1>1, <1>5, MapsMember DEF Store, IsMap
  <2>2. stageCache.entries[k].stamp[1] \in Nat /\ stageCache.entries[k].stamp[1] <= v
    BY <1>1, <1>3, <1>5, <2>1 DEF Tidy, Stamped, Entry, Stamp
  <2> QED BY <1>4, <2>2
<1> QED BY <1>2, <1>5 DEF SoundWrite

(* A committed run reports a write where its journal's key survived.       *)
LEMMA CommitReports ==
  ASSUME WritesInv, CommitJournal, NEW i \in 1..Len(journal.resolutions)
  PROVE  report'[i].write <=> Wrote(journal.resolutions[i].witness)
<1>1. PICK r, k : r = journal.resolutions[i] /\ k = EntryKey(r.witness)
  OBVIOUS
<1>2. /\ r \in Resolution /\ r.write = FALSE
      /\ r.writePending <=> k \in DOMAIN journal.entries \cup DOMAIN journal.quarantined
  <2>1. journal.resolutions \in Seq(Resolution)
    BY DEF WritesInv, IInv, TypeInv, Journal
  <2>2. r \in Resolution
    BY <1>1, <2>1
  <2> QED BY <1>1, <2>2 DEF WritesInv, JournalClaims, ClaimsOf, CommitJournal
<1>3. report'[i] = CommitWrite(r)
  BY <1>1 DEF CommitJournal
<1>4. report'[i].write <=> r.writePending /\ Survives(r)
  <2>1. CASE r.writePending /\ ~Survives(r)
    BY <1>2, <1>3, <2>1 DEF CommitWrite, Resolution
  <2>2. CASE ~(r.writePending /\ ~Survives(r))
    <3>1. report'[i] = [r EXCEPT !.writePending = FALSE, !.write = r.writePending]
      BY <1>3, <2>2 DEF CommitWrite
    <3>2. report'[i].write = r.writePending
      BY <1>2, <3>1 DEF Resolution
    <3> QED BY <2>2, <3>2
  <2> QED BY <2>1, <2>2
<1>5. Survives(r) <=> k \in SurvivingEntries \cup SurvivingQuarantines
  BY <1>1 DEF Survives
<1>6. Wrote(r.witness) <=>
        \/ /\ k \in DOMAIN stageCache'.entries
           /\ stageCache'.entries[k].observations[Len(stageCache'.entries[k].observations)] = Fresh
           /\ k \in DOMAIN stageCache.entries => stageCache'.entries[k] # stageCache.entries[k]
        \/ k \in DOMAIN stageCache'.quarantined \ DOMAIN stageCache.quarantined
  BY <1>1 DEF Wrote, Fresh
<1>7. ASSUME k \in DOMAIN journal.entries
      PROVE  report'[i].write <=> Wrote(r.witness)
  <2>1. /\ k \in DOMAIN stageCache'.entries <=> k \in SurvivingEntries
        /\ k \in SurvivingEntries => stageCache'.entries[k] = journal.entries[k]
        /\ k \notin DOMAIN stageCache'.quarantined /\ k \notin SurvivingQuarantines
    BY <1>7, CommittedKey
  <2>2. /\ journal.entries[k].observations[Len(journal.entries[k].observations)] = Fresh
        /\ k \in DOMAIN stageCache.entries => journal.entries[k] # stageCache.entries[k]
    BY <1>7, JournalEntryIsFresh
  <2>3. report'[i].write <=> k \in SurvivingEntries
    BY <1>2, <1>4, <1>5, <1>7, <2>1
  <2>4. Wrote(r.witness) <=> k \in SurvivingEntries
    BY <1>6, <2>1, <2>2
  <2> QED BY <2>3, <2>4
<1>8. ASSUME k \in DOMAIN journal.quarantined
      PROVE  report'[i].write <=> Wrote(r.witness)
  <2>1. /\ k \notin DOMAIN stageCache'.entries /\ k \notin SurvivingEntries
        /\ k \notin DOMAIN stageCache.quarantined
        /\ k \in DOMAIN stageCache'.quarantined <=> k \in SurvivingQuarantines
    BY <1>8, CommittedKey
  <2>2. report'[i].write <=> k \in SurvivingQuarantines
    BY <1>2, <1>4, <1>5, <1>8, <2>1
  <2>3. Wrote(r.witness) <=> k \in SurvivingQuarantines
    BY <1>6, <2>1
  <2> QED BY <2>2, <2>3
<1>9. ASSUME k \notin DOMAIN journal.entries \cup DOMAIN journal.quarantined
      PROVE  report'[i].write <=> Wrote(r.witness)
  <2>1. /\ k \in DOMAIN stageCache'.entries =>
             k \in DOMAIN stageCache.entries /\ stageCache'.entries[k] = stageCache.entries[k]
        /\ k \in DOMAIN stageCache'.quarantined => k \in DOMAIN stageCache.quarantined
    BY <1>9, CommittedKey
  <2>2. ~Wrote(r.witness)
    BY <1>6, <2>1
  <2>3. ~report'[i].write
    BY <1>2, <1>4, <1>9
  <2> QED BY <2>2, <2>3
<1> QED BY <1>1, <1>7, <1>8, <1>9

(* RUN-006: whatever a run's journal held and whatever eviction left of    *)
(* it, the report claims a write exactly where the store has it now.       *)
THEOREM WritesReported == Spec => ReportedWritesAreVisible
<1>1. ASSUME WritesInv, [Next]_vars, executing, ~executing', kernel' = kernel
      PROVE  \A i \in 1..Len(journal.resolutions) :
               report'[i].write <=> Wrote(journal.resolutions[i].witness)
  <2>1. CommitJournal \/ PublishWithoutCommit \/ AbandonRun
    <3>1. CASE OpenEditorDocument \/ ApplyEditorChange \/ SubmitRun \/ ExportEditorCache
               \/ ImportEditorCache \/ UNCHANGED vars
      BY <1>1, <3>1 DEF OpenEditorDocument, ApplyEditorChange, SubmitRun, ExportEditorCache,
         ImportEditorCache, runVars, vars
    <3>2. CASE StartRun
      BY <1>1, <3>2 DEF StartRun
    <3>3. CASE ResolveStage
      BY <1>1, <3>3, ResolveStageSound DEF WritesInv, IInv, StageReady, OnlyJournal
    <3>4. CASE RestartKernel
      BY <1>1, <3>4 DEF RestartKernel, WritesInv, IInv, TypeInv
    <3> QED BY <1>1, <3>1, <3>2, <3>3, <3>4 DEF Next
  <2> QED BY <1>1, <2>1, CommitReports, DiscardReports
<1>2. WritesInv /\ [Next]_vars =>
        [executing /\ ~executing' /\ kernel' = kernel =>
           \A i \in 1..Len(journal.resolutions) :
             report'[i].write <=> Wrote(journal.resolutions[i].witness)]_vars
  BY <1>1
<1> QED BY <1>2, WritesInvHolds, PTL DEF Spec, ReportedWritesAreVisible
=============================================================================
