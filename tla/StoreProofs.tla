---------------------------- MODULE StoreProofs ----------------------------
(***************************************************************************)
(* What the operations of Store do to a map, for every map, key and entry. *)
(***************************************************************************)
EXTENDS Store, TLAPS

\* An entry has a version, and only the missing entry has version 0.
LEMMA EntryVersion ==
  ASSUME NEW e \in Entry
  PROVE  /\ e.version \in Nat
         /\ e = Absent <=> e.version = 0
         /\ e # Absent => e.value \in Writes
BY DEF Entry, Absent

LEMMA NewIsMap == New \in StoreMap /\ \A k \in Keys : New[k] = Absent
BY DEF New, StoreMap, Entry

\* Set gives the key one more than the version it had, 1 for a new key, and
\* leaves the other keys alone.
LEMMA SetFacts ==
  ASSUME NEW m \in StoreMap, NEW k \in Keys, NEW v \in Writes
  PROVE  /\ Set(m, k, v) \in StoreMap
         /\ NextVersion(m, k) = m[k].version + 1
         /\ Set(m, k, v)[k] = [value |-> v, version |-> m[k].version + 1]
         /\ \A j \in Keys : j # k => Set(m, k, v)[j] = m[j]
<1>1. m[k] \in Entry
  BY DEF StoreMap
<1>2. m[k].version \in Nat /\ (m[k] = Absent <=> m[k].version = 0)
  BY <1>1, EntryVersion
<1>3. NextVersion(m, k) = m[k].version + 1
  BY <1>2 DEF NextVersion, Has
<1>4. [value |-> v, version |-> m[k].version + 1] \in Entry
  BY <1>2 DEF Entry
<1> QED
  BY <1>3, <1>4 DEF Set, StoreMap

\* SetWithVersion leaves the newer of the two entries under the key.
LEMMA SetWithVersionFacts ==
  ASSUME NEW m \in StoreMap, NEW k \in Keys, NEW v \in Writes, NEW ver \in Nat \ {0}
  PROVE  /\ SetWithVersion(m, k, v, ver) \in StoreMap
         /\ SetWithVersion(m, k, v, ver)[k] =
              IF m[k].version >= ver THEN m[k] ELSE [value |-> v, version |-> ver]
         /\ \A j \in Keys : j # k => SetWithVersion(m, k, v, ver)[j] = m[j]
<1>1. m[k] \in Entry
  BY DEF StoreMap
<1>2. m[k].version \in Nat /\ (m[k] = Absent <=> m[k].version = 0)
  BY <1>1, EntryVersion
<1>3. [value |-> v, version |-> ver] \in Entry
  BY DEF Entry
<1> QED
  BY <1>2, <1>3 DEF SetWithVersion, Has, StoreMap
=============================================================================
