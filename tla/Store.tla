------------------------------- MODULE Store -------------------------------
(***************************************************************************)
(* The in-memory versioned map every node of the replicated key-value      *)
(* store keeps (CS6650_hw10/store/store.go).  Each operation runs under    *)
(* the store's lock, so it is one function of the map: a specification     *)
(* applies it to the map of one node in one step.                          *)
(*                                                                         *)
(* A value is named by the write request that carries it.  That is the     *)
(* finest distinction a property can make between values.                  *)
(***************************************************************************)
EXTENDS Integers

CONSTANTS Keys,      \* the keys clients use
          Writes,    \* write requests, each naming the value it carries
          NoWrite    \* the value of an entry that is not there

ASSUME NoWriteAssumption == NoWrite \notin Writes

Absent == [value |-> NoWrite, version |-> 0]

Entry == [value : Writes, version : Nat \ {0}] \cup {Absent}

StoreMap == [Keys -> Entry]

\* store.New: no key has an entry.
New == [k \in Keys |-> Absent]

\* The second result of Get: whether key k has an entry in map m.
Has(m, k) == m[k] # Absent

\* The version Set gives to the next value of key k.
NextVersion_Reused(m, k) == IF Has(m, k) THEN m[k].version ELSE 1

NextVersion_FromZero(m, k) == IF Has(m, k) THEN m[k].version + 1 ELSE 0

NextVersion(m, k) == IF Has(m, k) THEN m[k].version + 1 ELSE 1

\* Store.Set: replace the entry of k and number it after the one it replaces.
Set(m, k, v) ==
  [m EXCEPT ![k] = [value |-> v, version |-> NextVersion(m, k)]]

\* Store.SetWithVersion: a replicated entry is taken only when it is newer.
SetWithVersion_Blind(m, k, v, ver) ==
  [m EXCEPT ![k] = [value |-> v, version |-> ver]]

SetWithVersion_OnTie(m, k, v, ver) ==
  IF Has(m, k) /\ m[k].version > ver
  THEN m
  ELSE [m EXCEPT ![k] = [value |-> v, version |-> ver]]

SetWithVersion(m, k, v, ver) ==
  IF Has(m, k) /\ m[k].version >= ver
  THEN m
  ELSE [m EXCEPT ![k] = [value |-> v, version |-> ver]]

\* newest in replication.go: an entry of the highest version among those
\* collected; which one of several is left to an unstable sort.
Newest_Unsorted(entries) == IF entries = {} THEN {Absent} ELSE entries

Newest(entries) ==
  IF entries = {}
  THEN {Absent}
  ELSE {e \in entries : \A d \in entries : d.version <= e.version}
=============================================================================
