------------------------ MODULE LeaderFollowerProofs ------------------------
(***************************************************************************)
(* Safety of LeaderFollower for any number of followers, keys, requests    *)
(* and failures, in each mode; then that the leader implements             *)
(* LinearizableKV, step by step.                                           *)
(***************************************************************************)
EXTENDS LeaderFollower, StoreProofs, FiniteSetTheorems, Sequences

LEMMA LeaderIsNode == Leader \in Nodes /\ Followers \subseteq Nodes /\ Leader \notin Followers
BY NAssumption DEF Leader, Nodes, Followers

LEMMA ModeType == TypeOK => mode \in {"W5R1", "W1R5", "W3R3"}
BY ModeAssumption DEF TypeOK

\* The mode is settled when the cluster starts.
LEMMA ModeLasts == [Next]_vars => mode' = mode
BY DEF Next, vars, writeVars, HandleSet, HandleReplicate, Confirm, ReplicateFails,
       HandleGet, FinishGet, HandleLocalRead, FetchFails, Collect, Drain

LEMMA KeyOfType == \A x \in Writes \cup Reads : KeyOf[x] \in Keys
BY RequestAssumption

-----------------------------------------------------------------------------
(* Type correctness *)

\* The loop of collectEntries keeps at most one entry per result it received.
Taken(r) == {f \in Followers : fetch[r][f] = "taken"}

Counted ==
  \A r \in Reads :
    /\ rphase[r] = "none" => collected[r] = 0
    /\ rphase[r] # "done" => drain[r] = 0 /\ collected[r] <= Cardinality(Taken(r))

\* A write has a version exactly when the leader has taken it, and no call
\* carries it before.
Numbered ==
  \A w \in Writes :
    IF reply[w] = "none"
    THEN ver[w] = 0 /\ confirmed[w] = 0 /\ \A f \in Followers : rpc[w][f] = "open"
    ELSE ver[w] # 0

LEMMA TypeInit == Init => TypeOK /\ Numbered
<1> SUFFICES ASSUME Init PROVE TypeOK /\ Numbered
  OBVIOUS
<1>1. New \in StoreMap
  BY NewIsMap
<1>2. Absent \in Entry
  BY DEF Entry
<1>3. TypeOK
  BY <1>1, <1>2, FailureAssumption DEF Init, TypeOK, RpcState
<1>4. Numbered
  BY DEF Init, Numbered
<1> QED
  BY <1>3, <1>4

LEMMA TakenFinite ==
  ASSUME NEW r \in Reads
  PROVE  IsFiniteSet(Taken(r)) /\ Cardinality(Taken(r)) \in 0 .. N
<1>1. IsFiniteSet(Followers) /\ Cardinality(Followers) = N
  BY NAssumption, FS_Interval DEF Followers
<1>2. Taken(r) \subseteq Followers
  BY DEF Taken
<1> QED
  BY <1>1, <1>2, FS_Subset, FS_CardinalityType, NAssumption

LEMMA CountedInit == Init => Counted
<1> SUFFICES ASSUME Init, NEW r \in Reads PROVE 0 <= Cardinality(Taken(r))
  BY DEF Init, Counted
<1> QED
  BY TakenFinite

LEMMA CountedNext == TypeOK /\ Counted /\ [Next]_vars => Counted'
<1> SUFFICES ASSUME TypeOK, Counted, [Next]_vars, NEW q \in Reads
             PROVE  /\ rphase'[q] = "none" => collected'[q] = 0
                    /\ rphase'[q] # "done" =>
                         drain'[q] = 0 /\ collected'[q] <= Cardinality(Taken(q)')
  BY DEF Counted
<1> DEFINE Goal == /\ rphase'[q] = "none" => collected'[q] = 0
                   /\ rphase'[q] # "done" =>
                        drain'[q] = 0 /\ collected'[q] <= Cardinality(Taken(q)')
<1>1. ASSUME UNCHANGED <<rphase[q], collected[q], drain[q], Taken(q)>> PROVE Goal
  BY <1>1 DEF Counted
<1>2. ASSUME UNCHANGED readVars PROVE Goal
  BY <1>1, <1>2 DEF readVars, Taken
<1>3. ASSUME NEW r \in Reads, HandleGet(r) PROVE Goal
  <2>1. CASE q # r
    BY <1>1, <1>3, <2>1 DEF HandleGet, Taken, TypeOK
  <2>2. CASE q = r
    <3>1. collected'[q] = 0 /\ drain'[q] = 0
      BY <1>3, <2>2 DEF HandleGet, Counted
    <3>2. Taken(q)' = {}
      BY <1>3, <2>2 DEF HandleGet, Taken, TypeOK
    <3>3. Cardinality(Taken(q)') = 0
      BY <3>2, FS_EmptySet
    <3> QED
      BY <3>1, <3>3
  <2> QED
    BY <2>1, <2>2
<1>4. ASSUME NEW r \in Reads, NEW f \in Followers,
             HandleLocalRead(r, f) \/ FetchFails(r, f)
      PROVE  Goal
  <2>1. PICK s \in {"found", "missing"} :
          fetch[r][f] = "open" /\ fetch' = [fetch EXCEPT ![r][f] = s]
    BY <1>4 DEF HandleLocalRead, FetchFails
  <2>2. UNCHANGED Taken(q)
    BY <2>1 DEF Taken, TypeOK
  <2> QED
    BY <1>1, <1>4, <2>2 DEF HandleLocalRead, FetchFails
<1>5. ASSUME NEW r \in Reads, NEW f \in Followers, Collect(r, f) PROVE Goal
  <2>1. CASE q # r
    BY <1>1, <1>5, <2>1 DEF Collect, Taken, TypeOK
  <2>2. CASE q = r
    <3>1. Taken(q)' = Taken(q) \cup {f} /\ f \notin Taken(q)
      BY <1>5, <2>2 DEF Collect, Taken, TypeOK
    <3>2. Cardinality(Taken(q)') = Cardinality(Taken(q)) + 1
      BY <3>1, TakenFinite, FS_AddElement
    <3>3. collected[q] <= Cardinality(Taken(q)) /\ drain[q] = 0
      BY <1>5, <2>2 DEF Collect, Counted
    <3>4. /\ collected'[q] \in {collected[q], collected[q] + 1}
          /\ collected[q] \in Nat
          /\ rphase'[q] = "collecting" /\ drain'[q] = drain[q]
      BY <1>5, <2>2 DEF Collect, TypeOK
    <3> QED
      BY <3>2, <3>3, <3>4, TakenFinite
  <2> QED
    BY <2>1, <2>2
<1>6. ASSUME NEW r \in Reads, FinishGet(r) PROVE Goal
  <2>1. CASE q # r
    BY <1>1, <1>6, <2>1 DEF FinishGet, Taken, TypeOK
  <2>2. CASE q = r
    BY <1>6, <2>2 DEF FinishGet, TypeOK
  <2> QED
    BY <2>1, <2>2
<1>7. ASSUME NEW r \in Reads, NEW f \in Followers, Drain(r, f) PROVE Goal
  <2>1. CASE q # r
    BY <1>1, <1>7, <2>1 DEF Drain, Taken, TypeOK
  <2>2. CASE q = r
    BY <1>7, <2>2 DEF Drain, Counted, TypeOK
  <2> QED
    BY <2>1, <2>2
<1>8. ASSUME NEW w \in Writes,
             \/ HandleSet(w)
             \/ \E f \in Followers :
                  HandleReplicate(w, f) \/ Confirm(w, f) \/ ReplicateFails(w, f)
      PROVE  Goal
  BY <1>2, <1>8 DEF HandleSet, HandleReplicate, Confirm, ReplicateFails
<1>9. CASE UNCHANGED vars
  BY <1>2, <1>9 DEF vars
<1> QED
  BY <1>3, <1>4, <1>5, <1>6, <1>7, <1>8, <1>9 DEF Next

LEMMA TypeNext ==
  TypeOK /\ Numbered /\ Counted /\ [Next]_vars => (TypeOK /\ Numbered)'
<1> SUFFICES ASSUME TypeOK, Numbered, Counted, [Next]_vars
             PROVE  TypeOK' /\ Numbered'
  OBVIOUS
<1> USE KeyOfType, LeaderIsNode
<1>1. ASSUME NEW w \in Writes, HandleSet(w) PROVE TypeOK' /\ Numbered'
  <2>1. data[Leader] \in StoreMap /\ KeyOf[w] \in Keys
    BY DEF TypeOK
  <2>2. /\ Set(data[Leader], KeyOf[w], w) \in StoreMap
        /\ NextVersion(data[Leader], KeyOf[w]) = data[Leader][KeyOf[w]].version + 1
    BY <2>1, SetFacts
  <2>3. data[Leader][KeyOf[w]].version \in Nat
    BY <2>1, EntryVersion DEF StoreMap
  <2>4. TypeOK'
    BY <1>1, <2>2, <2>3 DEF HandleSet, TypeOK, readVars
  <2>5. ver'[w] # 0 /\ reply'[w] # "none"
    BY <1>1, <2>2, <2>3 DEF HandleSet, TypeOK
  <2>6. \A v \in Writes : v # w =>
          UNCHANGED <<reply[v], ver[v], confirmed[v], rpc[v]>>
    BY <1>1 DEF HandleSet, TypeOK
  <2>7. Numbered'
    BY <2>5, <2>6 DEF Numbered
  <2> QED
    BY <2>4, <2>7
<1>2. ASSUME NEW w \in Writes, NEW f \in Followers, HandleReplicate(w, f)
      PROVE  TypeOK' /\ Numbered'
  <2>1. reply[w] # "none"
    BY <1>2 DEF HandleReplicate, Sent, Numbered
  <2>2. data[f] \in StoreMap /\ KeyOf[w] \in Keys /\ ver[w] \in Nat \ {0}
    BY <2>1 DEF TypeOK, Numbered
  <2>3. SetWithVersion(data[f], KeyOf[w], w, ver[w]) \in StoreMap
    BY <2>2, SetWithVersionFacts
  <2>4. data' \in [Nodes -> StoreMap]
    BY <1>2, <2>3 DEF HandleReplicate, TypeOK
  <2>5. rpc' \in [Writes -> [Followers -> RpcState]]
    <3>1. PICK s \in RpcState : rpc' = [rpc EXCEPT ![w][f] = s]
      BY <1>2 DEF HandleReplicate, RpcState
    <3> QED
      BY <3>1 DEF TypeOK
  <2>6. TypeOK'
    BY <1>2, <2>4, <2>5 DEF HandleReplicate, TypeOK, readVars
  <2>7. \A v \in Writes : v # w => rpc'[v] = rpc[v]
    BY <1>2 DEF HandleReplicate, TypeOK
  <2>8. Numbered'
    BY <1>2, <2>1, <2>7 DEF HandleReplicate, Numbered
  <2> QED
    BY <2>6, <2>8
<1>3. ASSUME NEW w \in Writes, NEW f \in Followers, Confirm(w, f)
      PROVE  TypeOK' /\ Numbered'
  <2>1. reply[w] # "none"
    BY <1>3 DEF Confirm, Numbered
  <2>2. rpc' \in [Writes -> [Followers -> RpcState]]
    BY <1>3 DEF Confirm, TypeOK, RpcState
  <2>3. /\ reply' \in [Writes -> {"none", "pending", "created", "error"}]
        /\ confirmed' \in [Writes -> Nat]
    <3>1. CASE mode = "W3R3" /\ reply[w] = "created"
      BY <1>3, <3>1 DEF Confirm, TypeOK
    <3>2. CASE ~(mode = "W3R3" /\ reply[w] = "created")
      <4>1. confirmed' = [confirmed EXCEPT ![w] = @ + 1]
        BY <1>3, <3>2 DEF Confirm
      <4>2. PICK t \in {"none", "pending", "created", "error"} :
              reply' = [reply EXCEPT ![w] = t]
        BY <1>3, <3>2 DEF Confirm, TypeOK
      <4>3. confirmed' \in [Writes -> Nat]
        BY <4>1 DEF TypeOK
      <4> QED
        BY <4>2, <4>3 DEF TypeOK
    <3> QED
      BY <3>1, <3>2
  <2>4. TypeOK'
    BY <1>3, <2>2, <2>3 DEF Confirm, TypeOK, readVars
  <2>5. /\ reply'[w] # "none"
        /\ \A v \in Writes : v # w =>
             UNCHANGED <<reply[v], confirmed[v], rpc[v]>>
    BY <1>3, <2>1 DEF Confirm, TypeOK
  <2>6. Numbered'
    BY <1>3, <2>1, <2>5 DEF Confirm, Numbered
  <2> QED
    BY <2>4, <2>6
<1>4. ASSUME NEW w \in Writes, NEW f \in Followers, ReplicateFails(w, f)
      PROVE  TypeOK' /\ Numbered'
  <2>1. reply[w] # "none"
    BY <1>4 DEF ReplicateFails, Sent, Numbered
  <2>2. rpc' \in [Writes -> [Followers -> RpcState]]
    <3>1. PICK s \in RpcState : rpc' = [rpc EXCEPT ![w][f] = s]
      BY <1>4 DEF ReplicateFails, RpcState
    <3> QED
      BY <3>1 DEF TypeOK
  <2>3. failures' \in 0 .. MaxFailures
    BY <1>4, FailureAssumption DEF ReplicateFails, TypeOK
  <2>4. TypeOK'
    BY <1>4, <2>2, <2>3 DEF ReplicateFails, TypeOK, readVars
  <2>5. /\ reply'[w] # "none"
        /\ \A v \in Writes : v # w => UNCHANGED <<reply[v], rpc[v]>>
    BY <1>4, <2>1 DEF ReplicateFails, TypeOK
  <2>6. Numbered'
    BY <1>4, <2>1, <2>5 DEF ReplicateFails, Numbered
  <2> QED
    BY <2>4, <2>6
<1>5. ASSUME UNCHANGED writeVars PROVE Numbered'
  BY <1>5 DEF writeVars, Numbered
<1>6. ASSUME NEW r \in Reads, HandleGet(r) PROVE TypeOK' /\ Numbered'
  <2>1. data[Leader][KeyOf[r]] \in Entry
    BY DEF TypeOK, StoreMap
  <2>2. entries' \in [Reads -> SUBSET Entry]
    BY <1>6, <2>1 DEF HandleGet, TypeOK, Has
  <2>3. fetch' \in [Reads ->
                     [Followers -> {"none", "open", "found", "missing", "taken"}]]
    BY <1>6 DEF HandleGet, TypeOK
  <2>4. before' \in [Reads -> SUBSET (Writes \cup Reads)]
    BY <1>6 DEF HandleGet, TypeOK, Answered
  <2>5. TypeOK'
    BY <1>6, <2>2, <2>3, <2>4 DEF HandleGet, TypeOK, writeVars
  <2> QED
    BY <1>5, <1>6, <2>5 DEF HandleGet
<1>7. ASSUME NEW r \in Reads, FinishGet(r) PROVE TypeOK' /\ Numbered'
  <2>1. Newest(entries[r]) \subseteq Entry
    BY DEF TypeOK, Newest, Entry
  <2>2. result' \in [Reads -> Entry]
    BY <1>7, <2>1 DEF FinishGet, TypeOK
  <2>3. drain' \in [Reads -> Nat]
    <3>1. collected[r] \in Nat /\ collected[r] <= Cardinality(Taken(r))
      BY <1>7 DEF FinishGet, Counted, TypeOK
    <3>2. N - collected[r] \in Nat
      BY <3>1, TakenFinite, NAssumption
    <3> QED
      BY <1>7, <3>2 DEF FinishGet, TypeOK
  <2>4. TypeOK'
    BY <1>7, <2>2, <2>3 DEF FinishGet, TypeOK, writeVars
  <2> QED
    BY <1>5, <1>7, <2>4 DEF FinishGet
<1>8. ASSUME NEW r \in Reads, NEW f \in Followers, NEW s \in {"found", "missing", "taken"},
             fetch' = [fetch EXCEPT ![r][f] = s]
      PROVE  fetch' \in [Reads ->
                [Followers -> {"none", "open", "found", "missing", "taken"}]]
  BY <1>8 DEF TypeOK
<1>9. ASSUME NEW r \in Reads, NEW f \in Followers, HandleLocalRead(r, f)
      PROVE  TypeOK' /\ Numbered'
  <2>1. data[f][KeyOf[r]] \in Entry
    BY DEF TypeOK, StoreMap
  <2>2. answer' \in [Reads -> [Followers -> Entry]]
    BY <1>9, <2>1 DEF HandleLocalRead, TypeOK
  <2>3. TypeOK'
    BY <1>8, <1>9, <2>2 DEF HandleLocalRead, TypeOK, writeVars
  <2> QED
    BY <1>5, <1>9, <2>3 DEF HandleLocalRead
<1>10. ASSUME NEW r \in Reads, NEW f \in Followers, FetchFails(r, f)
       PROVE  TypeOK' /\ Numbered'
  <2>1. failures' \in 0 .. MaxFailures
    BY <1>10, FailureAssumption DEF FetchFails, TypeOK
  <2>2. TypeOK'
    BY <1>8, <1>10, <2>1 DEF FetchFails, TypeOK, writeVars
  <2> QED
    BY <1>5, <1>10, <2>2 DEF FetchFails
<1>11. ASSUME NEW r \in Reads, NEW f \in Followers, Collect(r, f)
       PROVE  TypeOK' /\ Numbered'
  <2>1. entries' \in [Reads -> SUBSET Entry] /\ collected' \in [Reads -> Nat]
    <3>1. CASE fetch[r][f] = "found"
      <4>1. /\ entries' = [entries EXCEPT ![r] = @ \cup {answer[r][f]}]
            /\ collected' = [collected EXCEPT ![r] = @ + 1]
        BY <1>11, <3>1 DEF Collect
      <4>2. entries[r] \cup {answer[r][f]} \in SUBSET Entry
        BY DEF TypeOK
      <4> QED
        BY <4>1, <4>2 DEF TypeOK
    <3>2. CASE fetch[r][f] # "found"
      BY <1>11, <3>2 DEF Collect, TypeOK
    <3> QED
      BY <3>1, <3>2
  <2>2. TypeOK'
    BY <1>8, <1>11, <2>1 DEF Collect, TypeOK, writeVars
  <2> QED
    BY <1>5, <1>11, <2>2 DEF Collect
<1>12. ASSUME NEW r \in Reads, NEW f \in Followers, Drain(r, f)
       PROVE  TypeOK' /\ Numbered'
  <2>1. drain' \in [Reads -> Nat]
    BY <1>12 DEF Drain, TypeOK
  <2>2. TypeOK'
    BY <1>8, <1>12, <2>1 DEF Drain, TypeOK, writeVars
  <2> QED
    BY <1>5, <1>12, <2>2 DEF Drain
<1>13. CASE UNCHANGED vars
  BY <1>13 DEF vars, writeVars, readVars, TypeOK, Numbered
<1> QED
  BY <1>1, <1>2, <1>3, <1>4, <1>6, <1>7, <1>9, <1>10, <1>11, <1>12, <1>13 DEF Next

\* Every variable keeps its type: in particular no drain goroutine is started
\* for a negative number of results, and failures keep within their bound.
THEOREM TypeCorrect == Spec => [](TypeOK /\ Numbered /\ Counted)
<1>1. Init => TypeOK /\ Numbered /\ Counted
  BY TypeInit, CountedInit
<1>2. TypeOK /\ Numbered /\ Counted /\ [Next]_vars => (TypeOK /\ Numbered /\ Counted)'
  BY TypeNext, CountedNext
<1> QED
  BY <1>1, <1>2, PTL DEF Spec

-----------------------------------------------------------------------------
(* What a step does to the stores *)

TypeInv == TypeOK /\ Numbered /\ Counted

LEMMA DataType ==
  ASSUME TypeOK, NEW n \in Nodes, NEW k \in Keys
  PROVE  /\ data[n] \in StoreMap
         /\ data[n][k] \in Entry
         /\ data[n][k].version \in Nat
         /\ data[n][k] = Absent <=> data[n][k].version = 0
BY EntryVersion DEF TypeOK, StoreMap

LEMMA HandleSetStep ==
  ASSUME TypeInv, NEW w \in Writes, HandleSet(w)
  PROVE  /\ \A n \in Followers : data'[n] = data[n]
         /\ \A j \in Keys : j # KeyOf[w] => data'[Leader][j] = data[Leader][j]
         /\ data'[Leader][KeyOf[w]] = [value |-> w, version |-> VersionAt(Leader, w) + 1]
         /\ ver[w] = 0 /\ ver'[w] = VersionAt(Leader, w) + 1
         /\ \A v \in Writes : v # w => ver'[v] = ver[v]
<1> DEFINE k == KeyOf[w]
           new == data[Leader][k].version + 1
<1>1. k \in Keys /\ data[Leader] \in StoreMap
  BY KeyOfType, LeaderIsNode DEF TypeInv, TypeOK
<1>2. /\ Set(data[Leader], k, w) \in StoreMap
      /\ NextVersion(data[Leader], k) = new
      /\ Set(data[Leader], k, w)[k] = [value |-> w, version |-> new]
      /\ \A j \in Keys : j # k => Set(data[Leader], k, w)[j] = data[Leader][j]
  BY <1>1, SetFacts
<1>3. data' = [data EXCEPT ![Leader] = Set(data[Leader], k, w)]
  BY DEF HandleSet
<1>4. data'[Leader] = Set(data[Leader], k, w) /\ \A n \in Followers : data'[n] = data[n]
  BY <1>3, LeaderIsNode DEF TypeInv, TypeOK
<1>5. ver[w] = 0 /\ ver'[w] = new /\ \A v \in Writes : v # w => ver'[v] = ver[v]
  BY <1>2 DEF HandleSet, TypeInv, TypeOK, Numbered
<1> QED
  BY <1>2, <1>4, <1>5 DEF VersionAt

LEMMA HandleReplicateStep ==
  ASSUME TypeInv, NEW w \in Writes, NEW f \in Followers, HandleReplicate(w, f)
  PROVE  /\ reply[w] # "none" /\ ver[w] \in Nat \ {0}
         /\ \A n \in Nodes : n # f => data'[n] = data[n]
         /\ \A j \in Keys : j # KeyOf[w] => data'[f][j] = data[f][j]
         /\ data'[f][KeyOf[w]] =
              IF VersionAt(f, w) >= ver[w] THEN data[f][KeyOf[w]]
              ELSE [value |-> w, version |-> ver[w]]
<1> DEFINE k == KeyOf[w]
           m == SetWithVersion(data[f], k, w, ver[w])
<1>1. k \in Keys /\ f \in Nodes /\ data[f] \in StoreMap
  BY KeyOfType, LeaderIsNode DEF TypeInv, TypeOK
<1>2. reply[w] # "none"
  BY DEF HandleReplicate, Sent, TypeInv, Numbered
<1>3. ver[w] \in Nat \ {0}
  BY <1>2 DEF TypeInv, TypeOK, Numbered
<1>4. /\ m[k] = IF data[f][k].version >= ver[w] THEN data[f][k]
                ELSE [value |-> w, version |-> ver[w]]
      /\ \A j \in Keys : j # k => m[j] = data[f][j]
  BY <1>1, <1>3, SetWithVersionFacts
<1>5. data' = [data EXCEPT ![f] = m]
  BY DEF HandleReplicate
<1>6. data'[f] = m /\ \A n \in Nodes : n # f => data'[n] = data[n]
  BY <1>1, <1>5 DEF TypeInv, TypeOK
<1> QED
  BY <1>2, <1>3, <1>4, <1>6 DEF VersionAt

\* The other steps leave the stores and the versions alone.
LEMMA OtherSteps ==
  ASSUME [Next]_vars,
         \A w \in Writes : ~HandleSet(w),
         \A w \in Writes, f \in Followers : ~HandleReplicate(w, f)
  PROVE  UNCHANGED <<data, ver>>
BY DEF Next, vars, readVars, writeVars, Confirm, ReplicateFails, HandleGet, FinishGet,
       HandleLocalRead, FetchFails, Collect, Drain

LEMMA StoresAdvance ==
  ASSUME TypeInv, [Next]_vars, NEW n \in Nodes, NEW k \in Keys
  PROVE  data'[n][k] = data[n][k] \/ data'[n][k].version > data[n][k].version
<1>0. data[n][k].version \in Nat
  BY DataType DEF TypeInv
<1>1. ASSUME NEW w \in Writes, HandleSet(w)
      PROVE  data'[n][k] = data[n][k] \/ data'[n][k].version > data[n][k].version
  <2>1. CASE n = Leader /\ k = KeyOf[w]
    <3>1. data'[n][k].version = data[n][k].version + 1
      <4>1. data'[n][k] = [value |-> w, version |-> VersionAt(Leader, w) + 1]
        BY <1>1, <2>1, HandleSetStep
      <4>2. VersionAt(Leader, w) = data[n][k].version
        BY <2>1 DEF VersionAt
      <4> QED
        BY <4>1, <4>2
    <3> QED
      BY <1>0, <3>1
  <2>2. CASE n = Leader /\ k # KeyOf[w]
    BY <1>1, <2>2, HandleSetStep
  <2>3. CASE n # Leader
    <3>1. n \in Followers
      BY <2>3, NAssumption DEF Nodes, Leader, Followers
    <3> QED
      BY <1>1, <3>1, HandleSetStep
  <2> QED
    BY <2>1, <2>2, <2>3
<1>2. ASSUME NEW w \in Writes, NEW f \in Followers, HandleReplicate(w, f)
      PROVE  data'[n][k] = data[n][k] \/ data'[n][k].version > data[n][k].version
  <2>1. CASE n = f /\ k = KeyOf[w]
    <3>1. /\ ver[w] \in Nat
          /\ data'[n][k] = IF data[n][k].version >= ver[w] THEN data[n][k]
                           ELSE [value |-> w, version |-> ver[w]]
      BY <1>2, <2>1, HandleReplicateStep DEF VersionAt
    <3> QED
      BY <1>0, <3>1
  <2>2. CASE n = f /\ k # KeyOf[w]
    BY <1>2, <2>2, HandleReplicateStep
  <2>3. CASE n # f
    BY <1>2, <2>3, HandleReplicateStep
  <2> QED
    BY <2>1, <2>2, <2>3
<1> QED
  BY <1>1, <1>2, OtherSteps

\* In every mode, whatever the order in which calls of overlapping writes
\* arrive, a node replaces an entry only by one with a higher version.
THEOREM StoresOnlyAdvance == Spec => ReplicasOnlyAdvance
<1>1. TypeInv /\ [Next]_vars =>
        [\A n \in Nodes, k \in Keys :
           data'[n][k] # data[n][k] => data'[n][k].version > data[n][k].version]_vars
  BY StoresAdvance
<1>2. Spec => []TypeInv
  BY TypeCorrect DEF TypeInv
<1> QED
  BY <1>1, <1>2, PTL DEF Spec, ReplicasOnlyAdvance

-----------------------------------------------------------------------------
(* Agreement *)

LEMMA AgreementInit == Init => Agreement
<1> SUFFICES ASSUME Init PROVE Agreement
  OBVIOUS
<1>1. \A n \in Nodes, k \in Keys : data[n][k] = Absent
  BY NewIsMap DEF Init
<1> QED
  BY <1>1, LeaderIsNode DEF Init, Agreement, IsWriteOf, Absent

\* The leader has every write it numbered, or a newer one of the key.
LeaderCovers == \A w \in Writes : ver[w] <= VersionAt(Leader, w)

LEMMA VersionAtNat ==
  ASSUME TypeOK, NEW n \in Nodes, NEW w \in Writes
  PROVE  VersionAt(n, w) \in Nat /\ KeyOf[w] \in Keys
BY DataType, KeyOfType DEF VersionAt

\* Versions and stored entries only grow, so what a node has covered it covers
\* for good.
LEMMA VersionAtAdvances ==
  ASSUME TypeInv, [Next]_vars, NEW n \in Nodes, NEW w \in Writes
  PROVE  VersionAt(n, w) \in Nat /\ VersionAt(n, w)' \in Nat /\ VersionAt(n, w)' >= VersionAt(n, w)
<1>1. VersionAt(n, w) \in Nat /\ KeyOf[w] \in Keys
  BY VersionAtNat DEF TypeInv
<1>2. TypeOK'
  BY TypeNext DEF TypeInv
<1>3. data'[n][KeyOf[w]].version \in Nat
  <2>1. data'[n][KeyOf[w]] \in Entry
    BY <1>1, <1>2 DEF TypeOK, StoreMap
  <2> QED
    BY <2>1, EntryVersion
<1>4. data'[n][KeyOf[w]] = data[n][KeyOf[w]] \/ data'[n][KeyOf[w]].version > data[n][KeyOf[w]].version
  BY <1>1, StoresAdvance
<1> QED
  BY <1>1, <1>3, <1>4 DEF VersionAt

LEMMA LeaderCoversNext ==
  TypeInv /\ LeaderCovers /\ [Next]_vars => LeaderCovers'
<1> SUFFICES ASSUME TypeInv, LeaderCovers, [Next]_vars, NEW v \in Writes
             PROVE  ver'[v] <= VersionAt(Leader, v)'
  BY DEF LeaderCovers
<1>1. /\ VersionAt(Leader, v) \in Nat /\ VersionAt(Leader, v)' \in Nat
      /\ VersionAt(Leader, v)' >= VersionAt(Leader, v)
      /\ ver[v] <= VersionAt(Leader, v) /\ ver[v] \in Nat
  BY VersionAtAdvances, LeaderIsNode DEF LeaderCovers, TypeInv, TypeOK
<1>2. CASE ver'[v] = ver[v]
  BY <1>1, <1>2
<1>3. ASSUME NEW w \in Writes, HandleSet(w) PROVE ver'[v] <= VersionAt(Leader, v)'
  <2>1. CASE v = w
    <3>1. data'[Leader][KeyOf[v]] = [value |-> v, version |-> VersionAt(Leader, v) + 1]
      BY <1>3, <2>1, HandleSetStep
    <3>2. ver'[v] = VersionAt(Leader, v) + 1
      BY <1>3, <2>1, HandleSetStep
    <3> QED
      BY <1>1, <3>1, <3>2 DEF VersionAt
  <2>2. CASE v # w
    BY <1>2, <1>3, <2>2, HandleSetStep
  <2> QED
    BY <2>1, <2>2
<1>4. ASSUME NEW w \in Writes, NEW f \in Followers, HandleReplicate(w, f)
      PROVE  ver'[v] = ver[v]
  BY <1>4 DEF HandleReplicate
<1> QED
  BY <1>2, <1>3, <1>4, OtherSteps

LEMMA AgreementNext ==
  TypeInv /\ LeaderCovers /\ Agreement /\ [Next]_vars => Agreement'
<1> SUFFICES ASSUME TypeInv, LeaderCovers, Agreement, [Next]_vars PROVE Agreement'
  OBVIOUS
<1> USE DEF TypeInv
<1>1. ASSUME NEW w \in Writes, HandleSet(w) PROVE Agreement'
  <2> DEFINE k == KeyOf[w]
             new == VersionAt(Leader, w) + 1
  <2>1. /\ \A n \in Followers : data'[n] = data[n]
        /\ \A j \in Keys : j # k => data'[Leader][j] = data[Leader][j]
        /\ data'[Leader][k] = [value |-> w, version |-> new]
        /\ ver[w] = 0 /\ ver'[w] = new
        /\ \A v \in Writes : v # w => ver'[v] = ver[v]
    BY <1>1, HandleSetStep
  <2>2. VersionAt(Leader, w) \in Nat /\ k \in Keys
    BY VersionAtNat, LeaderIsNode
  <2>3. ASSUME NEW n \in Nodes, NEW j \in Keys, n # Leader \/ j # k
        PROVE  data'[n][j] = data[n][j]
    <3>1. n = Leader \/ n \in Followers
      BY NAssumption DEF Nodes, Leader, Followers
    <3> QED
      BY <2>1, <2>3, <3>1
  <2>4. ASSUME NEW n \in Nodes, NEW j \in Keys PROVE IsWriteOf(data[n][j], j)'
    <3>1. CASE n = Leader /\ j = k
      BY <2>1, <3>1 DEF IsWriteOf
    <3>2. CASE n # Leader \/ j # k
      <4>1. data'[n][j] = data[n][j] /\ IsWriteOf(data[n][j], j)
        BY <2>3, <3>2 DEF Agreement
      <4>2. data[n][j] # Absent => data[n][j].version # 0
        BY DataType
      <4> QED
        BY <2>1, <4>1, <4>2 DEF IsWriteOf
    <3> QED
      BY <3>1, <3>2
  <2>5. ASSUME NEW n \in Nodes, NEW j \in Keys
        PROVE  data'[n][j].version <= data'[Leader][j].version
    <3>1. /\ data[n][j].version \in Nat /\ data[Leader][j].version \in Nat
          /\ data[n][j].version <= data[Leader][j].version
      BY DataType, LeaderIsNode DEF Agreement
    <3>2. CASE j # k
      BY <2>3, <3>1, <3>2, LeaderIsNode
    <3>3. CASE j = k
      <4>1. data'[Leader][j].version = data[Leader][j].version + 1
        BY <2>1, <3>3 DEF VersionAt
      <4>2. CASE n = Leader
        BY <4>1, <4>2, <3>1
      <4>3. CASE n # Leader
        BY <2>3, <3>1, <4>1, <4>3
      <4> QED
        BY <4>2, <4>3
    <3> QED
      BY <3>2, <3>3
  <2>6. ASSUME NEW v \in Writes, NEW u \in Writes,
               v # u, KeyOf[v] = KeyOf[u], ver'[v] # 0
        PROVE  ver'[v] # ver'[u]
    <3>1. ver[v] \in Nat /\ ver[u] \in Nat
      BY DEF TypeOK
    <3>2. CASE v # w /\ u # w
      BY <2>1, <2>6, <3>2 DEF Agreement
    <3>3. CASE v = w
      <4>1. ver'[u] = ver[u] /\ ver[u] <= VersionAt(Leader, u)
        BY <2>1, <2>6, <3>3 DEF LeaderCovers
      <4>2. VersionAt(Leader, u) = VersionAt(Leader, w)
        BY <2>6, <3>3 DEF VersionAt
      <4> QED
        BY <2>1, <2>2, <3>1, <3>3, <4>1, <4>2
    <3>4. CASE u = w
      <4>1. ver'[v] = ver[v] /\ ver[v] <= VersionAt(Leader, v)
        BY <2>1, <2>6, <3>4 DEF LeaderCovers
      <4>2. VersionAt(Leader, v) = VersionAt(Leader, w)
        BY <2>6, <3>4 DEF VersionAt
      <4> QED
        BY <2>1, <2>2, <3>1, <3>4, <4>1, <4>2
    <3> QED
      BY <3>2, <3>3, <3>4
  <2> QED
    BY <2>4, <2>5, <2>6 DEF Agreement
<1>2. ASSUME NEW w \in Writes, NEW f \in Followers, HandleReplicate(w, f) PROVE Agreement'
  <2> DEFINE k == KeyOf[w]
  <2>1. /\ ver[w] \in Nat \ {0}
        /\ \A n \in Nodes : n # f => data'[n] = data[n]
        /\ \A j \in Keys : j # k => data'[f][j] = data[f][j]
        /\ data'[f][k] = IF VersionAt(f, w) >= ver[w] THEN data[f][k]
                         ELSE [value |-> w, version |-> ver[w]]
    BY <1>2, HandleReplicateStep
  <2>2. ver' = ver
    BY <1>2 DEF HandleReplicate
  <2>3. data'[Leader] = data[Leader]
    BY <2>1, LeaderIsNode
  <2>4. ASSUME NEW n \in Nodes, NEW j \in Keys
        PROVE  data'[n][j] = data[n][j]
               \/ (j = k /\ data'[n][j] = [value |-> w, version |-> ver[w]])
    <3>1. CASE n = f /\ j = k
      BY <2>1, <3>1
    <3>2. CASE n # f \/ j # k
      BY <2>1, <3>2
    <3> QED
      BY <3>1, <3>2
  <2>5. ASSUME NEW n \in Nodes, NEW j \in Keys PROVE IsWriteOf(data[n][j], j)'
    <3>1. CASE data'[n][j] = data[n][j]
      BY <2>2, <3>1 DEF IsWriteOf, Agreement
    <3>2. CASE j = k /\ data'[n][j] = [value |-> w, version |-> ver[w]]
      BY <2>2, <3>2 DEF IsWriteOf
    <3> QED
      BY <2>4, <3>1, <3>2
  <2>6. ASSUME NEW n \in Nodes, NEW j \in Keys
        PROVE  data'[n][j].version <= data'[Leader][j].version
    <3>1. CASE data'[n][j] = data[n][j]
      BY <2>3, <3>1 DEF Agreement
    <3>2. CASE j = k /\ data'[n][j] = [value |-> w, version |-> ver[w]]
      BY <2>3, <3>2 DEF LeaderCovers, VersionAt
    <3> QED
      BY <2>4, <3>1, <3>2
  <2> QED
    BY <2>2, <2>5, <2>6 DEF Agreement
<1>3. CASE UNCHANGED <<data, ver>>
  BY <1>3 DEF Agreement, IsWriteOf
<1> QED
  BY <1>1, <1>2, <1>3, OtherSteps

-----------------------------------------------------------------------------
(* What an answer to a write says about the followers *)

\* A call that ended well has left its follower at the version of the write.
Delivered ==
  \A w \in Writes, f \in Followers :
    rpc[w][f] \in {"applied", "ok"} => VersionAt(f, w) >= ver[w]

\* replicateSync has confirmations from a prefix of the peers, and has called
\* at most one peer after it.
SyncProgress ==
  mode # "W3R3" =>
    \A w \in Writes, f \in Followers :
      /\ rpc[w][f] = "ok" <=> f <= confirmed[w]
      /\ f > confirmed[w] + 1 => rpc[w][f] = "open"

\* Two followers have confirmed w, or all have.
Quorate(w) ==
  \/ \A f \in Followers : rpc[w][f] = "ok"
  \/ \E f, g \in Followers : f # g /\ rpc[w][f] = "ok" /\ rpc[w][g] = "ok"

\* What the replication loops have counted when they answer, and before.
AnswerProgress ==
  \A w \in Writes :
    /\ mode = "W5R1" /\ reply[w] = "created" => confirmed[w] >= N
    /\ mode = "W3R3" /\ reply[w] = "created" => Quorate(w)
    /\ mode = "W3R3" /\ reply[w] = "pending" =>
         \/ confirmed[w] = 0
         \/ /\ confirmed[w] = 1
            /\ N >= 2
            /\ \E f \in Followers : rpc[w][f] = "ok"

\* GETs leave everything about writes alone.
LEMMA ReadSteps ==
  ASSUME NEW r \in Reads,
         \/ HandleGet(r) \/ FinishGet(r)
         \/ \E f \in Followers : \/ HandleLocalRead(r, f) \/ FetchFails(r, f)
                                 \/ Collect(r, f) \/ Drain(r, f)
  PROVE  UNCHANGED writeVars
BY DEF HandleGet, FinishGet, HandleLocalRead, FetchFails, Collect, Drain

LEMMA DeliveredNext ==
  TypeInv /\ Delivered /\ [Next]_vars => Delivered'
<1> SUFFICES ASSUME TypeInv, Delivered, [Next]_vars,
                    NEW v \in Writes, NEW g \in Followers,
                    rpc'[v][g] \in {"applied", "ok"}
             PROVE  VersionAt(g, v)' >= ver'[v]
  BY DEF Delivered
<1>1. /\ VersionAt(g, v) \in Nat /\ VersionAt(g, v)' \in Nat
      /\ VersionAt(g, v)' >= VersionAt(g, v) /\ ver[v] \in Nat
  BY VersionAtAdvances, LeaderIsNode DEF TypeInv, TypeOK
<1>2. CASE rpc[v][g] \in {"applied", "ok"} /\ ver'[v] = ver[v]
  BY <1>1, <1>2 DEF Delivered
<1>3. ASSUME NEW w \in Writes, HandleSet(w) PROVE rpc[v][g] \in {"applied", "ok"} /\ ver'[v] = ver[v]
  <2>1. rpc[v][g] = rpc'[v][g]
    BY <1>3 DEF HandleSet
  <2>2. v # w
    BY <1>3, <2>1 DEF HandleSet, TypeInv, Numbered
  <2> QED
    BY <1>3, <2>1, <2>2, HandleSetStep
<1>4. ASSUME NEW w \in Writes, NEW f \in Followers, HandleReplicate(w, f)
      PROVE  VersionAt(g, v)' >= ver'[v]
  <2>1. ver' = ver
    BY <1>4 DEF HandleReplicate
  <2>2. CASE v = w /\ g = f
    <3>1. data'[g][KeyOf[v]] = IF VersionAt(g, v) >= ver[v] THEN data[g][KeyOf[v]]
                               ELSE [value |-> v, version |-> ver[v]]
      BY <1>4, <2>2, HandleReplicateStep
    <3> QED
      BY <1>1, <2>1, <3>1 DEF VersionAt
  <2>3. CASE ~(v = w /\ g = f)
    <3>1. rpc'[v][g] = rpc[v][g]
      BY <1>4, <2>3 DEF HandleReplicate, TypeInv, TypeOK
    <3> QED
      BY <1>2, <2>1, <3>1
  <2> QED
    BY <2>2, <2>3
<1>5. ASSUME NEW w \in Writes, NEW f \in Followers, Confirm(w, f) \/ ReplicateFails(w, f)
      PROVE  rpc[v][g] \in {"applied", "ok"} /\ ver'[v] = ver[v]
  <2>1. ver' = ver
    BY <1>5 DEF Confirm, ReplicateFails
  <2>2. CASE v = w /\ g = f
    <3>1. CASE Confirm(w, f)
      BY <2>1, <2>2, <3>1 DEF Confirm
    <3>2. CASE ReplicateFails(w, f)
      BY <2>2, <3>2 DEF ReplicateFails, TypeInv, TypeOK
    <3> QED
      BY <1>5, <3>1, <3>2
  <2>3. CASE ~(v = w /\ g = f)
    <3>1. rpc'[v][g] = rpc[v][g]
      BY <1>5, <2>3 DEF Confirm, ReplicateFails, TypeInv, TypeOK
    <3> QED
      BY <2>1, <3>1
  <2> QED
    BY <2>2, <2>3
<1>6. CASE UNCHANGED writeVars
  BY <1>2, <1>6 DEF writeVars
<1> QED
  BY <1>2, <1>3, <1>4, <1>5, <1>6, ReadSteps DEF Next, vars

LEMMA SyncProgressNext ==
  TypeInv /\ SyncProgress /\ [Next]_vars => SyncProgress'
<1> SUFFICES ASSUME TypeInv, SyncProgress, [Next]_vars, mode # "W3R3",
                    NEW v \in Writes, NEW g \in Followers
             PROVE  /\ rpc'[v][g] = "ok" <=> g <= confirmed'[v]
                    /\ g > confirmed'[v] + 1 => rpc'[v][g] = "open"
  BY ModeLasts DEF SyncProgress
<1> DEFINE Goal == /\ rpc'[v][g] = "ok" <=> g <= confirmed'[v]
                   /\ g > confirmed'[v] + 1 => rpc'[v][g] = "open"
<1>0. /\ rpc[v][g] = "ok" <=> g <= confirmed[v]
      /\ g > confirmed[v] + 1 => rpc[v][g] = "open"
      /\ confirmed[v] \in Nat /\ g \in Nat
  BY NAssumption DEF SyncProgress, TypeInv, TypeOK, Followers
<1>1. ASSUME NEW w \in Writes, NEW f \in Followers, HandleReplicate(w, f) PROVE Goal
  <2>1. confirmed' = confirmed
    BY <1>1 DEF HandleReplicate
  <2>2. CASE v = w /\ g = f
    <3>1. rpc[v][g] \in {"open", "orphan"} /\ rpc'[v][g] \in {"applied", "failed"}
      BY <1>1, <2>2 DEF HandleReplicate, TypeInv, TypeOK
    <3>2. rpc[v][g] = "open" => g = confirmed[v] + 1
      BY <1>1, <2>2 DEF HandleReplicate, Sent
    <3> QED
      BY <1>0, <2>1, <3>1, <3>2
  <2>3. CASE ~(v = w /\ g = f)
    <3>1. rpc'[v][g] = rpc[v][g]
      BY <1>1, <2>3 DEF HandleReplicate, TypeInv, TypeOK
    <3> QED
      BY <1>0, <2>1, <3>1
  <2> QED
    BY <2>2, <2>3
<1>2. ASSUME NEW w \in Writes, NEW f \in Followers, Confirm(w, f) PROVE Goal
  <2>1. /\ confirmed' = [confirmed EXCEPT ![w] = @ + 1]
        /\ rpc' = [rpc EXCEPT ![w][f] = "ok"]
        /\ rpc[w][f] = "applied"
    BY <1>2 DEF Confirm
  <2>2. f = confirmed[w] + 1 /\ confirmed[w] \in Nat
    <3>1. ~(f <= confirmed[w]) /\ ~(f > confirmed[w] + 1)
      BY <2>1 DEF SyncProgress
    <3> QED
      BY <3>1, NAssumption DEF Followers, TypeInv, TypeOK
  <2>3. CASE v # w
    <3>1. rpc'[v][g] = rpc[v][g] /\ confirmed'[v] = confirmed[v]
      BY <2>1, <2>3 DEF TypeInv, TypeOK
    <3> QED
      BY <1>0, <3>1
  <2>4. CASE v = w
    <3>1. confirmed'[v] = confirmed[v] + 1
      BY <2>1, <2>4 DEF TypeInv, TypeOK
    <3>2. rpc'[v][g] = IF g = f THEN "ok" ELSE rpc[v][g]
      BY <2>1, <2>4 DEF TypeInv, TypeOK
    <3> QED
      BY <1>0, <2>2, <2>4, <3>1, <3>2
  <2> QED
    BY <2>3, <2>4
<1>3. ASSUME NEW w \in Writes, NEW f \in Followers, ReplicateFails(w, f) PROVE Goal
  <2>1. confirmed' = confirmed
    BY <1>3 DEF ReplicateFails
  <2>2. CASE v = w /\ g = f
    <3>1. rpc[v][g] \in {"open", "applied"} /\ rpc'[v][g] \in {"orphan", "failed"}
      BY <1>3, <2>2 DEF ReplicateFails, TypeInv, TypeOK
    <3>2. rpc[v][g] = "open" => g = confirmed[v] + 1
      BY <1>3, <2>2 DEF ReplicateFails, Sent
    <3> QED
      BY <1>0, <2>1, <3>1, <3>2
  <2>3. CASE ~(v = w /\ g = f)
    <3>1. rpc'[v][g] = rpc[v][g]
      BY <1>3, <2>3 DEF ReplicateFails, TypeInv, TypeOK
    <3> QED
      BY <1>0, <2>1, <3>1
  <2> QED
    BY <2>2, <2>3
<1>4. CASE UNCHANGED <<rpc, confirmed>>
  BY <1>0, <1>4
<1>5. ASSUME NEW w \in Writes, HandleSet(w) PROVE Goal
  BY <1>4, <1>5 DEF HandleSet
<1> QED
  BY <1>1, <1>2, <1>3, <1>4, <1>5, ReadSteps DEF Next, vars, writeVars

LEMMA AnswerProgressNext ==
  TypeInv /\ AnswerProgress /\ [Next]_vars => AnswerProgress'
<1> SUFFICES ASSUME TypeInv, AnswerProgress, [Next]_vars PROVE AnswerProgress'
  OBVIOUS
<1> DEFINE Good(v) ==
      /\ mode = "W5R1" /\ reply[v] = "created" => confirmed[v] >= N
      /\ mode = "W3R3" /\ reply[v] = "created" => Quorate(v)
      /\ mode = "W3R3" /\ reply[v] = "pending" =>
           \/ confirmed[v] = 0
           \/ /\ confirmed[v] = 1
              /\ N >= 2
              /\ \E f \in Followers : rpc[v][f] = "ok"
<1> SUFFICES ASSUME NEW v \in Writes PROVE Good(v)'
  BY DEF AnswerProgress
<1>0. /\ Good(v) /\ confirmed[v] \in Nat
      /\ mode' = mode /\ mode \in {"W5R1", "W1R5", "W3R3"}
  BY ModeLasts, ModeType DEF AnswerProgress, TypeInv, TypeOK
<1>1. ASSUME UNCHANGED <<reply[v], confirmed[v]>>,
             \A f \in Followers : rpc[v][f] = "ok" => rpc'[v][f] = "ok"
      PROVE  Good(v)'
  BY <1>0, <1>1 DEF Quorate
<1>2. ASSUME NEW w \in Writes, HandleSet(w) PROVE Good(v)'
  <2>1. CASE v # w
    BY <1>1, <1>2, <2>1 DEF HandleSet, TypeInv, TypeOK
  <2>2. CASE v = w
    <3>1. confirmed[v] = 0 /\ UNCHANGED <<confirmed, rpc>>
      BY <1>2, <2>2 DEF HandleSet, TypeInv, Numbered
    <3>2. reply'[v] = IF mode = "W1R5" \/ N = 0 THEN "created" ELSE "pending"
      BY <1>2, <2>2 DEF HandleSet, TypeInv, TypeOK
    <3>3. N = 0 => Followers = {}
      BY DEF Followers
    <3> QED
      BY <1>0, <3>1, <3>2, <3>3, NAssumption DEF Quorate
  <2> QED
    BY <2>1, <2>2
<1>3. ASSUME NEW w \in Writes, NEW f \in Followers, HandleReplicate(w, f) PROVE Good(v)'
  BY <1>1, <1>3 DEF HandleReplicate, TypeInv, TypeOK
<1>4. ASSUME NEW w \in Writes, NEW f \in Followers, Confirm(w, f) PROVE Good(v)'
  <2>1. /\ rpc' = [rpc EXCEPT ![w][f] = "ok"]
        /\ rpc[w][f] = "applied" /\ reply[w] \in {"pending", "created"}
    BY <1>4 DEF Confirm, TypeInv, TypeOK, Numbered
  <2>2. /\ rpc'[w][f] = "ok"
        /\ \A g \in Followers : rpc[v][g] = "ok" => rpc'[v][g] = "ok"
    BY <2>1 DEF TypeInv, TypeOK
  <2>3. CASE v # w \/ (mode = "W3R3" /\ reply[w] = "created")
    <3>1. UNCHANGED <<reply[v], confirmed[v]>>
      BY <1>4, <2>3 DEF Confirm, TypeInv, TypeOK
    <3> QED
      BY <1>1, <2>2, <3>1
  <2>4. CASE v = w /\ ~(mode = "W3R3" /\ reply[w] = "created")
    <3>1. confirmed'[v] = confirmed[v] + 1
      BY <1>4, <2>4 DEF Confirm, TypeInv, TypeOK
    <3>2. reply'[v] = IF confirmed'[v] >= Required \/ confirmed'[v] = N
                      THEN "created" ELSE reply[v]
      BY <1>4, <2>4 DEF Confirm, TypeInv, TypeOK
    <3>3. CASE mode = "W5R1"
      BY <1>0, <3>1, <3>2, <3>3, NAssumption DEF Required
    <3>4. CASE mode = "W1R5"
      BY <1>0, <3>4
    <3>5. CASE mode = "W3R3"
      <4>1. reply[v] = "pending"
        BY <2>1, <2>4, <3>5
      <4>2. CASE confirmed[v] = 0
        <5>1. N = 1 => Followers = {f}
          BY NAssumption DEF Followers
        <5>2. N >= 1
          BY NAssumption DEF Followers
        <5> QED
          BY <2>2, <2>4, <3>1, <3>2, <3>5, <4>1, <4>2, <5>1, <5>2, NAssumption
             DEF Required, Quorate
      <4>3. CASE confirmed[v] = 1
        <5>1. PICK g \in Followers : rpc[v][g] = "ok"
          BY <1>0, <3>5, <4>1, <4>3
        <5>2. g # f /\ rpc'[v][g] = "ok" /\ rpc'[v][f] = "ok"
          BY <2>1, <2>2, <2>4, <5>1
        <5>3. Quorate(v)'
          BY <5>2 DEF Quorate
        <5>4. reply'[v] = "created"
          BY <3>1, <3>2, <3>5, <4>3 DEF Required
        <5> QED
          BY <1>0, <3>5, <5>3, <5>4
      <4> QED
        BY <1>0, <3>5, <4>1, <4>2, <4>3
    <3> QED
      BY <1>0, <3>3, <3>4, <3>5
  <2> QED
    BY <2>3, <2>4
<1>5. ASSUME NEW w \in Writes, NEW f \in Followers, ReplicateFails(w, f) PROVE Good(v)'
  <2>1. /\ UNCHANGED confirmed
        /\ reply' = [reply EXCEPT ![w] = IF @ = "pending" THEN "error" ELSE @]
        /\ rpc[w][f] # "ok"
    BY <1>5 DEF ReplicateFails
  <2>2. \A g \in Followers : rpc[v][g] = "ok" => rpc'[v][g] = "ok"
    <3>1. PICK s \in RpcState : rpc' = [rpc EXCEPT ![w][f] = s]
      BY <1>5 DEF ReplicateFails, RpcState
    <3> QED
      BY <2>1, <3>1 DEF TypeInv, TypeOK
  <2>3. reply'[v] = reply[v] \/ reply'[v] = "error"
    BY <2>1 DEF TypeInv, TypeOK
  <2>4. CASE reply'[v] = reply[v]
    BY <1>1, <2>1, <2>2, <2>4
  <2>5. CASE reply'[v] = "error"
    BY <2>5
  <2> QED
    BY <2>3, <2>4, <2>5
<1>6. CASE UNCHANGED writeVars
  BY <1>1, <1>6 DEF writeVars
<1> QED
  BY <1>2, <1>3, <1>4, <1>5, <1>6, ReadSteps DEF Next, vars

LEMMA PeerOrderNext ==
  TypeInv /\ LeaderCovers /\ Agreement /\ Delivered /\ SyncProgress /\ PeerOrder /\ [Next]_vars
    => PeerOrder'
<1> SUFFICES ASSUME TypeInv, LeaderCovers, Agreement, Delivered, SyncProgress, PeerOrder,
                    [Next]_vars, mode # "W3R3",
                    NEW f \in Nodes, NEW g \in Nodes, NEW k \in Keys, f < g
             PROVE  data'[g][k].version <= data'[f][k].version
  BY ModeLasts DEF PeerOrder
<1> USE DEF TypeInv
<1>0. /\ data[f][k].version \in Nat /\ data[g][k].version \in Nat
      /\ data[g][k].version <= data[f][k].version
      /\ g \in Followers
  BY DataType, NAssumption DEF PeerOrder, Nodes, Followers
<1>1. data'[f][k] = data[f][k] \/ data'[f][k].version > data[f][k].version
  BY StoresAdvance
<1>2. ASSUME data'[g][k] = data[g][k] PROVE data'[g][k].version <= data'[f][k].version
  <2>1. data'[f][k].version \in Nat
    <3>1. TypeOK'
      BY TypeNext
    <3>2. data'[f][k] \in Entry
      BY <3>1 DEF TypeOK, StoreMap
    <3> QED
      BY <3>2, EntryVersion
  <2> QED
    BY <1>0, <1>1, <1>2, <2>1
<1>3. ASSUME NEW w \in Writes, HandleSet(w) PROVE data'[g][k] = data[g][k]
  BY <1>0, <1>3, HandleSetStep
<1>4. ASSUME NEW w \in Writes, NEW h \in Followers, HandleReplicate(w, h),
             data'[g][k] # data[g][k]
      PROVE  data'[g][k].version <= data'[f][k].version
  <2>0. /\ \A n \in Nodes : n # h => data'[n] = data[n]
        /\ \A j \in Keys : j # KeyOf[w] => data'[h][j] = data[h][j]
    BY <1>4, HandleReplicateStep
  <2>1. h = g /\ k = KeyOf[w]
    BY <1>4, <2>0
  <2>2. data'[g][k] = [value |-> w, version |-> ver[w]] /\ ver[w] \in Nat
    BY <1>4, <2>1, HandleReplicateStep
  <2>3. data'[f] = data[f]
    BY <2>0, <2>1, NAssumption DEF Nodes
  <2>4. VersionAt(f, w) >= ver[w]
    <3>1. CASE f = Leader
      BY <3>1, VersionAtNat, <2>2, LeaderIsNode DEF LeaderCovers
    <3>2. CASE f # Leader
      <4>1. f \in Followers
        BY <3>2, NAssumption DEF Nodes, Leader, Followers
      <4>2. rpc[w][g] \in {"open", "orphan"}
        BY <1>4, <2>1 DEF HandleReplicate
      <4>3. g <= confirmed[w] + 1
        <5>1. confirmed[w] \in Nat /\ g \in Nat
          BY NAssumption DEF TypeOK, Nodes
        <5>2. rpc[w][g] = "open" => g = confirmed[w] + 1
          BY <1>4, <2>1 DEF HandleReplicate, Sent
        <5>3. g > confirmed[w] + 1 => rpc[w][g] = "open"
          BY <1>0 DEF SyncProgress
        <5> QED
          BY <5>1, <5>2, <5>3
      <4>4. f <= confirmed[w]
        BY <4>1, <4>3, NAssumption DEF Followers, TypeOK
      <4>5. rpc[w][f] = "ok"
        BY <4>1, <4>4 DEF SyncProgress
      <4> QED
        BY <4>1, <4>5 DEF Delivered
    <3> QED
      BY <3>1, <3>2
  <2> QED
    BY <1>0, <2>1, <2>2, <2>3, <2>4 DEF VersionAt
<1> QED
  BY <1>2, <1>3, <1>4, OtherSteps

LEMMA AckCoverageHolds ==
  ASSUME TypeInv, LeaderCovers, Delivered, SyncProgress, AnswerProgress
  PROVE  AckCoverage
<1> SUFFICES ASSUME NEW w \in Writes, reply[w] = "created"
             PROVE  LET covered == {n \in Nodes : VersionAt(n, w) >= ver[w]} IN
                      CASE mode = "W5R1" -> covered = Nodes
                        [] mode = "W1R5" -> Leader \in covered
                        [] mode = "W3R3" -> Cardinality(covered) >= 3 \/ covered = Nodes
  BY DEF AckCoverage
<1> DEFINE covered == {n \in Nodes : VersionAt(n, w) >= ver[w]}
<1>1. Leader \in covered
  BY VersionAtNat, LeaderIsNode DEF LeaderCovers, TypeInv, TypeOK
<1>2. ASSUME NEW f \in Followers, rpc[w][f] = "ok" PROVE f \in covered
  BY <1>2, LeaderIsNode DEF Delivered
<1>3. \A n \in Nodes : n = Leader \/ n \in Followers
  BY NAssumption DEF Nodes, Leader, Followers
<1>4. CASE mode = "W5R1"
  <2>1. confirmed[w] >= N /\ confirmed[w] \in Nat
    BY <1>4 DEF AnswerProgress, TypeInv, TypeOK
  <2>2. \A f \in Followers : f <= confirmed[w]
    BY <2>1, NAssumption DEF Followers
  <2>3. \A f \in Followers : rpc[w][f] = "ok"
    BY <1>4, <2>2 DEF SyncProgress
  <2> QED
    BY <1>1, <1>2, <1>3, <1>4, <2>3
<1>5. CASE mode = "W1R5"
  BY <1>1, <1>5
<1>6. CASE mode = "W3R3"
  <2>1. Quorate(w)
    BY <1>6 DEF AnswerProgress
  <2>2. CASE \A f \in Followers : rpc[w][f] = "ok"
    BY <1>1, <1>2, <1>3, <1>6, <2>2
  <2>3. ASSUME NEW f \in Followers, NEW g \in Followers,
               f # g, rpc[w][f] = "ok", rpc[w][g] = "ok"
        PROVE  Cardinality(covered) >= 3
    <3>1. {Leader, f, g} \subseteq covered
      BY <1>1, <1>2, <2>3
    <3>2. IsFiniteSet(covered)
      <4>1. IsFiniteSet(Nodes)
        BY FS_Interval, NAssumption DEF Nodes
      <4> QED
        BY <4>1, FS_Subset
    <3>3. IsFiniteSet({g}) /\ Cardinality({g}) = 1
      BY FS_Singleton
    <3>4. f \notin {g} /\ Leader \notin {g} \cup {f}
      BY <2>3, LeaderIsNode
    <3>5. IsFiniteSet({g} \cup {f}) /\ Cardinality({g} \cup {f}) = 2
      <4>1. /\ IsFiniteSet({g} \cup {f})
            /\ Cardinality({g} \cup {f}) = Cardinality({g}) + 1
        BY <3>3, <3>4, FS_AddElement
      <4> QED
        BY <3>3, <4>1
    <3>6. Cardinality(({g} \cup {f}) \cup {Leader}) = 3
      BY <3>4, <3>5, FS_AddElement
    <3>7. ({g} \cup {f}) \cup {Leader} \subseteq covered
      BY <3>1
    <3>8. /\ Cardinality(({g} \cup {f}) \cup {Leader}) <= Cardinality(covered)
          /\ Cardinality(covered) \in Nat
      BY <3>2, <3>7, FS_Subset, FS_CardinalityType
    <3> QED
      BY <3>6, <3>8
  <2> QED
    BY <1>6, <2>1, <2>2, <2>3 DEF Quorate
<1> QED
  BY <1>4, <1>5, <1>6, ModeType DEF TypeInv

\* The inductive invariant about writes.
WriteInv ==
  /\ LeaderCovers
  /\ Agreement
  /\ Delivered
  /\ SyncProgress
  /\ AnswerProgress
  /\ PeerOrder

LEMMA WriteInvInit == Init => WriteInv
<1> SUFFICES ASSUME Init PROVE WriteInv
  OBVIOUS
<1>1. \A n \in Nodes, k \in Keys : data[n][k] = Absent
  BY NewIsMap DEF Init
<1>2. \A n \in Nodes, w \in Writes : VersionAt(n, w) = 0
  BY <1>1, KeyOfType DEF VersionAt, Absent
<1>3. LeaderCovers /\ Delivered
  BY <1>2, LeaderIsNode DEF LeaderCovers, Delivered, Init
<1>4. SyncProgress /\ AnswerProgress
  BY NAssumption DEF Init, SyncProgress, AnswerProgress, Followers
<1>5. PeerOrder
  BY <1>1 DEF PeerOrder, Absent
<1> QED
  BY <1>3, <1>4, <1>5, AgreementInit DEF WriteInv

LEMMA WriteInvNext == TypeInv /\ WriteInv /\ [Next]_vars => WriteInv'
BY LeaderCoversNext, AgreementNext, DeliveredNext, SyncProgressNext, AnswerProgressNext,
   PeerOrderNext DEF WriteInv

LEMMA WriteInvAlways == Spec => [](TypeInv /\ WriteInv)
<1>1. Init => TypeInv /\ WriteInv
  BY TypeInit, CountedInit, WriteInvInit DEF TypeInv
<1>2. TypeInv /\ WriteInv /\ [Next]_vars => (TypeInv /\ WriteInv)'
  BY TypeNext, CountedNext, WriteInvNext DEF TypeInv
<1> QED
  BY <1>1, <1>2, PTL DEF Spec

\* No replica ever mixes up values: two nodes that show one version of a key
\* show one value, in every mode and under any failures.
THEOREM ReplicasAgree == Spec => []Agreement
<1>1. WriteInv => Agreement
  BY DEF WriteInv
<1> QED
  BY <1>1, WriteInvAlways, PTL

\* A 201 is backed by as many replicas as the mode says, and stays so.
THEOREM AnswersAreCovered == Spec => []AckCoverage
<1>1. TypeInv /\ WriteInv => AckCoverage
  BY AckCoverageHolds DEF WriteInv
<1> QED
  BY <1>1, WriteInvAlways, PTL

\* The sequential modes keep the followers sorted by version.
THEOREM PeersAreSorted == Spec => []PeerOrder
<1>1. WriteInv => PeerOrder
  BY DEF WriteInv
<1> QED
  BY <1>1, WriteInvAlways, PTL

-----------------------------------------------------------------------------
(* Reads at the leader *)

\* Entry e is a write of key k that the leader has numbered.
Genuine(e, k) == IsWriteOf(e, k) /\ e.version <= data[Leader][k].version

\* Everything a GET gets hold of is genuine.
OnlyGenuine ==
  \A r \in Reads :
    /\ \A e \in entries[r] : Genuine(e, KeyOf[r])
    /\ \A f \in Followers : Genuine(answer[r][f], KeyOf[r])
    /\ Genuine(result[r], KeyOf[r])

\* The version a client has seen once request x is answered.
Seen(x) == IF x \in Writes THEN ver[x] ELSE result[x].version

\* The ghost holds answered requests only.
BeforeAnswered == \A r \in Reads : before[r] \subseteq Answered

\* A GET under way already holds what earlier answers oblige it to return.
HoldsFloor ==
  \A r \in Reads : rphase[r] = "collecting" =>
    \A x \in before[r] : KeyOf[x] = KeyOf[r] =>
      Seen(x) = 0 \/ \E e \in entries[r] : e.version >= Seen(x)

ReadInv == OnlyGenuine /\ BeforeAnswered /\ HoldsFloor /\ LeaderReadFresh

LEMMA GenuineLasts ==
  ASSUME TypeInv, LeaderCovers, [Next]_vars,
         NEW e \in Entry, NEW k \in Keys, Genuine(e, k)
  PROVE  Genuine(e, k)'
<1>1. e.version <= data'[Leader][k].version
  <2>1. data[Leader][k].version \in Nat /\ e.version \in Nat
    BY DataType, EntryVersion, LeaderIsNode DEF TypeInv
  <2>2. data'[Leader][k].version \in Nat
    <3>1. TypeOK'
      BY TypeNext DEF TypeInv
    <3>2. data'[Leader][k] \in Entry
      BY <3>1, LeaderIsNode DEF TypeOK, StoreMap
    <3> QED
      BY <3>2, EntryVersion
  <2>3. data'[Leader][k] = data[Leader][k] \/ data'[Leader][k].version > data[Leader][k].version
    BY StoresAdvance, LeaderIsNode
  <2> QED
    BY <2>1, <2>2, <2>3 DEF Genuine
<1>2. ASSUME e # Absent
      PROVE  e.value \in Writes /\ KeyOf[e.value] = k /\ ver'[e.value] = e.version
  <2>1. e.value \in Writes /\ KeyOf[e.value] = k /\ ver[e.value] = e.version
    BY <1>2 DEF Genuine, IsWriteOf
  <2>2. ver[e.value] # 0
    BY <1>2, <2>1, EntryVersion
  <2>3. ASSUME NEW w \in Writes, HandleSet(w) PROVE ver'[e.value] = ver[e.value]
    BY <2>1, <2>2, <2>3, HandleSetStep
  <2>4. ASSUME NEW w \in Writes, NEW f \in Followers, HandleReplicate(w, f)
        PROVE  ver'[e.value] = ver[e.value]
    BY <2>4 DEF HandleReplicate
  <2> QED
    BY <2>1, <2>3, <2>4, OtherSteps
<1> QED
  BY <1>1, <1>2 DEF Genuine, IsWriteOf

\* Writes leave everything about GETs alone.
LEMMA WriteSteps ==
  ASSUME NEW w \in Writes,
         \/ HandleSet(w)
         \/ \E f \in Followers :
              HandleReplicate(w, f) \/ Confirm(w, f) \/ ReplicateFails(w, f)
  PROVE  UNCHANGED readVars
BY DEF HandleSet, HandleReplicate, Confirm, ReplicateFails

LEMMA OnlyGenuineNext ==
  TypeInv /\ WriteInv /\ OnlyGenuine /\ [Next]_vars => OnlyGenuine'
<1> SUFFICES ASSUME TypeInv, WriteInv, OnlyGenuine, [Next]_vars, NEW q \in Reads
             PROVE  /\ \A e \in entries'[q] : Genuine(e, KeyOf[q])'
                    /\ \A f \in Followers : Genuine(answer[q][f], KeyOf[q])'
                    /\ Genuine(result[q], KeyOf[q])'
  BY DEF OnlyGenuine
<1>1. KeyOf[q] \in Keys
  BY KeyOfType
<1>2. ASSUME NEW e \in Entry, Genuine(e, KeyOf[q]) PROVE Genuine(e, KeyOf[q])'
  BY <1>1, <1>2, GenuineLasts DEF WriteInv
<1>3. /\ entries'[q] \subseteq Entry
      /\ \A f \in Followers : answer'[q][f] \in Entry
      /\ result'[q] \in Entry
  <2>1. TypeOK'
    BY TypeNext DEF TypeInv
  <2> QED
    BY <2>1 DEF TypeOK
<1>4. ASSUME NEW n \in Nodes PROVE data[n][KeyOf[q]] \in Entry /\ Genuine(data[n][KeyOf[q]], KeyOf[q])
  BY <1>1, DataType DEF WriteInv, Agreement, Genuine, TypeInv
<1>5. Genuine(Absent, KeyOf[q])
  <2>1. data[Leader][KeyOf[q]].version \in Nat
    BY <1>1, DataType, LeaderIsNode DEF TypeInv
  <2> QED
    BY <2>1 DEF Genuine, IsWriteOf, Absent
<1>6. \A e \in entries'[q] : Genuine(e, KeyOf[q])
  <2>1. CASE entries'[q] = entries[q]
    BY <2>1 DEF OnlyGenuine
  <2>2. ASSUME NEW r \in Reads, HandleGet(r) PROVE \A e \in entries'[q] : Genuine(e, KeyOf[q])
    <3>1. CASE r = q
      BY <1>4, <2>2, <3>1, LeaderIsNode DEF HandleGet, TypeInv, TypeOK
    <3>2. CASE r # q
      BY <2>1, <2>2, <3>2 DEF HandleGet, TypeInv, TypeOK
    <3> QED
      BY <3>1, <3>2
  <2>3. ASSUME NEW r \in Reads, NEW f \in Followers, Collect(r, f)
        PROVE  \A e \in entries'[q] : Genuine(e, KeyOf[q])
    <3>1. entries'[q] \subseteq entries[q] \cup {answer[q][f]}
      BY ZenonT(40), <2>3 DEF Collect, TypeInv, TypeOK
    <3> QED
      BY <3>1 DEF OnlyGenuine
  <2>4. ASSUME NEW r \in Reads, FinishGet(r) PROVE \A e \in entries'[q] : Genuine(e, KeyOf[q])
    <3>1. entries'[q] \subseteq entries[q]
      BY <2>4 DEF FinishGet, TypeInv, TypeOK
    <3> QED
      BY <3>1 DEF OnlyGenuine
  <2>5. ASSUME NEW r \in Reads, NEW f \in Followers,
               HandleLocalRead(r, f) \/ FetchFails(r, f) \/ Drain(r, f)
        PROVE  entries'[q] = entries[q]
    BY <2>5 DEF HandleLocalRead, FetchFails, Drain
  <2>6. CASE UNCHANGED readVars
    BY <2>1, <2>6 DEF readVars
  <2> QED
    BY <2>1, <2>2, <2>3, <2>4, <2>5, <2>6, WriteSteps DEF Next, vars
<1>7. ASSUME NEW g \in Followers PROVE Genuine(answer'[q][g], KeyOf[q])
  <2>1. CASE answer'[q][g] = answer[q][g]
    BY <2>1 DEF OnlyGenuine
  <2>2. ASSUME NEW r \in Reads, NEW f \in Followers, HandleLocalRead(r, f)
        PROVE  answer'[q][g] \in {answer[q][g], data[g][KeyOf[q]]}
    BY <2>2 DEF HandleLocalRead, TypeInv, TypeOK
  <2>3. CASE answer'[q][g] = data[g][KeyOf[q]]
    BY <1>4, <2>3, LeaderIsNode
  <2>4. CASE UNCHANGED answer
    BY <2>1, <2>4
  <2>5. ASSUME NEW r \in Reads,
               \/ HandleGet(r) \/ FinishGet(r)
               \/ \E f \in Followers : FetchFails(r, f) \/ Collect(r, f) \/ Drain(r, f)
        PROVE  UNCHANGED answer
    BY <2>5 DEF HandleGet, FinishGet, FetchFails, Collect, Drain
  <2> QED
    BY <2>1, <2>2, <2>3, <2>4, <2>5, WriteSteps DEF Next, vars, readVars
<1>8. Genuine(result'[q], KeyOf[q])
  <2>1. CASE UNCHANGED result
    BY <2>1 DEF OnlyGenuine
  <2>2. ASSUME NEW r \in Reads, FinishGet(r) PROVE Genuine(result'[q], KeyOf[q])
    <3>1. PICK e \in Newest(entries[r]) : result' = [result EXCEPT ![r] = e]
      BY <2>2 DEF FinishGet
    <3>2. CASE r # q
      BY <3>1, <3>2 DEF OnlyGenuine, TypeInv, TypeOK
    <3>3. CASE r = q
      <4>1. e = Absent \/ e \in entries[q]
        BY <3>1, <3>3 DEF Newest
      <4> QED
        BY <1>5, <3>1, <3>3, <4>1 DEF OnlyGenuine, TypeInv, TypeOK
    <3> QED
      BY <3>2, <3>3
  <2>3. ASSUME NEW r \in Reads,
               \/ HandleGet(r)
               \/ \E f \in Followers : \/ HandleLocalRead(r, f) \/ FetchFails(r, f)
                                       \/ Collect(r, f) \/ Drain(r, f)
        PROVE  UNCHANGED result
    BY <2>3 DEF HandleGet, HandleLocalRead, FetchFails, Collect, Drain
  <2> QED
    BY <2>1, <2>2, <2>3, WriteSteps DEF Next, vars, readVars
<1> QED
  <2>1. \A e \in entries'[q] : Genuine(e, KeyOf[q])'
    BY <1>2, <1>3, <1>6
  <2>2. \A f \in Followers : Genuine(answer[q][f], KeyOf[q])'
    BY <1>2, <1>3, <1>7 DEF Genuine, IsWriteOf
  <2>3. Genuine(result[q], KeyOf[q])'
    BY <1>2, <1>3, <1>8 DEF Genuine, IsWriteOf
  <2> QED
    BY <2>1, <2>2, <2>3

\* The result of a GET is final.
LEMMA DoneLasts ==
  ASSUME TypeInv, [Next]_vars, NEW q \in Reads, rphase[q] = "done"
  PROVE  rphase'[q] = "done" /\ result'[q] = result[q]
<1> USE DEF TypeInv
<1>1. ASSUME NEW r \in Reads, HandleGet(r) \/ FinishGet(r)
      PROVE  rphase'[q] = "done" /\ result'[q] = result[q]
  <2>1. r # q
    BY <1>1 DEF HandleGet, FinishGet
  <2>2. CASE HandleGet(r)
    BY <2>1, <2>2 DEF HandleGet, TypeOK
  <2>3. CASE FinishGet(r)
    BY <2>1, <2>3 DEF FinishGet, TypeOK
  <2> QED
    BY <1>1, <2>2, <2>3
<1>2. ASSUME NEW r \in Reads, NEW f \in Followers,
             \/ HandleLocalRead(r, f) \/ FetchFails(r, f)
             \/ Collect(r, f) \/ Drain(r, f)
      PROVE  rphase'[q] = "done" /\ result'[q] = result[q]
  BY <1>2 DEF HandleLocalRead, FetchFails, Collect, Drain
<1>3. CASE UNCHANGED readVars
  BY <1>3 DEF readVars
<1> QED
  BY <1>1, <1>2, <1>3, WriteSteps DEF Next, vars

\* What has been answered stays answered.
LEMMA AnsweredLasts ==
  ASSUME TypeInv, [Next]_vars
  PROVE  /\ Answered \subseteq Answered'
         /\ \A x \in Answered : Seen(x)' = Seen(x)
<1> USE DEF TypeInv
<1>1. ASSUME NEW w \in Writes, reply[w] = "created"
      PROVE  reply'[w] = "created" /\ ver'[w] = ver[w]
  <2>1. ASSUME NEW v \in Writes, HandleSet(v) PROVE reply'[w] = "created" /\ ver'[w] = ver[w]
    <3>1. v # w
      BY <1>1, <2>1 DEF HandleSet
    <3> QED
      BY <1>1, <2>1, <3>1 DEF HandleSet, TypeOK
  <2>2. ASSUME NEW v \in Writes, NEW f \in Followers,
               HandleReplicate(v, f) \/ Confirm(v, f) \/ ReplicateFails(v, f)
        PROVE  reply'[w] = "created" /\ ver'[w] = ver[w]
    <3>1. ver' = ver
      BY <2>2 DEF HandleReplicate, Confirm, ReplicateFails
    <3>2. CASE HandleReplicate(v, f)
      BY <1>1, <3>1, <3>2 DEF HandleReplicate
    <3>3. CASE Confirm(v, f)
      BY <1>1, <3>1, <3>3 DEF Confirm, TypeOK
    <3>4. CASE ReplicateFails(v, f)
      BY <1>1, <3>1, <3>4 DEF ReplicateFails, TypeOK
    <3> QED
      BY <2>2, <3>2, <3>3, <3>4
  <2>3. CASE UNCHANGED writeVars
    BY <1>1, <2>3 DEF writeVars
  <2> QED
    BY <2>1, <2>2, <2>3, ReadSteps DEF Next, vars
<1> QED
  BY <1>1, DoneLasts, RequestAssumption DEF Answered, Seen

LEMMA BeforeAnsweredNext ==
  TypeInv /\ BeforeAnswered /\ [Next]_vars => BeforeAnswered'
<1> SUFFICES ASSUME TypeInv, BeforeAnswered, [Next]_vars, NEW q \in Reads
             PROVE  before'[q] \subseteq Answered'
  BY DEF BeforeAnswered
<1>1. Answered \subseteq Answered'
  BY AnsweredLasts
<1>2. before'[q] = before[q] \/ before'[q] = Answered
  <2>1. ASSUME NEW r \in Reads, HandleGet(r) PROVE before'[q] \in {before[q], Answered}
    BY <2>1 DEF HandleGet, TypeInv, TypeOK
  <2>2. ASSUME NEW r \in Reads,
               \/ FinishGet(r)
               \/ \E f \in Followers : \/ HandleLocalRead(r, f) \/ FetchFails(r, f)
                                       \/ Collect(r, f) \/ Drain(r, f)
        PROVE  UNCHANGED before
    BY <2>2 DEF FinishGet, HandleLocalRead, FetchFails, Collect, Drain
  <2> QED
    BY <2>1, <2>2, WriteSteps DEF Next, vars, readVars
<1> QED
  BY <1>1, <1>2 DEF BeforeAnswered

\* Whatever has been answered about a key, the leader's own entry is as recent.
LEMMA LeaderHasSeen ==
  ASSUME TypeInv, LeaderCovers, OnlyGenuine,
         NEW x \in Writes \cup Reads
  PROVE  Seen(x) \in Nat /\ Seen(x) <= data[Leader][KeyOf[x]].version
<1>1. CASE x \in Writes
  BY <1>1 DEF Seen, LeaderCovers, VersionAt, TypeInv, TypeOK
<1>2. CASE x \notin Writes
  <2>1. x \in Reads /\ result[x] \in Entry
    BY <1>2 DEF TypeInv, TypeOK
  <2> QED
    BY <1>2, <2>1, EntryVersion DEF Seen, OnlyGenuine, Genuine
<1> QED
  BY <1>1, <1>2

LEMMA HoldsFloorNext ==
  TypeInv /\ WriteInv /\ ReadInv /\ [Next]_vars => HoldsFloor'
<1> SUFFICES ASSUME TypeInv, WriteInv, ReadInv, [Next]_vars,
                    NEW q \in Reads, rphase'[q] = "collecting",
                    NEW x \in before'[q], KeyOf[x] = KeyOf[q]
             PROVE  Seen(x)' = 0 \/ \E e \in entries'[q] : e.version >= Seen(x)'
  BY DEF HoldsFloor
<1> USE DEF TypeInv
<1>1. ASSUME rphase[q] = "collecting", before'[q] = before[q], entries[q] \subseteq entries'[q]
      PROVE  Seen(x)' = 0 \/ \E e \in entries'[q] : e.version >= Seen(x)'
  <2>1. Seen(x)' = Seen(x)
    BY <1>1, AnsweredLasts DEF ReadInv, BeforeAnswered
  <2>2. Seen(x) = 0 \/ \E e \in entries[q] : e.version >= Seen(x)
    BY <1>1 DEF ReadInv, HoldsFloor
  <2> QED
    BY <1>1, <2>1, <2>2
<1>2. ASSUME NEW r \in Reads, HandleGet(r), r = q
      PROVE  Seen(x)' = 0 \/ \E e \in entries'[q] : e.version >= Seen(x)'
  <2>1. x \in Answered
    BY <1>2 DEF HandleGet, TypeOK
  <2>2. Seen(x)' = Seen(x) /\ x \in Writes \cup Reads
    BY <2>1, AnsweredLasts DEF Answered
  <2>3. /\ Seen(x) \in Nat
        /\ Seen(x) <= data[Leader][KeyOf[q]].version
    BY <2>2, LeaderHasSeen DEF WriteInv, ReadInv
  <2>4. CASE data[Leader][KeyOf[q]] = Absent
    BY <2>2, <2>3, <2>4 DEF Absent
  <2>5. CASE data[Leader][KeyOf[q]] # Absent
    <3>1. entries'[q] = {data[Leader][KeyOf[q]]}
      BY <1>2, <2>5 DEF HandleGet, Has, TypeOK
    <3> QED
      BY <2>2, <2>3, <3>1, KeyOfType, DataType, LeaderIsNode
  <2> QED
    BY <2>4, <2>5
<1>3. ASSUME NEW r \in Reads, HandleGet(r), r # q
      PROVE  Seen(x)' = 0 \/ \E e \in entries'[q] : e.version >= Seen(x)'
  BY <1>1, <1>3 DEF HandleGet, TypeOK
<1>4. ASSUME NEW r \in Reads, FinishGet(r)
      PROVE  Seen(x)' = 0 \/ \E e \in entries'[q] : e.version >= Seen(x)'
  <2>1. r # q
    BY <1>4 DEF FinishGet, TypeOK
  <2> QED
    BY <1>1, <1>4, <2>1 DEF FinishGet, TypeOK
<1>5. ASSUME NEW r \in Reads, NEW f \in Followers,
             \/ HandleLocalRead(r, f) \/ FetchFails(r, f)
             \/ Collect(r, f) \/ Drain(r, f)
      PROVE  Seen(x)' = 0 \/ \E e \in entries'[q] : e.version >= Seen(x)'
  <2>1. UNCHANGED <<rphase, before>>
    BY <1>5 DEF HandleLocalRead, FetchFails, Collect, Drain
  <2>2. entries[q] \subseteq entries'[q]
    <3>1. CASE Collect(r, f)
      <4>1. UNCHANGED entries \/ entries' = [entries EXCEPT ![r] = @ \cup {answer[r][f]}]
        BY <3>1 DEF Collect
      <4> QED
        BY ZenonT(40), <4>1 DEF TypeOK
    <3>2. CASE HandleLocalRead(r, f) \/ FetchFails(r, f) \/ Drain(r, f)
      BY <3>2 DEF HandleLocalRead, FetchFails, Drain
    <3> QED
      BY <1>5, <3>1, <3>2
  <2> QED
    BY <1>1, <2>1, <2>2
<1>6. CASE UNCHANGED readVars
  BY <1>1, <1>6 DEF readVars
<1> QED
  BY <1>2, <1>3, <1>4, <1>5, <1>6, WriteSteps DEF Next, vars

LEMMA LeaderReadFreshNext ==
  TypeInv /\ WriteInv /\ ReadInv /\ [Next]_vars => LeaderReadFresh'
<1> SUFFICES ASSUME TypeInv, WriteInv, ReadInv, [Next]_vars,
                    NEW q \in Reads, rphase'[q] = "done",
                    NEW x \in before'[q], KeyOf[x] = KeyOf[q]
             PROVE  result'[q].version >= Seen(x)'
  BY DEF LeaderReadFresh, Seen
<1> USE DEF TypeInv
<1>1. ASSUME NEW r \in Reads, FinishGet(r), r = q
      PROVE  result'[q].version >= Seen(x)'
  <2>1. rphase[q] = "collecting" /\ before'[q] = before[q]
    BY <1>1 DEF FinishGet
  <2>2. Seen(x)' = Seen(x) /\ x \in Writes \cup Reads
    BY <2>1, AnsweredLasts DEF ReadInv, BeforeAnswered, Answered
  <2>3. Seen(x) = 0 \/ \E e \in entries[q] : e.version >= Seen(x)
    BY <2>1 DEF ReadInv, HoldsFloor
  <2>4. Seen(x) \in Nat
    BY <2>2, LeaderHasSeen DEF WriteInv, ReadInv
  <2>5. PICK e \in Newest(entries[q]) : result'[q] = e
    BY <1>1 DEF FinishGet, TypeOK
  <2>6. e \in Entry /\ entries[q] \subseteq Entry
    BY <2>5 DEF Newest, TypeOK, Entry
  <2>7. e.version \in Nat /\ \A d \in entries[q] : d.version \in Nat /\ d.version <= e.version
    BY <2>5, <2>6, EntryVersion DEF Newest
  <2> QED
    BY <2>2, <2>3, <2>4, <2>5, <2>7
<1>2. ASSUME rphase[q] = "done", before'[q] = before[q]
      PROVE  result'[q].version >= Seen(x)'
  <2>1. Seen(x)' = Seen(x)
    BY <1>2, AnsweredLasts DEF ReadInv, BeforeAnswered
  <2>2. result'[q] = result[q]
    BY <1>2, DoneLasts
  <2>3. result[q].version >= Seen(x)
    BY <1>2 DEF ReadInv, LeaderReadFresh, Seen
  <2> QED
    BY <2>1, <2>2, <2>3
<1>3. ASSUME NEW r \in Reads, HandleGet(r) \/ FinishGet(r), r # q
      PROVE  rphase[q] = "done" /\ before'[q] = before[q]
  BY <1>3 DEF HandleGet, FinishGet, TypeOK
<1>4. ASSUME NEW r \in Reads, HandleGet(r) PROVE r # q
  BY <1>4 DEF HandleGet, TypeOK
<1>5. ASSUME NEW r \in Reads, NEW f \in Followers,
             \/ HandleLocalRead(r, f) \/ FetchFails(r, f)
             \/ Collect(r, f) \/ Drain(r, f)
      PROVE  rphase[q] = "done" /\ before'[q] = before[q]
  BY <1>5 DEF HandleLocalRead, FetchFails, Collect, Drain
<1>6. CASE UNCHANGED readVars
  BY <1>2, <1>6 DEF readVars
<1> QED
  BY <1>1, <1>2, <1>3, <1>4, <1>5, <1>6, WriteSteps DEF Next, vars

LEMMA ReadInvInit == Init => ReadInv
<1> SUFFICES ASSUME Init PROVE ReadInv
  OBVIOUS
<1>1. TypeOK
  BY TypeInit
<1>2. \A k \in Keys : Genuine(Absent, k)
  BY <1>1, DataType, LeaderIsNode DEF Genuine, IsWriteOf, Absent
<1>3. OnlyGenuine
  BY <1>2, KeyOfType DEF Init, OnlyGenuine
<1> QED
  BY <1>3 DEF Init, ReadInv, BeforeAnswered, HoldsFloor, LeaderReadFresh

\* Sequential clients of the leader never read backwards: a GET returns nothing
\* older than what any earlier answer, to a write or to a GET, has shown.
THEOREM LeaderReadsAreFresh == Spec => []LeaderReadFresh
<1>1. Init => ReadInv
  BY ReadInvInit
<1>2. TypeInv /\ WriteInv /\ ReadInv /\ [Next]_vars => ReadInv'
  BY OnlyGenuineNext, BeforeAnsweredNext, HoldsFloorNext, LeaderReadFreshNext DEF ReadInv
<1>3. ReadInv => LeaderReadFresh
  BY DEF ReadInv
<1> QED
  BY <1>1, <1>2, <1>3, WriteInvAlways, PTL DEF Spec

-----------------------------------------------------------------------------
(***************************************************************************)
(* The leader-follower store implements LinearizableKV, in every mode and  *)
(* for any number of followers, keys, requests and failures: its initial   *)
(* states are initial states of the service, and each of its steps is a    *)
(* step of the service or one the clients cannot see.                      *)
(***************************************************************************)

\* The leader's numbers of a key have no gap: there is a write for each.
NumberedAll ==
  \A k \in Keys : \A v \in 1 .. data[Leader][k].version :
    \E w \in Writes : KeyOf[w] = k /\ ver[w] = v

\* The log has at each place the one write with that number.
LogIsRight ==
  \A k \in Keys :
    /\ LeaderLog[k] \in Seq(Writes)
    /\ Len(LeaderLog[k]) = data[Leader][k].version
    /\ \A w \in Writes :
         KeyOf[w] = k /\ ver[w] \in 1 .. data[Leader][k].version => LeaderLog[k][ver[w]] = w

LeaderInv == TypeInv /\ WriteInv /\ ReadInv /\ NumberedAll

LEMMA LeaderVersion == TypeOK => \A k \in Keys : data[Leader][k].version \in Nat
BY DataType, LeaderIsNode

\* The leader starts with an empty store.
LEMMA NoEntries == Init => \A k \in Keys : data[Leader][k].version = 0
BY LeaderIsNode DEF Init, New, Absent

\* Only HandleSet changes what the log shows.
LEMMA SameLog ==
  ASSUME TypeInv, [Next]_vars, \A w \in Writes : ~HandleSet(w)
  PROVE  LeaderLog' = LeaderLog /\ (NumberedAll => NumberedAll')
<1>1. ver' = ver /\ data'[Leader] = data[Leader]
  <2>1. ASSUME NEW w \in Writes, NEW f \in Followers, HandleReplicate(w, f)
        PROVE  ver' = ver /\ data'[Leader] = data[Leader]
    BY <2>1, LeaderIsNode DEF HandleReplicate, TypeInv, TypeOK
  <2> QED BY <2>1, OtherSteps
<1> QED BY <1>1 DEF LeaderLog, NumberedAll

\* What the write HandleSet takes does to the numbers.
LEMMA SetNumbers ==
  ASSUME TypeInv, NEW w \in Writes, HandleSet(w)
  PROVE  /\ ver'[w] = data[Leader][KeyOf[w]].version + 1
         /\ data'[Leader][KeyOf[w]].version = data[Leader][KeyOf[w]].version + 1
         /\ \A k \in Keys : k # KeyOf[w] => data'[Leader][k] = data[Leader][k]
         /\ \A v \in Writes : v # w => ver'[v] = ver[v]
         /\ ver[w] = 0
<1>1. VersionAt(Leader, w) = data[Leader][KeyOf[w]].version
  BY DEF VersionAt
<1>2. /\ data'[Leader][KeyOf[w]] = [value |-> w, version |-> VersionAt(Leader, w) + 1]
      /\ ver[w] = 0 /\ ver'[w] = VersionAt(Leader, w) + 1
      /\ \A k \in Keys : k # KeyOf[w] => data'[Leader][k] = data[Leader][k]
      /\ \A v \in Writes : v # w => ver'[v] = ver[v]
  BY HandleSetStep
<1> QED BY <1>1, <1>2

LEMMA NumberedAllNext ==
  ASSUME TypeInv, WriteInv, NumberedAll, [Next]_vars
  PROVE  NumberedAll'
<1>1. ASSUME NEW w \in Writes, HandleSet(w) PROVE NumberedAll'
  <2>1. SUFFICES ASSUME NEW k \in Keys, NEW v \in 1 .. data'[Leader][k].version
                 PROVE  \E x \in Writes : KeyOf[x] = k /\ ver'[x] = v
    BY DEF NumberedAll
  <2>2. data[Leader][k].version \in Nat
    BY LeaderVersion DEF TypeInv
  <2>3. CASE k = KeyOf[w] /\ v = data[Leader][k].version + 1
    BY <1>1, <2>3, SetNumbers
  <2>4. CASE v \in 1 .. data[Leader][k].version
    <3>1. PICK x \in Writes : KeyOf[x] = k /\ ver[x] = v
      BY <2>4 DEF NumberedAll
    <3>2. x # w
      BY <1>1, <2>4, <3>1, SetNumbers
    <3> QED BY <1>1, <3>1, <3>2, SetNumbers
  <2> QED BY <1>1, <2>2, <2>3, <2>4, SetNumbers
<1> QED BY <1>1, SameLog

LEMMA LogShows == TypeInv /\ Agreement /\ NumberedAll => LogIsRight
<1> SUFFICES ASSUME TypeInv, Agreement, NumberedAll, NEW k \in Keys
             PROVE  /\ LeaderLog[k] \in Seq(Writes)
                    /\ Len(LeaderLog[k]) = data[Leader][k].version
                    /\ \A w \in Writes :
                         KeyOf[w] = k /\ ver[w] \in 1 .. data[Leader][k].version
                           => LeaderLog[k][ver[w]] = w
  BY DEF LogIsRight
<1> DEFINE n == data[Leader][k].version
           Place(v) == CHOOSE w \in Writes : KeyOf[w] = k /\ ver[w] = v
<1>1. n \in Nat
  BY LeaderVersion DEF TypeInv
<1>2. LeaderLog[k] = [v \in 1 .. n |-> Place(v)]
  BY DEF LeaderLog
<1>3. \A v \in 1 .. n : Place(v) \in Writes /\ KeyOf[Place(v)] = k /\ ver[Place(v)] = v
  BY DEF NumberedAll
<1>4. \A w \in Writes : KeyOf[w] = k /\ ver[w] \in 1 .. n => Place(ver[w]) = w
  <2>1. SUFFICES ASSUME NEW w \in Writes, KeyOf[w] = k, ver[w] \in 1 .. n
                 PROVE  Place(ver[w]) = w
    OBVIOUS
  <2>2. /\ Place(ver[w]) \in Writes /\ KeyOf[Place(ver[w])] = k
        /\ ver[Place(ver[w])] = ver[w] /\ ver[w] # 0
    BY <1>1, <1>3, <2>1
  <2> HIDE DEF Place
  <2> QED BY <2>1, <2>2 DEF Agreement
<1> HIDE DEF Place
<1> QED BY <1>1, <1>2, <1>3, <1>4

LEMMA Invariants == Spec => [](LeaderInv /\ LogIsRight)
<1>1. Init => ReadInv /\ NumberedAll
  <2>1. Init => NumberedAll
    BY NoEntries DEF NumberedAll
  <2> QED BY <2>1, ReadInvInit
<1>2. TypeInv /\ WriteInv /\ ReadInv /\ NumberedAll /\ [Next]_vars => (ReadInv /\ NumberedAll)'
  BY NumberedAllNext, OnlyGenuineNext, BeforeAnsweredNext, HoldsFloorNext,
     LeaderReadFreshNext DEF ReadInv
<1>3. TypeInv /\ WriteInv /\ NumberedAll => LogIsRight
  BY LogShows DEF WriteInv
<1> QED BY <1>1, <1>2, <1>3, WriteInvAlways, PTL DEF Spec, LeaderInv

-----------------------------------------------------------------------------
(* The steps clients can see *)

\* Taking a write appends it to the log of its key.
LEMMA SetIsWrite ==
  ASSUME LeaderInv, LeaderInv', LogIsRight, LogIsRight',
         NEW w \in Writes, HandleSet(w)
  PROVE  Service!Write(w)
<1> DEFINE k == KeyOf[w]
           n == data[Leader][k].version
<1>1. TypeInv /\ NumberedAll /\ TypeInv' /\ k \in Keys
  BY KeyOfType DEF LeaderInv
<1>2. n \in Nat /\ data'[Leader][k].version = n + 1
  BY <1>1, SetNumbers, LeaderVersion DEF TypeInv
<1>3. ASSUME NEW j \in Keys
      PROVE  /\ LeaderLog[j] \in Seq(Writes) /\ Len(LeaderLog[j]) = data[Leader][j].version
             /\ LeaderLog'[j] \in Seq(Writes) /\ Len(LeaderLog'[j]) = data'[Leader][j].version
             /\ \A i \in 1 .. data[Leader][j].version : LeaderLog'[j][i] = LeaderLog[j][i]
  <2>1. /\ LeaderLog[j] \in Seq(Writes) /\ Len(LeaderLog[j]) = data[Leader][j].version
        /\ \A x \in Writes :
             KeyOf[x] = j /\ ver[x] \in 1 .. data[Leader][j].version
               => LeaderLog[j][ver[x]] = x
    BY DEF LogIsRight
  <2>2. /\ LeaderLog'[j] \in Seq(Writes) /\ Len(LeaderLog'[j]) = data'[Leader][j].version
        /\ \A x \in Writes :
             KeyOf[x] = j /\ ver'[x] \in 1 .. data'[Leader][j].version
               => LeaderLog'[j][ver'[x]] = x
    BY DEF LogIsRight
  <2>3. data[Leader][j].version \in Nat /\ data'[Leader][j].version \in Nat
        /\ data[Leader][j].version <= data'[Leader][j].version
    BY <1>1, <1>2, SetNumbers, LeaderVersion DEF TypeInv
  <2>4. ASSUME NEW i \in 1 .. data[Leader][j].version
        PROVE  LeaderLog'[j][i] = LeaderLog[j][i]
    <3>1. PICK x \in Writes : KeyOf[x] = j /\ ver[x] = i
      BY <1>1 DEF NumberedAll
    <3>2. x # w
      BY <1>1, <3>1, SetNumbers
    <3>3. ver'[x] = i
      BY <1>1, <3>1, <3>2, SetNumbers
    <3> QED BY <2>1, <2>2, <2>3, <3>1, <3>3
  <2> QED BY <2>1, <2>2, <2>4
<1>4. LeaderLog'[k][n + 1] = w
  <2>1. ver'[w] = n + 1 /\ ver'[w] \in 1 .. data'[Leader][k].version
    BY <1>1, <1>2, SetNumbers
  <2>2. \A x \in Writes : KeyOf[x] = k /\ ver'[x] \in 1 .. data'[Leader][k].version
                            => LeaderLog'[k][ver'[x]] = x
    BY <1>1 DEF LogIsRight
  <2> QED BY <2>1, <2>2
<1>5. LeaderLog' = [LeaderLog EXCEPT ![k] = Append(@, w)]
  <2>1. LeaderLog'[k] = Append(LeaderLog[k], w)
    <3>1. /\ LeaderLog[k] \in Seq(Writes) /\ LeaderLog'[k] \in Seq(Writes)
          /\ Len(LeaderLog[k]) = n /\ Len(LeaderLog'[k]) = n + 1
          /\ \A i \in 1 .. n : LeaderLog'[k][i] = LeaderLog[k][i]
      BY <1>1, <1>2, <1>3
    <3>2. ASSUME NEW s \in Seq(Writes), NEW t \in Seq(Writes), Len(t) = Len(s) + 1,
                 \A i \in 1 .. Len(s) : t[i] = s[i], t[Len(s) + 1] = w
          PROVE  t = Append(s, w)
      BY <3>2
    <3> HIDE DEF k, n
    <3> QED BY <1>4, <3>1, <3>2
  <2>2. \A j \in Keys : j # k => LeaderLog'[j] = LeaderLog[j]
    <3>1. SUFFICES ASSUME NEW j \in Keys, j # k PROVE LeaderLog'[j] = LeaderLog[j]
      OBVIOUS
    <3>2. data'[Leader][j].version = data[Leader][j].version
      BY <1>1, <3>1, SetNumbers
    <3> QED BY <1>3, <3>2
  <2>3. /\ LeaderLog = [j \in Keys |-> LeaderLog[j]]
        /\ LeaderLog' = [j \in Keys |-> LeaderLog'[j]]
    BY DEF LeaderLog
  <2> QED BY <1>1, <2>1, <2>2, <2>3
<1>6. /\ Told[w] = "none"
      /\ \E told \in {"pending", "created"} : Told' = [Told EXCEPT ![w] = told]
  <2>1. PICK told \in {"pending", "created"} : reply' = [reply EXCEPT ![w] = told]
    BY DEF HandleSet
  <2>2. reply[w] = "none" /\ rphase' = rphase
    BY DEF HandleSet, readVars
  <2>3. Told' = [Told EXCEPT ![w] = told]
    BY <1>1, <2>1, <2>2 DEF Told, TypeInv, TypeOK
  <2> QED BY <2>2, <2>3 DEF Told
<1>7. UNCHANGED <<before, result>>
  BY DEF HandleSet, readVars
<1> QED BY <1>5, <1>6, <1>7 DEF Service!Write

\* A replication loop that answers its client answers a write.
LEMMA AnswerIsAnswer ==
  ASSUME LeaderInv, [Next]_vars, NEW w \in Writes, NEW f \in Followers,
         HandleReplicate(w, f) \/ Confirm(w, f) \/ ReplicateFails(w, f)
  PROVE  Service!AnswerWrite(w) \/ UNCHANGED Service!vars
<1>1. TypeInv /\ TypeOK
  BY DEF LeaderInv, TypeInv
<1>2. LeaderLog' = LeaderLog
  <2>1. ver' = ver /\ data'[Leader] = data[Leader]
    BY <1>1, LeaderIsNode DEF HandleReplicate, Confirm, ReplicateFails, TypeOK
  <2> QED BY <2>1 DEF LeaderLog
<1>3. UNCHANGED <<before, result, rphase>>
  BY WriteSteps DEF readVars
<1>4. \/ reply' = reply
      \/ /\ reply[w] = "pending"
         /\ \E told \in {"created", "error"} : reply' = [reply EXCEPT ![w] = told]
  <2>1. CASE HandleReplicate(w, f)
    BY <2>1 DEF HandleReplicate
  <2>2. CASE Confirm(w, f)
    <3>1. reply[w] \notin {"none", "error"}
      BY <1>1, <2>2 DEF Confirm, Numbered, TypeInv
    <3>2. reply' = reply \/ reply' = [reply EXCEPT ![w] = "created"]
      BY <1>1, <2>2 DEF Confirm, TypeOK
    <3> QED BY <1>1, <3>1, <3>2 DEF TypeOK
  <2>3. CASE ReplicateFails(w, f)
    BY <1>1, <2>3 DEF ReplicateFails, TypeOK
  <2> QED BY <2>1, <2>2, <2>3
<1>5. CASE reply' = reply
  BY <1>2, <1>3, <1>5 DEF Told, Service!vars
<1>6. ASSUME NEW told \in {"created", "error"}, reply[w] = "pending",
             reply' = [reply EXCEPT ![w] = told]
      PROVE  Service!AnswerWrite(w)
  <2>1. Told[w] = "pending" /\ Told' = [Told EXCEPT ![w] = told]
    BY <1>1, <1>3, <1>6 DEF Told, TypeOK
  <2> QED BY <1>2, <1>3, <2>1 DEF Service!AnswerWrite
<1> QED BY <1>4, <1>5, <1>6

\* A GET that arrives remembers who has been answered.
LEMMA GetIsBeginRead ==
  ASSUME LeaderInv, [Next]_vars, NEW r \in Reads, HandleGet(r)
  PROVE  Service!BeginRead(r)
<1>1. TypeOK
  BY DEF LeaderInv, TypeInv
<1>2. UNCHANGED <<LeaderLog, reply, result>>
  BY DEF HandleGet, writeVars, LeaderLog
<1>3. r \notin Writes
  BY RequestAssumption
<1>4. Told[r] = "none" /\ Told' = [Told EXCEPT ![r] = "collecting"]
  BY ZenonT(40), <1>1, <1>2, <1>3 DEF HandleGet, Told, TypeOK
<1>5. Answered = {x \in Writes \cup Reads : Told[x] \in {"created", "done"}}
  BY <1>1, RequestAssumption DEF Answered, Told, TypeOK
<1> QED BY <1>2, <1>4, <1>5 DEF HandleGet, Service!BeginRead

\* A GET that is answered returns a recent entry of the log.
LEMMA FinishIsEndRead ==
  ASSUME LeaderInv, LogIsRight, [Next]_vars, NEW r \in Reads, FinishGet(r)
  PROVE  Service!EndRead(r)
<1> DEFINE k == KeyOf[r]
<1>1. /\ TypeInv /\ TypeOK /\ Agreement /\ WriteInv /\ ReadInv /\ LeaderReadFresh'
      /\ k \in Keys /\ r \notin Writes
  BY LeaderReadFreshNext, KeyOfType, RequestAssumption DEF LeaderInv, TypeInv, WriteInv
<1>2. UNCHANGED <<LeaderLog, reply, before>> /\ rphase[r] = "collecting"
      /\ rphase' = [rphase EXCEPT ![r] = "done"]
  BY DEF FinishGet, writeVars, LeaderLog
<1>3. Told[r] = "collecting" /\ Told' = [Told EXCEPT ![r] = "done"]
  BY ZenonT(40), <1>1, <1>2 DEF Told, TypeOK
<1>4. PICK e \in Newest(entries[r]) : result' = [result EXCEPT ![r] = e]
  BY DEF FinishGet
<1>5. e \in Entry /\ Genuine(e, k)
  <2>1. e = Absent \/ e \in entries[r]
    BY <1>4 DEF Newest
  <2>2. Genuine(Absent, k)
    BY <1>1, LeaderVersion DEF Genuine, IsWriteOf, Absent
  <2> QED BY <1>1, <2>1, <2>2 DEF ReadInv, OnlyGenuine, TypeOK, Entry
<1>6. /\ e.version \in Nat /\ e.version <= data[Leader][k].version
      /\ data[Leader][k].version \in Nat
      /\ e = Absent <=> e.version = 0
      /\ e # Absent => e.value \in Writes /\ KeyOf[e.value] = k /\ ver[e.value] = e.version
  BY <1>1, <1>5, EntryVersion, LeaderVersion DEF Genuine, IsWriteOf
<1>7. /\ Len(LeaderLog[k]) = data[Leader][k].version
      /\ \A w \in Writes :
           KeyOf[w] = k /\ ver[w] \in 1 .. data[Leader][k].version
             => LeaderLog[k][ver[w]] = w
  BY <1>1 DEF LogIsRight
<1>8. e = [value   |-> IF e.version = 0 THEN NoWrite ELSE LeaderLog[k][e.version],
           version |-> e.version]
  <2>1. CASE e = Absent
    BY <2>1 DEF Absent
  <2>2. CASE e # Absent
    <3>1. LeaderLog[k][e.version] = e.value
      BY <1>6, <1>7, <2>2
    <3>2. e = [value |-> e.value, version |-> e.version]
      BY <1>5, <2>2 DEF Entry
    <3> QED BY <1>6, <2>2, <3>1, <3>2
  <2> QED BY <2>1, <2>2
<1>9. Service!Recent(r, e.version)
  <2>1. SUFFICES ASSUME NEW x \in before[r], KeyOf[x] = k
                 PROVE  IF x \in Reads THEN result[x].version <= e.version
                        ELSE \E j \in 1 .. e.version : LeaderLog[k][j] = x
    BY DEF Service!Recent
  <2>2. x \in Answered
    BY <1>1, <2>1 DEF ReadInv, BeforeAnswered
  <2>3. result'[r] = e /\ rphase'[r] = "done"
    BY <1>1, <1>2, <1>4 DEF TypeOK
  <2>4. IF x \in Writes THEN e.version >= ver'[x] ELSE e.version >= result'[x].version
    BY <1>1, <1>2, <2>1, <2>3 DEF LeaderReadFresh
  <2>5. CASE x \in Writes
    <3>1. ver' = ver /\ ver[x] \in Nat \ {0} /\ x \notin Reads
      <4>1. reply[x] = "created"
        BY <2>2, <2>5, RequestAssumption DEF Answered
      <4> QED BY <1>1, <2>5, <4>1, RequestAssumption
           DEF FinishGet, writeVars, TypeInv, TypeOK, Numbered
    <3>2. ver[x] <= e.version
      BY <1>6, <2>4, <2>5, <3>1
    <3>3. LeaderLog[k][ver[x]] = x
      BY <1>6, <1>7, <2>1, <2>5, <3>1, <3>2
    <3> QED BY <1>6, <3>1, <3>2, <3>3
  <2>6. CASE x \notin Writes
    <3>1. x \in Reads /\ rphase[x] = "done"
      BY <2>2, <2>6 DEF Answered
    <3>2. result'[x] = result[x] /\ result[x].version \in Nat
      BY <1>1, <1>2, <1>4, <3>1, EntryVersion DEF TypeOK
    <3> QED BY <1>6, <2>4, <2>6, <3>1, <3>2
  <2> QED BY <2>5, <2>6
<1>10. e.version \in 0 .. Len(LeaderLog[k])
  BY <1>6, <1>7
<1> QED BY <1>2, <1>3, <1>4, <1>8, <1>9, <1>10 DEF Service!EndRead

\* The other steps are the cluster's own business.
LEMMA OthersAreHidden ==
  ASSUME NEW r \in Reads, NEW f \in Followers,
         HandleLocalRead(r, f) \/ FetchFails(r, f) \/ Collect(r, f) \/ Drain(r, f)
  PROVE  UNCHANGED Service!vars
<1>1. UNCHANGED <<ver, data, reply, rphase, before, result>>
  BY DEF HandleLocalRead, FetchFails, Collect, Drain, writeVars
<1> QED BY <1>1 DEF Service!vars, LeaderLog, Told

LEMMA InitIsInit == Init => Service!Init
<1> SUFFICES ASSUME Init PROVE Service!Init
  OBVIOUS
<1>1. \A k \in Keys : data[Leader][k].version = 0
  BY NoEntries
<1>2. ASSUME NEW k \in Keys
      PROVE  [v \in 1 .. data[Leader][k].version |->
                CHOOSE w \in Writes : KeyOf[w] = k /\ ver[w] = v] = <<>>
  <2>1. 1 .. data[Leader][k].version = {}
    BY <1>1
  <2> QED BY <2>1
<1>3. LeaderLog = [k \in Keys |-> <<>>]
  BY <1>2 DEF LeaderLog
<1> QED BY <1>3 DEF Init, Service!Init, Told, Absent

\* In every mode the leader is a linearizable store: the order of its numbers
\* explains every answer to a PUT and every answer to a GET, quorum reads
\* included, and agrees with real time.
THEOREM LeaderImplementsService == Spec => LeaderIsLinearizable
<1>1. ASSUME LeaderInv, LeaderInv', LogIsRight, LogIsRight', [Next]_vars
      PROVE  [Service!Next]_(Service!vars)
  <2>1. CASE UNCHANGED vars
    BY <2>1 DEF vars, writeVars, readVars, Service!vars, LeaderLog, Told
  <2>2. CASE \E w \in Writes : HandleSet(w)
    BY <1>1, <2>2, SetIsWrite DEF Service!Next
  <2>3. CASE \E w \in Writes, f \in Followers :
               HandleReplicate(w, f) \/ Confirm(w, f) \/ ReplicateFails(w, f)
    BY <1>1, <2>3, AnswerIsAnswer DEF Service!Next
  <2>4. CASE \E r \in Reads : HandleGet(r) \/ FinishGet(r)
    BY <1>1, <2>4, GetIsBeginRead, FinishIsEndRead DEF Service!Next
  <2>5. CASE \E r \in Reads, f \in Followers :
               HandleLocalRead(r, f) \/ FetchFails(r, f) \/ Collect(r, f) \/ Drain(r, f)
    BY <2>5, OthersAreHidden
  <2> QED BY <1>1, <2>1, <2>2, <2>3, <2>4, <2>5 DEF Next
<1> QED BY <1>1, InitIsInit, Invariants, PTL DEF Spec, LeaderIsLinearizable, Service!Spec
=============================================================================
