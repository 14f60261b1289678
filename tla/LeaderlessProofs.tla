-------------------------- MODULE LeaderlessProofs --------------------------
(***************************************************************************)
(* Safety of Leaderless for any set of nodes, keys and writes and any      *)
(* number of failures; then of the load tester, whose steps the store does *)
(* not notice, and whose verdicts rest on what is proved of the store.     *)
(***************************************************************************)
EXTENDS LoadTester, StoreProofs, FiniteSetTheorems

\* A write has a version exactly when its coordinator has taken it, and no call
\* carries it before.
Numbered ==
  \A w \in Writes :
    IF reply[w] = "none"
    THEN ver[w] = 0 /\ \A p \in Nodes : rpc[w][p] = "open"
    ELSE ver[w] # 0

\* A node that has taken a write, as its coordinator or by a call that was not
\* given up before, stores that version or a later one.
Delivered ==
  \A w \in Writes :
    /\ reply[w] # "none" => VersionAt(at[w], w) >= ver[w]
    /\ \A p \in Peers(at[w]) :
         rpc[w][p] \in {"applied", "ok"} => VersionAt(p, w) >= ver[w]

\* A client is told "created" only after every call has succeeded.
AllAgreed ==
  \A w \in Writes : reply[w] = "created" => \A p \in Peers(at[w]) : rpc[w][p] = "ok"

\* What a node stores is a write of the key under its coordinator's number.
Genuine ==
  \A n \in Nodes, k \in Keys :
    LET e == data[n][k] IN
      e # Absent => KeyOf[e.value] = k /\ ver[e.value] = e.version

\* One coordinator never gives two writes of a key one number.
NumberedApart ==
  \A v, w \in Writes :
    v # w /\ at[v] = at[w] /\ KeyOf[v] = KeyOf[w] /\ ver[v] # 0 => ver[v] # ver[w]

\* The ghost variable holds confirmed writes with lower numbers.
AfterConfirmed ==
  \A w \in Writes : \A x \in after[w] :
    /\ reply[w] # "none" /\ reply[x] = "created"
    /\ KeyOf[x] = KeyOf[w] => ver[x] < ver[w]

TypeInv == TypeOK /\ Numbered

WriteInv == /\ TypeInv
            /\ Delivered
            /\ AllAgreed
            /\ Genuine
            /\ NumberedApart
            /\ AfterConfirmed

LEMMA KeyOfType == \A w \in Writes : KeyOf[w] \in Keys
BY KeyAssumption

LEMMA VersionType ==
  ASSUME TypeOK, NEW n \in Nodes, NEW k \in Keys
  PROVE  /\ data[n] \in StoreMap
         /\ data[n][k] \in Entry
         /\ data[n][k].version \in Nat
         /\ data[n][k] = Absent <=> data[n][k].version = 0
         /\ data[n][k] # Absent => data[n][k].value \in Writes
<1>1. data[n] \in StoreMap /\ data[n][k] \in Entry
  BY DEF TypeOK, StoreMap
<1> QED
  BY <1>1, EntryVersion

\* What a coordinator answers, for every outcome of the last call.
LEMMA ReplyAfterType ==
  ASSUME NEW w \in Writes, NEW p \in Nodes, NEW outcome
  PROVE  /\ ReplyAfter(w, p, outcome) \in {"pending", "created", "error"}
         /\ ReplyAfter(w, p, outcome) = "created" =>
              outcome = "ok" /\ \A q \in Peers(at[w]) \ {p} : rpc[w][q] = "ok"
BY DEF ReplyAfter

-----------------------------------------------------------------------------
(* What the steps have in common *)

\* HandleSet gives the next version and changes one entry.
LEMMA SetStep ==
  ASSUME TypeInv, NEW w \in Writes, HandleSet(w)
  PROVE  /\ ver' = [ver EXCEPT ![w] = VersionAt(at[w], w) + 1]
         /\ data' \in [Nodes -> StoreMap]
         /\ data'[at[w]][KeyOf[w]] = [value |-> w, version |-> VersionAt(at[w], w) + 1]
         /\ \A n \in Nodes, k \in Keys :
              <<n, k>> # <<at[w], KeyOf[w]>> => data'[n][k] = data[n][k]
<1>1. at[w] \in Nodes /\ KeyOf[w] \in Keys /\ data[at[w]] \in StoreMap
  BY KeyOfType, VersionType DEF TypeInv, TypeOK
<1>2. /\ Set(data[at[w]], KeyOf[w], w) \in StoreMap
      /\ NextVersion(data[at[w]], KeyOf[w]) = VersionAt(at[w], w) + 1
      /\ Set(data[at[w]], KeyOf[w], w)[KeyOf[w]]
           = [value |-> w, version |-> VersionAt(at[w], w) + 1]
      /\ \A j \in Keys : j # KeyOf[w] =>
           Set(data[at[w]], KeyOf[w], w)[j] = data[at[w]][j]
  BY <1>1, SetFacts DEF VersionAt
<1>3. data' = [data EXCEPT ![at[w]] = Set(data[at[w]], KeyOf[w], w)]
  BY DEF HandleSet
<1>4. data \in [Nodes -> StoreMap]
  BY DEF TypeInv, TypeOK
<1>5. data' \in [Nodes -> StoreMap] /\ data'[at[w]] = Set(data[at[w]], KeyOf[w], w)
  BY <1>1, <1>2, <1>3, <1>4
<1>6. \A n \in Nodes : n # at[w] => data'[n] = data[n]
  BY <1>3, <1>4
<1> QED
  BY <1>2, <1>5, <1>6 DEF HandleSet

\* HandleReplicate leaves the newer of the two entries and changes no other.
LEMMA ReplicateStep ==
  ASSUME TypeInv, NEW w \in Writes, NEW p \in Nodes, HandleReplicate(w, p)
  PROVE  /\ reply[w] # "none" /\ ver[w] \in Nat \ {0}
         /\ data' \in [Nodes -> StoreMap]
         /\ data'[p][KeyOf[w]] =
              IF VersionAt(p, w) >= ver[w] THEN data[p][KeyOf[w]]
                                           ELSE [value |-> w, version |-> ver[w]]
         /\ \A n \in Nodes, k \in Keys :
              <<n, k>> # <<p, KeyOf[w]>> => data'[n][k] = data[n][k]
<1>1. reply[w] # "none" /\ ver[w] \in Nat \ {0}
  BY DEF HandleReplicate, TypeInv, Numbered, TypeOK
<1>2. KeyOf[w] \in Keys /\ data[p] \in StoreMap
  BY KeyOfType, VersionType DEF TypeInv
<1> DEFINE m == SetWithVersion(data[p], KeyOf[w], w, ver[w])
<1>3. /\ m \in StoreMap
      /\ m[KeyOf[w]] = IF VersionAt(p, w) >= ver[w] THEN data[p][KeyOf[w]]
                       ELSE [value |-> w, version |-> ver[w]]
      /\ \A j \in Keys : j # KeyOf[w] => m[j] = data[p][j]
  BY <1>1, <1>2, SetWithVersionFacts DEF VersionAt
<1> HIDE DEF m
<1>4. data' = [data EXCEPT ![p] = m] /\ data \in [Nodes -> StoreMap]
  BY DEF HandleReplicate, TypeInv, TypeOK, m
<1>5. data' \in [Nodes -> StoreMap] /\ data'[p] = m
  BY <1>3, <1>4
<1>6. \A n \in Nodes : n # p => data'[n] = data[n]
  BY <1>4
<1> QED
  BY <1>1, <1>3, <1>5, <1>6

\* A call ends, with success only if it was applied.
CallEnds(w, p) ==
  \E s \in Ended : /\ rpc' = [rpc EXCEPT ![w][p] = s]
                   /\ s = "ok" => rpc[w][p] = "applied"

\* The client waits on or is answered; "created" means all calls succeeded.
ClientHears(w, p) ==
  \E t \in {"pending", "created", "error"} :
    /\ reply' = [reply EXCEPT ![w] = t]
    /\ t = "created" =>
         rpc'[w][p] = "ok" /\ \A q \in Peers(at[w]) \ {p} : rpc[w][q] = "ok"

\* Confirm and ReplicateFails end one call and change no store and no number.
LEMMA ResultStep ==
  ASSUME TypeInv, NEW w \in Writes, NEW p \in Nodes,
         Confirm(w, p) \/ ReplicateFails(w, p)
  PROVE  /\ p \in Peers(at[w]) /\ reply[w] # "none" /\ rpc[w][p] \in {"open", "applied"}
         /\ UNCHANGED <<data, at, ver, after>>
         /\ CallEnds(w, p)
         /\ ClientHears(w, p)
<1>1. CASE Confirm(w, p)
  <2>1. reply[w] # "none" /\ rpc'[w][p] = "ok"
    BY <1>1 DEF Confirm, TypeInv, Numbered, TypeOK
  <2>2. /\ p \in Peers(at[w]) /\ rpc[w][p] = "applied"
        /\ rpc' = [rpc EXCEPT ![w][p] = "ok"]
        /\ reply' = [reply EXCEPT ![w] = ReplyAfter(w, p, "ok")]
        /\ UNCHANGED <<data, at, ver, after>>
    BY <1>1 DEF Confirm
  <2>3. /\ ReplyAfter(w, p, "ok") \in {"pending", "created", "error"}
        /\ ReplyAfter(w, p, "ok") = "created" =>
             \A q \in Peers(at[w]) \ {p} : rpc[w][q] = "ok"
    BY ReplyAfterType
  <2>4. CallEnds(w, p)
    BY <2>2 DEF Ended, CallEnds
  <2>5. ClientHears(w, p)
    BY <2>1, <2>2, <2>3 DEF ClientHears
  <2>6. p \in Peers(at[w]) /\ reply[w] # "none" /\ rpc[w][p] \in {"open", "applied"}
    BY <2>1, <2>2
  <2>7. UNCHANGED <<data, at, ver, after>>
    BY <2>2
  <2> QED
    BY <2>4, <2>5, <2>6, <2>7
<1>2. CASE ReplicateFails(w, p)
  <2>1. reply[w] # "none"
    BY <1>2 DEF ReplicateFails, TypeInv, Numbered
  <2>2. \E s \in Ended : rpc' = [rpc EXCEPT ![w][p] = s] /\ s # "ok"
    BY <1>2 DEF ReplicateFails, Ended
  <2>3. ReplyAfter(w, p, "error") \in {"pending", "error"}
    BY ReplyAfterType
  <2> QED
    BY <1>2, <2>1, <2>2, <2>3 DEF ReplicateFails, CallEnds, ClientHears
<1> QED
  BY <1>1, <1>2

-----------------------------------------------------------------------------
(* Type correctness *)

LEMMA TypeInit == Init => TypeInv
<1> SUFFICES ASSUME Init PROVE TypeInv
  OBVIOUS
<1>1. TypeOK
  BY NewIsMap, FailureAssumption DEF Init, TypeOK, RpcState
<1>2. Numbered
  BY DEF Init, Numbered
<1> QED
  BY <1>1, <1>2 DEF TypeInv

LEMMA TypeNext == TypeInv /\ [Next]_vars => TypeInv'
<1> SUFFICES ASSUME TypeInv, [Next]_vars PROVE TypeOK' /\ Numbered'
  BY DEF TypeInv
<1>1. ASSUME NEW w \in Writes, HandleSet(w) PROVE TypeOK' /\ Numbered'
  <2>1. VersionAt(at[w], w) \in Nat
    BY KeyOfType, VersionType DEF TypeInv, TypeOK, VersionAt
  <2>a. ver' = [ver EXCEPT ![w] = VersionAt(at[w], w) + 1]
    BY <1>1, SetStep
  <2>b. ver \in [Writes -> Nat]
    BY DEF TypeInv, TypeOK
  <2> DEFINE next == VersionAt(at[w], w) + 1
  <2>c. next \in Nat /\ next # 0
    BY <2>1
  <2> HIDE DEF next
  <2>d. ver' = [ver EXCEPT ![w] = next]
    BY <2>a DEF next
  <2>2. ver' \in [Writes -> Nat] /\ ver'[w] # 0
    BY <2>b, <2>c, <2>d
  <2>3. /\ reply' \in [Writes -> {"none", "pending", "created", "error"}]
        /\ reply'[w] # "none"
        /\ after' \in [Writes -> SUBSET Writes]
    BY <1>1 DEF HandleSet, TypeInv, TypeOK
  <2>4. TypeOK'
    BY <1>1, <2>2, <2>3, SetStep DEF HandleSet, TypeInv, TypeOK
  <2>5. \A v \in Writes : v # w => UNCHANGED <<reply[v], ver[v], rpc[v]>>
    BY <1>1 DEF HandleSet, TypeInv, TypeOK
  <2> QED
    BY <2>2, <2>3, <2>4, <2>5 DEF Numbered, TypeInv
<1>2. ASSUME NEW w \in Writes, NEW p \in Nodes, HandleReplicate(w, p)
      PROVE  TypeOK' /\ Numbered'
  <2>1. PICK s \in RpcState : rpc' = [rpc EXCEPT ![w][p] = s]
    BY <1>2 DEF HandleReplicate, RpcState
  <2>2. TypeOK'
    BY <1>2, <2>1, ReplicateStep DEF HandleReplicate, TypeInv, TypeOK
  <2>3. \A v \in Writes : v # w => rpc'[v] = rpc[v]
    BY <2>1 DEF TypeInv, TypeOK
  <2> QED
    BY <1>2, <2>2, <2>3, ReplicateStep DEF HandleReplicate, Numbered, TypeInv
<1>3. ASSUME NEW w \in Writes, NEW p \in Nodes, Confirm(w, p) \/ ReplicateFails(w, p)
      PROVE  TypeOK' /\ Numbered'
  <2>1. PICK s \in Ended : rpc' = [rpc EXCEPT ![w][p] = s]
    BY <1>3, ResultStep DEF CallEnds, ClientHears
  <2>2. PICK t \in {"pending", "created", "error"} : reply' = [reply EXCEPT ![w] = t]
    BY <1>3, ResultStep DEF CallEnds, ClientHears
  <2>3. failures' \in 0 .. MaxFailures
    BY <1>3, FailureAssumption DEF Confirm, ReplicateFails, TypeInv, TypeOK
  <2>4. s \in RpcState
    BY DEF Ended, RpcState
  <2>5. rpc' \in [Writes -> [Nodes -> RpcState]]
    BY <2>1, <2>4 DEF TypeInv, TypeOK
  <2>6. TypeOK'
    BY <1>3, <2>2, <2>3, <2>5, ResultStep DEF TypeInv, TypeOK
  <2>7. /\ reply'[w] # "none"
        /\ \A v \in Writes : v # w => UNCHANGED <<reply[v], rpc[v]>>
    BY <2>1, <2>2 DEF TypeInv, TypeOK
  <2> QED
    BY <1>3, <2>6, <2>7, ResultStep DEF Numbered, TypeInv
<1>4. CASE UNCHANGED vars
  BY <1>4 DEF vars, TypeInv, TypeOK, Numbered
<1> QED
  BY <1>1, <1>2, <1>3, <1>4 DEF Next

\* Every variable keeps its type, whatever calls fail.
THEOREM TypeCorrect == Spec => []TypeOK
<1>1. TypeInv => TypeOK
  BY DEF TypeInv
<1> QED
  BY <1>1, TypeInit, TypeNext, PTL DEF Spec

-----------------------------------------------------------------------------
(* Stores only advance *)

\* A step that changes an entry raises its version.
Advance ==
  \A n \in Nodes, k \in Keys :
    data'[n][k] # data[n][k] => data'[n][k].version > data[n][k].version

LEMMA AdvanceNext == TypeInv /\ [Next]_vars => Advance
<1> SUFFICES ASSUME TypeInv, [Next]_vars PROVE Advance
  OBVIOUS
<1>1. ASSUME NEW w \in Writes, HandleSet(w) PROVE Advance
  <2>1. VersionAt(at[w], w) \in Nat
    BY KeyOfType, VersionType DEF TypeInv, TypeOK, VersionAt
  <2>2. data'[at[w]][KeyOf[w]] = [value |-> w, version |-> VersionAt(at[w], w) + 1]
    BY <1>1, SetStep
  <2>3. data'[at[w]][KeyOf[w]].version > data[at[w]][KeyOf[w]].version
    BY <2>1, <2>2 DEF VersionAt
  <2>4. \A n \in Nodes, k \in Keys :
          <<n, k>> # <<at[w], KeyOf[w]>> => data'[n][k] = data[n][k]
    BY <1>1, SetStep
  <2> QED
    BY <2>3, <2>4 DEF Advance
<1>2. ASSUME NEW w \in Writes, NEW p \in Nodes, HandleReplicate(w, p) PROVE Advance
  <2>1. VersionAt(p, w) \in Nat /\ ver[w] \in Nat
    BY KeyOfType, VersionType DEF TypeInv, TypeOK, VersionAt
  <2>2. data'[p][KeyOf[w]] = IF VersionAt(p, w) >= ver[w] THEN data[p][KeyOf[w]]
                                ELSE [value |-> w, version |-> ver[w]]
    BY <1>2, ReplicateStep
  <2>3. \/ data'[p][KeyOf[w]] = data[p][KeyOf[w]]
        \/ data'[p][KeyOf[w]].version > data[p][KeyOf[w]].version
    BY <2>1, <2>2 DEF VersionAt
  <2>4. \A n \in Nodes, k \in Keys :
          <<n, k>> # <<p, KeyOf[w]>> => data'[n][k] = data[n][k]
    BY <1>2, ReplicateStep
  <2> QED
    BY <2>3, <2>4 DEF Advance
<1>3. ASSUME NEW w \in Writes, NEW p \in Nodes, Confirm(w, p) \/ ReplicateFails(w, p)
      PROVE  Advance
  BY <1>3 DEF Confirm, ReplicateFails, Advance
<1>4. CASE UNCHANGED vars
  BY <1>4 DEF vars, Advance
<1> QED
  BY <1>1, <1>2, <1>3, <1>4 DEF Next

\* No node ever loses a version it stored, in whatever order calls arrive.
THEOREM StoresOnlyAdvance == Spec => ReplicasOnlyAdvance
<1>1. TypeInv /\ [Next]_vars =>
        [\A n \in Nodes, k \in Keys :
           data'[n][k] # data[n][k] => data'[n][k].version > data[n][k].version]_vars
  BY AdvanceNext DEF Advance
<1> QED
  BY <1>1, TypeInit, TypeNext, PTL DEF Spec, ReplicasOnlyAdvance

\* As versions: every node is at least where it was.
LEMMA NoVersionLost ==
  ASSUME TypeInv, [Next]_vars, NEW n \in Nodes, NEW w \in Writes
  PROVE  /\ VersionAt(n, w) \in Nat /\ VersionAt(n, w)' \in Nat
         /\ VersionAt(n, w)' >= VersionAt(n, w)
<1>1. KeyOf[w] \in Keys /\ data[n][KeyOf[w]].version \in Nat
  BY KeyOfType, VersionType DEF TypeInv
<1>2. data'[n][KeyOf[w]].version \in Nat
  <2>1. TypeOK'
    BY TypeNext DEF TypeInv
  <2>2. data'[n][KeyOf[w]] \in Entry
    BY <1>1, <2>1 DEF TypeOK, StoreMap
  <2> QED
    BY <2>2, EntryVersion
<1>3. KeyOf[w]' = KeyOf[w]
  OBVIOUS
<1> QED
  BY <1>1, <1>2, <1>3, AdvanceNext DEF Advance, VersionAt

-----------------------------------------------------------------------------
(* The invariant of the writes *)

\* W = N: a confirmed write is at every node.
LEMMA Coverage == WriteInv => AckCoverage
<1> SUFFICES ASSUME WriteInv, NEW w \in Writes, reply[w] = "created", NEW n \in Nodes
             PROVE  VersionAt(n, w) >= ver[w]
  BY DEF AckCoverage
<1>1. CASE n = at[w]
  BY <1>1 DEF WriteInv, Delivered
<1>2. CASE n # at[w]
  BY <1>2 DEF WriteInv, Delivered, AllAgreed, Peers
<1> QED
  BY <1>1, <1>2

LEMMA WriteInit == Init => WriteInv
<1> SUFFICES ASSUME Init PROVE WriteInv
  OBVIOUS
<1>1. TypeInv
  BY TypeInit
<1>2. Delivered /\ AllAgreed /\ NumberedApart /\ AfterConfirmed
  BY DEF Init, Delivered, AllAgreed, NumberedApart, AfterConfirmed, Peers
<1>3. Genuine
  BY NewIsMap DEF Init, Genuine
<1> QED
  BY <1>1, <1>2, <1>3 DEF WriteInv

\* A coordinator takes a write.
LEMMA SetKeeps ==
  ASSUME WriteInv, NEW w \in Writes, HandleSet(w)
  PROVE  /\ Delivered' /\ AllAgreed' /\ Genuine'
         /\ NumberedApart' /\ AfterConfirmed'
<1> DEFINE m == VersionAt(at[w], w)
<1>1. TypeInv /\ TypeInv' /\ [Next]_vars
  BY TypeNext DEF WriteInv, Next
<1>2. /\ m \in Nat /\ at[w] \in Nodes
      /\ \A v \in Writes : ver[v] \in Nat
  BY <1>1, KeyOfType, VersionType DEF TypeInv, TypeOK, VersionAt
<1>3. reply[w] = "none" /\ ver[w] = 0 /\ \A p \in Nodes : rpc[w][p] = "open"
  BY <1>1 DEF HandleSet, TypeInv, Numbered
<1>4. /\ ver'[w] = m + 1
      /\ \A v \in Writes : v # w => ver'[v] = ver[v] /\ reply'[v] = reply[v]
                                    /\ after'[v] = after[v]
      /\ reply'[w] = IF Peers(at[w]) = {} THEN "created" ELSE "pending"
      /\ after'[w] = {x \in Writes : reply[x] = "created"}
      /\ UNCHANGED <<at, rpc>>
  <2>1. ver' = [ver EXCEPT ![w] = m + 1]
    BY <1>1, SetStep
  <2> HIDE DEF m
  <2> QED
    BY <1>1, <2>1 DEF HandleSet, TypeInv, TypeOK
<1>5. VersionAt(at[w], w)' = m + 1
  <2>1. data'[at[w]][KeyOf[w]] = [value |-> w, version |-> m + 1]
    BY <1>1, SetStep
  <2> HIDE DEF m
  <2>2. data'[at[w]][KeyOf[w]].version = m + 1
    BY <2>1
  <2> QED
    BY <1>4, <2>2 DEF VersionAt
<1>6. \A n \in Nodes, v \in Writes :
        /\ VersionAt(n, v) \in Nat /\ VersionAt(n, v)' \in Nat
        /\ VersionAt(n, v)' >= VersionAt(n, v)
  BY <1>1, NoVersionLost
<1>7. VersionAt(at[w], w) = m
  OBVIOUS
<1> HIDE DEF m
<1>8. Delivered'
  <2>1. ASSUME NEW v \in Writes, reply'[v] # "none"
        PROVE  VersionAt(at[v], v)' >= ver'[v]
    <3>1. CASE v = w
      BY <1>2, <1>4, <1>5, <3>1
    <3>2. CASE v # w
      <4>1. at[v] \in Nodes /\ VersionAt(at[v], v) >= ver[v]
        BY <1>1, <1>4, <2>1, <3>2 DEF WriteInv, Delivered, TypeInv, TypeOK
      <4>2. VersionAt(at[v], v)' >= VersionAt(at[v], v)
        BY <1>6, <1>4, <4>1 DEF VersionAt
      <4> QED
        BY <1>2, <1>4, <1>6, <3>2, <4>1, <4>2
    <3> QED
      BY <3>1, <3>2
  <2>2. ASSUME NEW v \in Writes, NEW p \in Peers(at[v]), rpc[v][p] \in {"applied", "ok"}
        PROVE  VersionAt(p, v)' >= ver'[v]
    <3>1. p \in Nodes /\ v # w
      BY <1>3, <2>2 DEF Peers
    <3>2. VersionAt(p, v) >= ver[v]
      BY <2>2 DEF WriteInv, Delivered
    <3> QED
      BY <1>2, <1>4, <1>6, <3>1, <3>2
  <2> QED
    BY <1>4, <2>1, <2>2 DEF Delivered, Peers
<1>9. AllAgreed'
  BY <1>4 DEF WriteInv, AllAgreed, Peers
<1>10. Genuine'
  <2> SUFFICES ASSUME NEW n \in Nodes, NEW k \in Keys, data'[n][k] # Absent
               PROVE  /\ KeyOf[data'[n][k].value] = k
                      /\ ver'[data'[n][k].value] = data'[n][k].version
    BY DEF Genuine
  <2>1. CASE <<n, k>> = <<at[w], KeyOf[w]>>
    <3>1. data'[n][k] = [value |-> w, version |-> m + 1]
      BY <1>1, <2>1, SetStep DEF m
    <3> QED
      BY <1>4, <2>1, <3>1
  <2>2. CASE <<n, k>> # <<at[w], KeyOf[w]>>
    <3>1. data'[n][k] = data[n][k]
      BY <1>1, <2>2, SetStep
    <3>2. /\ data[n][k].value \in Writes
          /\ data[n][k].version # 0
          /\ KeyOf[data[n][k].value] = k
          /\ ver[data[n][k].value] = data[n][k].version
      BY <1>1, <3>1, VersionType DEF WriteInv, Genuine, TypeInv
    <3>3. data[n][k].value # w
      BY <1>3, <3>2
    <3> QED
      BY <1>4, <3>1, <3>2, <3>3
  <2> QED
    BY <2>1, <2>2
<1>11. NumberedApart'
  <2> SUFFICES ASSUME NEW v \in Writes, NEW u \in Writes,
                      v # u, at[v] = at[u], KeyOf[v] = KeyOf[u], ver'[v] # 0
               PROVE  ver'[v] # ver'[u]
    BY <1>4 DEF NumberedApart
  <2>1. \A x \in Writes : x # w /\ at[x] = at[w] /\ KeyOf[x] = KeyOf[w] => ver[x] <= m
    <3> SUFFICES ASSUME NEW x \in Writes, x # w, at[x] = at[w], KeyOf[x] = KeyOf[w]
                 PROVE  ver[x] <= m
      OBVIOUS
    <3>1. VersionAt(at[x], x) = m
      BY <1>7 DEF VersionAt
    <3>2. CASE reply[x] = "none"
      BY <1>1, <1>2, <3>2 DEF TypeInv, Numbered
    <3>3. CASE reply[x] # "none"
      BY <1>2, <3>1, <3>3 DEF WriteInv, Delivered
    <3> QED
      BY <3>2, <3>3
  <2>2. CASE v = w
    BY <1>2, <1>4, <2>1, <2>2
  <2>3. CASE u = w
    BY <1>2, <1>4, <2>1, <2>3
  <2>4. CASE v # w /\ u # w
    BY <1>4, <2>4 DEF WriteInv, NumberedApart
  <2> QED
    BY <2>2, <2>3, <2>4
<1>12. AfterConfirmed'
  <2> SUFFICES ASSUME NEW v \in Writes, NEW x \in after'[v]
               PROVE  /\ reply'[v] # "none" /\ reply'[x] = "created"
                      /\ KeyOf[x] = KeyOf[v] => ver'[x] < ver'[v]
    BY DEF AfterConfirmed
  <2>1. CASE v = w
    <3>1. x \in Writes /\ reply[x] = "created" /\ x # w
      BY <1>3, <1>4, <2>1
    <3>2. ver[x] <= VersionAt(at[w], x)
      BY <1>2, <3>1, Coverage DEF AckCoverage, WriteInv
    <3>3. KeyOf[x] = KeyOf[w] => VersionAt(at[w], x) = m
      BY <1>7 DEF VersionAt
    <3> QED
      BY <1>2, <1>4, <2>1, <3>1, <3>2, <3>3
  <2>2. CASE v # w
    <3>1. x \in after[v] /\ x \in Writes
      BY <1>1, <1>4, <2>2 DEF TypeInv, TypeOK
    <3>2. /\ reply[v] # "none" /\ reply[x] = "created"
          /\ KeyOf[x] = KeyOf[v] => ver[x] < ver[v]
      BY <3>1 DEF WriteInv, AfterConfirmed
    <3> QED
      BY <1>3, <1>4, <2>2, <3>1, <3>2
  <2> QED
    BY <2>1, <2>2
<1> QED
  BY <1>8, <1>9, <1>10, <1>11, <1>12

\* A peer applies a write.
LEMMA ReplicateKeeps ==
  ASSUME WriteInv, NEW w \in Writes, NEW p \in Nodes, HandleReplicate(w, p)
  PROVE  /\ Delivered' /\ AllAgreed' /\ Genuine'
         /\ NumberedApart' /\ AfterConfirmed'
<1>1. TypeInv /\ [Next]_vars
  BY DEF WriteInv, Next
<1>2. /\ ver[w] \in Nat \ {0} /\ reply[w] # "none" /\ p \in Peers(at[w])
      /\ rpc[w][p] \in {"open", "orphan"}
      /\ UNCHANGED <<at, ver, reply, after>>
  BY <1>1, ReplicateStep DEF HandleReplicate
<1>3. \A v \in Writes, q \in Nodes :
        /\ <<v, q>> # <<w, p>> => rpc'[v][q] = rpc[v][q]
        /\ v # w => rpc'[v] = rpc[v]
  BY <1>1 DEF HandleReplicate, TypeInv, TypeOK
<1>4. \A n \in Nodes, v \in Writes :
        /\ VersionAt(n, v) \in Nat /\ VersionAt(n, v)' \in Nat
        /\ VersionAt(n, v)' >= VersionAt(n, v)
  BY <1>1, NoVersionLost
<1>5. \A v \in Writes : ver[v] \in Nat /\ at[v] \in Nodes
  BY <1>1 DEF TypeInv, TypeOK
<1>6. Delivered'
  <2>1. ASSUME NEW v \in Writes, reply'[v] # "none"
        PROVE  VersionAt(at[v], v)' >= ver[v]
    <3>1. VersionAt(at[v], v) >= ver[v]
      BY <1>2, <2>1 DEF WriteInv, Delivered
    <3>2. VersionAt(at[v], v)' >= VersionAt(at[v], v)
      BY <1>2, <1>4, <1>5 DEF VersionAt
    <3> QED
      BY <1>4, <1>5, <1>2, <3>1, <3>2
  <2>2. ASSUME NEW v \in Writes, NEW q \in Peers(at[v]), rpc'[v][q] \in {"applied", "ok"}
        PROVE  VersionAt(q, v)' >= ver[v]
    <3>1. CASE <<v, q>> = <<w, p>>
      <4>1. VersionAt(p, w) \in Nat
        BY <1>4
      <4>2. data'[p][KeyOf[w]] = IF VersionAt(p, w) >= ver[w] THEN data[p][KeyOf[w]]
                                    ELSE [value |-> w, version |-> ver[w]]
        BY <1>1, ReplicateStep
      <4>3. data'[p][KeyOf[w]].version >= ver[w]
        BY <1>2, <4>1, <4>2 DEF VersionAt
      <4> QED
        BY <3>1, <4>3 DEF VersionAt
    <3>2. CASE <<v, q>> # <<w, p>>
      <4>1. VersionAt(q, v) >= ver[v]
        BY <1>3, <2>2, <3>2 DEF WriteInv, Delivered, Peers
      <4> QED
        BY <1>4, <1>5, <4>1 DEF Peers
    <3> QED
      BY <3>1, <3>2
  <2> QED
    BY <1>2, <2>1, <2>2 DEF Delivered, Peers
<1>7. AllAgreed'
  <2> SUFFICES ASSUME NEW v \in Writes, reply[v] = "created", NEW q \in Peers(at[v])
               PROVE  rpc'[v][q] = "ok"
    BY <1>2 DEF AllAgreed, Peers
  <2>1. \A r \in Peers(at[v]) : rpc[v][r] = "ok"
    BY DEF WriteInv, AllAgreed
  <2> QED
    BY <1>2, <1>3, <2>1
<1>8. Genuine'
  <2> SUFFICES ASSUME NEW n \in Nodes, NEW k \in Keys, data'[n][k] # Absent
               PROVE  /\ KeyOf[data'[n][k].value] = k
                      /\ ver[data'[n][k].value] = data'[n][k].version
    BY <1>2 DEF Genuine
  <2>1. \/ data'[n][k] = data[n][k]
        \/ k = KeyOf[w] /\ data'[n][k] = [value |-> w, version |-> ver[w]]
    BY <1>1, ReplicateStep
  <2> QED
    BY <2>1 DEF WriteInv, Genuine
<1>9. NumberedApart' /\ AfterConfirmed'
  BY <1>2 DEF WriteInv, NumberedApart, AfterConfirmed
<1> QED
  BY <1>6, <1>7, <1>8, <1>9

\* A coordinator has the result of a call.
LEMMA ResultKeeps ==
  ASSUME WriteInv, NEW w \in Writes, NEW p \in Nodes,
         Confirm(w, p) \/ ReplicateFails(w, p)
  PROVE  /\ Delivered' /\ AllAgreed' /\ Genuine'
         /\ NumberedApart' /\ AfterConfirmed'
<1>1. TypeInv
  BY DEF WriteInv
<1>2. /\ p \in Peers(at[w]) /\ reply[w] # "none" /\ rpc[w][p] \in {"open", "applied"}
      /\ UNCHANGED <<data, at, ver, after>>
  BY <1>1, ResultStep
<1>3. PICK s \in Ended : /\ rpc' = [rpc EXCEPT ![w][p] = s]
                         /\ s = "ok" => rpc[w][p] = "applied"
  BY <1>1, ResultStep DEF CallEnds
<1>4. PICK t \in {"pending", "created", "error"} :
        /\ reply' = [reply EXCEPT ![w] = t]
        /\ t = "created" =>
             rpc'[w][p] = "ok" /\ \A q \in Peers(at[w]) \ {p} : rpc[w][q] = "ok"
  BY <1>1, ResultStep DEF ClientHears
<1>5. /\ \A v \in Writes : v # w => rpc'[v] = rpc[v] /\ reply'[v] = reply[v]
      /\ \A q \in Nodes : q # p => rpc'[w][q] = rpc[w][q]
      /\ rpc'[w][p] = s /\ reply'[w] = t
  BY <1>1, <1>3, <1>4 DEF TypeInv, TypeOK
<1>6. reply[w] # "created"
  BY <1>2 DEF WriteInv, AllAgreed
<1>7. Delivered'
  <2>1. ASSUME NEW v \in Writes
        PROVE  /\ reply'[v] # "none" => reply[v] # "none"
               /\ \A q \in Peers(at[v]) :
                    rpc'[v][q] \in {"applied", "ok"} => rpc[v][q] \in {"applied", "ok"}
    <3>1. CASE v = w
      BY <1>2, <1>3, <1>5, <3>1 DEF Ended, Peers
    <3>2. CASE v # w
      BY <1>5, <3>2
    <3> QED
      BY <3>1, <3>2
  <2>2. \A n \in Nodes, v \in Writes : VersionAt(n, v)' = VersionAt(n, v)
    BY <1>2 DEF VersionAt
  <2> QED
    BY <1>1, <1>2, <2>1, <2>2 DEF WriteInv, Delivered, Peers, TypeInv, TypeOK
<1>8. AllAgreed'
  <2> SUFFICES ASSUME NEW v \in Writes, reply'[v] = "created", NEW q \in Peers(at[v])
               PROVE  rpc'[v][q] = "ok"
    BY <1>2 DEF AllAgreed, Peers
  <2>1. CASE v = w
    BY <1>4, <1>5, <2>1 DEF Peers
  <2>2. CASE v # w
    BY <1>5, <2>2 DEF WriteInv, AllAgreed
  <2> QED
    BY <2>1, <2>2
<1>9. Genuine' /\ NumberedApart'
  BY <1>2 DEF WriteInv, Genuine, NumberedApart
<1>10. AfterConfirmed'
  <2> SUFFICES ASSUME NEW v \in Writes, NEW x \in after[v]
               PROVE  /\ reply'[v] # "none" /\ reply'[x] = "created"
                      /\ KeyOf[x] = KeyOf[v] => ver[x] < ver[v]
    BY <1>2 DEF AfterConfirmed
  <2>1. /\ x \in Writes /\ reply[v] # "none" /\ reply[x] = "created"
        /\ KeyOf[x] = KeyOf[v] => ver[x] < ver[v]
    BY <1>1 DEF WriteInv, AfterConfirmed, TypeInv, TypeOK
  <2> QED
    BY <1>4, <1>5, <1>6, <2>1
<1> QED
  BY <1>7, <1>8, <1>9, <1>10

LEMMA WriteNext == WriteInv /\ [Next]_vars => WriteInv'
<1> SUFFICES ASSUME WriteInv, [Next]_vars PROVE WriteInv'
  OBVIOUS
<1>1. TypeInv'
  BY TypeNext DEF WriteInv
<1>2. CASE UNCHANGED vars
  BY <1>1, <1>2 DEF vars, WriteInv, Delivered, AllAgreed, Genuine, NumberedApart,
                    AfterConfirmed, VersionAt, Peers
<1>3. CASE Next
  <2>1. ASSUME NEW w \in Writes, HandleSet(w) PROVE WriteInv'
    BY <1>1, <2>1, SetKeeps DEF WriteInv
  <2>2. ASSUME NEW w \in Writes, NEW p \in Nodes, HandleReplicate(w, p) PROVE WriteInv'
    BY <1>1, <2>2, ReplicateKeeps DEF WriteInv
  <2>3. ASSUME NEW w \in Writes, NEW p \in Nodes, Confirm(w, p) \/ ReplicateFails(w, p)
        PROVE  WriteInv'
    BY <1>1, <2>3, ResultKeeps DEF WriteInv
  <2> QED
    BY <1>3, <2>1, <2>2, <2>3 DEF Next
<1> QED
  BY <1>2, <1>3

-----------------------------------------------------------------------------
(* What holds of every behaviour *)

\* Once a client has its 201, every node shows that write or a later version.
THEOREM AnswersAreCovered == Spec => []AckCoverage
BY Coverage, WriteInit, WriteNext, PTL DEF Spec

\* Versions respect real time across coordinators, with no clock shared.
THEOREM LaterWritesAreNewer == Spec => []LaterWritesGetHigherVersions
<1>1. WriteInv => LaterWritesGetHigherVersions
  BY DEF WriteInv, TypeInv, TypeOK, AfterConfirmed, LaterWritesGetHigherVersions
<1> QED
  BY <1>1, WriteInit, WriteNext, PTL DEF Spec

\* A key that one node coordinates has one value under each version.
LEMMA OneCoordinator == WriteInv => OneCoordinatorAgrees
<1> SUFFICES ASSUME WriteInv, NEW k \in Keys,
                    \A v, w \in Writes : KeyOf[v] = k /\ KeyOf[w] = k => at[v] = at[w],
                    NEW m \in Nodes, NEW n \in Nodes,
                    data[m][k].version = data[n][k].version
             PROVE  data[m][k] = data[n][k]
  BY DEF OneCoordinatorAgrees
<1>1. data[m][k] \in Entry /\ data[n][k] \in Entry
  BY VersionType DEF WriteInv, TypeInv
<1>2. CASE data[m][k].version = 0
  BY <1>1, <1>2, EntryVersion
<1>3. CASE data[m][k].version # 0
  <2>1. data[m][k] # Absent /\ data[n][k] # Absent
    BY <1>1, <1>3, EntryVersion
  <2>2. data[m][k].value \in Writes /\ data[n][k].value \in Writes
    BY <1>1, <2>1, EntryVersion
  <2>3. /\ KeyOf[data[m][k].value] = k /\ ver[data[m][k].value] = data[m][k].version
        /\ KeyOf[data[n][k].value] = k /\ ver[data[n][k].value] = data[n][k].version
    BY <2>1 DEF WriteInv, Genuine
  <2>4. data[m][k].value = data[n][k].value
    BY <1>3, <2>2, <2>3 DEF WriteInv, NumberedApart
  <2> QED
    BY <1>1, <2>1, <2>4 DEF Entry
<1> QED
  BY <1>2, <1>3

THEOREM OneCoordinatorIsEnough == Spec => []OneCoordinatorAgrees
BY OneCoordinator, WriteInit, WriteNext, PTL DEF Spec

\* When all writes sent are confirmed, no node is behind another.
LEMMA Converged == WriteInv => ConfirmedVersionsConverge
<1> SUFFICES ASSUME WriteInv, \A w \in Writes : reply[w] \in {"none", "created"}
             PROVE  \A m, n \in Nodes, k \in Keys : data[m][k].version = data[n][k].version
  BY DEF ConfirmedVersionsConverge
<1>1. \A n \in Nodes, k \in Keys : data[n][k].version \in Nat
  BY VersionType DEF WriteInv, TypeInv
<1>2. ASSUME NEW m \in Nodes, NEW n \in Nodes, NEW k \in Keys
      PROVE  data[n][k].version >= data[m][k].version
  <2>1. CASE data[m][k] = Absent
    BY <1>1, <2>1 DEF Absent
  <2>2. CASE data[m][k] # Absent
    <3> DEFINE w == data[m][k].value
    <3>1. w \in Writes /\ data[m][k].version # 0
      BY <2>2, VersionType DEF WriteInv, TypeInv
    <3>2. KeyOf[w] = k /\ ver[w] = data[m][k].version
      BY <2>2 DEF WriteInv, Genuine
    <3> HIDE DEF w
    <3>3. reply[w] = "created"
      BY <3>1, <3>2 DEF WriteInv, TypeInv, Numbered
    <3>4. VersionAt(n, w) >= ver[w]
      BY <3>1, <3>3, Coverage DEF AckCoverage
    <3> QED
      BY <3>2, <3>4 DEF VersionAt
  <2> QED
    BY <2>1, <2>2
<1> QED
  BY <1>1, <1>2

\* W = N converges to one version of each key, whatever overlapped.
THEOREM VersionsConverge == Spec => []ConfirmedVersionsConverge
BY Converged, WriteInit, WriteNext, PTL DEF Spec

-----------------------------------------------------------------------------
(***************************************************************************)
(* What the load tester's verdicts are worth, for any number of nodes,     *)
(* keys, writes, reads and failures: it compares a count with a version,   *)
(* and the count stays below the versions that were confirmed.             *)
(***************************************************************************)

Confirmed == {w \in Writes : reply[w] = "created"}

CountedOf(k) == {w \in counted : KeyOf[w] = k}

\* What is known of a key is how many of its confirmed writes were counted.
CountsConfirmed ==
  /\ counted \subseteq Confirmed
  /\ \A k \in Keys : known[k] = Cardinality(CountedOf(k))

\* The entry a read got covers what was confirmed when its node answered, and a
\* stale verdict stays true of the count, which only grows.
ReadsCovered ==
  \A r \in Reads :
    /\ read[r].confirmed \subseteq Confirmed
    /\ \A w \in read[r].confirmed :
         KeyOf[w] = read[r].key => ver[w] <= read[r].entry.version
    /\ read[r].stale => read[r].entry.version < known[read[r].key]
    /\ read[r].state # "judged" => ~read[r].stale

LoadInv == WriteInv /\ LoadTypeOK /\ CountsConfirmed /\ ReadsCovered

-----------------------------------------------------------------------------
(* Counts *)

LEMMA CountFinite ==
  ASSUME counted \subseteq Writes, NEW k
  PROVE  /\ IsFiniteSet(CountedOf(k))
         /\ Cardinality(CountedOf(k)) \in 0 .. Cardinality(Writes)
<1>1. CountedOf(k) \in SUBSET Writes
  BY DEF CountedOf
<1>2. /\ IsFiniteSet(CountedOf(k))
      /\ Cardinality(CountedOf(k)) <= Cardinality(Writes)
  BY <1>1, WritesAssumption, FS_Subset
<1>3. Cardinality(CountedOf(k)) \in Nat /\ Cardinality(Writes) \in Nat
  BY <1>2, WritesAssumption, FS_CardinalityType
<1> QED BY <1>2, <1>3

\* More confirmed writes than v, numbered apart by one node, have one above v.
LEMMA SomeVersionAbove ==
  ASSUME WriteInv, counted \subseteq Confirmed, NEW k \in Keys, NEW v \in Nat,
         v < Cardinality(CountedOf(k)),
         \A x, w \in Writes : KeyOf[x] = k /\ KeyOf[w] = k => at[x] = at[w]
  PROVE  \E w \in CountedOf(k) : ver[w] > v
<1> DEFINE S == CountedOf(k)
<1>1. S \subseteq Writes /\ counted \subseteq Writes
  BY DEF CountedOf, Confirmed
<1>2. IsFiniteSet(S)
  BY <1>1, CountFinite
<1>3. \A w \in S : ver[w] \in Nat /\ ver[w] # 0
  BY <1>1 DEF CountedOf, Confirmed, WriteInv, TypeInv, TypeOK, Numbered
<1>4. \A x, w \in S : x # w => ver[x] # ver[w]
  BY <1>1, <1>3 DEF CountedOf, WriteInv, NumberedApart
<1> SUFFICES ASSUME \A w \in S : ~(ver[w] > v) PROVE FALSE
  OBVIOUS
<1> DEFINE f == [w \in S |-> ver[w]]
<1>5. f \in [S -> 1 .. v]
  BY <1>3
<1>6. IsFiniteSet(1 .. v) /\ Cardinality(1 .. v) = v
  BY FS_Interval
<1>7. \E x, w \in S : x # w /\ f[x] = f[w]
  <2> HIDE DEF S, f
  <2> QED BY <1>2, <1>5, <1>6, FS_PigeonHole DEF S
<1> QED BY <1>4, <1>7

-----------------------------------------------------------------------------
(* Steps *)

\* The store's own steps take back no confirmation and renumber no confirmed write.
LEMMA ConfirmationsStay ==
  ASSUME WriteInv, [Next]_vars
  PROVE  /\ Confirmed \subseteq Confirmed'
         /\ \A w \in Confirmed : ver'[w] = ver[w]
<1>1. ASSUME NEW w \in Writes, HandleSet(w)
      PROVE  \A x \in Confirmed : reply'[x] = "created" /\ ver'[x] = ver[x]
  BY <1>1 DEF HandleSet, Confirmed, WriteInv, TypeInv, TypeOK
<1>2. ASSUME NEW w \in Writes, NEW p \in Nodes, HandleReplicate(w, p)
      PROVE  \A x \in Confirmed : reply'[x] = "created" /\ ver'[x] = ver[x]
  BY <1>2 DEF HandleReplicate, Confirmed
<1>3. ASSUME NEW w \in Writes, NEW p \in Nodes, Confirm(w, p) \/ ReplicateFails(w, p)
      PROVE  \A x \in Confirmed : reply'[x] = "created" /\ ver'[x] = ver[x]
  <2>1. p \in Peers(at[w]) /\ rpc[w][p] # "ok" /\ ver' = ver /\ ClientHears(w, p)
    BY <1>3, ResultStep DEF WriteInv
  <2>2. reply[w] # "created"
    BY <2>1 DEF WriteInv, AllAgreed
  <2> QED BY <2>1, <2>2 DEF ClientHears, Confirmed, WriteInv, TypeInv, TypeOK
<1>4. ASSUME UNCHANGED vars
      PROVE  \A x \in Confirmed : reply'[x] = "created" /\ ver'[x] = ver[x]
  BY <1>4 DEF vars, Confirmed
<1> QED BY <1>1, <1>2, <1>3, <1>4 DEF Next, Confirmed

LEMMA LoadInvInit == LoadInit => LoadInv
<1> SUFFICES ASSUME LoadInit PROVE LoadInv
  OBVIOUS
<1>1. WriteInv
  BY WriteInit DEF LoadInit
<1>2. \A k : CountedOf(k) = {}
  BY DEF CountedOf, LoadInit
<1>3. Cardinality({}) = 0 /\ Cardinality(Writes) \in Nat
  BY WritesAssumption, FS_EmptySet, FS_CardinalityType
<1>4. CountsConfirmed
  BY <1>2, <1>3 DEF CountsConfirmed, LoadInit
<1>5. \A r \in Reads : /\ read[r] \in ReadState
                       /\ read[r].confirmed = {}
                       /\ read[r].stale = FALSE
  <2> SUFFICES ASSUME NEW r \in Reads
               PROVE  /\ read[r] \in ReadState
                      /\ read[r].confirmed = {} /\ read[r].stale = FALSE
    OBVIOUS
  <2>1. PICK k \in Keys : read[r] = [state |-> "none", key |-> k, entry |-> Absent,
                                   stale |-> FALSE, confirmed |-> {}]
    BY DEF LoadInit
  <2>2. Absent \in Entry
    BY DEF Entry
  <2> QED BY <2>1, <2>2 DEF ReadState
<1>6. ReadsCovered
  BY <1>5 DEF ReadsCovered
<1>7. read \in [Reads -> ReadState]
  BY <1>5 DEF LoadInit
<1>8. LoadTypeOK
  BY <1>1, <1>3, <1>7 DEF LoadTypeOK, LoadInit, WriteInv, TypeInv
<1> QED BY <1>1, <1>4, <1>6, <1>8 DEF LoadInv

LEMMA StoreStepKeeps ==
  ASSUME LoadInv, [Next]_vars, UNCHANGED loadVars
  PROVE  LoadInv'
<1>1. WriteInv' /\ TypeOK'
  BY WriteNext DEF LoadInv, WriteInv, TypeInv
<1>2. known' = known /\ counted' = counted /\ read' = read
  BY DEF loadVars
<1>3. Confirmed \subseteq Confirmed' /\ \A w \in Confirmed : ver'[w] = ver[w]
  BY ConfirmationsStay DEF LoadInv
<1>4. LoadTypeOK'
  BY <1>1, <1>2 DEF LoadInv, LoadTypeOK
<1>5. \A k : CountedOf(k)' = CountedOf(k)
  BY <1>2 DEF CountedOf
<1>6. CountsConfirmed'
  BY <1>2, <1>3, <1>5 DEF LoadInv, CountsConfirmed
<1>7. ReadsCovered'
  BY <1>2, <1>3 DEF LoadInv, ReadsCovered
<1> QED BY <1>1, <1>4, <1>6, <1>7 DEF LoadInv

LEMMA CountKeeps ==
  ASSUME LoadInv, NEW w \in Writes, CountWrite(w)
  PROVE  LoadInv'
<1>1. UNCHANGED <<data, at, ver, reply, rpc, failures, after, read>>
  BY DEF CountWrite, vars
<1>2. WriteInv'
  BY <1>1, WriteNext DEF LoadInv, vars
<1> DEFINE j == KeyOf[w]
<1>3. j \in Keys /\ w \notin counted /\ w \in Confirmed
  BY KeyOfType DEF CountWrite, Counts, Confirmed
<1>4. counted' = counted \cup {w} /\ known' = [known EXCEPT ![j] = @ + 1]
  BY DEF CountWrite
<1>5. counted \subseteq Writes /\ counted' \subseteq Writes /\ known \in [Keys -> Nat]
  BY <1>4 DEF LoadInv, LoadTypeOK
<1>6. CountedOf(j)' = CountedOf(j) \cup {w} /\ w \notin CountedOf(j)
  BY <1>1, <1>3, <1>4 DEF CountedOf
<1>7. IsFiniteSet(CountedOf(j))
  BY <1>5, CountFinite
<1>8. Cardinality(CountedOf(j)') = Cardinality(CountedOf(j)) + 1
  <2> HIDE DEF j
  <2> QED BY <1>6, <1>7, FS_AddElement
<1>9. \A k \in Keys : k # j => CountedOf(k)' = CountedOf(k)
  BY <1>1, <1>4 DEF CountedOf
<1>10. \A k \in Keys : known'[k] = Cardinality(CountedOf(k)')
  <2> SUFFICES ASSUME NEW k \in Keys PROVE known'[k] = Cardinality(CountedOf(k)')
    OBVIOUS
  <2>1. known[k] = Cardinality(CountedOf(k))
    BY DEF LoadInv, CountsConfirmed
  <2>2. CASE k = j
    BY <1>3, <1>4, <1>5, <1>8, <2>1, <2>2
  <2>3. CASE k # j
    BY <1>4, <1>5, <1>9, <2>1, <2>3
  <2> QED BY <2>2, <2>3
<1>11. Confirmed' = Confirmed
  BY <1>1 DEF Confirmed
<1>12. CountsConfirmed'
  BY <1>3, <1>4, <1>10, <1>11 DEF LoadInv, CountsConfirmed
<1>13. \A k \in Keys : known'[k] \in 0 .. Cardinality(Writes)
  <2> SUFFICES ASSUME NEW k \in Keys PROVE known'[k] \in 0 .. Cardinality(Writes)
    OBVIOUS
  <2>1. (counted \subseteq Writes)'
    BY <1>1, <1>5
  <2>2. Cardinality(CountedOf(k)') \in 0 .. Cardinality(Writes)
    <3>1. CountedOf(k)' \in SUBSET Writes
      BY <1>1, <1>5 DEF CountedOf
    <3>2. /\ IsFiniteSet(CountedOf(k)')
          /\ Cardinality(CountedOf(k)') <= Cardinality(Writes)
      BY <3>1, WritesAssumption, FS_Subset
    <3>3. Cardinality(CountedOf(k)') \in Nat /\ Cardinality(Writes) \in Nat
      BY <3>2, WritesAssumption, FS_CardinalityType
    <3> QED BY <3>2, <3>3
  <2> QED BY <1>10, <2>2
<1>14. LoadTypeOK'
  BY <1>1, <1>4, <1>5, <1>13 DEF LoadInv, LoadTypeOK, TypeOK
<1>15. \A k \in Keys : known[k] \in Nat /\ known'[k] \in Nat /\ known'[k] >= known[k]
  BY <1>3, <1>4, <1>5
<1>16. ReadsCovered'
  <2> SUFFICES ASSUME NEW r \in Reads
               PROVE  /\ read[r].confirmed \subseteq Confirmed
                      /\ \A x \in read[r].confirmed :
                           KeyOf[x] = read[r].key => ver[x] <= read[r].entry.version
                      /\ read[r].stale => read[r].entry.version < known'[read[r].key]
                      /\ read[r].state # "judged" => ~read[r].stale
    BY <1>1, <1>11 DEF ReadsCovered
  <2>1. read[r].key \in Keys /\ read[r].entry.version \in Nat
    BY DEF LoadInv, LoadTypeOK, ReadState, Entry, Absent
  <2> QED BY <1>15, <2>1 DEF LoadInv, ReadsCovered
<1> QED BY <1>2, <1>12, <1>14, <1>16 DEF LoadInv

LEMMA ReadKeeps ==
  ASSUME LoadInv, NEW r \in Reads,
         JudgeRead(r) \/ \E n \in Nodes : NodeAnswers(r, n)
  PROVE  LoadInv'
<1>1. UNCHANGED <<data, at, ver, reply, rpc, failures, after, known, counted>>
  BY DEF JudgeRead, NodeAnswers, vars
<1>2. WriteInv'
  BY <1>1, WriteNext DEF LoadInv, vars
<1>3. Confirmed' = Confirmed /\ \A k : CountedOf(k)' = CountedOf(k)
  BY <1>1 DEF Confirmed, CountedOf
<1>4. CountsConfirmed'
  BY <1>1, <1>3 DEF LoadInv, CountsConfirmed
<1>5. read \in [Reads -> ReadState]
  BY DEF LoadInv, LoadTypeOK
<1>6. read' \in [Reads -> ReadState] /\ \A x \in Reads \ {r} : read'[x] = read[x]
  <2>1. \A n \in Nodes : data[n][read[r].key] \in Entry
    BY <1>5, VersionType DEF LoadInv, LoadTypeOK, ReadState
  <2>2. CASE JudgeRead(r)
    BY ZenonT(40), <1>5, <2>2 DEF JudgeRead, ReadState
  <2>3. CASE \E n \in Nodes : NodeAnswers(r, n)
    <3>1. PICK n \in Nodes : NodeAnswers(r, n)
      BY <2>3
    <3>2. read[r] \in ReadState /\ data[n][read[r].key] \in Entry
      BY <1>5, <2>1
    <3>3. /\ Confirmed \in SUBSET Writes
          /\ read' = [read EXCEPT ![r] =
               [read[r] EXCEPT !.state = "answered", !.entry = data[n][read[r].key],
                               !.confirmed = Confirmed]]
      BY <3>1 DEF NodeAnswers, Confirmed
    <3>4. [read[r] EXCEPT !.state = "answered", !.entry = data[n][read[r].key],
                          !.confirmed = Confirmed] \in ReadState
      <4> HIDE DEF Confirmed
      <4> QED BY <3>2, <3>3 DEF ReadState
    <3> QED BY <1>5, <3>3, <3>4
  <2> QED BY <2>2, <2>3
<1>7. LoadTypeOK'
  BY <1>1, <1>6 DEF LoadInv, LoadTypeOK, TypeOK
<1>8. /\ read'[r].confirmed \subseteq Confirmed
      /\ \A w \in read'[r].confirmed :
           KeyOf[w] = read'[r].key => ver[w] <= read'[r].entry.version
      /\ read'[r].stale => read'[r].entry.version < known[read'[r].key]
      /\ read'[r].state # "judged" => ~read'[r].stale
  <2>1. read[r] \in ReadState /\ read[r].entry.version \in Nat
    BY <1>5 DEF ReadState, Entry, Absent
  <2>2. CASE JudgeRead(r)
    <3>1. /\ read'[r].confirmed = read[r].confirmed
          /\ read'[r].key = read[r].key
          /\ read'[r].entry = read[r].entry
          /\ read'[r].state = "judged"
          /\ read'[r].stale => read[r].entry.version < known[read[r].key]
      BY <1>5, <2>1, <2>2 DEF JudgeRead, ReadState
    <3> QED BY <3>1 DEF LoadInv, ReadsCovered
  <2>3. CASE \E n \in Nodes : NodeAnswers(r, n)
    <3>1. PICK n \in Nodes : NodeAnswers(r, n)
      BY <2>3
    <3>2. /\ read'[r].confirmed = Confirmed
          /\ read'[r].key = read[r].key
          /\ read'[r].entry = data[n][read[r].key]
          /\ read'[r].state = "answered"
          /\ read'[r].stale = read[r].stale
      BY <1>5, <2>1, <3>1 DEF NodeAnswers, ReadState, Confirmed
    <3>3. ~read[r].stale
      BY <3>1 DEF NodeAnswers, LoadInv, ReadsCovered
    <3>4. \A w \in Confirmed : KeyOf[w] = read[r].key => ver[w] <= data[n][read[r].key].version
      <4> SUFFICES ASSUME NEW w \in Confirmed, KeyOf[w] = read[r].key
                   PROVE  ver[w] <= VersionAt(n, w)
        BY DEF VersionAt
      <4>1. w \in Writes /\ VersionAt(n, w) >= ver[w]
        BY Coverage DEF LoadInv, AckCoverage, Confirmed
      <4> QED BY <4>1, KeyOfType, VersionType DEF LoadInv, LoadTypeOK, TypeOK, VersionAt
    <3> QED BY <3>2, <3>3, <3>4
  <2> QED BY <2>2, <2>3
<1>9. ReadsCovered'
  BY <1>1, <1>3, <1>6, <1>8 DEF LoadInv, ReadsCovered
<1> QED BY <1>2, <1>4, <1>7, <1>9 DEF LoadInv

LEMMA LoadInvNext == LoadInv /\ [LoadNext]_<<vars, loadVars>> => LoadInv'
BY StoreStepKeeps, CountKeeps, ReadKeeps DEF LoadNext

-----------------------------------------------------------------------------
(* What holds of every behaviour *)

\* The load tester only watches: a run of it is a behaviour of the store, of
\* which every theorem of LeaderlessProofs holds.
THEOREM OnlyWatches == LoadSpec => Spec
<1>1. LoadInit => Init
  BY DEF LoadInit
<1>2. [LoadNext]_<<vars, loadVars>> => [Next]_vars
  BY DEF LoadNext, CountWrite, JudgeRead, NodeAnswers
<1> QED BY <1>1, <1>2, PTL DEF LoadSpec, Spec

\* Every variable of the store and of the tester keeps its type.
THEOREM LoadTypeCorrect == LoadSpec => []LoadTypeOK
<1>1. LoadInv => LoadTypeOK
  BY DEF LoadInv
<1> QED BY <1>1, LoadInvInit, LoadInvNext, PTL DEF LoadSpec

\* A read the tester calls stale missed a confirmed write of a higher version,
\* and one that was confirmed only after the node had answered.
THEOREM StaleReadsAreReal == LoadSpec => []StaleReadsRaceAWrite
<1>1. LoadInv => StaleReadsRaceAWrite
  <2> SUFFICES ASSUME LoadInv, NEW r \in Reads, read[r].stale,
                      \A v, w \in Writes : KeyOf[v] = read[r].key /\ KeyOf[w] = read[r].key
                                             => at[v] = at[w]
               PROVE  \E w \in Writes : /\ KeyOf[w] = read[r].key
                                        /\ reply[w] = "created"
                                        /\ ver[w] > read[r].entry.version
                                        /\ w \notin read[r].confirmed
    BY DEF StaleReadsRaceAWrite
  <2>1. read[r].key \in Keys /\ read[r].entry.version \in Nat
    BY DEF LoadInv, LoadTypeOK, ReadState, Entry, Absent
  <2>2. read[r].entry.version < Cardinality(CountedOf(read[r].key))
    BY <2>1 DEF LoadInv, ReadsCovered, CountsConfirmed
  <2>3. PICK w \in CountedOf(read[r].key) : ver[w] > read[r].entry.version
    BY <2>1, <2>2, SomeVersionAbove DEF LoadInv, CountsConfirmed
  <2>4. w \in Writes /\ KeyOf[w] = read[r].key /\ reply[w] = "created" /\ ver[w] \in Nat
    BY DEF CountedOf, LoadInv, CountsConfirmed, Confirmed, LoadTypeOK, TypeOK
  <2>5. w \notin read[r].confirmed
    BY <2>1, <2>3, <2>4 DEF LoadInv, ReadsCovered
  <2> QED BY <2>3, <2>4, <2>5
<1> QED BY <1>1, LoadInvInit, LoadInvNext, PTL DEF LoadSpec
=============================================================================
