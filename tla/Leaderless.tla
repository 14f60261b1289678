----------------------------- MODULE Leaderless -----------------------------
(***************************************************************************)
(* The leaderless key-value store of CS6650_hw10/leaderless: the node that *)
(* gets a write coordinates it.  It numbers the write in its own store,    *)
(* sends it to all its peers at once and answers when every call has       *)
(* ended (W = N).  A GET reads the map of the node it reached (R = 1) and  *)
(* changes nothing, so what readers can see is what is said of data.       *)
(***************************************************************************)
EXTENDS Store, FiniteSets

CONSTANTS Nodes,       \* the nodes; every node has all the others as peers
          KeyOf,       \* the key each write is about
          MaxFailures  \* bound on the number of calls that fail

ASSUME KeyAssumption == KeyOf \in [Writes -> Keys]
ASSUME FailureAssumption == MaxFailures \in Nat

VARIABLES
  data,      \* data[n]: the map of node n's store
  at,        \* at[w]: the node the client sends write w to
  ver,       \* ver[w]: the version the coordinator gave w, 0 before it did
  reply,     \* reply[w]: what the client that sent w was told
  rpc,       \* rpc[w][p]: the /replicate call that carries w to p
  failures,  \* number of calls that failed so far
  after      \* ghost, after[w]: writes answered "created" before w was sent

vars == <<data, at, ver, reply, rpc, failures, after>>

Peers(n) == Nodes \ {n}

(***************************************************************************)
(* A /replicate call is "open" until the peer applies it, then "applied",  *)
(* then "ok" when replicateAll has its result.  A call that ended in an    *)
(* error is "orphan" while the peer may still apply it, else "failed".     *)
(***************************************************************************)
RpcState == {"open", "applied", "ok", "orphan", "failed"}
Ended    == {"ok", "orphan", "failed"}

Init ==
  /\ data = [n \in Nodes |-> New]
  /\ at \in [Writes -> Nodes]
  /\ ver = [w \in Writes |-> 0]
  /\ reply = [w \in Writes |-> "none"]
  /\ rpc = [w \in Writes |-> [p \in Nodes |-> "open"]]
  /\ failures = 0
  /\ after = [w \in Writes |-> {}]

\* handleSet up to the fan-out; a node without peers answers at once.
HandleSet(w) ==
  /\ reply[w] = "none"
  /\ ver' = [ver EXCEPT ![w] = NextVersion(data[at[w]], KeyOf[w])]
  /\ data' = [data EXCEPT ![at[w]] = Set(@, KeyOf[w], w)]
  /\ reply' = [reply EXCEPT ![w] = IF Peers(at[w]) = {} THEN "created" ELSE "pending"]
  /\ after' = [after EXCEPT ![w] = {x \in Writes : reply[x] = "created"}]
  /\ UNCHANGED <<at, rpc, failures>>

\* handleReplicate at peer p: 200 whether or not the store took the entry.
HandleReplicate(w, p) ==
  /\ p \in Peers(at[w])
  /\ \/ /\ reply[w] # "none"
        /\ rpc[w][p] = "open"
        /\ rpc' = [rpc EXCEPT ![w][p] = "applied"]
     \/ /\ rpc[w][p] = "orphan"
        /\ rpc' = [rpc EXCEPT ![w][p] = "failed"]
  /\ data' = [data EXCEPT ![p] = SetWithVersion(@, KeyOf[w], w, ver[w])]
  /\ UNCHANGED <<at, ver, reply, failures, after>>

\* What handleSet tells the client of w once the result of the call to p is
\* `outcome`: nothing while a result is missing, "created" if none is an error.
ReplyAfter_AnyResult(w, p, outcome) ==
  IF outcome = "ok" THEN "created" ELSE "error"

ReplyAfter_LastResult(w, p, outcome) ==
  IF \E q \in Peers(at[w]) \ {p} : rpc[w][q] \notin Ended THEN "pending"
  ELSE IF outcome = "ok" THEN "created" ELSE "error"

ReplyAfter_NoErrors(w, p, outcome) ==
  IF outcome = "ok" /\ \A q \in Peers(at[w]) \ {p} : rpc[w][q] = "ok"
  THEN "created" ELSE "pending"

ReplyAfter(w, p, outcome) ==
  LET others == Peers(at[w]) \ {p} IN
    IF \E q \in others : rpc[w][q] \notin Ended THEN "pending"
    ELSE IF outcome = "ok" /\ \A q \in others : rpc[w][q] = "ok"
         THEN "created" ELSE "error"

\* replicateAll receives a success.
Confirm(w, p) ==
  /\ p \in Peers(at[w])
  /\ rpc[w][p] = "applied"
  /\ rpc' = [rpc EXCEPT ![w][p] = "ok"]
  /\ reply' = [reply EXCEPT ![w] = ReplyAfter(w, p, "ok")]
  /\ UNCHANGED <<data, at, ver, failures, after>>

\* replicateAll receives an error; the peer may have applied the entry, may
\* still apply it, or may never see it.
ReplicateFails(w, p) ==
  /\ failures < MaxFailures
  /\ failures' = failures + 1
  /\ p \in Peers(at[w])
  /\ \/ /\ reply[w] # "none"
        /\ rpc[w][p] = "open"
        /\ \E outcome \in {"orphan", "failed"} :
             rpc' = [rpc EXCEPT ![w][p] = outcome]
     \/ /\ rpc[w][p] = "applied"
        /\ rpc' = [rpc EXCEPT ![w][p] = "failed"]
  /\ reply' = [reply EXCEPT ![w] = ReplyAfter(w, p, "error")]
  /\ UNCHANGED <<data, at, ver, after>>

Next ==
  \/ \E w \in Writes : HandleSet(w)
  \/ \E w \in Writes, p \in Nodes :
       \/ HandleReplicate(w, p)
       \/ Confirm(w, p)
       \/ ReplicateFails(w, p)

Spec == Init /\ [][Next]_vars

\* Goroutines and handlers that can run do run; clients need not write, calls
\* need not fail, and an abandoned call need not be applied.
Fairness ==
  \A w \in Writes, p \in Nodes :
    /\ WF_vars(rpc[w][p] = "open" /\ HandleReplicate(w, p))
    /\ WF_vars(Confirm(w, p))

FairSpec == Spec /\ Fairness

-----------------------------------------------------------------------------
TypeOK ==
  /\ data \in [Nodes -> StoreMap]
  /\ at \in [Writes -> Nodes]
  /\ ver \in [Writes -> Nat]
  /\ reply \in [Writes -> {"none", "pending", "created", "error"}]
  /\ rpc \in [Writes -> [Nodes -> RpcState]]
  /\ failures \in 0 .. MaxFailures
  /\ after \in [Writes -> SUBSET Writes]

VersionAt(n, w) == data[n][KeyOf[w]].version

\* W = N: after a 201 every node, asked for the key, shows that write or one
\* with a version at least as high, also when other nodes coordinate writes of
\* the same key at the same time.
AckCoverage ==
  \A w \in Writes : reply[w] = "created" =>
    \A n \in Nodes : VersionAt(n, w) >= ver[w]

\* Versions respect real time across coordinators: a write sent after another
\* write of the key was confirmed, to whatever node, gets a higher version.
\* So only writes that overlap in time can get the same one.
LaterWritesGetHigherVersions ==
  \A w \in Writes : \A x \in after[w] :
    KeyOf[x] = KeyOf[w] => ver[x] < ver[w]

\* A key all whose writes go to one node never has two values under one
\* version, at any node, at any time.
OneCoordinatorAgrees ==
  \A k \in Keys :
    (\A v, w \in Writes : KeyOf[v] = k /\ KeyOf[w] = k => at[v] = at[w]) =>
      \A m, n \in Nodes :
        data[m][k].version = data[n][k].version => data[m][k] = data[n][k]

\* When every write sent has been confirmed, all nodes are at one version of
\* each key.
ConfirmedVersionsConverge ==
  (\A w \in Writes : reply[w] \in {"none", "created"}) =>
    \A m, n \in Nodes, k \in Keys : data[m][k].version = data[n][k].version

\* The claim of the tests, for values: once every write sent has been
\* confirmed, all nodes show the same value of each key.
ConfirmedValuesConverge ==
  (\A w \in Writes : reply[w] \in {"none", "created"}) =>
    \A m, n \in Nodes, k \in Keys : data[m][k] = data[n][k]

\* A store never goes back, in whatever order calls arrive.
ReplicasOnlyAdvance ==
  [][\A n \in Nodes, k \in Keys :
       data'[n][k] # data[n][k] => data'[n][k].version > data[n][k].version]_vars

\* Every client is answered, also when calls fail.
EveryWriteAnswered ==
  \A w \in Writes : (reply[w] = "pending") ~> (reply[w] \in {"created", "error"})
=============================================================================
