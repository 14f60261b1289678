--------------------------- MODULE LeaderFollower ---------------------------
(***************************************************************************)
(* The leader-follower key-value store of CS6650_hw10/leader-follower.     *)
(*                                                                         *)
(* The leader numbers each write in its own store and replicates it to the *)
(* followers in one of three modes:                                        *)
(*   W5R1  one follower after another, the client is answered at the end;  *)
(*   W1R5  the same loop in the background, the client is answered first;  *)
(*   W3R3  to all at once, the client is answered after two confirmations. *)
(* A GET at the leader reads the local store and, in W1R5 and W3R3, the    *)
(* stores of the followers, and answers with the newest entry it got.  A   *)
(* GET at a follower, which has no peers, reads the follower's map and     *)
(* changes nothing: what it can see is what the invariants say of data.    *)
(*                                                                         *)
(* Each request is handled once, by a goroutine of its own; a step is what *)
(* such a goroutine does between two points where another can run (a lock, *)
(* a channel, an HTTP call).  The sleeps of the code only make some        *)
(* interleavings likelier; here every one of them is possible.             *)
(***************************************************************************)
EXTENDS Store, FiniteSets

CONSTANTS N,           \* number of followers, the length of n.peers
          Modes,       \* the modes the cluster may be started in
          Reads,       \* GET requests sent to the leader
          KeyOf,       \* the key each request is about
          MaxFailures  \* bound on the number of calls that fail

ASSUME NAssumption == N \in Nat
ASSUME ModeAssumption == Modes \subseteq {"W5R1", "W1R5", "W3R3"}
ASSUME RequestAssumption ==
         Reads \cap Writes = {} /\ KeyOf \in [Writes \cup Reads -> Keys]
ASSUME FailureAssumption == MaxFailures \in Nat

Leader    == 0
Followers == 1 .. N      \* in the order of n.peers
Nodes     == 0 .. N

VARIABLES
  mode,       \* n.mode, read from the environment, the same at every node
  data,       \* data[n]: the map of node n's store
  ver,        \* ver[w]: the version the leader gave to w, 0 before it did
  reply,      \* reply[w]: what the client that sent w was told
  rpc,        \* rpc[w][f]: the /replicate call that carries w to f
  confirmed,  \* confirmed[w]: the counter of w's replication loop
  failures,   \* number of calls that failed so far
  rphase,     \* rphase[r]: where the GET r is
  fetch,      \* fetch[r][f]: the /local_read call of r to f
  answer,     \* answer[r][f]: the entry that call brought back
  entries,    \* entries[r]: the slice collectEntries builds, as a set
  collected,  \* collected[r]: how many of the fetched entries are in it
  drain,      \* drain[r]: results the drain goroutine of r still waits for
  result,     \* result[r]: the entry the client got, Absent for a 404
  before      \* ghost: the requests that were answered before r arrived

writeVars == <<mode, data, ver, reply, rpc, confirmed>>
readVars  == <<rphase, fetch, answer, entries, collected, drain, result, before>>
vars      == <<writeVars, failures, readVars>>

(***************************************************************************)
(* The life of a /replicate call:                                          *)
(*   open     the follower has not applied it yet                          *)
(*   applied  the follower has run SetWithVersion                          *)
(*   ok       the sender's loop has received the 200                       *)
(*   orphan   the sender got an error; the follower may still apply it     *)
(*   failed   the sender got an error; the follower is done with it        *)
(***************************************************************************)
RpcState == {"open", "applied", "ok", "orphan", "failed"}

\* Results replicate waits for: `required` of replicateSync, `need` of
\* replicateQuorum.
Required_OneShort == IF mode = "W3R3" THEN 1 ELSE N - 1

Required == IF mode = "W3R3" THEN 2 ELSE N

\* Results from followers collectEntries waits for; W5R1 reads locally.
Needed == CASE mode = "W5R1" -> 0
            [] mode = "W1R5" -> N
            [] mode = "W3R3" -> 2

Init ==
  /\ mode \in Modes
  /\ data = [n \in Nodes |-> New]
  /\ ver = [w \in Writes |-> 0]
  /\ reply = [w \in Writes |-> "none"]
  /\ rpc = [w \in Writes |-> [f \in Followers |-> "open"]]
  /\ confirmed = [w \in Writes |-> 0]
  /\ failures = 0
  /\ rphase = [r \in Reads |-> "none"]
  /\ fetch = [r \in Reads |-> [f \in Followers |-> "none"]]
  /\ answer = [r \in Reads |-> [f \in Followers |-> Absent]]
  /\ entries = [r \in Reads |-> {}]
  /\ collected = [r \in Reads |-> 0]
  /\ drain = [r \in Reads |-> 0]
  /\ result = [r \in Reads |-> Absent]
  /\ before = [r \in Reads |-> {}]

-----------------------------------------------------------------------------
(* Writes *)

\* handleSet up to the first call to a follower.  W1R5 answers here, and so
\* does every mode of a leader without peers.
HandleSet(w) ==
  /\ reply[w] = "none"
  /\ ver' = [ver EXCEPT ![w] = NextVersion(data[Leader], KeyOf[w])]
  /\ data' = [data EXCEPT ![Leader] = Set(@, KeyOf[w], w)]
  /\ reply' = [reply EXCEPT ![w] =
                 IF mode = "W1R5" \/ N = 0 THEN "created" ELSE "pending"]
  /\ UNCHANGED <<mode, rpc, confirmed, failures, readVars>>

\* The call to f has been made: at once in replicateQuorum, after the calls to
\* all the peers before f have succeeded in replicateSync.
Sent_AllAtOnce(w, f) == reply[w] # "none"

Sent_UntilAnswered(w, f) ==
  /\ reply[w] = "pending"
  /\ mode = "W3R3" \/ f = confirmed[w] + 1

Sent(w, f) ==
  /\ reply[w] # "none"
  /\ mode = "W3R3" \/ f = confirmed[w] + 1

\* handleReplicate at f: the entry is offered to the store and the answer is
\* 200 whether or not the store took it.
HandleReplicate(w, f) ==
  /\ \/ /\ rpc[w][f] = "open"
        /\ Sent(w, f)
        /\ rpc' = [rpc EXCEPT ![w][f] = "applied"]
     \/ /\ rpc[w][f] = "orphan"
        /\ rpc' = [rpc EXCEPT ![w][f] = "failed"]
  /\ data' = [data EXCEPT ![f] = SetWithVersion(@, KeyOf[w], w, ver[w])]
  /\ UNCHANGED <<mode, ver, reply, confirmed, failures, readVars>>

\* The loop of replicateSync or replicateQuorum receives a success and answers
\* the client when it was the last one it waits for.  After a quorum has
\* answered "created" its drain goroutine receives the results left; after
\* "error" nobody receives them.
Confirm(w, f) ==
  /\ rpc[w][f] = "applied"
  /\ reply[w] # "error"
  /\ rpc' = [rpc EXCEPT ![w][f] = "ok"]
  /\ IF mode = "W3R3" /\ reply[w] = "created"
     THEN UNCHANGED <<confirmed, reply>>
     ELSE /\ confirmed' = [confirmed EXCEPT ![w] = @ + 1]
          /\ reply' = [reply EXCEPT ![w] =
                         IF confirmed'[w] >= Required \/ confirmed'[w] = N
                         THEN "created" ELSE @]
  /\ UNCHANGED <<mode, data, ver, failures, readVars>>

\* The call to f fails, before or after f has applied the entry, and the loop
\* receives the error: a client that still waits is answered 500, and the
\* sequential loop ends without calling the peers after f.
ReplicateFails(w, f) ==
  /\ failures < MaxFailures
  /\ failures' = failures + 1
  /\ \/ /\ rpc[w][f] = "open"
        /\ Sent(w, f)
        /\ \E outcome \in {"orphan", "failed"} :
             rpc' = [rpc EXCEPT ![w][f] = outcome]
     \/ /\ rpc[w][f] = "applied"
        /\ rpc' = [rpc EXCEPT ![w][f] = "failed"]
  /\ reply' = [reply EXCEPT ![w] = IF @ = "pending" THEN "error" ELSE @]
  /\ UNCHANGED <<mode, data, ver, confirmed, readVars>>

-----------------------------------------------------------------------------
(* Reads at the leader *)

Answered ==
  {w \in Writes : reply[w] = "created"} \cup {r \in Reads : rphase[r] = "done"}

\* handleGet up to the fan-out of collectEntries: the local entry is read
\* first, then one goroutine per follower is started (none in W5R1).
HandleGet_NoLocal(r) ==
  /\ rphase[r] = "none"
  /\ rphase' = [rphase EXCEPT ![r] = "collecting"]
  /\ before' = [before EXCEPT ![r] = Answered]
  /\ fetch' = [fetch EXCEPT ![r] =
                 [f \in Followers |-> IF mode = "W5R1" THEN "none" ELSE "open"]]
  /\ UNCHANGED <<writeVars, failures, answer, entries, collected, drain, result>>

HandleGet(r) ==
  /\ rphase[r] = "none"
  /\ rphase' = [rphase EXCEPT ![r] = "collecting"]
  /\ before' = [before EXCEPT ![r] = Answered]
  /\ entries' = [entries EXCEPT ![r] =
                   IF Has(data[Leader], KeyOf[r])
                   THEN {data[Leader][KeyOf[r]]} ELSE {}]
  /\ fetch' = [fetch EXCEPT ![r] =
                 [f \in Followers |-> IF mode = "W5R1" THEN "none" ELSE "open"]]
  /\ UNCHANGED <<writeVars, failures, answer, collected, drain, result>>

\* handleLocalRead at f, called by fetchRemote: an entry, or a 404.
HandleLocalRead(r, f) ==
  /\ fetch[r][f] = "open"
  /\ LET e == data[f][KeyOf[r]] IN
       /\ fetch' = [fetch EXCEPT ![r][f] =
                      IF Has(data[f], KeyOf[r]) THEN "found" ELSE "missing"]
       /\ answer' = [answer EXCEPT ![r][f] = e]
  /\ UNCHANGED <<writeVars, failures, rphase, entries, collected, drain, result, before>>

\* fetchRemote gives up: the call or the decoding of its body fails.
FetchFails(r, f) ==
  /\ failures < MaxFailures
  /\ failures' = failures + 1
  /\ fetch[r][f] = "open"
  /\ fetch' = [fetch EXCEPT ![r][f] = "missing"]
  /\ UNCHANGED <<writeVars, rphase, answer, entries, collected, drain, result, before>>

\* One round of the loop of collectEntries: a result is received, and kept
\* and counted only if it is an entry.
Collect(r, f) ==
  /\ rphase[r] = "collecting"
  /\ collected[r] < Needed
  /\ fetch[r][f] \in {"found", "missing"}
  /\ fetch' = [fetch EXCEPT ![r][f] = "taken"]
  /\ IF fetch[r][f] = "found"
     THEN /\ entries' = [entries EXCEPT ![r] = @ \cup {answer[r][f]}]
          /\ collected' = [collected EXCEPT ![r] = @ + 1]
     ELSE UNCHANGED <<entries, collected>>
  /\ UNCHANGED <<writeVars, failures, rphase, answer, drain, result, before>>

\* The loop ends, a drain goroutine is started for N - collected results, and
\* the client gets the newest entry collected, or a 404.
FinishGet_NoBound(r) ==
  /\ rphase[r] = "collecting"
  /\ collected[r] >= Needed
  /\ rphase' = [rphase EXCEPT ![r] = "done"]
  /\ \E e \in Newest(entries[r]) : result' = [result EXCEPT ![r] = e]
  /\ drain' = [drain EXCEPT ![r] = IF mode = "W5R1" THEN 0 ELSE N - collected[r]]
  /\ entries' = [entries EXCEPT ![r] = {}]
  /\ UNCHANGED <<writeVars, failures, fetch, answer, collected, before>>

FinishGet(r) ==
  /\ rphase[r] = "collecting"
  /\ collected[r] >= Needed \/ \A f \in Followers : fetch[r][f] = "taken"
  /\ rphase' = [rphase EXCEPT ![r] = "done"]
  /\ \E e \in Newest(entries[r]) : result' = [result EXCEPT ![r] = e]
  /\ drain' = [drain EXCEPT ![r] = IF mode = "W5R1" THEN 0 ELSE N - collected[r]]
  /\ entries' = [entries EXCEPT ![r] = {}]
  /\ UNCHANGED <<writeVars, failures, fetch, answer, collected, before>>

\* The drain goroutine receives one more result.
Drain(r, f) ==
  /\ drain[r] > 0
  /\ fetch[r][f] \in {"found", "missing"}
  /\ fetch' = [fetch EXCEPT ![r][f] = "taken"]
  /\ drain' = [drain EXCEPT ![r] = @ - 1]
  /\ UNCHANGED <<writeVars, failures, rphase, answer, entries, collected, result, before>>

-----------------------------------------------------------------------------
Next ==
  \/ \E w \in Writes : HandleSet(w)
  \/ \E w \in Writes, f \in Followers :
       \/ HandleReplicate(w, f)
       \/ Confirm(w, f)
       \/ ReplicateFails(w, f)
  \/ \E r \in Reads : HandleGet(r) \/ FinishGet(r)
  \/ \E r \in Reads, f \in Followers :
       \/ HandleLocalRead(r, f)
       \/ FetchFails(r, f)
       \/ Collect(r, f)
       \/ Drain(r, f)

Spec == Init /\ [][Next]_vars

\* Goroutines and HTTP handlers that can run do run.  Clients need not send
\* requests, calls need not fail, and a follower whose caller has given up
\* need not apply what it was sent.
Fairness ==
  /\ \A w \in Writes, f \in Followers :
       /\ WF_vars(rpc[w][f] = "open" /\ HandleReplicate(w, f))
       /\ WF_vars(Confirm(w, f))
  /\ \A r \in Reads : WF_vars(FinishGet(r))
  /\ \A r \in Reads, f \in Followers :
       /\ WF_vars(HandleLocalRead(r, f))
       /\ WF_vars(Collect(r, f))
       /\ WF_vars(Drain(r, f))

FairSpec == Spec /\ Fairness

-----------------------------------------------------------------------------
TypeOK ==
  /\ mode \in Modes
  /\ data \in [Nodes -> StoreMap]
  /\ ver \in [Writes -> Nat]
  /\ reply \in [Writes -> {"none", "pending", "created", "error"}]
  /\ rpc \in [Writes -> [Followers -> RpcState]]
  /\ confirmed \in [Writes -> Nat]
  /\ failures \in 0 .. MaxFailures
  /\ rphase \in [Reads -> {"none", "collecting", "done"}]
  /\ fetch \in [Reads -> [Followers -> {"none", "open", "found", "missing", "taken"}]]
  /\ answer \in [Reads -> [Followers -> Entry]]
  /\ entries \in [Reads -> SUBSET Entry]
  /\ collected \in [Reads -> Nat]
  /\ drain \in [Reads -> Nat]
  /\ result \in [Reads -> Entry]
  /\ before \in [Reads -> SUBSET (Writes \cup Reads)]

\* The version node n has of the key of write w.
VersionAt(n, w) == data[n][KeyOf[w]].version

\* Entry e is what the leader stored for one write of key k, under the number
\* the leader gave that write.
IsWriteOf(e, k) ==
  e # Absent => /\ e.value \in Writes
                /\ KeyOf[e.value] = k
                /\ ver[e.value] = e.version

\* No replica ever invents, mixes up or runs ahead: what any node stores for a
\* key is some write of that key under the leader's number for it, no two
\* writes of a key have one number, and no node is ahead of the leader.
\* So two nodes that show the same version of a key show the same value.
Agreement ==
  /\ \A n \in Nodes, k \in Keys :
       /\ IsWriteOf(data[n][k], k)
       /\ data[n][k].version <= data[Leader][k].version
  /\ \A v, w \in Writes :
       v # w /\ KeyOf[v] = KeyOf[w] /\ ver[v] # 0 => ver[v] # ver[w]

\* What a 201 promises.  W5R1: every node has the write or a newer one.
\* W3R3: the leader and two followers do (or all of them, if there are fewer),
\* whichever other writes and failures were going on.
AckCoverage ==
  \A w \in Writes :
    reply[w] = "created" =>
      LET covered == {n \in Nodes : VersionAt(n, w) >= ver[w]} IN
        CASE mode = "W5R1" -> covered = Nodes
          [] mode = "W1R5" -> Leader \in covered
          [] mode = "W3R3" -> Cardinality(covered) >= 3 \/ covered = Nodes

\* The sequential loops of W5R1 and W1R5 keep the followers sorted: no peer is
\* ahead of one that comes before it in n.peers, even when loops of several
\* writes overlap and some end early with an error.
PeerOrder ==
  mode # "W3R3" =>
    \A f, g \in Nodes, k \in Keys :
      f < g => data[g][k].version <= data[f][k].version

\* A store never goes back: an entry is only ever replaced by one with a higher
\* version, in whatever order the calls of several writes arrive.
ReplicasOnlyAdvance ==
  [][\A n \in Nodes, k \in Keys :
       data'[n][k] # data[n][k] => data'[n][k].version > data[n][k].version]_vars

\* A finished GET at the leader is no older than any write that was answered
\* "created", and any other GET that was answered, before it was sent.
LeaderReadFresh ==
  \A r \in Reads : rphase[r] = "done" =>
    \A x \in before[r] : KeyOf[x] = KeyOf[r] =>
      IF x \in Writes THEN result[r].version >= ver[x]
                      ELSE result[r].version >= result[x].version

\* Every request is answered, whatever fails, as long as calls end.
EveryRequestAnswered ==
  /\ \A w \in Writes : (reply[w] = "pending") ~> (reply[w] \in {"created", "error"})
  /\ \A r \in Reads : (rphase[r] = "collecting") ~> (rphase[r] = "done")

\* When no call fails, every write the leader took reaches every follower,
\* also the ones nobody waits for (the last followers of W3R3, all of W1R5).
WritesReachAll ==
  \A w \in Writes :
    (ver[w] > 0) ~> (failures > 0 \/ \A f \in Followers : VersionAt(f, w) >= ver[w])

\* The drain goroutine of each finished GET ends.
DrainEnds ==
  \A r \in Reads : (rphase[r] = "done") ~> (drain[r] = 0)

-----------------------------------------------------------------------------
(* The service the clients of the leader see *)

\* The writes of each key in the order the leader numbered them.
LeaderLog ==
  [k \in Keys |-> [v \in 1 .. data[Leader][k].version |->
                     CHOOSE w \in Writes : KeyOf[w] = k /\ ver[w] = v]]

\* What the client of each request has been told.
Told == [x \in Writes \cup Reads |-> IF x \in Writes THEN reply[x] ELSE rphase[x]]

Service == INSTANCE LinearizableKV WITH log <- LeaderLog, status <- Told

\* In every mode the leader is a linearizable store: its numbering of the
\* writes is their order, and the GETs it serves, quorum reads included, are
\* explained by that order and by real time.
LeaderIsLinearizable == Service!Spec
=============================================================================
