----------------------------- MODULE LoadTester -----------------------------
(***************************************************************************)
(* The load tester of CS6650_hw10/loadtest against the leaderless store:   *)
(* many workers, each with one operation at a time.  It marks a read stale *)
(* when the node's version is below what it knows of the key, and what it  *)
(* knows is a count of the writes it saw confirmed, not a version.         *)
(***************************************************************************)
EXTENDS Leaderless

CONSTANT Reads  \* the reads of the run

ASSUME WritesAssumption == IsFiniteSet(Writes)

VARIABLES
  known,    \* knownVersions[k], the confirmations counted for key k
  counted,  \* writes whose worker has counted the confirmation
  read      \* read[r]: the key, the entry a node answered with, the verdict and,
            \* as a ghost, the writes confirmed when the node answered

loadVars == <<known, counted, read>>

ReadState == [state : {"none", "answered", "judged"}, key : Keys, entry : Entry,
              stale : BOOLEAN, confirmed : SUBSET Writes]

LoadInit ==
  /\ Init
  /\ known = [k \in Keys |-> 0]
  /\ counted = {}
  /\ read \in [Reads -> {[state |-> "none", key |-> k, entry |-> Absent,
                          stale |-> FALSE, confirmed |-> {}] : k \in Keys}]

\* What makes doWrite count the answer to w: a 201.
Counts_AnyAnswer(w) == reply[w] \in {"created", "error"}

Counts(w) == reply[w] = "created"

\* doWrite after the answer, under kvMu; its worker may give up before.
CountWrite(w) ==
  /\ w \notin counted
  /\ Counts(w)
  /\ known' = [known EXCEPT ![KeyOf[w]] = @ + 1]
  /\ counted' = counted \cup {w}
  /\ UNCHANGED <<vars, read>>

\* doRead's GET: any node answers with what its store has of the key.
NodeAnswers(r, n) ==
  /\ read[r].state = "none"
  /\ read' = [read EXCEPT ![r] =
       [@ EXCEPT !.state = "answered",
                 !.entry = data[n][read[r].key],
                 !.confirmed = {w \in Writes : reply[w] = "created"}]]
  /\ UNCHANGED <<vars, known, counted>>

\* doRead's verdict, from what is known of the key by then; a 404 is not stale.
JudgeRead(r) ==
  /\ read[r].state = "answered"
  /\ read' = [read EXCEPT ![r].state = "judged",
                          ![r].stale = /\ read[r].entry # Absent
                                       /\ read[r].entry.version < known[read[r].key]]
  /\ UNCHANGED <<vars, known, counted>>

LoadNext ==
  \/ Next /\ UNCHANGED loadVars
  \/ \E w \in Writes : CountWrite(w)
  \/ \E r \in Reads : JudgeRead(r) \/ \E n \in Nodes : NodeAnswers(r, n)

LoadSpec == LoadInit /\ [][LoadNext]_<<vars, loadVars>>

FairLoadSpec == LoadSpec /\ Fairness

-----------------------------------------------------------------------------
LoadTypeOK ==
  /\ TypeOK
  /\ known \in [Keys -> 0 .. Cardinality(Writes)]
  /\ counted \subseteq Writes
  /\ read \in [Reads -> ReadState]

\* A count is compared with a version, and yet, when one node coordinates the
\* key's writes (the tester sends all its writes to one), a read it reports
\* stale did miss a confirmed write: one of a higher version than it returned.
\* And the leaderless store is not to blame: that write was confirmed only
\* after the node had answered.
StaleReadsRaceAWrite ==
  \A r \in Reads : LET k == read[r].key IN
    read[r].stale /\ (\A v, w \in Writes : KeyOf[v] = k /\ KeyOf[w] = k => at[v] = at[w]) =>
      \E w \in Writes :
        /\ KeyOf[w] = k
        /\ reply[w] = "created"
        /\ ver[w] > read[r].entry.version
        /\ w \notin read[r].confirmed
=============================================================================
