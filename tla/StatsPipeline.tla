---------------------------- MODULE StatsPipeline ----------------------------
(***************************************************************************)
(* The write path of sportspulse: how a game event becomes part of a       *)
(* player's totals.  Two stacks do it, with one transaction in common:     *)
(*   kafka   event-svc publishes the event, keyed by its player, and       *)
(*           stats-worker consumes the topic and runs the transaction;     *)
(*   direct  event-svc-direct runs the transaction in the HTTP handler.    *)
(*                                                                         *)
(* A record of the topic is named by the request that published it.  A     *)
(* client that retries sends another request with the same event.  Every   *)
(* event adds one to a total of its player, unless its type has no column. *)
(*                                                                         *)
(* Kafka and its client library are external.  A worker polls, handles     *)
(* what it got, and polls again; the library commits, now and then, the    *)
(* offsets of what earlier polls returned.  When a partition changes hands *)
(* or a worker restarts, reading resumes at the committed offset.          *)
(***************************************************************************)
EXTENDS Integers, Sequences, FiniteSets

CONSTANTS Stacks,       \* the stacks that may be deployed
          Requests,     \* POST /events requests
          Events,       \* event ids
          EventOf,      \* EventOf[q]: the event request q carries
          Players,
          PlayerOf,     \* PlayerOf[e]: the player of event e
          Registered,   \* players with a row in the players table
          Counted,      \* events of a type with a column in player_stats
          Partitions,   \* partitions of the topic
          PartitionOf,  \* PartitionOf[x]: the partition the key of player x hashes to
          Workers,      \* stats-worker tasks, one consumer group
          MaxFailures,  \* bound on broker and database errors
          MaxMoves      \* bound on worker restarts and rebalances

ASSUME StackAssumption == Stacks \subseteq {"kafka", "direct"}
ASSUME EventAssumption == /\ IsFiniteSet(Requests)
                          /\ EventOf \in [Requests -> Events]
                          /\ PlayerOf \in [Events -> Players]
                          /\ Registered \subseteq Players
                          /\ Counted \subseteq Events
ASSUME PartitionAssumption == PartitionOf \in [Players -> Partitions]
ASSUME BoundAssumption == MaxFailures \in Nat /\ MaxMoves \in Nat

VARIABLES
  stack,      \* the stack that is deployed
  reply,      \* reply[q]: what the client that sent q was told
  topic,      \* topic[p]: the records of partition p, in order
  committed,  \* committed[p]: the offset the group has committed
  owner,      \* owner[p]: the worker p is assigned to
  polled,     \* polled[p]: offset up to which the owner has polled p
  marked,     \* marked[p]: offset the library of the owner may commit
  batch,      \* batch[w]: records worker w has polled and not handled yet
  gameEvents, \* the events with a row in game_events
  added,      \* added[e]: how often event e was added to its player's totals
  failures,   \* number of errors so far
  moves,      \* number of restarts and rebalances so far
  handled,    \* ghost: records for which processEvent has returned
  after       \* ghost, after[q]: requests answered 202 before q was handled

kafkaVars == <<topic, committed, owner, polled, marked, batch, moves, handled>>
dbVars    == <<gameEvents, added>>
vars      == <<stack, reply, kafkaVars, dbVars, failures, after>>

Init ==
  /\ stack \in Stacks
  /\ reply = [q \in Requests |-> "none"]
  /\ topic = [p \in Partitions |-> <<>>]
  /\ committed = [p \in Partitions |-> 0]
  /\ owner \in [Partitions -> Workers]
  /\ polled = [p \in Partitions |-> 0]
  /\ marked = [p \in Partitions |-> 0]
  /\ batch = [w \in Workers |-> {}]
  /\ gameEvents = {}
  /\ added = [e \in Events |-> 0]
  /\ failures = 0
  /\ moves = 0
  /\ handled = {}
  /\ after = [q \in Requests |-> {}]

-----------------------------------------------------------------------------
(* The transaction *)

\* The upsert into player_stats meets the foreign key on players.
Storable(e) == e \in Counted => PlayerOf[e] \in Registered

\* The transaction of processEvent and of the direct handler: the raw event is
\* inserted unless it is there, then the totals are upserted, all or nothing.
Transaction_NoRollback(e) ==
  /\ gameEvents' = gameEvents \cup {e}
  /\ added' = IF e \in Counted /\ Storable(e)
              THEN [added EXCEPT ![e] = @ + 1] ELSE added

Transaction(e) ==
  IF Storable(e)
  THEN /\ gameEvents' = gameEvents \cup {e}
       /\ added' = IF e \in Counted THEN [added EXCEPT ![e] = @ + 1] ELSE added
  ELSE UNCHANGED dbVars

Fail == failures < MaxFailures /\ failures' = failures + 1

-----------------------------------------------------------------------------
(* event-svc and event-svc-direct *)

\* The partitions a record of event e may go to: the one its key selects.
PartitionsFor_NoKey(e) == Partitions

PartitionsFor(e) == {PartitionOf[PlayerOf[e]]}

Publish(q) ==
  \E p \in PartitionsFor(EventOf[q]) : topic' = [topic EXCEPT ![p] = Append(@, q)]

\* ingestHandler of event-svc: 202 once the broker has the record.  On an error
\* the client is told 500; the broker may have the record all the same.
IngestKafka(q) ==
  /\ stack = "kafka"
  /\ reply[q] = "none"
  /\ \/ /\ Publish(q)
        /\ reply' = [reply EXCEPT ![q] = "accepted"]
        /\ UNCHANGED failures
     \/ /\ Fail
        /\ Publish(q) \/ UNCHANGED topic
        /\ reply' = [reply EXCEPT ![q] = "error"]
  /\ after' = [after EXCEPT ![q] = {x \in Requests : reply[x] = "accepted"}]
  /\ UNCHANGED <<stack, committed, owner, polled, marked, batch, moves, handled, dbVars>>

\* ingestHandler of event-svc-direct: 202 once the transaction has committed.
\* An error may come before the commit or, the connection being lost, after it.
IngestDirect(q) ==
  /\ stack = "direct"
  /\ reply[q] = "none"
  /\ \/ /\ Transaction(EventOf[q])
        /\ reply' = [reply EXCEPT ![q] =
                       IF Storable(EventOf[q]) THEN "accepted" ELSE "error"]
        /\ UNCHANGED failures
     \/ /\ Fail
        /\ Transaction(EventOf[q]) \/ UNCHANGED dbVars
        /\ reply' = [reply EXCEPT ![q] = "error"]
  /\ after' = [after EXCEPT ![q] = {x \in Requests : reply[x] = "accepted"}]
  /\ UNCHANGED <<stack, kafkaVars>>

-----------------------------------------------------------------------------
(* stats-worker *)

\* Offset of the record of request q in partition p.
Offset(p, q) == CHOOSE i \in 1 .. Len(topic[p]) : topic[p][i] = q

In(p, q) == \E i \in 1 .. Len(topic[p]) : topic[p][i] = q

\* PollFetches returns: records that follow what was polled before, from one or
\* more of the partitions of w.
Poll(w) ==
  /\ batch[w] = {}
  /\ \E upto \in [Partitions -> 0 .. Cardinality(Requests)] :
       /\ upto # polled
       /\ \A p \in Partitions :
            IF owner[p] = w THEN polled[p] <= upto[p] /\ upto[p] <= Len(topic[p])
                            ELSE upto[p] = polled[p]
       /\ polled' = upto
       /\ batch' = [batch EXCEPT ![w] =
            UNION {{topic[p][i] : i \in polled[p] + 1 .. upto[p]} : p \in Partitions}]
  /\ UNCHANGED <<stack, reply, topic, committed, owner, marked, moves, handled,
                 dbVars, failures, after>>

\* What the library may commit for w's partitions once `rest` of the polled
\* records are left to handle: what earlier polls returned when w polls again.
Marks_AtPoll(w, rest) ==
  [p \in Partitions |-> IF owner[p] = w THEN polled[p] ELSE marked[p]]

Marks_OneMore(w, rest) ==
  [p \in Partitions |-> IF owner[p] = w /\ rest = {} THEN polled[p] + 1 ELSE marked[p]]

Marks(w, rest) ==
  [p \in Partitions |-> IF owner[p] = w /\ rest = {} THEN polled[p] ELSE marked[p]]

\* The body of EachRecord for the next record of one partition: processEvent
\* runs the transaction; an error is logged and the loop goes on.
Process(w, q) ==
  /\ q \in batch[w]
  /\ \A p \in Partitions : In(p, q) =>
       \A x \in batch[w] : In(p, x) => Offset(p, q) <= Offset(p, x)
  /\ \/ Transaction(EventOf[q]) /\ UNCHANGED failures
     \/ Fail /\ (Transaction(EventOf[q]) \/ UNCHANGED dbVars)
  /\ handled' = handled \cup {q}
  /\ batch' = [batch EXCEPT ![w] = @ \ {q}]
  /\ marked' = Marks(w, batch'[w])
  /\ UNCHANGED <<stack, reply, topic, committed, owner, polled, moves, after>>

\* The autocommit of the library.
Commit(p) ==
  /\ committed[p] < marked[p]
  /\ committed' = [committed EXCEPT ![p] = marked[p]]
  /\ UNCHANGED <<stack, reply, topic, owner, polled, marked, batch, moves, handled,
                 dbVars, failures, after>>

\* Where a worker starts to read a partition it has just been assigned.
ResumeAt_End(p) == Len(topic[p])

ResumeAt(p) == committed[p]

Resume(moved) ==
  /\ polled' = [p \in Partitions |-> IF p \in moved THEN ResumeAt(p) ELSE polled[p]]
  /\ marked' = [p \in Partitions |-> IF p \in moved THEN ResumeAt(p) ELSE marked[p]]

\* The group gives partition p to another worker, w; the worker that had it
\* goes on with the records it has already polled.
Rebalance(p, w) ==
  /\ stack = "kafka"
  /\ moves < MaxMoves
  /\ owner[p] # w
  /\ owner' = [owner EXCEPT ![p] = w]
  /\ Resume({p})
  /\ moves' = moves + 1
  /\ UNCHANGED <<stack, reply, topic, committed, batch, handled, dbVars, failures, after>>

\* A worker stops, wherever it is in its batch, and starts again.
Restart(w) ==
  /\ stack = "kafka"
  /\ moves < MaxMoves
  /\ batch' = [batch EXCEPT ![w] = {}]
  /\ Resume({p \in Partitions : owner[p] = w})
  /\ moves' = moves + 1
  /\ UNCHANGED <<stack, reply, topic, committed, owner, handled, dbVars, failures, after>>

-----------------------------------------------------------------------------
Next ==
  \/ \E q \in Requests : IngestKafka(q) \/ IngestDirect(q)
  \/ \E w \in Workers : Poll(w) \/ Restart(w)
  \/ \E w \in Workers, q \in Requests : Process(w, q)
  \/ \E p \in Partitions : Commit(p)
  \/ \E p \in Partitions, w \in Workers : Rebalance(p, w)

Spec == Init /\ [][Next]_vars

\* A worker that can go on does: its loop never waits for anything else.  The
\* library need not commit, and clients need not send.
Fairness ==
  \A w \in Workers : WF_vars(Poll(w)) /\ WF_vars(\E q \in Requests : Process(w, q))

FairSpec == Spec /\ Fairness

-----------------------------------------------------------------------------
TypeOK ==
  /\ stack \in Stacks
  /\ reply \in [Requests -> {"none", "accepted", "error"}]
  /\ topic \in [Partitions -> Seq(Requests)]
  /\ owner \in [Partitions -> Workers]
  /\ committed \in [Partitions -> Nat]
  /\ polled \in [Partitions -> Nat]
  /\ marked \in [Partitions -> Nat]
  /\ \A p \in Partitions : /\ committed[p] <= marked[p]
                          /\ marked[p] <= polled[p]
                          /\ polled[p] <= Len(topic[p])
  /\ batch \in [Workers -> SUBSET Requests]
  /\ gameEvents \subseteq Events
  /\ added \in [Events -> Nat]
  /\ failures \in 0 .. MaxFailures
  /\ moves \in 0 .. MaxMoves
  /\ handled \subseteq Requests
  /\ after \in [Requests -> SUBSET Requests]

\* The log of raw events, which the schema keeps "for correctness
\* verification", and the totals tell the same story in both stacks: an event
\* with a column is in the log exactly if it has been added to a total, though
\* transactions fail, are repeated or meet a player nobody registered.
LogMatchesTotals ==
  \A e \in Counted : e \in gameEvents <=> added[e] > 0

\* At least once: the group never commits an offset past a record that no
\* worker has handled, whatever restarts and rebalances happen in a batch.
NothingSkipped ==
  \A p \in Partitions : \A i \in 1 .. committed[p] : topic[p][i] \in handled

\* Events of one player are handled in order: when a request was answered 202
\* before another one of the same player came in, the second is not handled
\* before the first, although partitions move between workers.
PlayerOrder ==
  \A q \in handled : \A x \in after[q] :
    PlayerOf[EventOf[x]] = PlayerOf[EventOf[q]] => x \in handled

\* A 202 is kept: in spite of restarts and rebalances, and of errors in handling
\* other records, the record is handled and its event is in the log, unless
\* handling it failed (the worker only logs that) or its player is not registered.
AcceptedEventStored ==
  \A q \in Requests :
    reply[q] = "accepted" /\ Storable(EventOf[q])
      ~> (EventOf[q] \in gameEvents \/ (q \in handled /\ failures > 0))

\* The comment in processEvent: duplicates are skipped, so that an event counts
\* once however often it is delivered.
CountedOnce ==
  \A e \in Events : added[e] <= 1
=============================================================================
