------------------------- MODULE StatsPipelineProofs -------------------------
(***************************************************************************)
(* What the event pipeline of sportspulse guarantees for any number of     *)
(* requests, players, partitions and workers, and any number of errors,    *)
(* restarts and rebalances.  The argument is about positions: the handled  *)
(* records of a partition are a prefix of it, because whoever holds a      *)
(* polled record holds every record before it that is not handled yet.     *)
(*                                                                         *)
(* The queries come last: their handlers change nothing of the pipeline,   *)
(* and what is counted is a set of accepted requests.                      *)
(***************************************************************************)
EXTENDS QueryCache, TLAPS, FiniteSetTheorems, FunctionTheorems

\* The partition of the record of request q, and the positions in a partition.
Home(q) == PartitionOf[PlayerOf[EventOf[q]]]

Pos(p) == 1 .. Len(topic[p])

\* A record is in the topic once, in the partition of its player, and not
\* before its request came in; a 202 means that it is there.
TopicInv ==
  /\ \A p \in Partitions : \A i \in Pos(p) :
       reply[topic[p][i]] # "none" /\ Home(topic[p][i]) = p
  /\ \A p \in Partitions : \A i, j \in Pos(p) : topic[p][i] = topic[p][j] => i = j
  /\ stack = "kafka" =>
       \A x \in Requests : reply[x] = "accepted" =>
         \E i \in Pos(Home(x)) : topic[Home(x)][i] = x
  /\ stack # "kafka" => \A p \in Partitions : topic[p] = <<>>

\* The records that had been answered before precede a record of their player.
AfterInv ==
  \A p \in Partitions : \A j \in Pos(p) : \A x \in after[topic[p][j]] :
    Home(x) = p => \E i \in 1 .. (j - 1) : topic[p][i] = x

\* Up to the mark of the library everything is handled; up to the polled
\* offset it is handled or in the hands of the owner of the partition.
PolledInv ==
  \A p \in Partitions :
    /\ \A i \in 1 .. marked[p] : topic[p][i] \in handled
    /\ \A i \in 1 .. polled[p] : topic[p][i] \in handled \cup batch[owner[p]]

\* A worker that holds a record holds what is before it and not handled.
BatchInv ==
  \A w \in Workers :
    /\ \A q \in batch[w] : \E p \in Partitions : \E j \in Pos(p) : topic[p][j] = q
    /\ \A p \in Partitions : \A j \in Pos(p) : \A i \in 1 .. (j - 1) :
         topic[p][j] \in batch[w] => topic[p][i] \in handled \cup batch[w]

\* The handled records of a partition are a prefix of it.
HandledInv ==
  /\ \A q \in handled : \E p \in Partitions : \E j \in Pos(p) : topic[p][j] = q
  /\ \A p \in Partitions : \A j \in Pos(p) : \A i \in 1 .. (j - 1) :
       topic[p][j] \in handled => topic[p][i] \in handled

PipelineInv == TopicInv /\ AfterInv /\ PolledInv /\ BatchInv /\ HandledInv

-----------------------------------------------------------------------------
(* Types *)

\* The transaction writes rows of events and of their totals, nothing else.
LEMMA TransactionTypes ==
  ASSUME TypeOK, NEW e \in Events, Transaction(e) \/ UNCHANGED dbVars
  PROVE  gameEvents' \subseteq Events /\ added' \in [Events -> Nat]
<1>1. CASE UNCHANGED dbVars
  BY <1>1 DEF TypeOK, dbVars
<1>2. CASE Transaction(e)
  <2>1. gameEvents \subseteq Events /\ added \in [Events -> Nat]
    BY DEF TypeOK
  <2>2. [added EXCEPT ![e] = @ + 1] \in [Events -> Nat]
    BY <2>1
  <2>3. CASE Storable(e)
    BY <1>2, <2>1, <2>2, <2>3 DEF Transaction
  <2>4. CASE ~Storable(e)
    BY <1>2, <2>1, <2>4 DEF Transaction, dbVars
  <2> QED BY <2>3, <2>4
<1> QED BY <1>1, <1>2

LEMMA HomeType == \A q \in Requests : Home(q) \in Partitions
BY EventAssumption, PartitionAssumption DEF Home

LEMMA InitTypes == Init => TypeOK
BY BoundAssumption DEF Init, TypeOK

LEMMA KafkaTypes ==
  ASSUME TypeOK, NEW q \in Requests, IngestKafka(q)
  PROVE  TypeOK'
<1>1. topic' \in [Partitions -> Seq(Requests)]
      /\ \A p \in Partitions : Len(topic[p]) <= Len(topic'[p])
  <2>1. CASE UNCHANGED topic
    BY <2>1 DEF TypeOK
  <2>2. CASE Publish(q)
    <3>1. PICK p \in Partitions : topic' = [topic EXCEPT ![p] = Append(@, q)]
      BY <2>2, HomeType DEF Publish, PartitionsFor, Home
    <3> QED BY <3>1 DEF TypeOK
  <2> QED BY <2>1, <2>2 DEF IngestKafka
<1>2. failures' \in 0 .. MaxFailures
  BY BoundAssumption DEF TypeOK, IngestKafka, Fail
<1>3. \A p \in Partitions : /\ committed'[p] <= marked'[p]
                            /\ marked'[p] <= polled'[p]
                            /\ polled'[p] <= Len(topic'[p])
  BY <1>1 DEF TypeOK, IngestKafka
<1> QED BY <1>1, <1>2, <1>3 DEF TypeOK, IngestKafka, dbVars

LEMMA DirectTypes ==
  ASSUME TypeOK, NEW q \in Requests, IngestDirect(q)
  PROVE  TypeOK'
<1>1. gameEvents' \subseteq Events /\ added' \in [Events -> Nat]
  BY TransactionTypes, EventAssumption DEF IngestDirect
<1>2. failures' \in 0 .. MaxFailures
  BY BoundAssumption DEF TypeOK, IngestDirect, Fail
<1> QED BY <1>1, <1>2 DEF TypeOK, IngestDirect, kafkaVars

LEMMA PollTypes ==
  ASSUME TypeOK, NEW w \in Workers, Poll(w)
  PROVE  TypeOK'
<1>1. PICK upto \in [Partitions -> 0 .. Cardinality(Requests)] :
        /\ \A p \in Partitions :
             IF owner[p] = w THEN polled[p] <= upto[p] /\ upto[p] <= Len(topic[p])
                             ELSE upto[p] = polled[p]
        /\ polled' = upto
        /\ batch' = [batch EXCEPT ![w] =
             UNION {{topic[p][i] : i \in polled[p] + 1 .. upto[p]} : p \in Partitions}]
  BY DEF Poll
<1>2. Cardinality(Requests) \in Nat
  BY EventAssumption, FS_CardinalityType
<1>3. /\ polled' \in [Partitions -> Nat]
      /\ \A p \in Partitions : polled[p] <= polled'[p] /\ polled'[p] <= Len(topic[p])
  BY <1>1, <1>2 DEF TypeOK
<1>4. \A p \in Partitions : \A i \in polled[p] + 1 .. upto[p] : topic[p][i] \in Requests
  BY <1>1, <1>3 DEF TypeOK
<1>5. batch' \in [Workers -> SUBSET Requests]
  BY <1>1, <1>4 DEF TypeOK
<1>6. \A p \in Partitions : /\ committed'[p] <= marked'[p]
                            /\ marked'[p] <= polled'[p]
                            /\ polled'[p] <= Len(topic'[p])
  BY <1>3 DEF TypeOK, Poll
<1> QED BY <1>3, <1>5, <1>6 DEF TypeOK, Poll, dbVars

LEMMA ProcessTypes ==
  ASSUME TypeOK, NEW w \in Workers, NEW q \in Requests, Process(w, q)
  PROVE  TypeOK'
<1>1. gameEvents' \subseteq Events /\ added' \in [Events -> Nat]
  BY TransactionTypes, EventAssumption DEF Process
<1>2. failures' \in 0 .. MaxFailures
  BY BoundAssumption DEF TypeOK, Process, Fail
<1>3. marked' \in [Partitions -> Nat]
      /\ \A p \in Partitions : marked[p] <= marked'[p] /\ marked'[p] <= polled[p]
  BY DEF TypeOK, Process, Marks
<1>4. \A p \in Partitions : /\ committed'[p] <= marked'[p]
                            /\ marked'[p] <= polled'[p]
                            /\ polled'[p] <= Len(topic'[p])
  <2>1. UNCHANGED <<topic, committed, polled>>
    BY DEF Process
  <2> QED BY <1>3, <2>1 DEF TypeOK
<1>5. batch' \in [Workers -> SUBSET Requests] /\ handled' \subseteq Requests
  BY DEF TypeOK, Process
<1> QED BY <1>1, <1>2, <1>3, <1>4, <1>5 DEF TypeOK, Process

LEMMA CommitTypes ==
  ASSUME TypeOK, NEW p \in Partitions, Commit(p)
  PROVE  TypeOK'
<1>1. committed' \in [Partitions -> Nat]
      /\ \A x \in Partitions : committed'[x] <= marked[x]
  BY DEF TypeOK, Commit
<1> QED BY <1>1 DEF TypeOK, Commit, dbVars

\* A partition that is read again is read from its committed offset.
LEMMA ResumeTypes ==
  ASSUME TypeOK, NEW moved, Resume(moved)
  PROVE  /\ polled' \in [Partitions -> Nat]
         /\ marked' \in [Partitions -> Nat]
         /\ \A p \in Partitions : /\ committed[p] <= marked'[p]
                                  /\ marked'[p] <= polled'[p]
                                  /\ polled'[p] <= Len(topic[p])
         /\ \A p \in Partitions : marked'[p] <= marked[p]
BY DEF TypeOK, Resume, ResumeAt

LEMMA MoveTypes ==
  ASSUME TypeOK, NEW w \in Workers,
         Restart(w) \/ \E p \in Partitions : Rebalance(p, w)
  PROVE  TypeOK'
<1>1. moves' \in 0 .. MaxMoves
  <2>1. moves < MaxMoves /\ moves' = moves + 1
    BY DEF Restart, Rebalance
  <2> QED BY <2>1, BoundAssumption DEF TypeOK
<1>2. CASE Restart(w)
  BY <1>1, <1>2, ResumeTypes DEF TypeOK, Restart, dbVars
<1>3. ASSUME NEW p \in Partitions, Rebalance(p, w) PROVE TypeOK'
  BY <1>1, <1>3, ResumeTypes DEF TypeOK, Rebalance, dbVars
<1> QED BY <1>2, <1>3

LEMMA TypeStep ==
  ASSUME TypeOK, [Next]_vars
  PROVE  TypeOK'
<1>1. CASE UNCHANGED vars
  BY <1>1 DEF TypeOK, vars, kafkaVars, dbVars
<1>2. CASE Next
  BY <1>2, KafkaTypes, DirectTypes, PollTypes, ProcessTypes, CommitTypes, MoveTypes DEF Next
<1> QED BY <1>1, <1>2

\* The variables have their types, and in every partition the committed, the
\* marked and the polled offset are in this order, none past its end.
THEOREM TypeCorrect == Spec => []TypeOK
<1>1. Init => TypeOK BY InitTypes
<1>2. TypeOK /\ [Next]_vars => TypeOK' BY TypeStep
<1> QED BY <1>1, <1>2, PTL DEF Spec

-----------------------------------------------------------------------------
(* The log and the totals *)

\* One run of the transaction, or none, keeps the log and the totals together.
LEMMA TransactionKeeps ==
  ASSUME TypeOK, LogMatchesTotals, NEW e \in Events, Transaction(e) \/ UNCHANGED dbVars
  PROVE  LogMatchesTotals'
<1> USE EventAssumption
<1>1. CASE UNCHANGED dbVars
  BY <1>1 DEF LogMatchesTotals, dbVars
<1>2. CASE Transaction(e) /\ Storable(e) /\ e \in Counted
  <2>1. /\ gameEvents' = gameEvents \cup {e}
        /\ added' = [added EXCEPT ![e] = @ + 1]
    BY <1>2 DEF Transaction
  <2>2. \A x \in Counted : added[x] \in Nat /\ (x # e => added'[x] = added[x])
    BY <2>1 DEF TypeOK
  <2>3. added'[e] = added[e] + 1 /\ added[e] \in Nat
    BY <2>1 DEF TypeOK
  <2> QED BY <2>1, <2>2, <2>3 DEF LogMatchesTotals
<1>3. CASE Transaction(e) /\ Storable(e) /\ e \notin Counted
  BY <1>3 DEF LogMatchesTotals, Transaction, TypeOK
<1>4. CASE Transaction(e) /\ ~Storable(e)
  BY <1>4 DEF LogMatchesTotals, Transaction, dbVars
<1> QED BY <1>1, <1>2, <1>3, <1>4

\* In both stacks the log holds an event with a column exactly if the event has
\* been added to a total, through failures, repetitions and unknown players.
THEOREM LogAndTotalsAgree == Spec => []LogMatchesTotals
<1>1. Init => LogMatchesTotals
  BY EventAssumption DEF Init, LogMatchesTotals
<1>2. ASSUME TypeOK, LogMatchesTotals, [Next]_vars
      PROVE  LogMatchesTotals'
  <2>1. ASSUME NEW q \in Requests, IngestDirect(q) PROVE LogMatchesTotals'
    BY <1>2, <2>1, TransactionKeeps, EventAssumption DEF IngestDirect
  <2>2. ASSUME NEW w \in Workers, NEW q \in Requests, Process(w, q) PROVE LogMatchesTotals'
    BY <1>2, <2>2, TransactionKeeps, EventAssumption DEF Process
  <2>3. CASE UNCHANGED dbVars
    BY <1>2, <2>3 DEF LogMatchesTotals, dbVars
  <2> QED BY <1>2, <2>1, <2>2, <2>3
       DEF Next, IngestKafka, Poll, Restart, Commit, Rebalance, vars
<1> QED BY <1>1, <1>2, TypeCorrect, PTL DEF Spec

-----------------------------------------------------------------------------
(* Where the records are *)

\* A partition grows at its end, by the record of the request that came in,
\* and does so whenever the client is told 202.
LEMMA Grows ==
  ASSUME TypeOK, NEW q \in Requests, IngestKafka(q)
  PROVE  /\ \A p \in Partitions :
              /\ Len(topic[p]) \in Nat /\ Len(topic'[p]) \in Nat
              /\ Len(topic[p]) <= Len(topic'[p])
              /\ \A i \in Pos(p) : topic'[p][i] = topic[p][i]
              /\ \A i \in 1 .. Len(topic'[p]) : i \in Pos(p) \/
                   (p = Home(q) /\ i = Len(topic[p]) + 1 /\ topic'[p][i] = q)
         /\ reply'[q] = "accepted" =>
              \E i \in 1 .. Len(topic'[Home(q)]) : topic'[Home(q)][i] = q
<1>0. \A p \in Partitions : topic[p] \in Seq(Requests)
  BY DEF TypeOK
<1>1. CASE UNCHANGED topic /\ reply'[q] # "accepted"
  BY <1>0, <1>1 DEF Pos
<1>2. CASE Publish(q)
  <2>1. topic' = [topic EXCEPT ![Home(q)] = Append(@, q)]
    BY <1>2 DEF Publish, PartitionsFor, Home
  <2>2. /\ topic'[Home(q)] = Append(topic[Home(q)], q)
        /\ \A p \in Partitions : p # Home(q) => topic'[p] = topic[p]
    BY <2>1, HomeType DEF TypeOK
  <2>3. /\ Len(topic'[Home(q)]) = Len(topic[Home(q)]) + 1
        /\ topic'[Home(q)][Len(topic[Home(q)]) + 1] = q
        /\ \A i \in Pos(Home(q)) : topic'[Home(q)][i] = topic[Home(q)][i]
    BY <1>0, <2>2, HomeType DEF Pos
  <2>4. \A p \in Partitions : Len(topic[p]) \in Nat
    BY <1>0
  <2> QED BY <2>2, <2>3, <2>4, HomeType DEF Pos
<1>3. reply' = [reply EXCEPT ![q] = "error"] => reply'[q] # "accepted"
  BY DEF TypeOK
<1> QED BY <1>1, <1>2, <1>3 DEF IngestKafka

\* A record is where the player of its event belongs, and only there.
LEMMA OnePlace ==
  ASSUME TopicInv, NEW p \in Partitions, NEW i \in Pos(p),
         NEW r \in Partitions, NEW j \in Pos(r), topic[p][i] = topic[r][j]
  PROVE  p = r /\ i = j
<1>1. p = r BY DEF TopicInv
<1> QED BY <1>1 DEF TopicInv

\* What CHOOSE selects as the offset of a record is its position.
LEMMA OffsetIsPosition ==
  ASSUME TopicInv, NEW p \in Partitions, NEW i \in Pos(p)
  PROVE  In(p, topic[p][i]) /\ Offset(p, topic[p][i]) = i
<1>1. \E k \in 1 .. Len(topic[p]) : topic[p][k] = topic[p][i]
  BY DEF Pos
<1>2. Offset(p, topic[p][i]) \in Pos(p)
      /\ topic[p][Offset(p, topic[p][i])] = topic[p][i]
  BY <1>1 DEF Offset, Pos
<1> QED BY <1>1, <1>2 DEF In, TopicInv

LEMMA InitPipeline == Init => PipelineInv
BY DEF Init, PipelineInv, TopicInv, AfterInv, PolledInv, BatchInv, HandledInv, Pos

\* A request of the kafka stack adds a record nobody has polled or handled.
LEMMA KafkaKeeps ==
  ASSUME TypeOK, PipelineInv, NEW q \in Requests, IngestKafka(q)
  PROVE  PipelineInv'
<1>1. /\ stack = "kafka" /\ reply[q] = "none"
      /\ UNCHANGED <<stack, owner, polled, marked, batch, handled>>
      /\ reply' \in [Requests -> {"none", "accepted", "error"}]
      /\ reply'[q] # "none" /\ \A x \in Requests : x # q => reply'[x] = reply[x]
      /\ after'[q] = {x \in Requests : reply[x] = "accepted"}
      /\ \A x \in Requests : x # q => after'[x] = after[x]
  BY DEF TypeOK, IngestKafka
<1>2. \A p \in Partitions : /\ \A i \in Pos(p) : topic[p][i] \in Requests \ {q}
                            /\ marked[p] <= polled[p] /\ polled[p] <= Len(topic[p])
                            /\ marked[p] \in Nat /\ polled[p] \in Nat
  <2>1. \A p \in Partitions : \A i \in Pos(p) : topic[p][i] \in Requests
    BY DEF TypeOK, Pos
  <2> QED BY <1>1, <2>1 DEF PipelineInv, TopicInv, TypeOK
<1>3. q \notin handled /\ \A w \in Workers : q \notin batch[w]
  BY <1>2 DEF PipelineInv, HandledInv, BatchInv
<1>4. TopicInv'
  <2>1. \A p \in Partitions : \A i \in Pos(p)' :
          reply'[topic'[p][i]] # "none" /\ Home(topic'[p][i]) = p
    <3>1. SUFFICES ASSUME NEW p \in Partitions, NEW i \in 1 .. Len(topic'[p])
                   PROVE  reply'[topic'[p][i]] # "none" /\ Home(topic'[p][i]) = p
      BY DEF Pos
    <3>2. CASE i \in Pos(p)
      <4>1. topic'[p][i] = topic[p][i] /\ topic[p][i] \in Requests \ {q}
        BY <1>2, <3>2, Grows
      <4> QED BY <1>1, <3>2, <4>1 DEF PipelineInv, TopicInv
    <3>3. CASE i \notin Pos(p)
      BY <1>1, <3>3, Grows
    <3> QED BY <3>2, <3>3
  <2>2. \A p \in Partitions : \A i, j \in Pos(p)' : topic'[p][i] = topic'[p][j] => i = j
    <3>1. SUFFICES ASSUME NEW p \in Partitions,
                          NEW i \in 1 .. Len(topic'[p]), NEW j \in 1 .. Len(topic'[p]),
                          topic'[p][i] = topic'[p][j]
                   PROVE  i = j
      BY DEF Pos
    <3>2. CASE i \in Pos(p) /\ j \in Pos(p)
      <4>1. topic[p][i] = topic[p][j] BY <3>1, <3>2, Grows
      <4> QED BY <3>2, <4>1 DEF PipelineInv, TopicInv
    <3>3. CASE i \in Pos(p) /\ j \notin Pos(p)
      <4>1. topic'[p][i] # q BY <1>2, <3>3, Grows
      <4>2. topic'[p][j] = q BY <3>3, Grows
      <4> QED BY <3>1, <4>1, <4>2
    <3>4. CASE i \notin Pos(p) /\ j \in Pos(p)
      <4>1. topic'[p][j] # q BY <1>2, <3>4, Grows
      <4>2. topic'[p][i] = q BY <3>4, Grows
      <4> QED BY <3>1, <4>1, <4>2
    <3>5. CASE i \notin Pos(p) /\ j \notin Pos(p)
      BY <3>5, Grows
    <3> QED BY <3>2, <3>3, <3>4, <3>5
  <2>3. \A x \in Requests : reply'[x] = "accepted" =>
          \E i \in 1 .. Len(topic'[Home(x)]) : topic'[Home(x)][i] = x
    <3>1. SUFFICES ASSUME NEW x \in Requests, x # q, reply[x] = "accepted"
                   PROVE  \E i \in 1 .. Len(topic'[Home(x)]) : topic'[Home(x)][i] = x
      BY <1>1, Grows
    <3>2. PICK i \in Pos(Home(x)) : topic[Home(x)][i] = x
      BY <1>1, <3>1 DEF PipelineInv, TopicInv
    <3> QED BY <3>2, Grows, HomeType DEF Pos
  <2>4. stack' = "kafka" BY <1>1
  <2> QED BY <2>1, <2>2, <2>3, <2>4 DEF TopicInv, Pos, Home
<1>5. AfterInv'
  <2>1. SUFFICES ASSUME NEW p \in Partitions, NEW j \in 1 .. Len(topic'[p]),
                        NEW x \in after'[topic'[p][j]], Home(x) = p
                 PROVE  \E i \in 1 .. (j - 1) : topic'[p][i] = x
    BY DEF AfterInv, Pos, Home
  <2>2. CASE j \in Pos(p)
    <3>1. x \in after[topic[p][j]]
      BY <1>1, <1>2, <2>1, <2>2, Grows
    <3>2. PICK i \in 1 .. (j - 1) : topic[p][i] = x
      BY <2>1, <2>2, <3>1 DEF PipelineInv, AfterInv
    <3>3. i \in Pos(p)
      BY <2>2, <3>2, Grows DEF Pos
    <3> QED BY <3>2, <3>3, Grows
  <2>3. CASE j \notin Pos(p)
    <3>1. j = Len(topic[p]) + 1 /\ topic'[p][j] = q /\ Len(topic[p]) \in Nat
      BY <2>1, <2>3, Grows
    <3>2. x \in Requests /\ reply[x] = "accepted"
      BY <1>1, <2>1, <3>1
    <3>3. PICK i \in Pos(p) : topic[p][i] = x
      BY <1>1, <2>1, <3>2 DEF PipelineInv, TopicInv
    <3> QED BY <3>1, <3>3, Grows DEF Pos
  <2> QED BY <2>2, <2>3
<1>6. PolledInv'
  <2>1. \A p \in Partitions : \A i \in 1 .. polled[p] :
          i \in Pos(p) /\ topic'[p][i] = topic[p][i]
    BY <1>2, Grows DEF Pos
  <2>2. \A p \in Partitions : \A i \in 1 .. marked[p] : i \in 1 .. polled[p]
    BY <1>2
  <2> QED BY <1>1, <2>1, <2>2 DEF PipelineInv, PolledInv
<1>7. BatchInv'
  <2>1. SUFFICES ASSUME NEW w \in Workers
        PROVE /\ \A x \in batch[w] : \E p \in Partitions : \E j \in Pos(p)' : topic'[p][j] = x
              /\ \A p \in Partitions : \A j \in Pos(p)' : \A i \in 1 .. (j - 1) :
                   topic'[p][j] \in batch[w] => topic'[p][i] \in handled \cup batch[w]
    BY <1>1 DEF BatchInv
  <2>2. \A x \in batch[w] : \E p \in Partitions : \E j \in Pos(p)' : topic'[p][j] = x
    BY Grows DEF PipelineInv, BatchInv, Pos
  <2>3. ASSUME NEW p \in Partitions, NEW j \in Pos(p)', NEW i \in 1 .. (j - 1),
               topic'[p][j] \in batch[w]
        PROVE  topic'[p][i] \in handled \cup batch[w]
    <3>1. j \in Pos(p)
      BY <1>3, <2>3, Grows DEF Pos
    <3>2. i \in Pos(p)
      BY <3>1, Grows DEF Pos
    <3>3. topic'[p][j] = topic[p][j] /\ topic'[p][i] = topic[p][i]
      BY <3>1, <3>2, Grows
    <3> QED BY <2>3, <3>1, <3>3 DEF PipelineInv, BatchInv
  <2> QED BY <2>2, <2>3
<1>8. HandledInv'
  <2>1. \A x \in handled : \E p \in Partitions : \E j \in Pos(p)' : topic'[p][j] = x
    BY Grows DEF PipelineInv, HandledInv, Pos
  <2>2. ASSUME NEW p \in Partitions, NEW j \in Pos(p)', NEW i \in 1 .. (j - 1),
               topic'[p][j] \in handled
        PROVE  topic'[p][i] \in handled
    <3>1. j \in Pos(p)
      BY <1>3, <2>2, Grows DEF Pos
    <3>2. i \in Pos(p)
      BY <3>1, Grows DEF Pos
    <3>3. topic'[p][j] = topic[p][j] /\ topic'[p][i] = topic[p][i]
      BY <3>1, <3>2, Grows
    <3> QED BY <2>2, <3>1, <3>3 DEF PipelineInv, HandledInv
  <2> QED BY <1>1, <2>1, <2>2 DEF HandledInv
<1> QED BY <1>4, <1>5, <1>6, <1>7, <1>8 DEF PipelineInv

\* The direct stack has no topic.
LEMMA DirectKeeps ==
  ASSUME TypeOK, PipelineInv, NEW q \in Requests, IngestDirect(q)
  PROVE  PipelineInv'
<1>1. stack = "direct" /\ UNCHANGED <<stack, topic, owner, polled, marked, batch, handled>>
  BY DEF IngestDirect, kafkaVars
<1>2. \A p \in Partitions : Pos(p) = {}
  BY <1>1 DEF PipelineInv, TopicInv, Pos
<1>3. TopicInv' /\ AfterInv'
  BY <1>1, <1>2 DEF PipelineInv, TopicInv, AfterInv, Pos, Home
<1>4. PolledInv' /\ BatchInv' /\ HandledInv'
  BY <1>1 DEF PipelineInv, PolledInv, BatchInv, HandledInv, Pos
<1> QED BY <1>3, <1>4 DEF PipelineInv

\* A worker polls when nothing is left in its hands, so what it polls comes
\* right after what is handled.
LEMMA PollKeeps ==
  ASSUME TypeOK, PipelineInv, NEW w \in Workers, Poll(w)
  PROVE  PipelineInv'
<1>1. /\ UNCHANGED <<stack, reply, topic, owner, marked, handled, after>>
      /\ batch[w] = {}
  BY DEF Poll
<1>2. PICK upto \in [Partitions -> 0 .. Cardinality(Requests)] :
        /\ \A p \in Partitions :
             IF owner[p] = w THEN polled[p] <= upto[p] /\ upto[p] <= Len(topic[p])
                             ELSE upto[p] = polled[p]
        /\ polled' = upto
        /\ batch' = [batch EXCEPT ![w] =
             UNION {{topic[p][i] : i \in polled[p] + 1 .. upto[p]} : p \in Partitions}]
  BY DEF Poll
<1>3. Cardinality(Requests) \in Nat
  BY EventAssumption, FS_CardinalityType
<1>4. \A p \in Partitions : /\ Len(topic[p]) \in Nat
                            /\ polled[p] \in Nat /\ upto[p] \in Nat
                            /\ polled[p] <= upto[p] /\ upto[p] <= Len(topic[p])
  BY <1>2, <1>3 DEF TypeOK
<1>5. /\ \A v \in Workers : v # w => batch'[v] = batch[v]
      /\ \A x : x \in batch'[w] <=>
           \E p \in Partitions : \E i \in polled[p] + 1 .. upto[p] : topic[p][i] = x
  BY <1>2 DEF TypeOK
<1>6. \A p \in Partitions : owner[p] = w =>
        \A i \in 1 .. polled[p] : topic[p][i] \in handled
  BY <1>1 DEF PipelineInv, PolledInv
<1>7. TopicInv' /\ AfterInv' /\ HandledInv'
  BY <1>1 DEF PipelineInv, TopicInv, AfterInv, HandledInv, Pos, Home
<1>8. PolledInv'
  <2>1. ASSUME NEW p \in Partitions, NEW i \in 1 .. upto[p]
        PROVE  topic[p][i] \in handled \cup batch'[owner[p]]
    <3>1. CASE owner[p] = w
      BY <1>4, <1>5, <1>6, <3>1
    <3>2. CASE owner[p] # w
      BY <1>2, <1>5, <3>2 DEF TypeOK, PipelineInv, PolledInv
    <3> QED BY <3>1, <3>2
  <2> QED BY <1>1, <1>2, <2>1 DEF PipelineInv, PolledInv
<1>9. BatchInv'
  <2>1. ASSUME NEW x \in batch'[w]
        PROVE  \E p \in Partitions : \E j \in Pos(p) : topic[p][j] = x
    <3>1. PICK p \in Partitions : \E i \in polled[p] + 1 .. upto[p] : topic[p][i] = x
      BY <1>5, <2>1
    <3> QED BY <1>4, <3>1 DEF Pos
  <2>2. ASSUME NEW p \in Partitions, NEW j \in Pos(p), NEW i \in 1 .. (j - 1),
               topic[p][j] \in batch'[w]
        PROVE  topic[p][i] \in handled \cup batch'[w]
    <3>0. PICK r \in Partitions : \E k \in polled[r] + 1 .. upto[r] : topic[r][k] = topic[p][j]
      BY <1>5, <2>2
    <3>1. PICK k \in polled[r] + 1 .. upto[r] : topic[r][k] = topic[p][j]
      BY <3>0
    <3>2. r = p /\ k = j
      BY <1>4, <3>1, OnePlace DEF PipelineInv, Pos
    <3>3. owner[p] = w
      BY <1>2, <1>4, <3>1, <3>2
    <3>4. CASE i \in 1 .. polled[p]
      BY <1>6, <3>3, <3>4
    <3>5. CASE i \in polled[p] + 1 .. upto[p]
      BY <1>5, <3>5
    <3> QED BY <1>4, <3>1, <3>2, <3>4, <3>5 DEF Pos
  <2>3. \A p : Pos(p)' = Pos(p)
    BY <1>1 DEF Pos
  <2>4. SUFFICES ASSUME NEW v \in Workers
        PROVE /\ \A x \in batch'[v] : \E p \in Partitions : \E j \in Pos(p) : topic[p][j] = x
              /\ \A p \in Partitions : \A j \in Pos(p) : \A i \in 1 .. (j - 1) :
                   topic[p][j] \in batch'[v] => topic[p][i] \in handled \cup batch'[v]
    BY <1>1, <2>3 DEF BatchInv
  <2>5. CASE v = w
    BY <2>1, <2>2, <2>5
  <2>6. CASE v # w
    BY <1>5, <2>6 DEF PipelineInv, BatchInv
  <2> QED BY <2>5, <2>6
<1> QED BY <1>7, <1>8, <1>9 DEF PipelineInv

\* A worker takes the first record it holds of a partition: everything before
\* it has been handled.
LEMMA ProcessKeeps ==
  ASSUME TypeOK, PipelineInv, NEW w \in Workers, NEW q \in Requests, Process(w, q)
  PROVE  PipelineInv'
<1>1. /\ UNCHANGED <<stack, reply, topic, owner, polled, after>>
      /\ q \in batch[w] /\ handled' = handled \cup {q}
      /\ batch' = [batch EXCEPT ![w] = @ \ {q}]
      /\ marked' = Marks(w, batch'[w])
  BY DEF Process
<1>2. /\ batch'[w] = batch[w] \ {q}
      /\ \A v \in Workers : v # w => batch'[v] = batch[v]
      /\ \A v \in Workers : handled \cup batch[v] \subseteq handled' \cup batch'[v]
      /\ \A v \in Workers : batch'[v] \subseteq batch[v]
  BY <1>1 DEF TypeOK
<1>3. TopicInv' /\ AfterInv'
  BY <1>1 DEF PipelineInv, TopicInv, AfterInv, Pos, Home
<1>4. PolledInv'
  <2>1. \A p \in Partitions : \A i \in 1 .. polled[p] :
          topic[p][i] \in handled' \cup batch'[owner[p]]
    BY <1>2 DEF PipelineInv, PolledInv, TypeOK
  <2>2. ASSUME NEW p \in Partitions, NEW i \in 1 .. marked'[p]
        PROVE  topic[p][i] \in handled'
    <3>1. CASE owner[p] = w /\ batch'[w] = {}
      <4>1. marked'[p] = polled[p]
        BY <1>1, <3>1 DEF Marks
      <4> QED BY <2>1, <2>2, <3>1, <4>1
    <3>2. CASE ~(owner[p] = w /\ batch'[w] = {})
      <4>1. marked'[p] = marked[p]
        BY <1>1, <3>2 DEF Marks
      <4> QED BY <1>1, <2>2, <4>1 DEF PipelineInv, PolledInv
    <3> QED BY <3>1, <3>2
  <2> QED BY <1>1, <2>1, <2>2 DEF PolledInv
<1>5. BatchInv'
  <2>1. SUFFICES ASSUME NEW v \in Workers
        PROVE /\ \A x \in batch'[v] : \E p \in Partitions : \E j \in Pos(p) : topic[p][j] = x
              /\ \A p \in Partitions : \A j \in Pos(p) : \A i \in 1 .. (j - 1) :
                   topic[p][j] \in batch'[v] => topic[p][i] \in handled' \cup batch'[v]
    BY <1>1 DEF BatchInv, Pos
  <2> QED BY <1>2 DEF PipelineInv, BatchInv
<1>6. HandledInv'
  <2>1. \E p \in Partitions : \E j \in Pos(p) : topic[p][j] = q
    BY <1>1 DEF PipelineInv, BatchInv
  <2>2. ASSUME NEW p \in Partitions, NEW j \in Pos(p), NEW i \in 1 .. (j - 1),
               topic[p][j] \in handled'
        PROVE  topic[p][i] \in handled'
    <3>1. CASE topic[p][j] \in handled
      BY <1>1, <2>2, <3>1 DEF PipelineInv, HandledInv
    <3>2. CASE topic[p][j] = q
      <4>1. topic[p][i] \in handled \cup batch[w]
        BY <1>1, <3>2 DEF PipelineInv, BatchInv
      <4>2. i \in Pos(p) /\ ~(j <= i)
        BY DEF Pos, TypeOK
      <4>3. topic[p][i] \notin batch[w]
        <5>1. In(p, q) /\ Offset(p, q) = j
          BY <3>2, OffsetIsPosition DEF PipelineInv
        <5>2. In(p, topic[p][i]) /\ Offset(p, topic[p][i]) = i
          BY <4>2, OffsetIsPosition DEF PipelineInv
        <5>3. \A x \in batch[w] : In(p, x) => Offset(p, q) <= Offset(p, x)
          BY <5>1 DEF Process
        <5> QED BY <4>2, <5>1, <5>2, <5>3
      <4> QED BY <1>1, <4>1, <4>3
    <3> QED BY <1>1, <2>2, <3>1, <3>2
  <2> QED BY <1>1, <2>1, <2>2 DEF PipelineInv, HandledInv, Pos
<1> QED BY <1>3, <1>4, <1>5, <1>6 DEF PipelineInv

\* A commit, a restart and a rebalance leave the records where they are; they
\* resume at an offset that is not past what is handled.
LEMMA MovesKeep ==
  ASSUME TypeOK, PipelineInv, NEW w \in Workers,
         Restart(w) \/ \E p \in Partitions : Rebalance(p, w)
  PROVE  PipelineInv'
<1>1. UNCHANGED <<stack, reply, topic, committed, handled, after>>
  BY DEF Restart, Rebalance
<1>2. TopicInv' /\ AfterInv' /\ HandledInv'
  <2>1. TopicInv'
    BY <1>1 DEF PipelineInv, TopicInv, Pos, Home
  <2>2. AfterInv' /\ HandledInv'
    BY <1>1 DEF PipelineInv, AfterInv, HandledInv, Pos, Home
  <2> QED BY <2>1, <2>2
<1>3. \A p \in Partitions : committed[p] \in Nat /\ marked[p] \in Nat
                            /\ committed[p] <= marked[p]
  BY DEF TypeOK
<1>4. CASE Restart(w)
  <2>1. /\ owner' = owner /\ batch'[w] = {}
        /\ \A v \in Workers : v # w => batch'[v] = batch[v]
        /\ \A p \in Partitions :
             IF owner[p] = w THEN polled'[p] = committed[p] /\ marked'[p] = committed[p]
                             ELSE polled'[p] = polled[p] /\ marked'[p] = marked[p]
    BY <1>4 DEF Restart, Resume, ResumeAt, TypeOK
  <2>2. PolledInv'
    <3>1. SUFFICES ASSUME NEW p \in Partitions
          PROVE /\ \A i \in 1 .. marked'[p] : topic[p][i] \in handled
                /\ \A i \in 1 .. polled'[p] : topic[p][i] \in handled \cup batch'[owner[p]]
      BY <1>1, <2>1 DEF PolledInv
    <3>2. owner[p] \in Workers
      BY DEF TypeOK
    <3>3. CASE owner[p] = w
      BY <1>3, <2>1, <3>3 DEF PipelineInv, PolledInv
    <3>4. CASE owner[p] # w
      BY <2>1, <3>2, <3>4 DEF PipelineInv, PolledInv
    <3> QED BY <3>3, <3>4
  <2>3. BatchInv'
    BY <1>1, <2>1 DEF PipelineInv, BatchInv, Pos
  <2> QED BY <1>2, <2>2, <2>3 DEF PipelineInv
<1>5. ASSUME NEW r \in Partitions, Rebalance(r, w) PROVE PipelineInv'
  <2>1. /\ batch' = batch
        /\ \A p \in Partitions : p # r =>
             owner'[p] = owner[p] /\ polled'[p] = polled[p] /\ marked'[p] = marked[p]
        /\ polled'[r] = committed[r] /\ marked'[r] = committed[r]
    BY <1>5 DEF Rebalance, Resume, ResumeAt, TypeOK
  <2>2. PolledInv'
    BY <1>1, <1>3, <2>1 DEF PipelineInv, PolledInv
  <2>3. BatchInv'
    BY <1>1, <2>1 DEF PipelineInv, BatchInv, Pos
  <2> QED BY <1>2, <2>2, <2>3 DEF PipelineInv
<1> QED BY <1>4, <1>5

LEMMA PipelineStep ==
  ASSUME TypeOK, PipelineInv, [Next]_vars
  PROVE  PipelineInv'
<1>1. CASE UNCHANGED <<stack, reply, topic, owner, polled, marked, batch, handled, after>>
  BY <1>1 DEF PipelineInv, TopicInv, AfterInv, PolledInv, BatchInv, HandledInv, Pos, Home
<1>2. CASE UNCHANGED vars
  BY <1>1, <1>2 DEF vars, kafkaVars
<1>3. ASSUME NEW p \in Partitions, Commit(p) PROVE PipelineInv'
  BY <1>1, <1>3 DEF Commit
<1>4. CASE Next
  BY <1>3, <1>4, KafkaKeeps, DirectKeeps, PollKeeps, ProcessKeeps, MovesKeep DEF Next
<1> QED BY <1>2, <1>4

LEMMA PipelineCorrect == Spec => []PipelineInv
<1>1. Init => PipelineInv BY InitPipeline
<1>2. TypeOK /\ PipelineInv /\ [Next]_vars => PipelineInv' BY PipelineStep
<1> QED BY <1>1, <1>2, TypeCorrect, PTL DEF Spec

\* At least once: the consumer group never commits an offset past a record that
\* no worker has handled, whatever restarts and rebalances fall into a batch.
THEOREM CommitsOnlyHandled == Spec => []NothingSkipped
<1>1. TypeOK /\ PipelineInv => NothingSkipped
  BY DEF TypeOK, PipelineInv, PolledInv, NothingSkipped
<1> QED BY <1>1, TypeCorrect, PipelineCorrect, PTL

\* Events of a player are handled in the order in which they were accepted,
\* although partitions move and old owners go on with what they have polled.
THEOREM PlayersInOrder == Spec => []PlayerOrder
<1>1. ASSUME TypeOK, PipelineInv PROVE PlayerOrder
  <2>1. SUFFICES ASSUME NEW q \in handled, NEW x \in after[q],
                        PlayerOf[EventOf[x]] = PlayerOf[EventOf[q]]
                 PROVE  x \in handled
    BY DEF PlayerOrder
  <2>0. PICK p \in Partitions : \E j \in Pos(p) : topic[p][j] = q
    BY <1>1 DEF PipelineInv, HandledInv
  <2>2. PICK j \in Pos(p) : topic[p][j] = q
    BY <2>0
  <2>3. Home(x) = p
    BY <1>1, <2>1, <2>2 DEF PipelineInv, TopicInv, Home
  <2>4. PICK i \in 1 .. (j - 1) : topic[p][i] = x
    BY <1>1, <2>2, <2>3 DEF PipelineInv, AfterInv
  <2> QED BY <1>1, <2>2, <2>4 DEF PipelineInv, HandledInv
<1> QED BY <1>1, TypeCorrect, PipelineCorrect, PTL

-----------------------------------------------------------------------------
(* The queries *)

\* The handlers of queries only read: with them the pipeline does what it does
\* without them, so everything above holds of the composition.
THEOREM QueriesOnlyRead == QuerySpec => Spec
<1>1. QueryInit => Init
  BY DEF QueryInit
<1>2. [QueryNext]_<<vars, queryVars>> => [Next]_vars
  BY DEF QueryNext, Hit, Query, QueryUncached, NotFound, Fill, QueryFails, Ask, Expire
<1> QED BY <1>1, <1>2, PTL DEF QuerySpec, Spec

\* The additions made so far, to any total.
AllAdditions == UNION {{e} \X (1 .. added[e]) : e \in Events}

\* Requests that were accepted, and those that must show in a total.
AcceptedNow == {q \in Requests : reply[q] = "accepted"}

Showing(S, x) == {q \in S : PlayerOf[EventOf[q]] = x /\ EventOf[q] \in Counted}

\* Behind event-svc-direct every accepted request has an addition of its own.
AdditionsInv ==
  /\ IsFiniteSet(AllAdditions)
  /\ stack = "direct" =>
       \E num \in [Requests -> Nat] :
         /\ \A q \in AcceptedNow : EventOf[q] \in Counted => num[q] \in 1 .. added[EventOf[q]]
         /\ \A q, r \in AcceptedNow :
              EventOf[q] \in Counted /\ EventOf[q] = EventOf[r] /\ num[q] = num[r] => q = r

\* What a handler holds: a query it counts on is no older than it says, and an
\* answer it has given counts all of them.
HandlerInv ==
  /\ handler = [r \in Readers |-> [phase |-> handler[r].phase, key |-> handler[r].key,
                                   answer |-> handler[r].answer, since |-> handler[r].since]]
  /\ Uncached => \A r \in Readers :
       /\ handler[r].phase # "read"
       /\ handler[r].since \subseteq AcceptedNow
       /\ handler[r].phase = "answered" =>
            \A x \in DOMAIN handler[r].answer :
              handler[r].answer[x] >= Cardinality(Showing(handler[r].since, x))

\* A transaction makes one addition or none.
LEMMA TransactionAdds ==
  ASSUME TypeOK, NEW e \in Events, Transaction(e)
  PROVE  /\ \A x \in Events : added'[x] >= added[x]
         /\ Storable(e) /\ e \in Counted => added'[e] = added[e] + 1
         /\ \/ UNCHANGED added
            \/ AllAdditions' = AllAdditions \cup {<<e, added[e] + 1>>}
<1>1. added \in [Events -> Nat]
  BY DEF TypeOK
<1>2. CASE Storable(e) /\ e \in Counted
  <2>1. added' = [added EXCEPT ![e] = @ + 1]
    BY <1>2 DEF Transaction
  <2>2. \A x \in Events : added'[x] = IF x = e THEN added[e] + 1 ELSE added[x]
    BY <1>1, <2>1
  <2>3. AllAdditions' = AllAdditions \cup {<<e, added[e] + 1>>}
    <3>1. 1 .. added[e] + 1 = (1 .. added[e]) \cup {added[e] + 1}
      BY <1>1
    <3>2. \A x \in Events : {x} \X (1 .. added'[x]) =
            ({x} \X (1 .. added[x])) \cup IF x = e THEN {<<e, added[e] + 1>>} ELSE {}
      BY <2>2, <3>1
    <3> QED BY <3>2 DEF AllAdditions
  <2> QED BY <1>1, <1>2, <2>2, <2>3
<1>3. CASE ~(Storable(e) /\ e \in Counted)
  <2>1. UNCHANGED added
    BY <1>3 DEF Transaction, dbVars
  <2> QED BY <1>1, <1>3, <2>1
<1> QED BY <1>2, <1>3


LEMMA AdditionsInit == Init => AdditionsInv
<1> SUFFICES ASSUME Init PROVE AdditionsInv
  OBVIOUS
<1>1. AllAdditions = {}
  <2>1. \A e \in Events : 1 .. added[e] = {}
    BY DEF Init
  <2> QED BY <2>1 DEF AllAdditions
<1>2. AcceptedNow = {}
  BY DEF Init, AcceptedNow
<1>3. [q \in Requests |-> 0] \in [Requests -> Nat]
  OBVIOUS
<1> QED BY <1>1, <1>2, <1>3, FS_EmptySet DEF AdditionsInv

\* An addition is one more element, and none is ever taken back.
LEMMA AdditionsGrow ==
  ASSUME TypeOK, AdditionsInv, NEW e \in Events, Transaction(e) \/ UNCHANGED dbVars
  PROVE  /\ IsFiniteSet(AllAdditions')
         /\ \A x \in Events : added[x] \in Nat /\ added'[x] \in Nat /\ added'[x] >= added[x]
<1>1. added \in [Events -> Nat] /\ added' \in [Events -> Nat]
  BY TransactionTypes DEF TypeOK
<1>2. CASE UNCHANGED dbVars
  BY <1>1, <1>2 DEF dbVars, AdditionsInv, AllAdditions
<1>3. CASE Transaction(e)
  <2>1. UNCHANGED added \/ AllAdditions' = AllAdditions \cup {<<e, added[e] + 1>>}
    BY <1>3, TransactionAdds
  <2>2. IsFiniteSet(AllAdditions \cup {<<e, added[e] + 1>>})
    BY FS_AddElement DEF AdditionsInv
  <2>3. IsFiniteSet(AllAdditions')
    BY <2>1, <2>2 DEF AdditionsInv, AllAdditions
  <2> QED BY <1>1, <1>3, <2>3, TransactionAdds
<1> QED BY <1>2, <1>3

\* Nobody is accepted without an addition.
LEMMA AdditionsKept ==
  ASSUME TypeOK, AdditionsInv, stack' = stack, AcceptedNow' \subseteq AcceptedNow,
         \A x \in Events : added[x] \in Nat /\ added'[x] \in Nat /\ added'[x] >= added[x],
         IsFiniteSet(AllAdditions')
  PROVE  AdditionsInv'
<1>1. CASE stack = "direct"
  <2>1. PICK num \in [Requests -> Nat] :
          /\ \A q \in AcceptedNow : EventOf[q] \in Counted => num[q] \in 1 .. added[EventOf[q]]
          /\ \A q, r \in AcceptedNow :
               EventOf[q] \in Counted /\ EventOf[q] = EventOf[r] /\ num[q] = num[r] => q = r
    BY <1>1 DEF AdditionsInv
  <2>2. \A q \in AcceptedNow' : EventOf[q] \in Counted => num[q] \in 1 .. added'[EventOf[q]]
    BY <2>1, EventAssumption DEF AcceptedNow
  <2> QED BY <2>1, <2>2 DEF AdditionsInv
<1> QED BY <1>1 DEF AdditionsInv

LEMMA DirectAdds ==
  ASSUME TypeOK, AdditionsInv, NEW q \in Requests, IngestDirect(q)
  PROVE  AdditionsInv'
<1> DEFINE e == EventOf[q]
<1>1. e \in Events /\ (Transaction(e) \/ UNCHANGED dbVars) /\ stack = "direct" /\ stack' = stack
  BY EventAssumption DEF IngestDirect
<1>2. /\ IsFiniteSet(AllAdditions')
      /\ \A x \in Events : added[x] \in Nat /\ added'[x] \in Nat /\ added'[x] >= added[x]
  BY <1>1, AdditionsGrow
<1>3. reply[q] = "none" /\ \A x \in Requests : x # q => reply'[x] = reply[x]
  BY DEF TypeOK, IngestDirect
<1>4. CASE reply'[q] # "accepted"
  <2>1. AcceptedNow' \subseteq AcceptedNow
    BY <1>3, <1>4 DEF AcceptedNow
  <2> QED BY <1>1, <1>2, <2>1, AdditionsKept
<1>5. CASE reply'[q] = "accepted"
  <2>1. Transaction(e) /\ Storable(e)
    BY <1>5 DEF IngestDirect, TypeOK
  <2>2. e \in Counted => added'[e] = added[e] + 1
    BY <1>1, <2>1, TransactionAdds
  <2>3. AcceptedNow' = AcceptedNow \cup {q} /\ q \notin AcceptedNow
    BY <1>3, <1>5 DEF AcceptedNow
  <2>4. PICK num \in [Requests -> Nat] :
          /\ \A x \in AcceptedNow : EventOf[x] \in Counted => num[x] \in 1 .. added[EventOf[x]]
          /\ \A x, y \in AcceptedNow :
               EventOf[x] \in Counted /\ EventOf[x] = EventOf[y] /\ num[x] = num[y] => x = y
    BY <1>1 DEF AdditionsInv
  <2> DEFINE num2 == [num EXCEPT ![q] = added'[e]]
  <2>5. num2 \in [Requests -> Nat] /\ num2[q] = added'[e]
        /\ \A x \in AcceptedNow : num2[x] = num[x]
    BY <1>1, <1>2, <2>3 DEF AcceptedNow
  <2> HIDE DEF num2
  <2>6. \A x \in AcceptedNow' : EventOf[x] \in Counted => num2[x] \in 1 .. added'[EventOf[x]]
    <3>1. ASSUME NEW x \in AcceptedNow, EventOf[x] \in Counted
          PROVE  num2[x] \in 1 .. added'[EventOf[x]]
      <4>1. EventOf[x] \in Events
        BY EventAssumption DEF AcceptedNow
      <4> QED BY <1>2, <2>4, <2>5, <3>1, <4>1
    <3>2. e \in Counted => num2[q] \in 1 .. added'[e]
      BY <1>1, <1>2, <2>2, <2>5
    <3> QED BY <2>3, <3>1, <3>2
  <2>7. ASSUME NEW x \in AcceptedNow, EventOf[x] \in Counted, EventOf[x] = e
        PROVE  num2[x] # num2[q]
    BY <1>1, <1>2, <2>2, <2>4, <2>5, <2>7
  <2>8. \A x, y \in AcceptedNow' :
          EventOf[x] \in Counted /\ EventOf[x] = EventOf[y] /\ num2[x] = num2[y] => x = y
    BY <2>3, <2>4, <2>5, <2>7
  <2> QED BY <1>2, <2>5, <2>6, <2>8 DEF AdditionsInv
<1> QED BY <1>4, <1>5

LEMMA AdditionsStep ==
  ASSUME TypeOK, AdditionsInv, [Next]_vars
  PROVE  AdditionsInv'
<1>1. ASSUME NEW q \in Requests, IngestKafka(q) PROVE AdditionsInv'
  BY <1>1 DEF IngestKafka, dbVars, AdditionsInv, AllAdditions
<1>2. ASSUME UNCHANGED <<stack, reply, added>> PROVE AdditionsInv'
  BY <1>2 DEF AdditionsInv, AllAdditions, AcceptedNow
<1>3. ASSUME NEW w \in Workers, NEW q \in Requests, Process(w, q) PROVE AdditionsInv'
  <2>1. EventOf[q] \in Events /\ (Transaction(EventOf[q]) \/ UNCHANGED dbVars)
        /\ UNCHANGED <<stack, reply>>
    BY <1>3, EventAssumption DEF Process
  <2> QED BY <2>1, AdditionsGrow, AdditionsKept DEF AcceptedNow
<1>4. CASE UNCHANGED vars
  BY <1>2, <1>4 DEF vars, dbVars
<1>5. ASSUME NEW w \in Workers, Poll(w) \/ Restart(w) PROVE AdditionsInv'
  BY <1>2, <1>5 DEF Poll, Restart, dbVars
<1>6. ASSUME NEW p \in Partitions, Commit(p) \/ \E w \in Workers : Rebalance(p, w)
      PROVE  AdditionsInv'
  BY <1>2, <1>6 DEF Commit, Rebalance, dbVars
<1> QED BY <1>1, <1>3, <1>4, <1>5, <1>6, DirectAdds DEF Next


\* What an answer says of a player is its total.
LEMMA AnswersAreTotals ==
  ASSUME NEW k, NEW a \in Answers(k), NEW x \in DOMAIN a
  PROVE  a[x] = Total(x)
<1>1. CASE k = Board
  BY <1>1 DEF Answers, BoardAnswers
<1>2. CASE k # Board
  BY <1>2 DEF Answers, PlayerAnswers
<1> QED BY <1>1, <1>2

\* Every accepted event of a player is in its total: the numbers of AdditionsInv
\* map the requests one to one into the additions.
LEMMA TotalsCoverAccepted ==
  ASSUME TypeOK, AdditionsInv, stack = "direct", NEW S \in SUBSET AcceptedNow, NEW x
  PROVE  /\ Total(x) \in Nat /\ Cardinality(Showing(S, x)) \in Nat
         /\ Total(x) >= Cardinality(Showing(S, x))
<1>1. PICK num \in [Requests -> Nat] :
        /\ \A q \in AcceptedNow : EventOf[q] \in Counted => num[q] \in 1 .. added[EventOf[q]]
        /\ \A q, r \in AcceptedNow :
             EventOf[q] \in Counted /\ EventOf[q] = EventOf[r] /\ num[q] = num[r] => q = r
  BY DEF AdditionsInv
<1> DEFINE shown == Showing(S, x)
           place == [q \in shown |-> <<EventOf[q], num[q]>>]
<1>2. IsFiniteSet(Additions(x))
  <2>1. Additions(x) \subseteq AllAdditions
    BY DEF Additions, AllAdditions
  <2> QED BY <2>1, FS_Subset DEF AdditionsInv
<1>3. ASSUME NEW q \in shown PROVE <<EventOf[q], num[q]>> \in Additions(x)
  <2>1. /\ EventOf[q] \in {y \in Events : PlayerOf[y] = x}
        /\ num[q] \in 1 .. added[EventOf[q]]
    BY <1>1, <1>3, EventAssumption DEF Showing, AcceptedNow
  <2>2. <<EventOf[q], num[q]>> \in {EventOf[q]} \X (1 .. added[EventOf[q]])
    BY <2>1
  <2> QED BY <2>1, <2>2 DEF Additions
<1>4. place \in [shown -> Additions(x)]
  BY <1>3
<1>5. ASSUME NEW q \in shown, NEW r \in shown, place[q] = place[r] PROVE q = r
  <2>1. EventOf[q] = EventOf[r] /\ num[q] = num[r]
    BY <1>5
  <2> QED BY <1>1, <2>1 DEF Showing
<1>6. place \in Injection(shown, Additions(x))
  BY <1>4, <1>5 DEF Injection, IsInjective
<1>7. IsFiniteSet(shown) /\ Cardinality(shown) <= Cardinality(Additions(x))
  BY <1>2, <1>6, FS_Injection
<1> QED BY <1>2, <1>7, FS_CardinalityType DEF Total

\* What a handler is after it has got an answer.
LEMMA HandlerAnswered ==
  ASSUME HandlerInv, NEW r \in Readers, NEW phase, NEW answer
  PROVE  [handler EXCEPT ![r].phase = phase, ![r].answer = answer]
           = [handler EXCEPT ![r] = [phase |-> phase, key |-> handler[r].key,
                                     answer |-> answer, since |-> handler[r].since]]
<1> DEFINE h == [phase |-> phase, key |-> handler[r].key,
                 answer |-> answer, since |-> handler[r].since]
<1>1. /\ handler = [s \in Readers |-> handler[s]]
      /\ handler[r] = [phase |-> handler[r].phase, key |-> handler[r].key,
                       answer |-> handler[r].answer, since |-> handler[r].since]
  BY DEF HandlerInv
<1> DEFINE g == [handler EXCEPT ![r].phase = phase]
<1>2. /\ g = [s \in Readers |-> g[s]]
      /\ g[r] = [phase |-> phase, key |-> handler[r].key,
                 answer |-> handler[r].answer, since |-> handler[r].since]
      /\ \A s \in Readers : s # r => g[s] = handler[s]
  BY <1>1
<1>3. [g EXCEPT ![r].answer = answer] = [handler EXCEPT ![r] = h]
  <2> HIDE DEF g
  <2>1. [g[r] EXCEPT !.answer = answer] = h
    BY <1>2
  <2>2. [g EXCEPT ![r].answer = answer] = [s \in Readers |-> IF s = r THEN h ELSE handler[s]]
    BY <1>2, <2>1
  <2>3. [handler EXCEPT ![r] = h] = [s \in Readers |-> IF s = r THEN h ELSE handler[s]]
    BY <1>1
  <2> QED BY <2>2, <2>3
<1> QED BY <1>3

LEMMA HandlerInit == QueryInit => HandlerInv
BY DEF QueryInit, HandlerInv, Idle

\* The pipeline leaves the handlers alone and takes no acceptance back.
LEMMA HandlerKept ==
  ASSUME TypeOK, HandlerInv, [Next]_vars, UNCHANGED queryVars
  PROVE  HandlerInv'
<1>1. stack' = stack
  BY DEF Next, vars, IngestKafka, IngestDirect, Poll, Process, Commit, Rebalance, Restart
<1>2. AcceptedNow \subseteq AcceptedNow'
  BY DEF TypeOK, AcceptedNow, Next, vars, IngestKafka, IngestDirect, Poll, Process, Commit,
         Rebalance, Restart
<1> QED BY <1>1, <1>2 DEF HandlerInv, Uncached, queryVars, Showing

LEMMA HandlerStep ==
  ASSUME TypeOK, AdditionsInv, HandlerInv, [QueryNext]_<<vars, queryVars>>
  PROVE  HandlerInv'
<1>1. CASE [Next]_vars /\ UNCHANGED queryVars
  BY <1>1, HandlerKept
<1>2. ASSUME UNCHANGED vars, UNCHANGED caching
      PROVE  /\ Uncached' = Uncached /\ AcceptedNow' = AcceptedNow
             /\ \A S, x : Showing(S, x)' = Showing(S, x)
  BY <1>2 DEF Uncached, vars, AcceptedNow, Showing
<1>3. ASSUME NEW k \in CacheKeys, Expire(k) PROVE HandlerInv'
  BY <1>2, <1>3 DEF Expire, HandlerInv, Showing
<1>4. ASSUME NEW r \in Readers, UNCHANGED vars, UNCHANGED caching,
             NEW h, handler' = [handler EXCEPT ![r] = h],
             h = [phase |-> h.phase, key |-> h.key, answer |-> h.answer, since |-> h.since],
             Uncached => /\ h.phase # "read" /\ h.since \subseteq AcceptedNow
                         /\ h.phase = "answered" => \A x \in DOMAIN h.answer :
                              h.answer[x] >= Cardinality(Showing(h.since, x))
      PROVE  HandlerInv'
  <2>1. handler'[r] = h /\ \A s \in Readers : s # r => handler'[s] = handler[s]
    BY <1>4 DEF HandlerInv
  <2>2. handler' = [s \in Readers |->
          [phase |-> handler'[s].phase, key |-> handler'[s].key,
           answer |-> handler'[s].answer, since |-> handler'[s].since]]
    BY <1>4, <2>1 DEF HandlerInv
  <2>3. Uncached' = Uncached /\ AcceptedNow' = AcceptedNow
        /\ \A S, x : Showing(S, x)' = Showing(S, x)
    BY <1>2, <1>4
  <2>4. ASSUME Uncached, NEW s \in Readers
        PROVE  /\ handler'[s].phase # "read" /\ handler'[s].since \subseteq AcceptedNow
               /\ handler'[s].phase = "answered" => \A x \in DOMAIN handler'[s].answer :
                    handler'[s].answer[x] >= Cardinality(Showing(handler'[s].since, x))
    BY <1>4, <2>1, <2>4 DEF HandlerInv
  <2> QED BY <2>2, <2>3, <2>4 DEF HandlerInv, Showing
<1>5. ASSUME NEW r \in Readers, NEW k \in CacheKeys, Ask(r, k) PROVE HandlerInv'
  <2> DEFINE h == [phase |-> "asked", key |-> k, answer |-> None,
                   since |-> {q \in Requests : Uncached /\ reply[q] = "accepted"}]
  <2>1. handler' = [handler EXCEPT ![r] = h] /\ UNCHANGED vars /\ UNCHANGED caching
    BY <1>5 DEF Ask
  <2>2. h.since \subseteq AcceptedNow
    BY DEF AcceptedNow
  <2>3. h = [phase |-> h.phase, key |-> h.key, answer |-> h.answer, since |-> h.since]
    OBVIOUS
  <2>4. h.phase # "read" /\ h.phase # "answered"
    OBVIOUS
  <2> HIDE DEF h
  <2> QED BY <1>4, <2>1, <2>2, <2>3, <2>4
<1>6. ASSUME NEW r \in Readers, NotFound(r) \/ QueryFails(r) PROVE HandlerInv'
  <2>1. handler' = [handler EXCEPT ![r] = Idle] /\ UNCHANGED vars /\ UNCHANGED caching
    BY <1>6 DEF NotFound, QueryFails
  <2>2. /\ Idle = [phase |-> Idle.phase, key |-> Idle.key, answer |-> Idle.answer,
                   since |-> Idle.since]
        /\ Idle.phase = "idle" /\ Idle.since = {}
    BY DEF Idle
  <2> QED BY <1>4, <2>1, <2>2
<1>7. ASSUME NEW r \in Readers, Hit(r) \/ Query(r) \/ Fill(r) PROVE HandlerInv'
  <2>1. /\ UNCHANGED vars /\ UNCHANGED caching
        /\ ~Uncached
    BY <1>7 DEF Hit, Query, Fill, UsesCache, Uncached, HandlerInv
  <2>2. PICK phase, answer :
          handler' = [handler EXCEPT ![r].phase = phase, ![r].answer = answer]
    <3>1. CASE Hit(r) BY <3>1 DEF Hit
    <3>2. CASE Query(r) BY <3>2 DEF Query
    <3>3. CASE Fill(r)
      <4>1. handler' = [handler EXCEPT ![r].phase = "answered"]
        BY <3>3 DEF Fill
      <4>2. [handler EXCEPT ![r].phase = "answered"]
              = [handler EXCEPT ![r].phase = "answered", ![r].answer = handler[r].answer]
        BY DEF HandlerInv
      <4> QED BY <4>1, <4>2
    <3> QED BY <1>7, <3>1, <3>2, <3>3
  <2> DEFINE h == [phase |-> phase, key |-> handler[r].key, answer |-> answer,
                   since |-> handler[r].since]
  <2>3. handler' = [handler EXCEPT ![r] = h]
    BY <2>2, HandlerAnswered
  <2>4. h = [phase |-> h.phase, key |-> h.key, answer |-> h.answer, since |-> h.since]
    OBVIOUS
  <2> HIDE DEF h
  <2> QED BY <1>4, <2>1, <2>3, <2>4
<1>8. ASSUME NEW r \in Readers, QueryUncached(r) PROVE HandlerInv'
  <2>1. UNCHANGED vars /\ UNCHANGED caching
    BY <1>8 DEF QueryUncached
  <2>2. PICK a \in Answers(handler[r].key) :
          handler' = [handler EXCEPT ![r].phase = "answered", ![r].answer = a]
    BY <1>8 DEF QueryUncached
  <2> DEFINE h == [phase |-> "answered", key |-> handler[r].key, answer |-> a,
                   since |-> handler[r].since]
  <2>3. handler' = [handler EXCEPT ![r] = h]
    BY <2>2, HandlerAnswered
  <2>4. h = [phase |-> h.phase, key |-> h.key, answer |-> h.answer, since |-> h.since]
    OBVIOUS
  <2>5. ASSUME Uncached, NEW x \in DOMAIN a
        PROVE  a[x] >= Cardinality(Showing(handler[r].since, x))
    <3>1. a[x] = Total(x)
      BY <2>2, AnswersAreTotals
    <3>2. handler[r].since \in SUBSET AcceptedNow /\ stack = "direct"
      BY <2>5 DEF HandlerInv, Uncached
    <3> QED BY <3>1, <3>2, TotalsCoverAccepted
  <2>6. h.phase = "answered" /\ h.answer = a /\ h.since = handler[r].since
    OBVIOUS
  <2>7. Uncached => h.since \subseteq AcceptedNow
    BY <2>6 DEF HandlerInv
  <2> HIDE DEF h
  <2> QED BY <1>4, <2>1, <2>3, <2>4, <2>5, <2>6, <2>7
<1>9. CASE UNCHANGED <<vars, queryVars>>
  BY <1>1, <1>9
<1> QED
  BY <1>1, <1>3, <1>5, <1>6, <1>7, <1>8, <1>9 DEF QueryNext

\* Without a cache, behind event-svc-direct, a query counts every event of a
\* player that was accepted before it was sent, whatever fails on the way.
THEOREM QueriesCountWhatWasAccepted == QuerySpec => []ReadYourEvents
<1>1. TypeOK /\ AdditionsInv /\ [Next]_vars => AdditionsInv'
  BY AdditionsStep
<1>2. Spec => []AdditionsInv
  BY <1>1, AdditionsInit, TypeCorrect, PTL DEF Spec
<1>3. TypeOK /\ AdditionsInv /\ HandlerInv /\ [QueryNext]_<<vars, queryVars>> => HandlerInv'
  BY HandlerStep
<1>4. HandlerInv => ReadYourEvents
  BY DEF HandlerInv, ReadYourEvents, Showing
<1> QED
  BY <1>2, <1>3, <1>4, HandlerInit, TypeCorrect, QueriesOnlyRead, PTL DEF QuerySpec
=============================================================================
