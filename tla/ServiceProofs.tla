---------------------------- MODULE ServiceProofs ----------------------------
(***************************************************************************)
(* Order processing: no accepted order is lost, for any number of orders,  *)
(* workers, crashes, failed calls and timeouts.                            *)
(*                                                                         *)
(* The guarded search: the semaphore counts the requests inside, and a     *)
(* half-open breaker never waits for a call that is not there, for any     *)
(* number of clients and any capacity, threshold and quota.                *)
(***************************************************************************)
EXTENDS OrderProcessing, SearchGuard, FiniteSetTheorems, TLAPS

(* Orders *)

StatusType ==
  status \in [Orders -> {"none", "waiting", "paying", "paid", "accepted", "error"}]

\* A goroutine deletes a message only when its order is completed: why a delete,
\* by whatever receipt, takes nothing away that is still to be done.
DeletesWhatIsDone == \A m \in deleting : m[1] \in completed

OrderInv == StatusType /\ DeletesWhatIsDone /\ NothingLost

LEMMA OrderInvInit == OrderInit => OrderInv
BY DEF OrderInit, OrderInv, StatusType, DeletesWhatIsDone, NothingLost

\* The receiver: an order becomes accepted only as its message enters the queue.
LEMMA ReceiverKeeps ==
  ASSUME OrderInv, NEW o \in Orders,
         SyncOrder(o) \/ TakeSlot(o) \/ Pay(o) \/ AsyncOrder(o)
  PROVE  OrderInv'
<1>1. StatusType'
  BY DEF OrderInv, StatusType, SyncOrder, TakeSlot, Pay, AsyncOrder
<1>2. messages \subseteq messages' /\ UNCHANGED <<deleting, completed>>
  BY DEF SyncOrder, TakeSlot, Pay, AsyncOrder, Enqueue, queueVars, workerVars
<1>3. DeletesWhatIsDone'
  BY <1>2 DEF OrderInv, DeletesWhatIsDone
<1>4. NothingLost'
  <2> SUFFICES ASSUME NEW x \in Orders, status'[x] = "accepted"
               PROVE  x \in messages' \cup completed'
    BY DEF NothingLost
  <2>1. CASE status[x] = "accepted"
    BY <2>1, <1>2 DEF OrderInv, NothingLost
  <2>2. CASE status[x] # "accepted"
    <3>1. x = o /\ AsyncOrder(o)
      BY <2>2 DEF OrderInv, StatusType, SyncOrder, TakeSlot, Pay, AsyncOrder
    <3>2. Enqueue(o)
      BY <3>1 DEF AsyncOrder, OrderInv, StatusType
    <3> QED BY <3>1, <3>2 DEF Enqueue
  <2> QED BY <2>1, <2>2
<1> QED BY <1>1, <1>3, <1>4 DEF OrderInv

\* The processor: receiving leaves messages in the queue, completing goes before
\* deleting, and a crash only forgets.
LEMMA ProcessorKeeps ==
  ASSUME OrderInv,
         \/ Receive \/ Crash
         \/ \E m \in Receipts : Start(m) \/ Complete(m) \/ Delete(m)
         \/ \E o \in Orders : Timeout(o)
  PROVE  OrderInv'
<1>1. StatusType'
  BY DEF OrderInv, StatusType, Receive, Crash, Start, Complete, Delete, Timeout
<1>2. ASSUME Receive \/ Crash \/ (\E m \in Receipts : Start(m)) \/ (\E o \in Orders : Timeout(o))
      PROVE  OrderInv'
  <2>1. status' = status /\ messages' = messages /\ completed' = completed
    BY <1>2 DEF Receive, Kept, Crash, Start, Timeout, queueVars, workerVars
  <2>2. deleting' \subseteq deleting
    BY <1>2 DEF Receive, Crash, Start, Timeout, workerVars
  <2> QED BY <1>1, <2>1, <2>2 DEF OrderInv, DeletesWhatIsDone, NothingLost
<1>3. ASSUME NEW m \in Receipts, Complete(m)
      PROVE  OrderInv'
  BY <1>1, <1>3 DEF Complete, queueVars, OrderInv, DeletesWhatIsDone, NothingLost
<1>4. ASSUME NEW m \in Receipts, Delete(m)
      PROVE  OrderInv'
  <2>1. /\ status' = status /\ completed' = completed
        /\ messages \subseteq messages' \cup {m[1]}
        /\ deleting' \subseteq deleting /\ m \in deleting
    BY <1>4 DEF Delete, queueVars
  <2> QED BY <1>1, <2>1 DEF OrderInv, DeletesWhatIsDone, NothingLost
<1> QED BY <1>2, <1>3, <1>4

LEMMA OrderInvNext == OrderInv /\ [OrderNext]_orderVars => OrderInv'
<1> SUFFICES ASSUME OrderInv, [OrderNext]_orderVars PROVE OrderInv'
  OBVIOUS
<1>1. CASE OrderNext
  BY <1>1, ReceiverKeeps, ProcessorKeeps DEF OrderNext
<1>2. CASE UNCHANGED orderVars
  BY <1>2 DEF orderVars, OrderInv, StatusType, DeletesWhatIsDone, NothingLost
<1> QED BY <1>1, <1>2

\* An order answered 202 is in the queue until a worker has completed it,
\* through any number of crashes, failed deletes and timeouts.
THEOREM OrdersAreNotLost == OrderSpec => []NothingLost
<1>1. OrderInv => NothingLost
  BY DEF OrderInv
<1> QED BY <1>1, OrderInvInit, OrderInvNext, PTL DEF OrderSpec

-----------------------------------------------------------------------------
(* The guarded search *)

Requesting ==
  [phase : {"idle", "arrived", "inside", "calling"}, current : BOOLEAN,
   fate : {"fine", "hurt", "malformed"}]

SearchTypes ==
  /\ breaker \in {"closed", "open", "half-open"}
  /\ admitted \in Nat /\ failed \in Nat /\ succeeded \in Nat /\ taken \in Nat
  /\ search \in [Clients -> Requesting]

\* Only a call that is going on belongs to the generation.
CurrentAreCalling == \A c \in Clients : search[c].current => search[c].phase = "calling"

Places == IsFiniteSet(Holders) /\ PlacesHeld

\* While half-open, every admitted call has succeeded or is still on its way (a
\* failure ends the generation), and there were not enough successes yet.
Quota ==
  breaker = "half-open" =>
    /\ admitted = succeeded + Cardinality(Probes)
    /\ admitted <= MaxRequests
    /\ succeeded < MaxRequests

GuardInv == SearchTypes /\ CurrentAreCalling /\ Places /\ Quota

\* Who probes holds a place.
LEMMA ProbesFinite ==
  ASSUME IsFiniteSet(Holders)
  PROVE  IsFiniteSet(Probes) /\ Cardinality(Probes) \in Nat
<1>1. Probes \subseteq Holders
  BY DEF Probes, Holders
<1> QED BY <1>1, FS_Subset, FS_CardinalityType

LEMMA GuardInvInit == SearchInit => GuardInv
<1> SUFFICES ASSUME SearchInit PROVE GuardInv
  OBVIOUS
<1>1. SearchTypes /\ CurrentAreCalling /\ Quota
  BY DEF SearchInit, SearchTypes, CurrentAreCalling, Quota, NotSearching, Requesting
<1>2. Holders = {}
  BY DEF SearchInit, Holders, NotSearching
<1>3. Places
  BY <1>2, FS_EmptySet, GuardAssumption DEF SearchInit, Places, PlacesHeld
<1> QED BY <1>1, <1>3 DEF GuardInv

\* What a step does to the places: it takes one for a client outside, gives the
\* one of a client inside back, or leaves them alone.
LEMMA PlacesKept ==
  ASSUME SearchTypes, Places,
         \/ \E c \in Clients \ Holders : Holders' = Holders \cup {c} /\ taken < Cap /\ taken' = taken + 1
         \/ \E c \in Holders : Holders' = Holders \ {c} /\ taken' = taken - 1
         \/ Holders' = Holders /\ taken' = taken
  PROVE  Places'
<1>0. Cardinality(Holders) \in Nat /\ Cap \in Nat
  BY FS_CardinalityType, GuardAssumption DEF Places
<1>1. ASSUME NEW c \in Clients \ Holders,
             Holders' = Holders \cup {c}, taken < Cap, taken' = taken + 1
      PROVE  Places'
  <2>1. IsFiniteSet(Holders') /\ Cardinality(Holders') = Cardinality(Holders) + 1
    BY <1>1, FS_AddElement DEF Places
  <2> QED BY <1>0, <1>1, <2>1 DEF Places, PlacesHeld, SearchTypes
<1>2. ASSUME NEW c \in Holders, Holders' = Holders \ {c}, taken' = taken - 1
      PROVE  Places'
  <2>1. IsFiniteSet(Holders') /\ Cardinality(Holders') = Cardinality(Holders) - 1
    BY <1>2, FS_RemoveElement DEF Places
  <2> QED BY <1>0, <1>2, <2>1 DEF Places, PlacesHeld, SearchTypes
<1>3. CASE Holders' = Holders /\ taken' = taken
  BY <1>3 DEF Places, PlacesHeld
<1> QED BY <1>1, <1>2, <1>3

\* Before a call: arriving, the select, and a refusal leave the breaker alone.
LEMMA EntranceKeeps ==
  ASSUME GuardInv, NEW c \in Clients, Arrive(c) \/ Bulkhead(c) \/ Refuse(c)
  PROVE  GuardInv'
<1>0. search \in [Clients -> Requesting] /\ search[c].phase # "calling" /\ ~search[c].current
  BY DEF GuardInv, SearchTypes, CurrentAreCalling, Arrive, Bulkhead, Refuse
<1>1. \E p \in {"idle", "arrived", "inside"}, fate \in {"fine", "hurt", "malformed"} :
        /\ search' = [search EXCEPT ![c] =
             [phase |-> p, current |-> FALSE, fate |-> fate]]
        /\ UNCHANGED <<breaker, admitted, failed, succeeded>>
        /\ \/ c \notin Holders /\ p # "inside" /\ taken' = taken
           \/ c \notin Holders /\ p = "inside" /\ taken < Cap /\ taken' = taken + 1
           \/ c \in Holders /\ p # "inside" /\ taken' = taken - 1
  <2>1. CASE Arrive(c)
    BY <1>0, <2>1 DEF Arrive, counts, Holders, NotSearching
  <2>2. CASE Bulkhead(c)
    BY <1>0, <2>2 DEF Bulkhead, counts, Holders, NotSearching, Requesting
  <2>3. CASE Refuse(c)
    BY <1>0, <2>3 DEF Refuse, LeftBy, counts, Holders, NotSearching
  <2> QED BY <2>1, <2>2, <2>3
<1>2. PICK p \in {"idle", "arrived", "inside"}, fate \in {"fine", "hurt", "malformed"} :
        /\ search' = [search EXCEPT ![c] =
             [phase |-> p, current |-> FALSE, fate |-> fate]]
        /\ UNCHANGED <<breaker, admitted, failed, succeeded>>
        /\ \/ c \notin Holders /\ p # "inside" /\ taken' = taken
           \/ c \notin Holders /\ p = "inside" /\ taken < Cap /\ taken' = taken + 1
           \/ c \in Holders /\ p # "inside" /\ taken' = taken - 1
  BY <1>1
<1>3. Holders' = IF p = "inside" THEN Holders \cup {c} ELSE Holders \ {c}
  BY <1>0, <1>2 DEF Holders, NotSearching
<1>4. Probes' = Probes
  BY <1>0, <1>2 DEF Probes, NotSearching
<1>5. Places'
  BY <1>2, <1>3, PlacesKept DEF GuardInv
<1>6. taken' \in Nat
  BY <1>5, FS_CardinalityType DEF Places, PlacesHeld
<1>7. SearchTypes' /\ CurrentAreCalling'
  BY <1>0, <1>2, <1>6 DEF GuardInv, SearchTypes, CurrentAreCalling, NotSearching, Requesting
<1>8. Quota'
  BY <1>2, <1>4 DEF GuardInv, Quota
<1> QED BY <1>5, <1>7, <1>8 DEF GuardInv

\* A call that is let through while half-open adds one to the quota and to the probes.
LEMMA CallKeeps ==
  ASSUME GuardInv, NEW c \in Clients, Call(c)
  PROVE  GuardInv'
<1> USE GuardAssumption
<1>0. search \in [Clients -> Requesting] /\ search[c].phase = "inside" /\ ~search[c].current
  BY DEF GuardInv, SearchTypes, CurrentAreCalling, Call
<1>1. PICK fate \in {"fine", "hurt", "malformed"} :
        search' = [search EXCEPT ![c] = [phase |-> "calling", current |-> TRUE, fate |-> fate]]
  BY <1>0 DEF Call, Requesting
<1>2. Holders' = Holders
  BY <1>0, <1>1 DEF Holders
<1>3. Probes' = Probes \cup {c} /\ c \notin Probes
  BY <1>0, <1>1 DEF Probes
<1>4. IsFiniteSet(Probes) /\ Cardinality(Probes) \in Nat /\ Cardinality(Probes') = Cardinality(Probes) + 1
  BY <1>3, ProbesFinite, FS_AddElement DEF GuardInv, Places
<1>5. Places'
  BY <1>2, PlacesKept DEF GuardInv, Call
<1>6. SearchTypes' /\ CurrentAreCalling'
  BY <1>0, <1>1 DEF GuardInv, SearchTypes, CurrentAreCalling, Call, Requesting
<1>7. Quota'
  BY <1>4 DEF GuardInv, SearchTypes, Quota, Call, Admits
<1> QED BY <1>5, <1>6, <1>7 DEF GuardInv

\* A new generation has no calls of its own.
LEMMA EnterKeeps ==
  ASSUME GuardInv, NEW s \in {"closed", "open", "half-open"}, NEW done \in SUBSET Clients, Enter(s, done)
  PROVE  /\ Quota' /\ CurrentAreCalling' /\ Holders' = Holders \ done
         /\ breaker' \in {"closed", "open", "half-open"}
         /\ admitted' \in Nat /\ failed' \in Nat /\ succeeded' \in Nat
         /\ search' \in [Clients -> Requesting]
<1> USE GuardAssumption
<1>0. search \in [Clients -> Requesting]
  BY DEF GuardInv, SearchTypes
<1>1. \A x \in Clients : /\ search'[x].phase = IF x \in done THEN "idle" ELSE search[x].phase
                         /\ ~search'[x].current
  BY <1>0 DEF Enter, NotSearching, Requesting
<1>2. Probes' = {}
  BY <1>1 DEF Probes
<1>3. Cardinality(Probes') = 0
  BY <1>2, FS_EmptySet
<1>4. Quota'
  BY <1>3 DEF Quota, Enter
<1>5. Holders' = Holders \ done
  BY <1>1 DEF Holders
<1>6. search' \in [Clients -> Requesting]
  BY <1>0 DEF Enter, NotSearching, Requesting
<1> QED BY <1>1, <1>4, <1>5, <1>6 DEF Enter, CurrentAreCalling

\* A call ends and its handler answers: the place is given back, and the breaker
\* hears of the outcome if the call is of its generation.
LEMMA AnswerKeeps ==
  ASSUME GuardInv, NEW c \in Clients, Succeed(c) \/ ExecuteFails(c)
  PROVE  GuardInv'
<1> USE GuardAssumption
<1>0. search \in [Clients -> Requesting] /\ search[c].phase = "calling"
  BY DEF GuardInv, SearchTypes, Succeed, ExecuteFails
<1>1. c \in Holders /\ taken' = taken - 1
  BY <1>0 DEF Holders, Succeed, ExecuteFails, LeftBy
<1>2. ASSUME Holders' = Holders \ {c}
      PROVE  Places' /\ taken' \in Nat
  <2>1. Places'
    BY <1>1, <1>2, PlacesKept DEF GuardInv
  <2> QED BY <2>1, FS_CardinalityType DEF Places, PlacesHeld
<1>3. ASSUME NEW s \in {"closed", "open"}, Enter(s, {c})
      PROVE  GuardInv'
  <2>1. {c} \in SUBSET Clients
    OBVIOUS
  <2> QED BY <1>2, <1>3, <2>1, EnterKeeps DEF GuardInv, SearchTypes
<1>4. ASSUME Done(c), breaker' = breaker, admitted' = admitted, failed' \in Nat,
             succeeded' = IF search[c].current /\ breaker = "half-open" THEN succeeded + 1 ELSE succeeded,
             search[c].current /\ breaker = "half-open" => succeeded + 1 < MaxRequests
      PROVE  GuardInv'
  <2>1. search' = [search EXCEPT ![c] = NotSearching]
    BY <1>4 DEF Done
  <2>2. Holders' = Holders \ {c}
    BY <1>0, <2>1 DEF Holders, NotSearching
  <2>3. Probes' = Probes \ {c} /\ (c \in Probes <=> search[c].current)
    BY <1>0, <2>1 DEF Probes, NotSearching
  <2>4. /\ Cardinality(Probes) \in Nat
        /\ Cardinality(Probes') = IF search[c].current THEN Cardinality(Probes) - 1 ELSE Cardinality(Probes)
    BY <2>3, ProbesFinite, FS_RemoveElement DEF GuardInv, Places
  <2>5. SearchTypes' /\ CurrentAreCalling'
    BY <1>0, <1>2, <1>4, <2>1, <2>2 DEF GuardInv, SearchTypes, CurrentAreCalling, NotSearching, Requesting
  <2>6. Quota'
    BY <1>4, <2>4 DEF GuardInv, SearchTypes, Quota
  <2> QED BY <1>2, <2>2, <2>5, <2>6 DEF GuardInv
<1>5. CASE Succeed(c)
  BY <1>3, <1>4, <1>5 DEF Succeed, counts, GuardInv, SearchTypes
<1>6. CASE ExecuteFails(c)
  BY <1>3, <1>4, <1>6 DEF ExecuteFails, counts, GuardInv, SearchTypes
<1> QED BY <1>5, <1>6

\* The breaker's clock, and the weather.
LEMMA SurroundingsKeep ==
  ASSUME GuardInv, HalfOpen \/ NewInterval \/ Weather
  PROVE  GuardInv'
<1>1. ASSUME NEW s \in {"closed", "half-open"}, Enter(s, {}), taken' = taken
      PROVE  GuardInv'
  <2>1. {} \in SUBSET Clients
    OBVIOUS
  <2>2. /\ Quota' /\ CurrentAreCalling' /\ Holders' = Holders \ {}
        /\ breaker' \in {"closed", "open", "half-open"}
        /\ admitted' \in Nat /\ failed' \in Nat /\ succeeded' \in Nat
        /\ search' \in [Clients -> Requesting]
    BY <1>1, <2>1, EnterKeeps
  <2>3. Places'
    BY <1>1, <2>2, PlacesKept DEF GuardInv
  <2> QED BY <1>1, <2>2, <2>3 DEF GuardInv, SearchTypes
<1>2. CASE Weather
  <2>1. search \in [Clients -> Requesting]
    BY DEF GuardInv, SearchTypes
  <2>2. /\ search' \in [Clients -> Requesting]
        /\ \A x \in Clients : search'[x].phase = search[x].phase /\ search'[x].current = search[x].current
    BY <1>2, <2>1 DEF Weather, Requesting
  <2>3. Holders' = Holders /\ Probes' = Probes
    BY <2>2 DEF Holders, Probes
  <2>4. UNCHANGED <<breaker, admitted, failed, succeeded, taken>>
    BY <1>2 DEF Weather, counts
  <2> QED BY <2>2, <2>3, <2>4 DEF GuardInv, SearchTypes, CurrentAreCalling, Places, PlacesHeld, Quota
<1> QED BY <1>1, <1>2 DEF HalfOpen, NewInterval

LEMMA GuardInvNext == GuardInv /\ [SearchNext]_searchVars => GuardInv'
<1> SUFFICES ASSUME GuardInv, [SearchNext]_searchVars PROVE GuardInv'
  OBVIOUS
<1>1. CASE SearchNext
  BY <1>1, EntranceKeeps, CallKeeps, AnswerKeeps, SurroundingsKeep DEF SearchNext
<1>2. CASE UNCHANGED searchVars
  BY <1>2 DEF searchVars, counts, GuardInv, SearchTypes, CurrentAreCalling, Places, PlacesHeld,
             Quota, Holders, Probes
<1> QED BY <1>1, <1>2

LEMMA GuardInvAlways == SearchSpec => []GuardInv
BY GuardInvInit, GuardInvNext, PTL DEF SearchSpec

\* The semaphore counts the requests inside, for any capacity and any number of
\* clients: no path through the handler keeps a place or gives one back twice.
THEOREM EveryPlaceIsGivenBack == SearchSpec => []PlacesHeld
<1>1. GuardInv => PlacesHeld
  BY DEF GuardInv, Places
<1> QED BY <1>1, GuardInvAlways, PTL

\* A half-open breaker that has used up its quota waits for a call that is really
\* on its way, whatever ends late or is abandoned.
THEOREM HalfOpenIsDecided == SearchSpec => []ProbesDecide
<1>1. ASSUME GuardInv PROVE ProbesDecide
  <2> SUFFICES ASSUME breaker = "half-open"
               PROVE  admitted <= MaxRequests /\ (admitted = MaxRequests => Probes # {})
    BY DEF ProbesDecide
  <2>1. /\ admitted = succeeded + Cardinality(Probes) /\ admitted <= MaxRequests
        /\ succeeded < MaxRequests /\ succeeded \in Nat
    BY <1>1 DEF GuardInv, SearchTypes, Quota
  <2>2. Probes = {} => Cardinality(Probes) = 0
    BY FS_EmptySet
  <2> QED BY <2>1, <2>2, GuardAssumption
<1>2. GuardInv => ProbesDecide
  BY <1>1
<1> QED BY <1>2, GuardInvAlways, PTL
=============================================================================
