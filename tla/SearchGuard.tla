----------------------------- MODULE SearchGuard -----------------------------
(***************************************************************************)
(* The search service of CS6650_midterm/search-svc: requests go through a  *)
(* bulkhead, which turns them away when it is full, and a circuit breaker, *)
(* which answers for the inventory service while that is known to be bad.  *)
(*                                                                         *)
(* The breaker is external (gobreaker).  Every change of its state, and    *)
(* every end of its interval while closed, starts a new generation: counts *)
(* are cleared and results of calls of older generations are ignored.      *)
(***************************************************************************)
EXTENDS Integers, FiniteSets

CONSTANTS Clients,
          Cap,          \* places in the bulkhead
          TripAt,       \* consecutive failures that open the breaker
          MaxRequests   \* calls admitted, and successes needed, when half-open

ASSUME GuardAssumption ==
  Cap \in Nat \ {0} /\ TripAt \in Nat \ {0} /\ MaxRequests \in Nat \ {0}

VARIABLES
  breaker,   \* "closed", "open" or "half-open"
  admitted,  \* calls admitted in this generation, as far as it matters
  failed,    \* consecutive failures in this generation
  succeeded, \* consecutive successes in this generation, as far as it matters
  search,    \* search[c]: how far c's request is, whether its call is of this
             \* generation, and its fate: "fine", "hurt" by bad weather on the way, or
             \* "malformed": no request can be made with its query
  taken,     \* places taken in the bulkhead
  calm       \* the inventory answers in time, and no client gives up waiting

searchVars == <<breaker, admitted, failed, succeeded, search, taken, calm>>

counts == <<admitted, failed, succeeded>>

NotSearching == [phase |-> "idle", current |-> FALSE, fate |-> "fine"]

SearchInit ==
  /\ breaker = "closed"
  /\ admitted = 0 /\ failed = 0 /\ succeeded = 0
  /\ search = [c \in Clients |-> NotSearching]
  /\ taken = 0
  /\ calm = TRUE

\* The inventory, or its clients, get into trouble or out of it.
Weather ==
  /\ calm' = ~calm
  /\ search' = [c \in Clients |-> [search[c] EXCEPT !.fate =
                   IF @ = "fine" /\ calm /\ search[c].phase = "calling" THEN "hurt" ELSE @]]
  /\ UNCHANGED <<breaker, counts, taken>>

\* The query goes unescaped into the URL: with a control character in it, making
\* the request to the inventory will fail.
Arrive(c) ==
  /\ search[c].phase = "idle"
  /\ \E fate \in {"fine", "malformed"} :
       search' = [search EXCEPT ![c] = [NotSearching EXCEPT !.phase = "arrived", !.fate = fate]]
  /\ UNCHANGED <<breaker, counts, taken, calm>>

\* The select: a place in the bulkhead, or a 503 at once.
Bulkhead(c) ==
  /\ search[c].phase = "arrived"
  /\ IF taken < Cap
     THEN taken' = taken + 1 /\ search' = [search EXCEPT ![c].phase = "inside"]
     ELSE search' = [search EXCEPT ![c] = NotSearching] /\ UNCHANGED taken
  /\ UNCHANGED <<breaker, counts, calm>>

Admits == breaker = "closed" \/ (breaker = "half-open" /\ admitted < MaxRequests)

\* cb.Execute lets the call through, ...
Call(c) ==
  /\ search[c].phase = "inside"
  /\ Admits
  /\ admitted' = IF breaker = "half-open" THEN admitted + 1 ELSE admitted
  /\ search' = [search EXCEPT ![c].phase = "calling", ![c].current = TRUE,
                             ![c].fate = IF @ = "fine" /\ ~calm THEN "hurt" ELSE @]
  /\ UNCHANGED <<breaker, failed, succeeded, taken, calm>>

\* The places taken once the handler has answered with the fallback or a result.
LeftBy_Fallback(answer) == IF answer = "fallback" THEN taken ELSE taken - 1

LeftBy(answer) == taken - 1

\* ... or refuses it, and the handler answers with the fallback.
Refuse(c) ==
  /\ search[c].phase = "inside"
  /\ ~Admits
  /\ search' = [search EXCEPT ![c] = NotSearching]
  /\ taken' = LeftBy("fallback")
  /\ UNCHANGED <<breaker, counts, calm>>

\* The breaker enters state s, or a new interval of it: a new generation, in
\* which client c, if it is one, has its answer.
Enter(s, done) ==
  /\ breaker' = s
  /\ admitted' = 0 /\ failed' = 0 /\ succeeded' = 0
  /\ search' = [x \in Clients |-> IF x \in done THEN NotSearching
                                  ELSE [search[x] EXCEPT !.current = FALSE]]

Done(c) == search' = [search EXCEPT ![c] = NotSearching]

\* The inventory has answered, with whatever status.
Succeed(c) ==
  /\ search[c].phase = "calling" /\ search[c].fate # "malformed"
  /\ IF ~search[c].current THEN Done(c) /\ UNCHANGED <<breaker, counts>>
     ELSE IF breaker = "half-open" /\ succeeded + 1 >= MaxRequests THEN Enter("closed", {c})
     ELSE /\ Done(c)
          /\ failed' = 0
          /\ succeeded' = IF breaker = "half-open" THEN succeeded + 1 ELSE succeeded
          /\ UNCHANGED <<breaker, admitted>>
  /\ taken' = LeftBy("live")
  /\ UNCHANGED calm

\* The variant waits for as many failures when half-open as when closed.
ExecuteFails_AsIfClosed(c) ==
  /\ search[c].phase = "calling" /\ search[c].fate # "fine"
  /\ IF ~search[c].current THEN Done(c) /\ UNCHANGED <<breaker, counts>>
     ELSE IF failed + 1 >= TripAt THEN Enter("open", {c})
     ELSE Done(c) /\ failed' = failed + 1 /\ UNCHANGED <<breaker, admitted, succeeded>>
  /\ taken' = LeftBy("fallback")
  /\ UNCHANGED calm

\* The function returned an error: the call timed out, its client has gone, or there
\* was no call, because the request could not be made.  They all count.
ExecuteFails(c) ==
  /\ search[c].phase = "calling" /\ search[c].fate # "fine"
  /\ IF ~search[c].current THEN Done(c) /\ UNCHANGED <<breaker, counts>>
     ELSE IF breaker = "half-open" \/ failed + 1 >= TripAt THEN Enter("open", {c})
     ELSE Done(c) /\ failed' = failed + 1 /\ UNCHANGED <<breaker, admitted, succeeded>>
  /\ taken' = LeftBy("fallback")
  /\ UNCHANGED calm

\* The breaker's Timeout and Interval.
HalfOpen    == breaker = "open" /\ Enter("half-open", {}) /\ UNCHANGED <<taken, calm>>
NewInterval == breaker = "closed" /\ Enter("closed", {}) /\ UNCHANGED <<taken, calm>>

SearchNext ==
  \/ \E c \in Clients :
       Arrive(c) \/ Bulkhead(c) \/ Call(c) \/ Refuse(c) \/ Succeed(c) \/ ExecuteFails(c)
  \/ HalfOpen \/ NewInterval \/ Weather

\* Handlers go on, calls end (client.Timeout), the breaker's clock runs.
SearchFairness ==
  /\ WF_searchVars(HalfOpen)
  /\ \A c \in Clients :
       WF_searchVars(Bulkhead(c) \/ Call(c) \/ Refuse(c) \/ Succeed(c) \/ ExecuteFails(c))

SearchSpec == SearchInit /\ [][SearchNext]_searchVars /\ SearchFairness

-----------------------------------------------------------------------------
\* A client holds a place from the select to its answer.
Holders == {c \in Clients : search[c].phase \in {"inside", "calling"}}

\* The calls whose outcome the breaker still waits for.
Probes == {c \in Clients : search[c].phase = "calling" /\ search[c].current}

\* On every path through the handler, whether refused, answered, timed out or
\* abandoned, a place is given back exactly once: the semaphore counts the
\* requests inside, and they are never more than its capacity.
PlacesHeld == taken = Cardinality(Holders) /\ taken <= Cap

\* A half-open breaker admits no more than its quota, and once the quota is used
\* up a call is on its way that will close or open it: it cannot stay half-open
\* refusing everybody, however many calls of earlier generations end late.
ProbesDecide ==
  breaker = "half-open" =>
    admitted <= MaxRequests /\ (admitted = MaxRequests => Probes # {})

NoneMalformed == \A c \in Clients : search[c].fate # "malformed"

\* The guard heals: once the inventory is well, clients wait for answers and no
\* more queries come that no request can be made with, the breaker closes for
\* good, provided requests keep coming.  Calls of the bad time that end late,
\* full bulkheads and half-open quotas do not prevent it.
Recovers ==
  <>[](calm /\ NoneMalformed) /\ []<><<\E c \in Clients : Arrive(c)>>_searchVars
    => <>[](breaker = "closed")
=============================================================================
