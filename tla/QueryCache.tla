----------------------------- MODULE QueryCache -----------------------------
(***************************************************************************)
(* The read path of sportspulse, over the totals StatsPipeline keeps: the  *)
(* handlers of query-svc answer from Redis if they can, else from Postgres *)
(* and then leave the answer in Redis for cacheTTL.  Nothing invalidates   *)
(* an entry when a total changes.  query-svc-nocache, and a query-svc that *)
(* found no Redis when it started, always ask Postgres.                    *)
(***************************************************************************)
EXTENDS StatsPipeline

CONSTANTS Readers,    \* query handlers that run at once
          Board,      \* the cache key of the leaderboard
          BoardSize,  \* the LIMIT of the leaderboard's query
          None        \* no entry in the cache

VARIABLES
  caching,  \* whether the service has a Redis client
  cache,    \* cache[k]: the payload under key k
  handler   \* handler[r]: the query it serves, how far it is and its answer

queryVars == <<caching, cache, handler>>

CacheKeys == Players \cup {Board}

\* The columns of player x: how many additions of its events they hold.
Additions(x) == UNION {{e} \X (1 .. added[e]) : e \in {y \in Events : PlayerOf[y] = x}}

Total(x) == Cardinality(Additions(x))

\* getPlayerFromDB: the totals of the player, if it is registered.
PlayerAnswers(x) == {[y \in {z} |-> Total(y)] : z \in Registered \cap {x}}

\* The players with the highest totals, at most BoardSize; ties go either way.
BoardAnswers ==
  LET size == IF Cardinality(Registered) < BoardSize THEN Cardinality(Registered) ELSE BoardSize
  IN  {[x \in top |-> Total(x)] : top \in {t \in SUBSET Registered :
         /\ Cardinality(t) = size
         /\ \A x \in t, y \in Registered \ t : Total(x) >= Total(y)}}

Answers(k) == IF k = Board THEN BoardAnswers ELSE PlayerAnswers(k)

Idle == [phase |-> "idle", key |-> Board, answer |-> None, since |-> {}]

QueryInit ==
  /\ Init
  /\ caching \in BOOLEAN
  /\ cache = [k \in CacheKeys |-> None]
  /\ handler = [r \in Readers |-> Idle]

\* Clients may expect to read what they wrote: no cache, and no topic either.
Uncached == stack = "direct" /\ ~caching

\* A request comes in; since (a ghost) holds the events accepted before it.
Ask(r, k) ==
  /\ handler[r].phase \in {"idle", "answered"}
  /\ handler' = [handler EXCEPT ![r] =
       [phase |-> "asked", key |-> k, answer |-> None,
        since |-> {q \in Requests : Uncached /\ reply[q] = "accepted"}]]
  /\ UNCHANGED <<vars, caching, cache>>

\* Whether the handlers use a cache: the service has a client of Redis.
UsesCache_Always == TRUE

UsesCache == caching

\* The key is in the cache: the payload is the answer.
Hit(r) ==
  /\ UsesCache
  /\ handler[r].phase = "asked"
  /\ cache[handler[r].key] # None
  /\ handler' = [handler EXCEPT ![r].phase = "answered",
                                ![r].answer = cache[handler[r].key]]
  /\ UNCHANGED <<vars, caching, cache>>

\* No entry, or the Get failed: Postgres is asked.
Query(r) ==
  /\ UsesCache
  /\ handler[r].phase = "asked"
  /\ \E a \in Answers(handler[r].key) :
       handler' = [handler EXCEPT ![r].phase = "read", ![r].answer = a]
  /\ UNCHANGED <<vars, caching, cache>>

\* Without a cache what Postgres says is the reply.
QueryUncached(r) ==
  /\ ~UsesCache
  /\ handler[r].phase = "asked"
  /\ \E a \in Answers(handler[r].key) :
       handler' = [handler EXCEPT ![r].phase = "answered", ![r].answer = a]
  /\ UNCHANGED <<vars, caching, cache>>

\* There is no such player: a 404, which is not cached.
NotFound(r) ==
  /\ handler[r].phase = "asked"
  /\ Answers(handler[r].key) = {}
  /\ handler' = [handler EXCEPT ![r] = Idle]
  /\ UNCHANGED <<vars, caching, cache>>

\* The answer is left in the cache, unless the Set fails, which nobody looks
\* at, and is sent.
Fill(r) ==
  /\ handler[r].phase = "read"
  /\ \/ cache' = [cache EXCEPT ![handler[r].key] = handler[r].answer]
     \/ UNCHANGED cache
  /\ handler' = [handler EXCEPT ![r].phase = "answered"]
  /\ UNCHANGED <<vars, caching>>

\* Postgres fails (500).
QueryFails(r) ==
  /\ handler[r].phase = "asked"
  /\ handler' = [handler EXCEPT ![r] = Idle]
  /\ UNCHANGED <<vars, caching, cache>>

\* Redis drops an entry cacheTTL after it was set, or earlier.
Expire_NoTTL(k) == FALSE /\ UNCHANGED <<vars, queryVars>>

Expire(k) ==
  /\ cache[k] # None
  /\ cache' = [cache EXCEPT ![k] = None]
  /\ UNCHANGED <<vars, caching, handler>>

QueryNext ==
  \/ Next /\ UNCHANGED queryVars
  \/ \E r \in Readers : \/ Hit(r) \/ Query(r) \/ QueryUncached(r) \/ NotFound(r)
                        \/ Fill(r) \/ QueryFails(r)
  \/ \E r \in Readers, k \in CacheKeys : Ask(r, k)
  \/ \E k \in CacheKeys : Expire(k)

\* Handlers go on, entries expire; clients need not ask and need not stop.
QueryFairness ==
  /\ \A r \in Readers : WF_<<vars, queryVars>>(Hit(r) \/ Query(r) \/ QueryUncached(r)
                                                  \/ NotFound(r) \/ Fill(r))
  /\ \A k \in CacheKeys : WF_<<vars, queryVars>>(Expire(k))

QuerySpec == QueryInit /\ [][QueryNext]_<<vars, queryVars>> /\ QueryFairness

-----------------------------------------------------------------------------
\* Once events stop, the cache catches up with the tables and stays so, for
\* players and for the leaderboard: a handler that read before the last update
\* and fills the cache after others have is only ever late by one expiry.
CacheCatchesUp ==
  <>[](\A k \in CacheKeys : cache[k] = None \/ cache[k] \in Answers(k))

\* Without a cache, behind event-svc-direct, clients read what they wrote: the
\* answer counts every event of a player accepted before the query was sent.
ReadYourEvents ==
  Uncached =>
    \A r \in Readers : handler[r].phase = "answered" =>
      \A x \in DOMAIN handler[r].answer :
        handler[r].answer[x] >=
          Cardinality({q \in handler[r].since : PlayerOf[EventOf[q]] = x /\ EventOf[q] \in Counted})
=============================================================================
