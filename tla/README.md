# Verification of the CS6650 distributed systems

TLA+ models of the programs in this repository that keep shared or replicated
state, model-checked with TLC on small instances, with TLAPS proofs for every
size of the ones that matter most.  File names below are relative to the root
of the repository.

Contents: [inventory](#inventory), [modules](#modules),
[abstractions](#what-a-step-is), [runs](#runs), [findings](#findings),
[proofs](#proofs), [limits](#what-is-not-modelled), [plan](#plan).

## Inventory

The repository holds several independent systems.

| system | source | state | hard behaviour | model |
|---|---|---|---|---|
| versioned store | `CS6650_hw10/store/store.go` | a map of (value, version) behind one lock | a stale version must not replace a newer one | `Store` |
| leader-follower store | `CS6650_hw10/leader-follower/` | one store per node; per write: the calls to followers, a counter, the answer; per read: collected entries, a drain goroutine | three replication modes, overlapping writes, failing calls, quorum reads, goroutines that outlive their request | `LeaderFollower`, `LinearizableKV` |
| leaderless store | `CS6650_hw10/leaderless/` | one store per node; per write: coordinator, calls, answer | concurrent coordinators, partial failure | `Leaderless` |
| load tester | `CS6650_hw10/loadtest/main.go` | confirmed writes per key, shared by its workers; per read: the entry, the verdict | a count taken for a version, looked at after the answer it judges was sent | `LoadTester` |
| SportsPulse ingestion | `sportspulse/event-svc`, `event-svc-direct`, `stats-worker`, `infra/schema.sql` | Kafka partitions and offsets, batches in workers, `game_events`, `player_stats` | redelivery, restarts, rebalances, transactions that fail | `StatsPipeline` |
| SportsPulse queries | `sportspulse/query-svc`, `query-svc-nocache` | Redis entries with a TTL over the database | a late write of an old answer into the cache | `QueryCache` |
| album store | `CS6650_final/` | PostgreSQL rows, Redis counters, S3 objects, SQS messages, goroutines after the 202 | crash before and after the answer, upload against delete, redelivery | `AlbumStore` |
| shopping cart | `CS6650_hw8/service/main.go` | carts in MySQL or DynamoDB | lost updates, stale reads merged and written back, commit followed by a failing read | `ShoppingCart` |
| order processing | `CS6650_hw7/` | SNS, SQS, a payment slot, worker slots, a Lambda | visibility timeout against a busy batch, crashes, failed deletes | `OrderProcessing` |
| guarded search | `CS6650_midterm/search-svc` | a semaphore of 20, a circuit breaker | slots and breaker counts under failing, slow and abandoned calls, and queries no request can be made with | `SearchGuard` |
| word count | `CS6650_hw4/*.py`, `test-mapreduce.sh` | S3 keys shared by all jobs | a client that checks no answer, handlers that outlive their caller, objects left by an earlier job, words cut at chunk borders | `WordCount` |
| in-memory album service | `CS6650_hw1` (copies in `hw2`, `hw4`) | a slice without a lock | data races | not modelled |
| product store, product search, goroutine experiments | `CS6650_hw5`, `hw6`, `hw3` | one locked map; read-only data; a few lines each | little interaction | not modelled |

What makes the modelled ones correct:

* Store: versions of a key only grow, whatever order calls arrive in.
* Leader-follower: replicas never disagree about a version; an answer 201 is
  covered by the replicas its mode promises; the leader is linearizable; every
  request is answered; writes reach the followers nobody waits for; goroutines
  end.
* Leaderless: a 201 means all nodes have the write or a newer version; versions
  follow real time; nodes end up equal (they do not: see findings).
* SportsPulse: log and totals agree; every accepted event is handled, and stored
  unless handling it fails; events of a player stay in order; an event counts once
  (it does not).
* Queries: the cache catches up once events stop; without cache and topic, clients
  read what they wrote.
* Load tester: a read it calls stale did miss a confirmed write, and the store is
  not to blame for it.
* Album store: numbers are unique and follow real time; somebody is told that an
  album is new; what is shown as completed is stored; deleted stays deleted; every
  photo settles; accepted means durable (it does not).
* Shopping cart: a cart holds whole requests, each once.
* Order processing: an accepted order is in the queue until it is completed, and
  is completed.
* Guarded search: every place in the bulkhead is given back once; a half-open breaker
  waits only for calls that exist; after the trouble it closes for good.
* Word count: the result of a job that goes well counts the words of its text, if no
  border cuts one, whatever jobs before it did.

How they interact: clients call HTTP handlers.  In `CS6650_hw10` nodes call each
other (`/replicate`, `/local_read`).  In SportsPulse event-svc and stats-worker
share a Kafka topic, stats-worker and query-svc a database.  In `CS6650_final`
the API and the worker share the database and a queue; API tasks share Redis.
In `CS6650_hw7` a topic and a queue connect receiver and processor; in `CS6650_hw4`
the functions share a bucket.  The load tester is a client of the leaderless store.

## Modules

| module | models | correspondence |
|---|---|---|
| `Store` | `store.go`, `newest` of `replication.go` | each operation holds the lock, so it is one operator on the map of a node; a missing key has the entry `Absent` |
| `LeaderFollower` | `leader-follower/main.go`, `replication.go` | one action per handler part between two points where other goroutines run: `HandleSet`, `HandleReplicate`, `Confirm`, `ReplicateFails`, `HandleGet`, `HandleLocalRead`, `FetchFails`, `Collect`, `FinishGet`, `Drain`; `mode` is the environment variable, chosen once in `Init` |
| `LinearizableKV` | what the leader promises | one log of writes per key; a read returns an entry of the log no older than any request answered before it began |
| `Leaderless` | `leaderless/main.go`, `coordinator.go` | `at[w]` is the node a client picked; `ReplyAfter` is the error collection of `replicateAll` |
| `StatsPipeline` | both SportsPulse stacks | `Transaction` is the body shared by `processEvent` and the direct handler; `Poll`, `Process` are `startConsumer`; `Commit`, `Rebalance`, `Restart` are the client library and the group |
| `AlbumStore` | API handlers, their goroutine, the worker | one action per call to PostgreSQL, Redis, S3 or SQS; `put[x]` is the program counter of `PutAlbum`, `upload[u]` of `UploadPhoto` and its goroutine, `deletion[d]` of `DeletePhoto`, `working`/`finishing`/`failing` of a poll loop |
| `LoadTester` | `loadtest/main.go`, composed with `Leaderless` (it EXTENDS it; `LoadNext` is a step of the store or of the tester) | `known[k]` is `knownVersions`; `CountWrite`, `JudgeRead` are the workers after an answer, `NodeAnswers` the moment a node reads its store |
| `QueryCache` | both query services, composed with `StatsPipeline` (`QueryNext` is a step of the pipeline or of a handler) | `Ask`, `Hit`, `Query`, `QueryUncached`, `NotFound`, `Fill` are what a handler does between two calls; `Expire` is Redis |
| `ShoppingCart` | `AddItems` and `CreateCart` over both stores | one action per transaction or DynamoDB call; `states[c]` keeps earlier states because `GetItem` may show one |
| `OrderProcessing` | `order-receiver`, `order-processor` | `SyncOrder`, `TakeSlot`, `Pay`, `AsyncOrder` are the receiver; `Receive`, `Start`, `Complete`, `Delete` the processor's loop and goroutines; `Timeout`, `Crash` its environment |
| `SearchGuard` | the search handler, gobreaker | `Bulkhead`, `Call`, `Refuse`, `Succeed`, `ExecuteFails` (every error the function given to `cb.Execute` can return); the breaker's reactions (`Enter`, `Admits`) are the library's; a generation of the breaker is the `current` flag of the calls made in it |
| `WordCount` | splitter, mapper, reducer and the script that calls them | `job[j].step` is the line the script waits at, `calls` the handlers at work, waited for or not; one action per object read or written, and `Succeeds`, `FailsOut`, `ConnectionLost` for how a call ends; `Matches` is the regular expression of the mapper, `ChunkSize` the splitter's arithmetic |
| `StoreProofs`, `LeaderFollowerProofs` (with the refinement of `LinearizableKV`), `LeaderlessProofs` (with `LoadTester`), `StatsPipelineProofs` (with `QueryCache`), `AlbumStoreProofs`, `ShoppingCartProofs`, `ServiceProofs` (`OrderProcessing` and `SearchGuard`), `WordCountProofs` | theorems | see [proofs](#proofs) |
| `MC...` | instances for TLC | model values, the assignment of requests to keys, events or albums, symmetry; `MCServices` EXTENDS five programs that have nothing to do with each other and puts them into one run |

Operators whose name ends in a suffix after an underscore
(`NextVersion_FromZero`, `Sent_AllAtOnce`, ...) are faulty variants of the
operator without the suffix.  No specification uses them; each one, put in place of
the original, breaks a property, which shows that the property can fail.

## What a step is

A value is named by the request that carries it, a photo by the POST that uploads
it, a Kafka record by the request that published it.  Each request is handled
once; the client's choices (which node, when) are nondeterministic.

* *Leader-follower and leaderless.*  The sleeps in the code only make some
  interleavings likely; all of them are possible in the model.  A `/replicate`
  call has five states.  When the sender gets an error the follower may have
  applied the entry (`applied` to `failed`), may never (`failed`), or may still do
  so (`orphan`).  A GET at a follower or a leaderless node reads `data` and
  changes nothing; what it can return is what the invariants say of `data`.  Keys
  and values are data that arrive as they were sent.  The code puts them unescaped
  into the URLs of `/replicate` and `/local_read` (`replication.go:94`, `171`,
  `coordinator.go:50`), so this holds of keys and values without characters that mean
  something in a URL, such as those of the tests and of the load tester.
* *SportsPulse.*  A transaction is one step.  An error may come before or after
  its effect.  The client library commits offsets of records that earlier polls
  returned: `marked[p]` moves to `polled[p]` when the worker has finished a batch
  and is about to poll again.  An old owner of a partition goes on with the
  records it holds.  Polled records of several partitions are handled in any
  interleaving that keeps each partition's order.
* *Album store.*  A call that returns an error may or may not have had its
  effect.  Each call to one of them, and the answer to a PUT, is a step; the tail
  of a handler that shares nothing with others goes with the call before it.  A
  crash stops one PUT, upload, DELETE or poll loop between any two steps; a task
  that runs several is several such crashes.  `silent` records the PUTs that made an
  album and whose clients did not hear of it, because the upsert returned an error
  after its effect or the task stopped before the answer.  An upload that can no
  longer mark its photo is `stranded`.  A visibility timeout may end at any moment a
  message is in flight.
* *Load tester.*  A worker that got a 201 counts it later; a reader sends its GET,
  the node reads its store, and the reader compares the answer with the count of
  that moment.
* *Queries.*  A query of one player's totals reads one row in one statement, so it
  is one step; so is the leaderboard.  Redis may drop an entry early.
* *Shopping cart.*  A MySQL transaction is one step, its read of the cart another.
  A DynamoDB write whose answer is lost is applied and may be sent again.
* *Order processing.*  A message is invisible after a receive; its timeout may end
  while the processor holds it (counted by `MaxTimeouts`) and does end when nobody
  holds it.  A crash forgets the batch and the goroutines.
* *Guarded search.*  `fate` says what can become of a call.  `calm` is the
  environment: only calls made or going on while it is FALSE are `hurt`, which is to
  time out or be abandoned.  A query is put unescaped into the URL
  (`search-svc/main.go:62`); with a control character in it no request can be made
  (`malformed`), which the breaker counts as a failure of the inventory, calm or
  not.
* *Word count.*  Texts are sequences over a letter, another word character and a
  separator.  The client is `test-mapreduce.sh`: it makes each call once and goes on
  whatever is answered.  A call may fail before or after its effect, or its connection
  is lost and the script goes on while the handler is still at work, through the
  rest of the job and into later ones (both counted by `MaxMishaps`).  A get of an
  object that is not there is answered 500.  `well` says of a job that it began with
  no handler at work and that its calls succeeded so far; no action reads it.  The
  script asks for three chunks; the model's jobs ask for `Chunks[j]`, as the handlers
  allow.

Ghost variables (`before`, `after`, `handled`, `since`, `confirmed` of a read) record
what was answered before a request came in; no guard reads them, nor `silent` and `well`.

## Runs

The bounds are chosen so that every interesting case happens with as few requests
as possible.  Two overlapping writes are what every
ordering hazard needs; one failure separates the replicas; a third node separates
a quorum from all.

| run | instance | shows |
|---|---|---|
| `lf` | leader + 4 followers (the deployed size), all modes, 2 writes, 2 failures, symmetry of writes | `TypeOK`, `Agreement`, `AckCoverage`, `PeerOrder`, `ReplicasOnlyAdvance` |
| `lf_reads` | leader + 3 followers, all modes, 2 writes, 1 read, no failure | `LeaderReadFresh`, and that the leader implements `LinearizableKV` |
| `lf_live` | leader + 3 followers, all modes, 1 write, 1 read, 1 failure, fairness | `WritesReachAll`, `EveryRequestAnswered` |
| `lf_drain_leak` | leader + 2 followers, W3R3, no failure, fairness | violation of `DrainEnds` |
| `ll` | 3 nodes, 2 writes to any of them, 1 failure, a load tester with 1 read, fairness | `LoadTypeOK`, `AckCoverage`, `LaterWritesGetHigherVersions`, `OneCoordinatorAgrees`, `ConfirmedVersionsConverge`, `StaleReadsRaceAWrite`, `ReplicasOnlyAdvance`, `EveryWriteAnswered` |
| `ll_diverge` | 3 nodes, 2 writes, no failure | violation of `ConfirmedValuesConverge` |
| `stats` | both stacks, 3 requests (one event sent twice, one event of an unregistered player), 2 partitions, 2 workers, 1 error, 1 restart or rebalance, fairness | `TypeOK`, `LogMatchesTotals`, `NothingSkipped`, `PlayerOrder`, `AcceptedEventStored` |
| `stats_duplicates` | kafka stack, every event sent once, no error, 1 restart or rebalance | violation of `CountedOnce` |
| `album` | 2 PUTs, 2 uploads, 1 DELETE in one album, 1 poll loop, 1 error, 1 crash, 2 receives, fairness | `TypeOK`, `SeqOrdersPhotos`, `CompletedIsStored`, `SomebodyCreates`, `DeletedStaysDeleted`, `PhotosSettle` |
| `album_durable` | 1 upload, no error, no crash | violation of `AcceptedIsDurable` |
| `album_final` | 1 upload, 1 error | violation of `CompletedIsFinal` |
| `services` | the initial state picks one of five programs (below), fairness | `ReadYourEvents`, `CacheCatchesUp`, `CartHoldsWholeRequests`, `NothingLost`, `EveryOrderCompleted`, `PlacesHeld`, `ProbesDecide`, `Recovers`, `CountsAreRight` |

The programs of `services`:

| program | instance |
|---|---|
| queries | both stacks, with and without cache; 2 events of one registered player, another player unregistered; 2 handlers; a leaderboard of 1 |
| carts | one cart, either store; 3 requests, one of which lists a product twice; 1 failing call |
| orders | 2 orders, synchronous or not; 1 goroutine, batches of 2; 1 failing call, 1 crash, 1 timeout of a held message |
| search | 3 clients, 2 places, the breaker opens after 2 failures and closes after 2 successes |
| words | a job of 3 chunks about every text of 3 or 4 characters, an empty one and one of 5; after or before it a job of 2 chunks, so that chunks are left over; 1 mishap in either |

Three clients against two places make the bulkhead full; two failures and two
successes separate the breaker's counts from single events; two batch places and one
goroutine make a message time out while it waits; three chunks of three to five characters
give full, short and empty chunks; one mishap makes the first job leave wrong or missing
objects, or a handler that is still at work, for the second.  Nothing in these programs couples them, so one
run that picks a program asks what five runs would.

Deadlock is not checked: in every instance the finitely many requests are done at
some point and nothing is left to do.  That requests do not stop half way is what
the liveness properties say.

*Symmetry* is used in `lf` and `lf_reads` only, which check no liveness.
Followers are not symmetric, the peer list has an order.

*Fairness.*  `lf`, `lf_reads` and the violations of safety need none.  Elsewhere it
is weak fairness of what the runtime does by itself: a goroutine that is not
blocked runs, a handler that has been called runs, an HTTP call ends (the default
client's transport reports closed connections), the loops of stats-worker and of the
order processor go round, an order's visibility timeout ends, Redis expires an entry,
the breaker's timeout ends, the search service's HTTP client times out its call.  In the
album store only the goroutines of the uploads are fair: photos settle without the
worker.  No fairness is assumed of clients, of failures, of a call whose caller has
given up, of the library's commits, of crashes or of rebalances.

*What the liveness properties excuse.*  `AcceptedEventStored` excuses an event whose own
handling failed, not one that failures of others could hold up.  `PhotosSettle`
excuses a photo whose goroutine stopped or could not update the row, not one whose
upload failed.  `Recovers` asks that the inventory is well, that clients wait and
that no more malformed queries come: five of those in a row open the breaker again,
however healthy the inventory.

## Findings

* `replication.go:160`: the drain goroutine of a quorum read waits for
  `len(n.peers) - collected` results, but results that were a 404 or an error have
  been received without being counted.  It never ends (`DrainEnds`).
* `leaderless/main.go:62`: two coordinators give concurrent writes of a key the
  same version, both are confirmed, and the nodes differ for good
  (`ConfirmedValuesConverge`).
* `stats-worker/main.go:70`: a redelivered event is added to the totals again
  (`CountedOnce`).
* `handlers.go:128`: the 202 comes before the upload, not after it as the README
  of the album store says (`AcceptedIsDurable`).
* `worker/main.go:80`: the worker can turn a completed photo into a failed one
  (`CompletedIsFinal`).

## Proofs

`StoreProofs` states what the store's operations return and preserve: types, that
`Set` numbers an entry one above the one it replaces, that `SetWithVersion` leaves
the newer of two entries.  The other proof modules cite those lemmas.

`LeaderFollowerProofs` proves, for any number of followers, keys, requests and
failures and any set of modes:

| theorem | statement |
|---|---|
| `TypeCorrect` | `Spec => [](TypeOK /\ Numbered /\ Counted)` |
| `StoresOnlyAdvance` | `Spec => ReplicasOnlyAdvance` |
| `ReplicasAgree` | `Spec => []Agreement` |
| `AnswersAreCovered` | `Spec => []AckCoverage` |
| `PeersAreSorted` | `Spec => []PeerOrder` |
| `LeaderReadsAreFresh` | `Spec => []LeaderReadFresh` |

The argument is in three layers, each an inductive invariant over the one below.

1. `TypeInv`: types, `Numbered` (a write has a version exactly if it was
   handled) and `Counted` (`collected` never exceeds the results received, so
   that `drain` stays a natural number).
2. `WriteInv`: `LeaderCovers` (the leader is at or past every number it gave),
   `Agreement`, `Delivered` (a follower whose call is `applied` or `ok` has that
   version or a later one), `SyncProgress` (in the sequential modes the calls
   that ended well are those to the first `confirmed[w]` followers),
   `AnswerProgress` (what an answer says of the counter), `PeerOrder`.
   `AckCoverage` is not inductive: it says nothing of a write whose client still
   waits.  It follows from `Delivered` with the two progress conjuncts; for the
   quorum by a cardinality argument on the calls that are `ok`.  `PeerOrder` is
   not inductive alone either: the step to the next follower preserves it only because
   `SyncProgress` says that the followers before it already have the write.
3. `ReadInv`: `OnlyGenuine` (entries in `answer`, `entries` and `result` are
   writes under the leader's numbers), `BeforeAnswered` (requests in `before`
   have been answered), `HoldsFloor` (a read that is collecting holds the local
   entry, which is at least as new as everything in `before`) and
   `LeaderReadFresh`.

`LeaderlessProofs` proves, for any set of nodes, keys and writes and any number of
failures:

| theorem | statement |
|---|---|
| `TypeCorrect` | `Spec => []TypeOK` |
| `StoresOnlyAdvance` | `Spec => ReplicasOnlyAdvance` |
| `AnswersAreCovered` | `Spec => []AckCoverage` |
| `LaterWritesAreNewer` | `Spec => []LaterWritesGetHigherVersions` |
| `OneCoordinatorIsEnough` | `Spec => []OneCoordinatorAgrees` |
| `VersionsConverge` | `Spec => []ConfirmedVersionsConverge` |

There is no leader whose store is ahead of all others, so the argument goes through
the answers.  `Delivered` (who has taken a write stores its version or a later
one) and `AllAgreed` ("created" only when every call succeeded) give
`AckCoverage`.  `AckCoverage` at the node that coordinates a later write gives
that write a higher number, which makes `AfterConfirmed` inductive.  `Genuine` (an
entry is a write under its coordinator's number) and `NumberedApart` (one
coordinator gives a number once per key) give `OneCoordinatorAgrees`; two
coordinators are where the second one stops, which is the finding.  `Genuine` with
`AckCoverage` gives convergence of versions: the entry of any node is a confirmed
write, so no other node is behind it.

`LeaderFollowerProofs` ends with `LeaderImplementsService == Spec => LeaderIsLinearizable`:
the detailed leader-follower store, with its three modes, failing calls and quorum
reads, implements `LinearizableKV`.  Under the mapping (`LeaderLog`: the writes of a
key in the order of the leader's numbers; `Told`: what each client knows)
`HandleSet` is `Write`, a step of a replication loop that answers is `AnswerWrite`,
`HandleGet` is `BeginRead`, `FinishGet` is `EndRead`, all else is a stutter.  Beyond the
invariants above it needs `NumberedAll` (the numbers of a key have no gap),
which with `Agreement` makes the log a sequence in which every write has one place.

For the load tester it first shows `LoadSpec => Spec` (`OnlyWatches`), so everything
proved of the leaderless store holds in the composition, then `LoadTypeCorrect` and
`StaleReadsAreReal`.  Its invariant adds `CountsConfirmed` (the count of a key is the
number of its confirmed writes that were counted) and `ReadsCovered` (the entry a node
answered with covers what was confirmed then).  The step from a count to a version is
the pigeonhole principle: more than `v` confirmed writes with distinct numbers
from one coordinator cannot all be numbered at most `v`.

`StatsPipelineProofs` (any number of requests, players, partitions, workers, errors and
moves): `TypeCorrect`, `LogAndTotalsAgree`, `CommitsOnlyHandled`, `PlayersInOrder`.
`NothingSkipped` and `PlayerOrder` are far from inductive: the first says nothing
of what is polled, the second nothing of where records are.  `PipelineInv` has `TopicInv`
(a record has one position, in the partition of its player), `AfterInv`
(records answered earlier come first), `PolledInv` (up to the mark everything is
handled, up to the polled offset it is handled or held by the owner), `BatchInv` (who
holds a record holds everything before it that is not handled) and `HandledInv` (the
handled records of a partition are a prefix of it).  `BatchInv` is what survives a
rebalance, after which the old owner and the new one handle the same records.

`AlbumStoreProofs` (any number of albums, requests and poll loops, failures and
crashes): `TypeCorrect`, `NumbersOrderPhotos`, `SomePutCreates`,
`CompletedPhotosAreStored`, `DeletedPhotosStayDeleted`.  `TypeOK` needs `QueueInv` (a
visible message has receives left; a message is in a batch only if it was sent); the
order of numbers needs `SeqInv` (no number is above the counter, which a failed INCR may
have moved); `SomebodyCreates` needs that a PUT which found its album
will not create it, so that the PUT to whose upsert an album is owed took it for new,
and is about to answer 201, has answered it, or is in `silent`; `CompletedIsStored` needs `StoredInv`, which says it of the
goroutine and of the queue as well, because either may still mark the photo.

Of the queries it proves `QueriesOnlyRead == QuerySpec => Spec`, so all of the above
holds of the composition, and `QueriesCountWhatWasAccepted == QuerySpec =>
[]ReadYourEvents`.  A total is the size of a set, the additions to it (`Additions`), and
a request that must show in it is an element of another; `AdditionsInv` says that an
injection of the accepted requests into the additions exists.  It needs a witness
and not a count because one event may be accepted several times and is then added
several times.  `HandlerInv` carries the bound from the query to the answer.

`ShoppingCartProofs` proves `CartsHoldWholeRequests == CartSpec =>
[]CartHoldsWholeRequests`, for any number of carts, requests and failing calls.  Its
first half is about the code's two ways of adding to a list: `InCartOfInsert` (rows of
a transaction) and `InCartOfMerge` (`AddItems` of the DynamoDB store, where a product
listed twice must raise one row by two) both add exactly what is listed.  Again
the number of units is the size of a set (`Units`), so that both are statements
about bijections.  `CartInv` says of every state a cart has had, and of every list a
request holds in memory between its read and its write, that it is the contents
of a set of requests; and that this set does not include the request itself, even when
its write was applied and its answer lost.  Without that conjunct a resent
write would count twice.  For MySQL the newest state holds every request that committed.

`WordCountProofs` proves `CountsAreRightAlways == WordSpec => []CountsAreRight`,
for texts of any length, any numbers of chunks and any sequence of jobs.  The lemma it rests
on is a theorem of its own, `CountWordsOfConcat`: if no word character stands on
both sides of a border, the words of a text are those before the border and those
after it.  Matches of the regular expression are pairs of places, and the matches of
the second part are moved by the length of the first (`MatchesOfConcat`).
`BorderCutsNoWord` connects this with the splitter's arithmetic, in which the last
chunks may be empty.  `WordInv` speaks of the job that goes well, if there is one.
`Alone`: only the call its script waits for is at work.  `Progress`, by the step of the
script: the chunks are right, the counts of the chunks mapped so far are right, the sums
are right.  `CallIsRight`: what that call has in memory and has put so far is right; for
the reducer it is the count of a prefix of the text.  Of other jobs it says nothing but
types: they may leave any objects, and a job that goes well replaces each of them
before it reads it.  That is why the theorem needs no condition on the jobs before.

`ServiceProofs` proves, of order processing, `OrdersAreNotLost == OrderSpec => []NothingLost`;
the conjunct that makes it inductive is `DeletesWhatIsDone`: only messages of completed
orders are about to be deleted, whatever receipt they carry.  Of the guarded search,
for any number of clients and any capacity, threshold and quota, it proves
`EveryPlaceIsGivenBack == SearchSpec => []PlacesHeld` and `HalfOpenIsDecided == SearchSpec
=> []ProbesDecide`.  The second needs the account `Quota`: while half-open, calls
admitted are calls that succeeded plus calls on their way, because a failure ends
the generation; and a generation starts without calls (`EnterKeeps`).

Assumptions of all theorems: the named ASSUMEs of the modules, nothing else.  They give
the types of the constants; sets of requests are finite where something is counted; a
message can be received at least once; a job has at least one chunk
(`ChunksAssumption`; the splitter divides by it) and its texts are sequences of characters
(`TextsAssumption`); the guard's capacity, threshold and quota are not zero
(`GuardAssumption`; the code has 20, 5 and 3).

Every invariant and action property of the runs that must hold is stated by a
theorem.  Only model-checked is liveness: `EveryRequestAnswered`, `WritesReachAll`,
`EveryWriteAnswered`, `AcceptedEventStored`, `PhotosSettle`, `CacheCatchesUp`,
`EveryOrderCompleted`, `Recovers`.  The prover has no reasoning about fairness and
ENABLED.  What is proved of safety next to them narrows what fairness has to give:
`HalfOpenIsDecided` is the reason why a half-open breaker does not starve,
`OrdersAreNotLost` why an order can still be completed, `CommitsOnlyHandled` why an event
that was accepted can still be stored.

## What is not modelled

* Requests that are rejected before they touch any state: wrong method, missing
  or unreadable fields, a write sent to a follower.
* A node started with an unknown mode, or with modes that differ between nodes.
* Restarts of key-value nodes: nothing is persisted there, a node that restarts is
  a new cluster member with an empty map, and no document says what should hold.
* Kafka brokers that lose acknowledged records, loss of data in PostgreSQL, Redis,
  S3 or SQS, messages past their retention period.
* Values of events, contents of albums, prices, presigned URLs, formats and logs.
* Queries: a leaderboard cut short by an error between two rows, which is cached
  without a look at `rows.Err`; the page.
* Load tester: bodies it cannot decode, intervals, latencies and the summary.  Its
  verdict on the leader-follower store is the same code against another store.
* Album store: `UploadMultipart`, which nothing calls.  A DELETE under another
  album's path is in the model (`DeleteRow`) but in no run: that the lookup
  ignores the album is visible on one line.
* SportsPulse: how often a request that its client repeats is counted.  Each repetition
  is added, as a redelivery is; the finding is about the redelivery.
* Shopping cart: a client's own repetition of a POST is another request, and counts.
* Order processing: the Lambda, which keeps nothing and acknowledges whatever it gets;
  ids made from timestamps, which can collide; messages that do not parse.
* Word count: two scripts at the same time, which overwrite each other's objects by
  design of their names.  Of a job one of whose calls failed nothing is claimed: the
  script goes on, and may count what an earlier job left; no document promises more.
* The in-memory album service (every pair of handlers is a data race of a tutorial
  program), the product store (one lock around every operation), the product search
  (read-only), the goroutine experiments (timing, no clients).  A model of any of
  them would restate the code without a property that could fail in an interesting way.
* Terraform (except the redrive policy of the photo queue), Dockerfiles, Locust
  scripts, plots and pages.

## Plan

Done: every component above that has interaction, failure or order to get wrong is
modelled, and every safety property of the runs is proved for all values of the
constants.

Left, in this order:

1. An abstract queue with at-least-once delivery, which the pipeline and the order
   processing both implement, with the step simulation proved.
2. `AlbumStore`: a bound on what a crash can leave behind (objects without a row).
3. Larger instances of `album` (two albums, two poll loops) without liveness.
