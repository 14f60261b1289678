SPECIFICATION ProgramSpec
CONSTANTS
  q1 = q1
  q2 = q2
  known = known
  unknown = unknown
  Requests = {q1, q2}
  Events = {q1, q2}
  Players = {known, unknown}
  EventOf <- EventOfRequest
  PlayerOf <- OnePlayer
  PartitionOf <- OnePartition
  MaxFailures = 0
  Readers = {r1, r2}
  Stacks = {"kafka", "direct"}
  Registered = {known}
  Counted = {q1, q2}
  Partitions = {1}
  Workers = {1}
  MaxMoves = 0
  BoardSize = 1
  Board = Board
  None = None
  a1 = a1
  a2 = a2
  a3 = a3
  c1 = c1
  pen = pen
  ink = ink
  Carts = {c1}
  Products = {pen, ink}
  Adds = {a1, a2, a3}
  ItemsOf <- Listings
  CartOf <- OneCart
  MaxErrors = 1
  Orders = {o1, o2}
  NumWorkers = 1
  BatchSize = 2
  MaxFailedCalls = 1
  MaxCrashes = 1
  MaxTimeouts = 1
  Clients = {s1, s2, s3}
  Cap = 2
  TripAt = 2
  MaxRequests = 2
  Letters = {"a"}
  OtherWordChars = {"1"}
  Separators = {" "}
  Texts <- ShortTexts
  Chunks <- ThreeAndTwo
  MaxMishaps = 1
INVARIANTS ReadYourEvents CartHoldsWholeRequests NothingLost PlacesHeld ProbesDecide CountsAreRight
PROPERTIES CacheCatchesUp EveryOrderCompleted Recovers
CHECK_DEADLOCK FALSE
