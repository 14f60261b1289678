SPECIFICATION FairSpec
CONSTANTS
  e1 = e1
  e2 = e2
  known = known
  unknown = unknown
  q1 = q1
  q2 = q2
  q3 = q3
  p1 = p1
  p2 = p2
  Stacks = {"kafka", "direct"}
  Requests = {q1, q2, q3}
  Events = {e1, e2}
  EventOf <- SentTwice
  Players = {known, unknown}
  PlayerOf <- Owners
  Registered = {known}
  Counted = {e1, e2}
  Partitions = {p1, p2}
  PartitionOf <- ByPlayer
  Workers = {w1, w2}
  MaxFailures = 1
  MaxMoves = 1
INVARIANTS TypeOK LogMatchesTotals NothingSkipped PlayerOrder
PROPERTIES AcceptedEventStored
CHECK_DEADLOCK FALSE
