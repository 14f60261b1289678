SPECIFICATION FairSpec
CONSTANTS
  k1 = k1
  k2 = k2
  w1 = w1
  w2 = w2
  w3 = w3
  r1 = r1
  r2 = r2
  NoWrite = NoWrite
  Keys = {k1}
  Writes = {w1}
  Reads = {r1}
  KeyOf <- OneKey
  N = 3
  Modes = {"W5R1", "W1R5", "W3R3"}
  MaxFailures = 1
PROPERTIES WritesReachAll EveryRequestAnswered
CHECK_DEADLOCK FALSE
