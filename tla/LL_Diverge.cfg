SPECIFICATION LoadSpec
CONSTANTS
  k1 = k1
  k2 = k2
  w1 = w1
  w2 = w2
  w3 = w3
  NoWrite = NoWrite
  Nodes = {n1, n2, n3}
  Keys = {k1}
  Writes = {w1, w2}
  KeyOf <- OneKey
  MaxFailures = 0
  Reads = {}
INVARIANTS ConfirmedValuesConverge
CHECK_DEADLOCK FALSE
