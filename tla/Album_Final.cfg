SPECIFICATION FairSpec
CONSTANTS
  a1 = a1
  a2 = a2
  x1 = x1
  x2 = x2
  u1 = u1
  u2 = u2
  d1 = d1
  d2 = d2
  Albums = {a1, a2}
  Puts = {x1}
  Photos = {u1}
  Deletes = {}
  AlbumOf <- OneAlbum
  Target <- FirstPhoto
  Pollers = {w1}
  MaxFailures = 1
  MaxCrashes = 0
  MaxReceives = 2
PROPERTIES CompletedIsFinal
CHECK_DEADLOCK FALSE
