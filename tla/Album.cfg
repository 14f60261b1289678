SPECIFICATION FairSpec
CONSTANTS
  a1 = a1
  a2 = a2
  x1 = x1
  x2 = x2
  u1 = u1
  u2 = u2
  d1 = d1
  d2 = d2
  Albums = {a1, a2}
  Puts = {x1, x2}
  Photos = {u1, u2}
  Deletes = {d1}
  AlbumOf <- OneAlbum
  Target <- FirstPhoto
  Pollers = {w1}
  MaxFailures = 1
  MaxCrashes = 1
  MaxReceives = 2
INVARIANTS TypeOK SeqOrdersPhotos CompletedIsStored SomebodyCreates
PROPERTIES DeletedStaysDeleted PhotosSettle
CHECK_DEADLOCK FALSE
