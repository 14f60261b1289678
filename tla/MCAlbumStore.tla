---------------------------- MODULE MCAlbumStore ----------------------------
(* Instances of AlbumStore for TLC. *)
EXTENDS AlbumStore

CONSTANTS a1, a2, x1, x2, u1, u2, d1, d2

\* Everything happens in album a1, except for the DELETE d2, which names a
\* photo of a1 under another album.
OneAlbum == [r \in Puts \cup Photos \cup Deletes |-> IF r = d2 THEN a2 ELSE a1]

\* All DELETEs are about the first photo.
FirstPhoto == [d \in Deletes |-> u1]
=============================================================================
