---- MODULE MCClientScrobble ----
(* The scrobble hook on small instances.                                     *)
EXTENDS ClientScrobble, TLC

\* Songs are only compared for equality.
SongSymmetry == Permutations(Songs)
====
