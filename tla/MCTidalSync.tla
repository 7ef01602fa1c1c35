---- MODULE MCTidalSync ----
(* A track by two artists on an album by the first, found by one search that *)
(* also finds the second artist and the album.                               *)
EXTENDS TidalSync

CONSTANTS a1, a2, al1, t1, q1

TheAlbumOf == [x \in {t1} |-> al1]
TheCredits == [i \in {al1, t1} |-> IF i = al1 THEN <<a1>> ELSE <<a1, a2>>]
TheHits == [x \in {q1} |-> [artists |-> <<a2>>, albums |-> <<al1>>, tracks |-> <<t1>>]]
HandlerSymmetry == Permutations(Handlers)
====
