---- MODULE MCPlayerQueue ----
(* The play queue on small instances.                                        *)
EXTENDS PlayerQueue, TLC

\* Unique ids are random and only compared for equality.
IdSymmetry == Permutations(Ids)

MCNaN == -99
====
