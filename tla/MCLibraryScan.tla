---------------------------- MODULE MCLibraryScan ----------------------------
(* Values for the constants of LibraryScan that a .cfg cannot write.         *)
EXTENDS LibraryScan, TLC

Symmetry == Permutations(Folders)

Quick == [full |-> FALSE, selective |-> FALSE]
Full == [full |-> TRUE, selective |-> FALSE]
QuickSelective == [full |-> FALSE, selective |-> TRUE]
FullSelective == [full |-> TRUE, selective |-> TRUE]

AnyScan == {Quick, Full, QuickSelective, FullSelective}
QuickOrFull == {Quick, Full}
=============================================================================
