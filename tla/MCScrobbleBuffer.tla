--------------------------- MODULE MCScrobbleBuffer ---------------------------
(* Two plays of one user and one of another, submitted in any order: the     *)
(* second play of the first user may reach the table before the first.       *)
EXTENDS ScrobbleBuffer, TLC

CONSTANTS e1, e2, e3, u1, u2

MCEntries == {e1, e2, e3}
MCUserOf == [e \in Entries |-> IF e = e3 THEN u2 ELSE u1]
MCPlayTime == [e \in Entries |-> IF e = e2 THEN 2 ELSE 1]

\* One user only, for the runs that are large without it.
MCPair == {e1, e2}
RunnerSymmetry == Permutations(Runners)
=============================================================================
