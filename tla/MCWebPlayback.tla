---------------------------- MODULE MCWebPlayback ----------------------------
(* The web player on a small queue.                                         *)
EXTENDS WebPlayback, TLC

MCNaN == -99

\* Both ways to go from song to song with fades, the client's default, and one without.
MCSettings == {[style |-> "crossfade", fades |-> TRUE, maxRetries |-> 1],
               [style |-> "gapless", fades |-> TRUE, maxRetries |-> 0],
               [style |-> "crossfade", fades |-> FALSE, maxRetries |-> 0]}

IdSymmetry == Permutations(Ids)
=============================================================================
