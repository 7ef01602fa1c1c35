----------------------------- MODULE PlayReport -----------------------------
(***************************************************************************)
(* What the scrobble hook of the client promises to whoever counts plays:  *)
(* a play-through of a track is submitted at most once, and only after     *)
(* enough of it was heard or jumped over in steps too short to tell.       *)
(***************************************************************************)
EXTENDS Naturals

CONSTANTS
    Enough,    \* the listening times, in seconds, that make a play count
    Slack      \* the most that jumps add to the listening time in one step

VARIABLES
    credit,    \* seconds that may count for the play-through
    sent       \* submissions of the play-through

reportVars == <<credit, sent>>

Init == credit = 0 /\ sent = 0

\* Sound is heard, or the position takes a jump too short to tell from it.
Listen ==
    /\ \E gain \in 0 .. Slack + 1 : credit' = credit + gain
    /\ UNCHANGED sent

\* Another song, a repeat, or a return to the start of the track.
NewPlay ==
    /\ credit' \in 0 .. Slack
    /\ sent' = 0

Submit ==
    /\ sent = 0
    /\ sent' = 1
    /\ \E gain \in 0 .. Slack : credit' = credit + gain
    /\ \E l \in 0 .. credit' : l \in Enough

Next == Listen \/ NewPlay \/ Submit

Spec == Init /\ [][Next]_reportVars
=============================================================================
