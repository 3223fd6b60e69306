------------------------------ MODULE MCPosters ------------------------------
EXTENDS Posters, TLC

CONSTANTS goto, track, there

\* Two requests of one task: goto is not reentrant, track is, and each goto
\* interrupts the track activities.
MCSlot == 1 .. 2
MCTypes == {goto, track}
MCIncompatible == (goto :> {goto, track}) @@ (track :> {})
MCMembers == {<<goto, 0>>, <<track, 1>>}
MCRank == (<<goto, 0>> :> 1) @@ (<<track, 1>> :> 2)
=============================================================================
