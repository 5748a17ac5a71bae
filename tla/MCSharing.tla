------------------------------ MODULE MCSharing ------------------------------
(* Small instances of Sharing for TLC.                                     *)
EXTENDS Sharing, TLC

CONSTANTS t1, ann, bob, c1, c2, j1, j2

OneTab     == {t1}
TwoMembers == {ann, bob}
AsMembers  == {ann, bob}
OneCall    == {c1}
TwoCalls   == {c1, c2}
OneJob     == {j1}
TwoJobs    == {j1, j2}

\* Calls and handlers are interchangeable; so are members where any of them
\* may be a recipient.
Slots == Permutations(TwoCalls) \cup Permutations(TwoJobs)
Swaps == Slots \cup Permutations(TwoMembers)
=============================================================================
