--------------------------- MODULE MCRegistration ---------------------------
(* Instances of Registration for TLC.                                      *)
EXTENDS Registration, TLC

CONSTANTS ann, p1, p2, o1, o2, r1, r2

OneMember    == {ann}
OnePassword  == {p1}
TwoPasswords == {p1, p2}
OneOTP       == {o1}
TwoOTPs      == {o1, o2}
TwoSlots     == {r1, r2}
SameOne      == [a \in OneMember |-> a]

Swaps == Permutations(TwoSlots) \cup Permutations(TwoPasswords)
            \cup Permutations(TwoOTPs)
=============================================================================
