--------------------------- MODULE MCRegisterPage ---------------------------
(* Instances of RegisterPage for TLC.                                      *)
EXTENDS RegisterPage

CONSTANTS ann, p1, o1, r1, r2, tab1, tab2

OneMember   == {ann}
OnePassword == {p1}
OneOTP      == {o1}
TwoSlots    == {r1, r2}
SameOne     == [a \in OneMember |-> a]
TwoPages    == {tab1, tab2}
=============================================================================
