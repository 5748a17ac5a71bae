---------------------------- MODULE MCKeyService ----------------------------
(* Instances of KeyService for TLC.                                        *)
EXTENDS KeyService

CONSTANTS ann, Ann, p1, p2, o1, r1, r2, c1

OneMember    == {ann}
Spelt        == {ann, Ann}
SpeltLow     == [a \in Spelt |-> ann]
TwoPasswords == {p1, p2}
OneOTP       == {o1}
TwoSlots     == {r1, r2}
OneClient    == {c1}
=============================================================================
