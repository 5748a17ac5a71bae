------------------------------ MODULE MCSession ------------------------------
(* Small instances of Session for TLC.                                     *)
EXTENDS Session

CONSTANTS t1, ann, bob, c1, c2, c3

OneTab     == {t1}
TwoMembers == {ann, bob}
ThreeCalls == {c1, c2, c3}
=============================================================================
