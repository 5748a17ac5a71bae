----------------------------- MODULE MCCommandLine -----------------------------
(* Small instances of CommandLine for TLC: exponents modulo 31.            *)
EXTENDS CommandLine

Ann == <<"ann">>
Bob == <<"bob@example", "com">>

TwoUsers == {Ann, Bob}
OneMemo  == {<<"memo">>}
Exps     == 1 .. 30
Times(a, b) == (a * b) % 31
Hashes   == [i \in TwoUsers |-> IF i = Ann THEN 3 ELSE 11]
Digests  == [t \in {"t1", "t2"} |-> IF t = "t1" THEN 1 ELSE 17]
===============================================================================
