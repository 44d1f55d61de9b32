---------------------------- MODULE MCDirectory ----------------------------
(* Three identities; 1 and 2 may ask each other, 1 may also ask 3.         *)
EXTENDS Directory

SomeWishes == [p \in Pk |-> IF p = 3 THEN {"ben"} ELSE {"ada", "ben", "kim"}]
SomeAsks == {<<1, 2>>, <<2, 1>>, <<1, 3>>}
=============================================================================
