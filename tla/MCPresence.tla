----------------------------- MODULE MCPresence -----------------------------
(* The first identity is a contact of the second and shares a group with   *)
(* the third; these two do not know each other.                            *)
EXTENDS Presence

Friends == [p \in Pk |-> {3 - p} \cap Pk]
Group == {1, 3}
Mates == [p \in Pk |-> IF p \in Group THEN Group \ {p} ELSE {}]
=============================================================================
