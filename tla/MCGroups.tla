------------------------------ MODULE MCGroups ------------------------------
(* Three identities with a name each; 1 may ask 2 to be a contact.         *)
EXTENDS Groups

OwnName == [p \in Pk |-> {<<"ada", "ben", "kim">>[p]}]
OneAsk == {<<1, 2>>}
=============================================================================
