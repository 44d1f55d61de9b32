----------------------------- MODULE FloorLock -----------------------------
(***************************************************************************)
(* What the floor protocol promises its users (P5, FR-020): the floor is a *)
(* lock.  A station asks for it, takes it when nobody has it, is refused   *)
(* only while somebody has it, and gives it back.                          *)
(***************************************************************************)
CONSTANT Peer

VARIABLES
  speaking,  \* the stations on the air
  wanting    \* the stations that asked and have no answer

floor == <<speaking, wanting>>

Init == speaking = {} /\ wanting = {}

Ask(p) ==
  /\ p \notin speaking \cup wanting
  /\ wanting' = wanting \cup {p}
  /\ UNCHANGED speaking

Take(p) ==
  /\ speaking = {}
  /\ speaking' = {p}
  /\ wanting' = wanting \ {p}

Refuse(p) ==
  /\ p \in wanting /\ speaking # {}
  /\ wanting' = wanting \ {p}
  /\ UNCHANGED speaking

Yield(p) ==
  /\ p \in speaking
  /\ speaking' = speaking \ {p}
  /\ UNCHANGED wanting

Next == \E p \in Peer : Ask(p) \/ Take(p) \/ Refuse(p) \/ Yield(p)

(* Who asks is answered, and nobody keeps the floor for ever.              *)
Answered == \A p \in Peer : p \in wanting ~> p \notin wanting
Returned == \A p \in Peer : p \in speaking ~> p \notin speaking

Spec == Init /\ [][Next]_floor /\ Answered /\ Returned
=============================================================================
