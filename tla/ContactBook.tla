---------------------------- MODULE ContactBook ----------------------------
(***************************************************************************)
(* What the directory promises about contacts (V2-FR-010 to V2-FR-013): a  *)
(* link has two ends and comes from an ask the other side accepted, each   *)
(* side may cut it, and an ask is open until it is answered or lapses.     *)
(***************************************************************************)
CONSTANT Pk

VARIABLES
  asked,   \* open asks: <<who asks, who is asked>>
  linked   \* the links, each a set of two identities

book == <<asked, linked>>

Init == asked = {} /\ linked = {}

Ask(from, to) ==
  /\ from # to /\ {from, to} \notin linked
  /\ asked' = asked \cup {<<from, to>>}
  /\ UNCHANGED linked

(* One acceptance answers the asks of both sides.                          *)
Accept(me, from) ==
  /\ <<from, me>> \in asked
  /\ linked' = linked \cup {{me, from}}
  /\ asked' = asked \ {<<from, me>>, <<me, from>>}

(* Asks lapse or are declined; links may be cut along with them.           *)
Drop ==
  /\ asked' \in SUBSET asked
  /\ linked' \in SUBSET linked

Next ==
  \/ Drop
  \/ \E p, q \in Pk : Ask(p, q) \/ Accept(p, q)

Spec == Init /\ [][Next]_book
=============================================================================
