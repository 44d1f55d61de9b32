------------------------------ MODULE Arbiter ------------------------------
(***************************************************************************)
(* Arbiter election and the grant/deny decision, the pure functions of     *)
(* src/lib/core/floor/arbiter.dart.  Peer ids are compared as strings in   *)
(* the code; here they are positive numbers with the same total order.     *)
(***************************************************************************)
EXTENDS FloorTiming, FiniteSets

CONSTANT Peer

ASSUME PeerAssumption == Peer \subseteq Nat \ {0}

(* The null of the code's String? fields.                                  *)
NoPeer == 0

(* The lowest peer id of a roster.                                         *)
Elect(peers) == CHOOSE p \in peers : \A q \in peers : p <= q

(* A holder counts only while its lease has time left.                     *)
Live(holder, left) == IF left > 0 THEN holder ELSE NoPeer

(* Mutant: a normal request pre-empts.                                     *)
DecideAlwaysGrants(requester, emergency, holder, left) ==
  [grant |-> TRUE, remaining |-> GrantLease]

(* Grant a free floor, re-grant the live holder with the time it has left, *)
(* let an emergency pre-empt, deny the rest.                               *)
Decide(requester, emergency, holder, left) ==
  [grant |-> emergency \/ Live(holder, left) \in {NoPeer, requester},
   remaining |-> IF Live(holder, left) = requester THEN left ELSE GrantLease]

(* The late-joiner gate on granting oneself the floor.                     *)
MaySelfGrant(alone, firstOccupant, watched, converged, reachable) ==
  \/ firstOccupant
  \/ alone /\ converged
  \/ reachable /\ watched >= Heartbeat
=============================================================================
