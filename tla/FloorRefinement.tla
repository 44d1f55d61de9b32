-------------------------- MODULE FloorRefinement --------------------------
(***************************************************************************)
(* The channel of FloorChannel as an implementation of the lock of         *)
(* FloorLock: a station speaks while its engine is in tx and wants the     *)
(* floor while it is awaiting.                                             *)
(***************************************************************************)
EXTENDS FloorChannel

Lock == INSTANCE FloorLock
          WITH speaking <- Talkers,
               wanting  <- {p \in up : station[p].phase = "awaiting"}

(* The stations of a settled channel behave as one lock, and every request *)
(* and every transmission ends.                                            *)
ImplementsLock == Lock!Spec
=============================================================================
