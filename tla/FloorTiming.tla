---------------------------- MODULE FloorTiming ----------------------------
(***************************************************************************)
(* The locked timing constants of the floor protocol                       *)
(* (src/lib/core/protocol/timing.dart), as whole numbers of clock ticks.   *)
(* An instance picks small numbers that keep the order of the real ones.   *)
(***************************************************************************)
EXTENDS Integers

CONSTANTS
  Tot,        \* time-out timer: longest transmission (60 s by default)
  LeasePad,   \* grantLeasePadding: what a lease lasts beyond the TOT (2 s)
  Heartbeat,  \* presenceHeartbeat (5 s), also the join-guard window
  Retry,      \* txReqRetry: spacing of TX_REQ attempts (150 ms)
  Attempts    \* txReqAttempts: sends before giving up (3)

ASSUME TimingAssumption ==
  /\ Tot \in Nat \ {0}
  /\ LeasePad \in Nat \ {0}
  /\ Heartbeat \in Nat \ {0}
  /\ Retry \in Nat \ {0}
  /\ Attempts \in Nat \ {0}

GrantLease == Tot + LeasePad

(* A timer that is not armed; an armed timer counts down to 0, where it is *)
(* due.                                                                    *)
Off == -1
Timer(n) == {Off} \cup 0..n
Down(t) == IF t > 0 THEN t - 1 ELSE t

(* Elapsed times only matter up to a threshold, so they saturate there.    *)
Up(t, limit) == IF t \in 0..(limit - 1) THEN t + 1 ELSE t
=============================================================================
