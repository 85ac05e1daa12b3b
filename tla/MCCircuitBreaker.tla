-------------------------- MODULE MCCircuitBreaker --------------------------
(* Instances of CircuitBreaker for TLC. *)
EXTENDS CircuitBreaker

(* auth/module.go sets nothing but the name: every value is a default. *)
NothingSet ==
    [MaxRequests |-> 0, Interval |-> 0, Timeout |-> 0,
     FailureRatio |-> 0, MinRequests |-> 0]

(* A small configuration in which every threshold is reached quickly. *)
SmallConfig ==
    [MaxRequests |-> 2, Interval |-> 2, Timeout |-> 1,
     FailureRatio |-> 60, MinRequests |-> 2]
=============================================================================
