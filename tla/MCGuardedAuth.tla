---------------------------- MODULE MCGuardedAuth ----------------------------
(* An instance of GuardedAuth for TLC. *)
EXTENDS GuardedAuth, TLC

CONSTANTS t1, u1, k1

OneUser == t1 :> u1

OneSum == t1 :> k1

SmallConfig ==
    [MaxRequests |-> 2, Interval |-> 1, Timeout |-> 1,
     FailureRatio |-> 60, MinRequests |-> 2]
=============================================================================
