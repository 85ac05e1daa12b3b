----------------------------- MODULE MCAuthFlow -----------------------------
(* An instance of AuthFlow for TLC. *)
EXTENDS AuthFlow, TLC

CONSTANTS t1, t2, u1, u2, k1, k2

(* One user has two sessions. *)
TwoOfOne == t1 :> u1 @@ t2 :> u1

TwoSums == t1 :> k1 @@ t2 :> k2
=============================================================================
