-------------------------- MODULE MCAuthHistory --------------------------
(* Instances of AuthHistory for TLC. *)
EXTENDS AuthHistory, TLC

CONSTANTS t1, t2, u1, u2, k1, k2

(* Each user has a token. *)
OneEach == t1 :> u1 @@ t2 :> u2

TwoSums == t1 :> k1 @@ t2 :> k2

(* Requests are interchangeable, and so are the users with all that is theirs. *)
Swap ==
    t1 :> t2 @@ t2 :> t1 @@ u1 :> u2 @@ u2 :> u1 @@ k1 :> k2 @@ k2 :> k1

Symmetry == Permutations(Request) \cup {Swap}
=============================================================================
