--------------------------- MODULE MCTieredCache ---------------------------
(* Instances of TieredCacheHistory for TLC. *)
EXTENDS TieredCacheHistory, TLC

CONSTANTS n1, n2, c1, c2, c3

(* One goroutine in an instance of its own, two in another one. *)
OneAndTwo == c1 :> n1 @@ c2 :> n2 @@ c3 :> n2

Never == NoExpire
=============================================================================
