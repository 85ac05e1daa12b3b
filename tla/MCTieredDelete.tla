--------------------------- MODULE MCTieredDelete ---------------------------
(* An instance of TieredDelete for TLC: a single goroutine. *)
EXTENDS TieredDelete

CONSTANT n1

Single == [c \in Client |-> n1]

Never == NoExpire
=============================================================================
