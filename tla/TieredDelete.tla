---------------------------- MODULE TieredDelete ----------------------------
(***************************************************************************)
(* TieredCache with a record of what each goroutine asked to delete, for   *)
(* what a comment in multilevel.go says of a Delete that fails.            *)
(***************************************************************************)
EXTENDS TieredCache

VARIABLE asked   \* the newest value each goroutine asked to delete, 0 if none

DeleteSpec ==
    /\ Init /\ asked = [c \in Client |-> 0]
    /\ [][ /\ Next
           /\ asked' = [c \in Client |->
                  IF At(c, "idle") /\ client'[c].at \in {"deleteL1", "deleteL1Failed"}
                  THEN last ELSE asked[c]] ]_<<vars, asked>>

(* "Delete L2 first (authoritative). If L2 fails, L1 stays consistent and a
   subsequent read won't backfill a deleted entry from L2." (multilevel.go):
   what a goroutine asked to delete is not put into L1 by its later reads. *)
DeletedIsNotBackfilled ==
    [][ \A c \in Client : At(c, "backfill") /\ l1' # l1 /\ At(c, "idle")' =>
            client[c].value > asked[c] ]_<<vars, asked>>
=============================================================================
