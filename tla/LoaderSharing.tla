--------------------------- MODULE LoaderSharing ---------------------------
(***************************************************************************)
(* Loader with a record of whether a goroutine that missed could have been *)
(* served by what a load has stored since, to say how much of "calls load  *)
(* exactly once (even under concurrent access)" in loader.go the code      *)
(* keeps.                                                                  *)
(***************************************************************************)
EXTENDS Loader

VARIABLE filled   \* goroutines for which a value has been loaded and cached since they missed

SharingInit == Init /\ filled = {}

(* Some load ends with a value that is now in the cache. *)
LoadIsCached ==
    \E c \in Caller : At(c, "store") /\ At(c, "deliver")' /\ cache' # Null

(* Once the entry has vanished, another load is called for. *)
Noted ==
    filled' = {c \in Caller : /\ At(c, "do")' \/ At(c, "recheck")'
                              /\ c \in filled \/ LoadIsCached
                              /\ ~(cache # Null /\ cache' = Null)}

SharingNext ==
    /\ \/ \E c \in Caller : Start(c) \/ Step(c) \/ Cancel(c)
       \/ Set \/ Delete \/ ChangeSource \/ Tick
    /\ Noted

sharingVars == <<vars, filled>>

SharingSpec == SharingInit /\ [][SharingNext]_sharingVars

FairSharingSpec == SharingSpec /\ Fairness

(* A goroutine that missed does not load what another one has loaded and cached
   meanwhile, whenever it gets to the group, except when the cache fails to show
   it.  That is all there is to "exactly once": a load that finds nothing, or
   whose value the cache does not take, is made again by every goroutine that
   missed before it ended and gets to the group after. *)
CachedLoadsAreShared ==
    [][ \A c \in filled :
          ~At(c, "load") /\ At(c, "load")' => RecheckFails(c) ]_sharingVars
=============================================================================
