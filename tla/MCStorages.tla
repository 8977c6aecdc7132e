----------------------------- MODULE MCStorages -----------------------------
(***************************************************************************)
(* ComponentStorage and OwnedGroups for TLC.  They share no variable, so   *)
(* each is explored by itself: scene, chosen at the start, says what       *)
(* moves.                                                                  *)
(*                                                                         *)
(* "storage": the entity on an index is destroyed once, so that the next   *)
(* one finds a tombstone of the first.  "group": a callback may put off    *)
(* MaxPending entries.                                                     *)
(*                                                                         *)
(* No definition tells one index from another, so they are symmetric.      *)
(***************************************************************************)
EXTENDS ComponentStorage, OwnedGroups, TLC

CONSTANT MaxPending

VARIABLE scene

StorageStep ==
    \/ \E i \in Index : Create(i)
    \/ \E i \in alive :
          \/ \E v \in Value : Replace(i, v) \/ Insert(i, v)
          \/ Remove(i)
          \/ gen[i] < 2 /\ RemoveForDestroy(i)
          \/ ClearDirty(i)
          \/ \E p \in DOMAIN dense : MoveIndexToDense(i, p)
    \/ ClearAllDirty
    \/ CopyAndRestore

GroupStep ==
    \/ \E i \in EntityIndex :
          \/ \E c \in Component :
                \/ Len(pending) < MaxPending /\ Add(c, i)
                \/ RemoveComponent(c, i)
          \/ Destroy(i)
    \/ Declare \/ BuildNext
    \/ \E components \in SUBSET Component : BeginVisits(components)
    \/ VisitNext \/ EndVisits \/ DrainNext

Symmetry == Permutations(Index) \cup Permutations(EntityIndex)

MCInit == Init /\ GroupInit /\ scene \in {"storage", "group"}

MCNext == /\ UNCHANGED scene
          /\ \/ scene = "storage" /\ StorageStep /\ UNCHANGED groupVars
             \/ scene = "group" /\ GroupStep /\ UNCHANGED vars

MCSpec == MCInit /\ [][MCNext]_<<scene, vars, groupVars>>
=============================================================================
