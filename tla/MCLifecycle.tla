---------------------------- MODULE MCLifecycle ----------------------------
(***************************************************************************)
(* Lifecycle for TLC.  The history counters never stop, so an index is     *)
(* destroyed at most MaxRecycles times, enough for its versions to wrap    *)
(* around.                                                                 *)
(***************************************************************************)
EXTENDS Lifecycle, TLC

CONSTANTS A, B, l1, l2, MaxRecycles

MCMirrors == l1 :> A @@ l2 :> A

(* Both listen to the same component. *)
Interchangeable == Permutations({l1, l2})

MCNext ==
    \/ Creates
    \/ \E h \in issued : \/ \E c \in Component : Add(h, c) \/ Remove(h, c)
                         \/ epoch[h.index] < MaxRecycles /\ BeginDestroy(h)
                         \/ NothingToDo(h)
    \/ \E l \in Listener : Attach(l) \/ Detach(l)
    \/ Frames

MCSpec == LifeInit /\ [][MCNext]_<<storeVars, lifeVars>>
=============================================================================
