------------------------- MODULE MCDeltaReplication -------------------------
(***************************************************************************)
(* DeltaReplication for TLC: an index is destroyed until its version is    *)
(* MaxVersion, and tokens are issued up to MaxIssued.  No definition tells *)
(* indices, components or values apart.                                    *)
(***************************************************************************)
EXTENDS DeltaReplication, TLC

CONSTANTS MaxVersion, MaxIssued

MCNext ==
    \/ \E i \in Index :
          \/ Create(i)
          \/ slots[i].version < MaxVersion /\ Destroy(i)
          \/ \E c \in Component : Remove(c, i) \/ \E v \in Value : Put(c, i, v)
    \/ issued < MaxIssued /\ Broadcast

Symmetry == Permutations(Index) \cup Permutations(Component) \cup Permutations(Value)

MCSpec == Init /\ [][MCNext]_vars
=============================================================================
