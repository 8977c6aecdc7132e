-------------------------- MODULE ComponentStorage --------------------------
(***************************************************************************)
(* Registry::TypeErasedStorage: the sparse set that holds one component    *)
(* type.  dense_indices_, the values, dirty_ and added_ are four arrays    *)
(* that grow and shrink together: here one sequence of records.  sparse_   *)
(* and tombstone_positions_ hold positions, counted from 1 here so that 0  *)
(* is npos; an index past the end of an array in the code reads as npos.   *)
(*                                                                         *)
(* Every operation is called by the registry with the live entity of an    *)
(* index; gen[i] is its version, advanced by destroy(), and alive are the  *)
(* indices that have one.                                                  *)
(***************************************************************************)
EXTENDS Naturals, Sequences, FiniteSets

CONSTANTS Index, Value, Missing

VARIABLES
    alive,                  \* the indices with an entity
    gen,                    \* the version of the entity on each index
    dense,                  \* dense_indices_, data_, dirty_, added_
    sparse,                 \* index -> position in dense, or npos
    tombstones,             \* tombstones_ and tombstone_entities_, by index
    tombstone_indices,      \* the indices with a tombstone, in some order
    tombstone_positions,    \* index -> position in tombstone_indices, or npos
    dirty_count, added_count, tombstone_count

storage == <<dense, sparse, tombstones, tombstone_indices, tombstone_positions,
             dirty_count, added_count, tombstone_count>>
entities == <<alive, gen>>
vars     == <<entities, storage>>

npos == 0

NoTombstone == [kind |-> "none", gen |-> 0]

HasTombstone(i) == tombstones[i].kind # "none"

(* contains(index): the two arrays have to agree. *)
Contains(i) == /\ sparse[i] # npos
               /\ sparse[i] <= Len(dense)
               /\ dense[sparse[i]].index = i

Last(q)  == q[Len(q)]
Front(q) == SubSeq(q, 1, Len(q) - 1)
One(b)   == IF b THEN 1 ELSE 0

(* The tombstone of index i goes: the last listed index takes its place.   *)
(* This is clear_tombstone with erase_tombstone_index.                     *)
ClearTombstone(i) ==
    IF ~HasTombstone(i)
    THEN UNCHANGED <<tombstones, tombstone_indices, tombstone_positions, tombstone_count>>
    ELSE LET last == Last(tombstone_indices)
         IN  /\ tombstones' = [tombstones EXCEPT ![i] = NoTombstone]
             /\ tombstone_indices' =
                   Front([tombstone_indices EXCEPT ![tombstone_positions[i]] = last])
             /\ tombstone_positions' =
                   [[tombstone_positions EXCEPT ![last] = tombstone_positions[i]]
                       EXCEPT ![i] = npos]
             /\ tombstone_count' = tombstone_count - 1

(* mark_tombstone: an index that has one keeps its place in the list. *)
MarkTombstone(i, kind) ==
    /\ tombstones' = [tombstones EXCEPT ![i] = [kind |-> kind, gen |-> gen[i]]]
    /\ IF HasTombstone(i)
       THEN UNCHANGED <<tombstone_indices, tombstone_positions, tombstone_count>>
       ELSE /\ tombstone_indices' = Append(tombstone_indices, i)
            /\ tombstone_positions' =
                  [tombstone_positions EXCEPT ![i] = Len(tombstone_indices) + 1]
            /\ tombstone_count' = tombstone_count + 1

(* Mistake: the counter is only taken down for the last element.           *)
EraseAtCountsLast(p) ==
    LET last == Last(dense)
    IN  /\ dirty_count' = dirty_count - One(last.dirty)
        /\ added_count' = added_count - One(dense[p].added)
        /\ dense' = Front([dense EXCEPT ![p] = last])
        /\ sparse' = [[sparse EXCEPT ![last.index] = p] EXCEPT ![dense[p].index] = npos]

(* erase_at: the last element moves into the hole. *)
EraseAt(p) ==
    LET last == Last(dense)
    IN  /\ dirty_count' = dirty_count - One(dense[p].dirty)
        /\ added_count' = added_count - One(dense[p].added)
        /\ dense' = Front([dense EXCEPT ![p] = last])
        /\ sparse' = [[sparse EXCEPT ![last.index] = p] EXCEPT ![dense[p].index] = npos]
----------------------------------------------------------------------------
Init == /\ alive = {}
        /\ gen = [i \in Index |-> 1]
        /\ dense = <<>>
        /\ sparse = [i \in Index |-> npos]
        /\ tombstones = [i \in Index |-> NoTombstone]
        /\ tombstone_indices = <<>>
        /\ tombstone_positions = [i \in Index |-> npos]
        /\ dirty_count = 0 /\ added_count = 0 /\ tombstone_count = 0

(* Registry::create(): no storage hears of it. *)
Create(i) == /\ i \notin alive
             /\ alive' = alive \cup {i}
             /\ UNCHANGED <<gen, storage>>

(* emplace_or_replace on a component that is there, and write(). *)
Replace(i, v) ==
    /\ Contains(i)
    /\ dense' = [dense EXCEPT ![sparse[i]].value = v, ![sparse[i]].dirty = TRUE]
    /\ dirty_count' = dirty_count + One(~dense[sparse[i]].dirty)
    /\ UNCHANGED <<entities, sparse, tombstones, tombstone_indices, tombstone_positions,
                   added_count, tombstone_count>>

(* emplace_or_replace on a component that is not: commit_insert_metadata   *)
(* drops the tombstone only if it is this entity's.                        *)
Insert(i, v) ==
    /\ ~Contains(i)
    /\ IF tombstones[i].gen = gen[i]
       THEN ClearTombstone(i)
       ELSE UNCHANGED <<tombstones, tombstone_indices, tombstone_positions, tombstone_count>>
    /\ dense' = Append(dense, [index |-> i, value |-> v, dirty |-> TRUE, added |-> TRUE])
    /\ sparse' = [sparse EXCEPT ![i] = Len(dense) + 1]
    /\ dirty_count' = dirty_count + 1
    /\ added_count' = added_count + 1
    /\ UNCHANGED entities

(* remove(entity) *)
Remove(i) ==
    /\ Contains(i)
    /\ EraseAt(sparse[i])
    /\ MarkTombstone(i, "removed")
    /\ UNCHANGED entities

(* remove_for_destroy(entity), and the entity is gone. *)
RemoveForDestroy(i) ==
    /\ IF Contains(i)
       THEN EraseAt(sparse[i]) /\ MarkTombstone(i, "destroyed")
       ELSE UNCHANGED storage
    /\ alive' = alive \ {i}
    /\ gen' = [gen EXCEPT ![i] = @ + 1]

(* clear_dirty(index) *)
ClearDirty(i) ==
    /\ IF Contains(i)
       THEN LET p == sparse[i]
            IN  /\ dense' = [dense EXCEPT ![p].dirty = FALSE, ![p].added = FALSE]
                /\ dirty_count' = dirty_count - One(dense[p].dirty)
                /\ added_count' = added_count - One(dense[p].added)
                /\ UNCHANGED <<tombstones, tombstone_indices, tombstone_positions,
                               tombstone_count>>
       ELSE ClearTombstone(i) /\ UNCHANGED <<dense, dirty_count, added_count>>
    /\ UNCHANGED <<entities, sparse>>

(* clear_all_dirty() *)
ClearAllDirty ==
    /\ dense' = [p \in DOMAIN dense |->
                    [dense[p] EXCEPT !.dirty = FALSE, !.added = FALSE]]
    /\ tombstones' = [i \in Index |-> NoTombstone]
    /\ tombstone_indices' = <<>>
    /\ tombstone_positions' = [i \in Index |-> npos]
    /\ dirty_count' = 0 /\ added_count' = 0 /\ tombstone_count' = 0
    /\ UNCHANGED <<entities, sparse>>

(* Mistake: the values and indices are swapped, the dirty bits are not. *)
MoveIndexLeavesBits(i, p) ==
    /\ Contains(i)
    /\ p # sparse[i]
    /\ LET here == sparse[i]
           j    == dense[p].index
       IN  /\ dense' = [dense EXCEPT
                          ![here] = [dense[p] EXCEPT !.dirty = dense[here].dirty],
                          ![p]    = [dense[here] EXCEPT !.dirty = dense[p].dirty]]
           /\ sparse' = [sparse EXCEPT ![i] = p, ![j] = here]
    /\ UNCHANGED <<entities, tombstones, tombstone_indices, tombstone_positions,
                   dirty_count, added_count, tombstone_count>>

(* move_index_to_dense(index, position): swap_dense with what is there,    *)
(* done by the owned groups to keep their members together.                *)
MoveIndexToDense(i, p) ==
    /\ Contains(i)
    /\ p # sparse[i]
    /\ LET here == sparse[i]
           j    == dense[p].index
       IN  /\ dense' = [dense EXCEPT ![here] = dense[p], ![p] = dense[here]]
           /\ sparse' = [sparse EXCEPT ![i] = p, ![j] = here]
    /\ UNCHANGED <<entities, tombstones, tombstone_indices, tombstone_positions,
                   dirty_count, added_count, tombstone_count>>

(* A snapshot's compact copy has no lookup arrays and lists its tombstones *)
(* by position; restoring it rebuilds them (clone_compact_filtered with    *)
(* nothing excluded, clone_for_restore, rebuild_lookup).                   *)
CopyAndRestore ==
    LET listed(i) == {k \in DOMAIN tombstone_indices : tombstone_indices[k] = i}
        at(i)     == {p \in DOMAIN dense : dense[p].index = i}
        the(S)    == IF S = {} THEN npos ELSE CHOOSE k \in S : \A m \in S : m <= k
    IN  /\ sparse' = [i \in Index |-> the(at(i))]
        /\ tombstone_positions' = [i \in Index |-> the(listed(i))]
        /\ tombstones' = [i \in Index |->
                             IF listed(i) = {} THEN NoTombstone ELSE tombstones[i]]
        /\ tombstone_count' = Len(tombstone_indices)
        /\ dirty_count' = Cardinality({p \in DOMAIN dense : dense[p].dirty})
        /\ added_count' = Cardinality({p \in DOMAIN dense : dense[p].added})
        /\ UNCHANGED <<entities, dense, tombstone_indices>>

Next ==
    \/ \E i \in Index : Create(i)
    \/ \E i \in alive :
          \/ \E v \in Value : Replace(i, v) \/ Insert(i, v)
          \/ Remove(i)
          \/ RemoveForDestroy(i)
          \/ ClearDirty(i)
          \/ \E p \in DOMAIN dense : MoveIndexToDense(i, p)
    \/ ClearAllDirty
    \/ CopyAndRestore

Spec == Init /\ [][Next]_vars
----------------------------------------------------------------------------
Entry == [index : Index, value : Value, dirty : BOOLEAN, added : BOOLEAN]

TypeOK ==
    /\ alive \subseteq Index
    /\ gen \in [Index -> Nat]
    /\ dense \in Seq(Entry)
    /\ sparse \in [Index -> Nat]
    /\ tombstones \in
          [Index -> {NoTombstone} \cup [kind : {"removed", "destroyed"}, gen : Nat]]
    /\ tombstone_indices \in Seq(Index)
    /\ tombstone_positions \in [Index -> Nat]
    /\ dirty_count \in Nat /\ added_count \in Nat /\ tombstone_count \in Nat

(* sparse_ and dense_indices_ are inverse to each other: every stored      *)
(* component is found through its index, no index is stored twice, and an  *)
(* index that is not stored reads npos and never an old position.          *)
LookupConsistent ==
    /\ \A p \in DOMAIN dense : sparse[dense[p].index] = p
    /\ \A i \in Index : sparse[i] # npos => Contains(i)

(* The list of tombstones is exact: tombstone_positions_ inverts           *)
(* tombstone_indices_, and an index is on the list iff it has a tombstone. *)
TombstonesIndexed ==
    /\ \A k \in DOMAIN tombstone_indices :
          /\ tombstone_positions[tombstone_indices[k]] = k
          /\ HasTombstone(tombstone_indices[k])
    /\ \A i \in Index :
          tombstone_positions[i] # npos \/ HasTombstone(i) =>
             /\ tombstone_positions[i] \in DOMAIN tombstone_indices
             /\ tombstone_indices[tombstone_positions[i]] = i

(* has_dirty_entries(), computed from the counters, is what decides        *)
(* whether a delta snapshot includes this storage at all: the counters     *)
(* never drift from what they count.                                       *)
CountersExact ==
    /\ dirty_count = Cardinality({p \in DOMAIN dense : dense[p].dirty})
    /\ added_count = Cardinality({p \in DOMAIN dense : dense[p].added})
    /\ tombstone_count = Len(tombstone_indices)

(* Every component is found through its index, every tombstone through its *)
(* own, and nothing else is; and the counters never drift.                 *)
ArraysConsistent == LookupConsistent /\ TombstonesIndexed /\ CountersExact

(* What the accessors make of the arrays: get(), and what each_dirty,      *)
(* each_added and each_removed visit.                                      *)
Values   == [i \in Index |-> IF Contains(i) THEN dense[sparse[i]].value ELSE Missing]
Dirty    == {dense[p].index : p \in {q \in DOMAIN dense : dense[q].dirty}}
Added    == {dense[p].index : p \in {q \in DOMAIN dense : dense[q].added}}
Removals == [i \in Index |->
                IF \E k \in DOMAIN tombstone_indices : tombstone_indices[k] = i
                THEN tombstones[i] ELSE NoTombstone]

Table == INSTANCE ComponentTable
           WITH val <- Values, dirty <- Dirty, added <- Added, removal <- Removals

(* The sparse set behaves as the table of components and their change      *)
(* report: inserting, swap-erasing, group moves and snapshot copies never  *)
(* change or lose another entity's value, dirty bit or removal.            *)
ImplementsTable == Table!Spec
=============================================================================
