--------------------------- MODULE ComponentTable ---------------------------
(***************************************************************************)
(* What the Registry offers for one component type: which entities have    *)
(* it, with which value, and the change report a consumer reads through    *)
(* each_dirty, each_added and each_removed until it clears it.             *)
(*                                                                         *)
(* The report is kept per entity index, not per entity: an index is        *)
(* recycled by create() with another version, and removal[i] has room for  *)
(* one removal only.  gen[i] numbers the entities that have had index i    *)
(* (the version of the handle); destroy() moves on to the next one.  An    *)
(* index nobody has created, or that was destroyed since, is not alive:    *)
(* with any handle to it every operation here returns at once.             *)
(***************************************************************************)
EXTENDS Naturals

CONSTANTS Index,        \* entity indices
          Value,        \* component values
          Missing       \* the entity does not have the component

ASSUME MissingAssumption == Missing \notin Value

VARIABLES
    alive,      \* the indices with an entity
    gen,        \* gen[i]: the version of that entity, or of the next one
    val,        \* val[i]: its component, or Missing
    dirty,      \* indices each_dirty reports
    added,      \* indices each_added reports
    removal     \* removal[i]: what each_removed reports for index i

table == <<alive, gen, val, dirty, added, removal>>

NoRemoval == [kind |-> "none", gen |-> 0]

Removal == {NoRemoval} \cup [kind : {"removed", "destroyed"}, gen : Nat]

Has(i) == val[i] # Missing

Removed(i) == removal[i].kind # "none"

(* Registry::is_dirty on the last entity of index i: false once it is gone. *)
IsDirty(i) == i \in alive /\ IF Has(i) THEN i \in dirty ELSE Removed(i)

(* Mistake: a removal is not worth reporting when the component was added  *)
(* after the last clear.                                                   *)
DropForgetsAdded(i, kind) ==
    /\ val' = [val EXCEPT ![i] = Missing]
    /\ dirty' = dirty \ {i}
    /\ added' = added \ {i}
    /\ removal' = IF i \in added THEN removal
                  ELSE [removal EXCEPT ![i] = [kind |-> kind, gen |-> gen[i]]]

(* The component leaves entity i: whatever the report said of it is        *)
(* replaced by its removal.                                                *)
Drop(i, kind) ==
    /\ val' = [val EXCEPT ![i] = Missing]
    /\ dirty' = dirty \ {i}
    /\ added' = added \ {i}
    /\ removal' = [removal EXCEPT ![i] = [kind |-> kind, gen |-> gen[i]]]
----------------------------------------------------------------------------
Init == /\ alive = {}
        /\ gen = [i \in Index |-> 1]
        /\ val = [i \in Index |-> Missing]
        /\ dirty = {}
        /\ added = {}
        /\ removal = [i \in Index |-> NoRemoval]

(* create(), with a new index or a recycled one. *)
Create(i) == /\ i \notin alive
             /\ alive' = alive \cup {i}
             /\ UNCHANGED <<gen, val, dirty, added, removal>>

(* Mistakes: replacing a value does not mark it; a component that comes    *)
(* back on an index with a pending removal is not an addition.             *)
PutMarksInsertsOnly(i, v) ==
    /\ i \in alive
    /\ val' = [val EXCEPT ![i] = v]
    /\ dirty' = IF Has(i) THEN dirty ELSE dirty \cup {i}
    /\ added' = IF Has(i) THEN added ELSE added \cup {i}
    /\ removal' = IF ~Has(i) /\ removal[i].gen = gen[i]
                  THEN [removal EXCEPT ![i] = NoRemoval] ELSE removal
    /\ UNCHANGED <<alive, gen>>

PutAfterRemovalNotAdded(i, v) ==
    /\ i \in alive
    /\ val' = [val EXCEPT ![i] = v]
    /\ dirty' = dirty \cup {i}
    /\ added' = IF Has(i) \/ Removed(i) THEN added ELSE added \cup {i}
    /\ removal' = IF ~Has(i) /\ removal[i].gen = gen[i]
                  THEN [removal EXCEPT ![i] = NoRemoval] ELSE removal
    /\ UNCHANGED <<alive, gen>>

(* add(), add_tag(), ensure() and write(): the last two with the value the *)
(* component had or the caller then stores through the pointer.  Adding    *)
(* takes back the removal of the same entity, not one of an earlier entity *)
(* on the same index.                                                      *)
Put(i, v) ==
    /\ i \in alive
    /\ val' = [val EXCEPT ![i] = v]
    /\ dirty' = dirty \cup {i}
    /\ added' = IF Has(i) THEN added ELSE added \cup {i}
    /\ removal' = IF ~Has(i) /\ removal[i].gen = gen[i]
                  THEN [removal EXCEPT ![i] = NoRemoval] ELSE removal
    /\ UNCHANGED <<alive, gen>>

(* remove() and remove_tag(); without the component they return false. *)
Remove(i) == i \in alive /\ Has(i) /\ Drop(i, "removed") /\ UNCHANGED <<alive, gen>>

(* destroy() of the entity, its component included. *)
Destroy(i) ==
    /\ i \in alive
    /\ alive' = alive \ {i}
    /\ gen' = [gen EXCEPT ![i] = @ + 1]
    /\ IF Has(i) THEN Drop(i, "destroyed") ELSE UNCHANGED <<val, dirty, added, removal>>

(* clear_dirty(entity, component). *)
ClearDirty(i) ==
    /\ i \in alive
    /\ IF Has(i)
       THEN dirty' = dirty \ {i} /\ added' = added \ {i} /\ UNCHANGED removal
       ELSE removal' = [removal EXCEPT ![i] = NoRemoval] /\ UNCHANGED <<dirty, added>>
    /\ UNCHANGED <<alive, gen, val>>

(* clear_all_dirty(component), and the end of a dirty_scope(). *)
ClearAllDirty ==
    /\ dirty' = {}
    /\ added' = {}
    /\ removal' = [i \in Index |-> NoRemoval]
    /\ UNCHANGED <<alive, gen, val>>

Next ==
    \/ \E i \in Index :
          \/ Create(i)
          \/ \E v \in Value : Put(i, v)
          \/ Remove(i)
          \/ Destroy(i)
          \/ ClearDirty(i)
    \/ ClearAllDirty

Spec == Init /\ [][Next]_table
----------------------------------------------------------------------------
(* Only live entities have the component.  The report only speaks of       *)
(* components that are there or were there, and an entity that just got    *)
(* the component is reported as changed as well.                           *)
TypeOK ==
    /\ alive \subseteq Index
    /\ {i \in Index : Has(i)} \subseteq alive
    /\ gen \in [Index -> Nat]
    /\ val \in [Index -> Value \cup {Missing}]
    /\ added \subseteq dirty
    /\ dirty \subseteq {i \in Index : Has(i)}
    /\ removal \in [Index -> Removal]
    /\ \A i \in Index : removal[i].gen <= gen[i]
=============================================================================
