---------------------------- MODULE OwnedGroups ----------------------------
(***************************************************************************)
(* One owned group and a structural job that iterates the same storages.   *)
(* The components in Owned keep the entities that have all of them at the  *)
(* first `size' positions of their dense arrays, in the same order, by     *)
(* swapping positions as components come and go.  Two groups never own the *)
(* same component (validate_group_key), so one is enough.                  *)
(*                                                                         *)
(* Only the dense_indices_ of each storage matter here; that values, bits  *)
(* and sparse_ follow a swap is ComponentStorage's concern.  Positions are *)
(* counted from 1.  A loop of the code is one step per iteration, and      *)
(* nothing but the callback of a structural job runs between its steps.    *)
(***************************************************************************)
EXTENDS Naturals, Sequences, FiniteSets, Functions

CONSTANTS EntityIndex, Component, Owned, None

ASSUME OwnedAssumption ==
    Owned # {} /\ Owned \subseteq Component /\ None \notin Component \cup EntityIndex

VARIABLES
    indices,        \* dense_indices_ of each component's storage
    declared,       \* whether the group exists
    size,           \* its GroupRecord::size
    pending,        \* deferred_enters, then the local copy that is drained
    run,            \* the loop that is running, if any
    driver,         \* the storage a loop walks through
    cursor,         \* the position it has reached
    required,       \* the components of the structural job's view
    current,        \* the entity whose callback is running
    visited,        \* history: the entities visited, in order
    todo            \* history: the entities that matched when the job began

loop == <<run, driver, cursor, required, current, visited, todo>>
groupVars == <<indices, declared, size, pending, loop>>

GroupInit ==
    /\ indices = [c \in Component |-> <<>>]
    /\ declared = FALSE /\ size = 0 /\ pending = <<>>
    /\ run = "idle" /\ driver = None /\ cursor = 0
    /\ required = {} /\ current = None /\ visited = <<>> /\ todo = {}

-----------------------------------------------------------------------------
(* Lookup. *)

(* contains_index and dense_position, in the dense arrays d. *)
ContainsIndex(d, c, i) == \E p \in DOMAIN d[c] : d[c][p] = i
Position(d, c, i) == CHOOSE p \in DOMAIN d[c] : d[c][p] = i

(* group_contains_all *)
ContainsAll(d, components, i) == \A c \in components : ContainsIndex(d, c, i)

(* group_contains_index looks at one owned storage only, whichever is      *)
(* first in the key.                                                       *)
InGroup(i) == \E c \in Owned : \E p \in 1..size : p \in DOMAIN indices[c] /\ indices[c][p] = i

(* smallest_storage, and driver_storage of a view; the order of the        *)
(* components decides between equals.                                      *)
Smallest(components) ==
    {c \in components : \A b \in components : Len(indices[c]) <= Len(indices[b])}

Matching(components) == {i \in EntityIndex : ContainsAll(indices, components, i)}

-----------------------------------------------------------------------------
(* The dense arrays after an operation of their storages. *)

(* emplace_or_replace: a new element goes to the end. *)
Emplaced(d, c, i) == IF ContainsIndex(d, c, i) THEN d ELSE [d EXCEPT ![c] = Append(@, i)]

(* erase_at: the last element takes the place of the one that goes. *)
Erased(q, p) == SubSeq([q EXCEPT ![p] = q[Len(q)]], 1, Len(q) - 1)

(* move_index_to_dense in every owned storage; it skips a storage that     *)
(* does not have the index.                                                *)
MovedTo(d, i, target) ==
    [c \in Component |->
        IF c \in Owned /\ ContainsIndex(d, c, i)
        THEN [d[c] EXCEPT ![target] = i, ![Position(d, c, i)] = d[c][target]]
        ELSE d[c]]

-----------------------------------------------------------------------------
(* Membership of the group. *)

(* enter_group, on the arrays d that the caller has made. *)
Enter(d, i) ==
    IF InGroup(i)
    THEN indices' = d /\ UNCHANGED size
    ELSE indices' = MovedTo(d, i, size + 1) /\ size' = size + 1

(* leave_group of an owned component that is about to be removed. *)
Left(i) == IF InGroup(i) THEN MovedTo(indices, i, size) ELSE indices
Leave(i) == size' = IF InGroup(i) THEN size - 1 ELSE size

(* Mistake: the entity enters in the middle of a structural job. *)
RefreshNow(d, c, i) ==
    /\ IF declared /\ c \in Owned /\ ContainsAll(d, Owned, i)
       THEN Enter(d, i)
       ELSE indices' = d /\ UNCHANGED size
    /\ UNCHANGED pending

(* refresh_group_after_add: in a structural job the entry is put off. *)
RefreshAfterAdd(d, c, i) ==
    IF declared /\ c \in Owned /\ ContainsAll(d, Owned, i)
    THEN IF run = "visiting"
         THEN indices' = d /\ pending' = Append(pending, i) /\ UNCHANGED size
         ELSE Enter(d, i) /\ UNCHANGED pending
    ELSE indices' = d /\ UNCHANGED <<size, pending>>

-----------------------------------------------------------------------------
(* The registry's operations on an entity: by anyone while nothing runs,   *)
(* and by the callback of a structural job on its current entity.          *)
MayMutate(i) == run = "idle" \/ (run = "visiting" /\ i = current)

(* add, add_component_bytes, ensure *)
Add(c, i) ==
    /\ MayMutate(i)
    /\ RefreshAfterAdd(Emplaced(indices, c, i), c, i)
    /\ UNCHANGED <<declared, loop>>

(* remove_component *)
RemoveComponent(c, i) ==
    /\ MayMutate(i) /\ ContainsIndex(indices, c, i)
    /\ IF declared /\ c \in Owned
       THEN Leave(i) /\ indices' = [Left(i) EXCEPT ![c] = Erased(@, Position(Left(i), c, i))]
       ELSE /\ indices' = [indices EXCEPT ![c] = Erased(@, Position(indices, c, i))]
            /\ UNCHANGED size
    /\ UNCHANGED <<declared, pending, loop>>

(* destroy leaves the group with the first owned component it removes. *)
Destroy(i) ==
    /\ run = "idle"
    /\ Leave(i)
    /\ indices' = [c \in Component |->
                    IF ContainsIndex(indices, c, i)
                    THEN Erased(Left(i)[c], Position(Left(i), c, i))
                    ELSE indices[c]]
    /\ UNCHANGED <<declared, pending, loop>>

-----------------------------------------------------------------------------
(* Declaring the group, and build_group, which walks the smallest storage. *)

Declare ==
    /\ run = "idle" /\ ~declared
    /\ declared' = TRUE /\ size' = 0
    /\ \E c \in Smallest(Owned) :
          IF indices[c] = <<>>
          THEN UNCHANGED loop
          ELSE /\ run' = "building" /\ driver' = c /\ cursor' = 1
               /\ UNCHANGED <<required, current, visited, todo>>
    /\ UNCHANGED <<indices, pending>>

BuildNext ==
    /\ run = "building"
    /\ LET i == indices[driver][cursor]
       IN  IF ContainsAll(indices, Owned, i)
           THEN Enter(indices, i)
           ELSE UNCHANGED <<indices, size>>
    /\ IF cursor = Len(indices[driver])
       THEN run' = "idle" /\ driver' = None /\ cursor' = 0
       ELSE cursor' = cursor + 1 /\ UNCHANGED <<run, driver>>
    /\ UNCHANGED <<declared, pending, required, current, visited, todo>>

-----------------------------------------------------------------------------
(* A structural job: each_structural_job without a snapshot.  Entering a   *)
(* group is deferred, which also keeps views from iterating a prefix, and  *)
(* the driver is walked from its end.                                      *)

BeginVisits(components) ==
    /\ run = "idle" /\ components # {}
    /\ run' = "visiting" /\ required' = components /\ todo' = Matching(components)
    /\ \E c \in Smallest(components) : driver' = c /\ cursor' = Len(indices[c])
    /\ UNCHANGED <<indices, declared, size, pending, current, visited>>

(* The previous callback has returned; visit_dense of the next position. *)
VisitNext ==
    /\ run = "visiting" /\ cursor > 0
    /\ cursor' = cursor - 1
    /\ LET i == indices[driver][cursor]
       IN  IF ContainsAll(indices, required, i)
           THEN current' = i /\ visited' = Append(visited, i)
           ELSE current' = None /\ UNCHANGED visited
    /\ UNCHANGED <<indices, declared, size, pending, run, driver, required, todo>>

(* The destructor of DeferredGroupEntersScope, as the loop ends or as the  *)
(* callback throws.                                                        *)
EndVisits ==
    /\ run = "visiting"
    /\ cursor = 0 \/ current # None
    /\ run' = IF pending = <<>> THEN "idle" ELSE "draining"
    /\ driver' = None /\ cursor' = 0 /\ required' = {} /\ current' = None
    /\ visited' = <<>> /\ todo' = {}
    /\ UNCHANGED <<indices, declared, size, pending>>

(* Mistake: an entity that has lost a component since then enters. *)
DrainTrusting ==
    /\ run = "draining"
    /\ Enter(indices, Head(pending))
    /\ pending' = Tail(pending)
    /\ run' = IF Len(pending) = 1 THEN "idle" ELSE "draining"
    /\ UNCHANGED <<declared, driver, cursor, required, current, visited, todo>>

(* end_deferred_group_enters *)
DrainNext ==
    /\ run = "draining"
    /\ IF ContainsAll(indices, Owned, Head(pending))
       THEN Enter(indices, Head(pending))
       ELSE UNCHANGED <<indices, size>>
    /\ pending' = Tail(pending)
    /\ run' = IF Len(pending) = 1 THEN "idle" ELSE "draining"
    /\ UNCHANGED <<declared, driver, cursor, required, current, visited, todo>>

GroupNext ==
    \/ \E i \in EntityIndex :
          \/ \E c \in Component : Add(c, i) \/ RemoveComponent(c, i)
          \/ Destroy(i)
    \/ Declare \/ BuildNext
    \/ \E components \in SUBSET Component : BeginVisits(components)
    \/ VisitNext \/ EndVisits \/ DrainNext

GroupSpec == GroupInit /\ [][GroupNext]_groupVars

-----------------------------------------------------------------------------
NoRepeats(q) == IsInjective(q)

(* Every storage holds an index at most once; a loop has a driver and a    *)
(* position inside it.                                                     *)
GroupTypeOK ==
    /\ indices \in [Component -> Seq(EntityIndex)]
    /\ \A c \in Component : NoRepeats(indices[c])
    /\ declared \in BOOLEAN /\ size \in Nat
    /\ pending \in Seq(EntityIndex)
    /\ run \in {"idle", "building", "visiting", "draining"}
    /\ run = "draining" => pending # <<>>
    /\ IF run \in {"building", "visiting"}
       THEN driver \in Component /\ cursor \in 0..Len(indices[driver])
       ELSE driver = None /\ cursor = 0
    /\ run = "building" => cursor > 0
    /\ required \subseteq Component
    /\ current \in EntityIndex \cup {None}
    /\ visited \in Seq(EntityIndex) /\ todo \subseteq EntityIndex

(* The owned storages begin with the same `size' entities in the same      *)
(* order: what a view over the group iterates without any lookup.  The     *)
(* others that have every owned component are waiting for the loop that is *)
(* running, and outside loops there are none.                              *)
GroupIsPrefix ==
    LET members == {indices[c][p] : c \in Owned, p \in 1..size}
    IN  /\ \A c \in Owned : size <= Len(indices[c])
        /\ \A b, c \in Owned, p \in 1..size : indices[b][p] = indices[c][p]
        /\ members \subseteq Matching(Owned)
        /\ declared /\ run # "building" =>
              Matching(Owned) \ members \subseteq Range(pending)
        /\ run = "idle" => pending = <<>>

(* A structural job visits an entity at most once and misses none of those *)
(* that matched when it began, whatever its callback adds to or removes    *)
(* from the entity it is at: the ones it has still to see lie before the   *)
(* cursor, where nothing moves.                                            *)
EachMatchVisitedOnce ==
    run = "visiting" =>
        /\ NoRepeats(visited) /\ Range(visited) \subseteq todo
        /\ todo \ Range(visited) \subseteq {indices[driver][p] : p \in 1..cursor}
        /\ Range(visited) \cap {indices[driver][p] : p \in 1..cursor} = {}

(* The place an add puts the value in, whose address it returns. *)
EmplacedAt(c, i) == Position(Emplaced(indices, c, i), c, i)

(* What an add of a structural job's callback returns is the value of the  *)
(* component it has added: the group does not move it before the job ends. *)
StructuralAddReturnsOwnValue ==
    [][\A c \in Component, i \in EntityIndex :
          run = "visiting" /\ Add(c, i) => indices'[c][EmplacedAt(c, i)] = i]_groupVars

=============================================================================
