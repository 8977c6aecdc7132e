---------------------------- MODULE EntityStore ----------------------------
(***************************************************************************)
(* Registry::create, destroy and alive over Registry::EntityStore: the     *)
(* slot array whose dead slots hold an implicit LIFO free list (a dead     *)
(* slot's low word is the next free index, its high word the version the   *)
(* next entity on that index will get).                                    *)
(*                                                                         *)
(* A 64-bit slot is the record [link, version]; slot i is Slot(i), the     *)
(* element i + 1 of the sequence.  The 32-bit version is counted modulo    *)
(* VersionModulus (2^32 in the code) and InvalidIndex (2^32 - 1) is both   *)
(* the null link and the capacity.                                         *)
(*                                                                         *)
(* Three variables are history, read by no action: the order in which      *)
(* indices were freed, how often each index was destroyed, and the handles *)
(* the program has been given.                                             *)
(***************************************************************************)
EXTENDS Naturals, Sequences

CONSTANTS InvalidIndex, VersionModulus

ASSUME IndexAssumption   == InvalidIndex \in Nat \ {0}
ASSUME VersionAssumption == VersionModulus \in Nat /\ VersionModulus >= 2

VARIABLES
    slots,      \* EntityStore::slots
    free_head,  \* EntityStore::free_head
    freed,      \* history: the free indices, the most recently freed last
    epoch,      \* history: epoch[i] counts the destroys of index i
    issued,     \* history: every handle create() returned, with its epoch
    peak        \* history: the most entities that were ever alive at once

vars == <<slots, free_head, freed, epoch, issued, peak>>

Index   == 0 .. InvalidIndex - 1
Version == 1 .. VersionModulus - 1

Indices == 0 .. Len(slots) - 1
Slot(i) == slots[i + 1]

(* slot_index(slot) == index: the slot is not on the free list. *)
Holds(i) == Slot(i).link = i

Holding == {i \in Indices : Holds(i)}

(* Registry::alive.  A version of 0 is never alive. *)
Alive(h) == /\ h.version # 0
            /\ h.index \in Indices
            /\ Holds(h.index)
            /\ Slot(h.index).version = h.version

(* The version after v: 32-bit increment that skips 0. *)
NextVersion(v) == IF v + 1 = VersionModulus THEN 1 ELSE v + 1

Issue(i, v) == issued' = issued \cup {[index |-> i, version |-> v, epoch |-> epoch[i]]}

NotePeak == peak' = IF Len(slots') - Len(freed') > peak
                    THEN Len(slots') - Len(freed') ELSE peak
----------------------------------------------------------------------------
Init == /\ slots = <<>>
        /\ free_head = InvalidIndex
        /\ freed = <<>>
        /\ epoch = [i \in Index |-> 0]
        /\ issued = {}
        /\ peak = 0

(* create() pops the free list; the slot keeps the version destroy() left. *)
Recycle ==
    /\ free_head # InvalidIndex
    /\ slots' = [slots EXCEPT ![free_head + 1].link = free_head]
    /\ free_head' = Slot(free_head).link
    /\ freed' = SubSeq(freed, 1, Len(freed) - 1)
    /\ Issue(free_head, Slot(free_head).version)
    /\ UNCHANGED epoch
    /\ NotePeak

(* Mistake: create() always appends. *)
GrowAlways ==
    /\ Len(slots) < InvalidIndex
    /\ slots' = Append(slots, [link |-> Len(slots), version |-> 1])
    /\ Issue(Len(slots), 1)
    /\ UNCHANGED <<free_head, freed, epoch>>
    /\ NotePeak

(* create() with an empty free list appends a slot of version 1. *)
Grow ==
    /\ free_head = InvalidIndex
    /\ Len(slots) < InvalidIndex
    /\ slots' = Append(slots, [link |-> Len(slots), version |-> 1])
    /\ Issue(Len(slots), 1)
    /\ UNCHANGED <<free_head, freed, epoch>>
    /\ NotePeak

(* create() throws when every index is in use. *)
CreateThrows ==
    /\ free_head = InvalidIndex
    /\ Len(slots) >= InvalidIndex
    /\ UNCHANGED vars

(* Mistakes: the slot forgets the rest of the free list, keeps its version, *)
(* or is not unlinked from itself.                                         *)
RetireLosesList(h) ==
    /\ slots' = [slots EXCEPT ![h.index + 1] =
                   [link |-> InvalidIndex, version |-> NextVersion(h.version)]]
    /\ free_head' = h.index
    /\ freed' = Append(freed, h.index)
    /\ epoch' = [epoch EXCEPT ![h.index] = @ + 1]
    /\ UNCHANGED <<issued, peak>>

RetireSameVersion(h) ==
    /\ slots' = [slots EXCEPT ![h.index + 1].link = free_head]
    /\ free_head' = h.index
    /\ freed' = Append(freed, h.index)
    /\ epoch' = [epoch EXCEPT ![h.index] = @ + 1]
    /\ UNCHANGED <<issued, peak>>

RetireStaysLinked(h) ==
    /\ slots' = [slots EXCEPT ![h.index + 1].version = NextVersion(@)]
    /\ free_head' = h.index
    /\ freed' = Append(freed, h.index)
    /\ epoch' = [epoch EXCEPT ![h.index] = @ + 1]
    /\ UNCHANGED <<issued, peak>>

(* How destroy() ends: the slot gets the next version and becomes the head *)
(* of the free list.                                                       *)
Retire(h) ==
    /\ slots' = [slots EXCEPT ![h.index + 1] =
                   [link |-> free_head, version |-> NextVersion(h.version)]]
    /\ free_head' = h.index
    /\ freed' = Append(freed, h.index)
    /\ epoch' = [epoch EXCEPT ![h.index] = @ + 1]
    /\ UNCHANGED <<issued, peak>>

(* destroy(h) on a live handle that has no components; for components and  *)
(* their hooks, which run before the slot is retired, see Lifecycle.       *)
Destroy(h) == Alive(h) /\ Retire(h)

(* destroy(h) on any other handle returns false. *)
DestroyReturnsFalse(h) == ~Alive(h) /\ UNCHANGED vars

Next ==
    \/ Recycle
    \/ Grow
    \/ CreateThrows
    \/ \E h \in issued : Destroy(h) \/ DestroyReturnsFalse(h)

Spec == Init /\ [][Next]_vars
----------------------------------------------------------------------------
(* Every variable has its type.  The low word of a slot is an index or the *)
(* null link, its version is never 0, and the slot array never outgrows    *)
(* the index space.                                                        *)
TypeOK ==
    /\ slots \in Seq([link : Index \cup {InvalidIndex}, version : Version])
    /\ Len(slots) <= InvalidIndex
    /\ free_head \in Index \cup {InvalidIndex}
    /\ freed \in Seq(Index)
    /\ epoch \in [Index -> Nat]
    /\ issued \subseteq [index : Index, version : Version, epoch : Nat]
    /\ peak \in Nat

(* Where the free list continues below position k of the freed indices. *)
Below(k) == IF k = 1 THEN InvalidIndex ELSE freed[k - 1]

(* The links threaded through the dead slots are exactly the stack of      *)
(* freed indices: no index is on it twice, none is lost, the chain starts  *)
(* at free_head, ends in the null link and has no cycle, and a slot is off *)
(* the list iff its link names itself, which is what alive() tests.        *)
FreeListIsStack ==
    /\ \A k \in 1 .. Len(freed) : /\ freed[k] \in Indices
                                  /\ Slot(freed[k]).link = Below(k)
    /\ \A j, k \in 1 .. Len(freed) : freed[j] = freed[k] => j = k
    /\ \A i \in Indices : Holds(i) <=> (\A k \in 1 .. Len(freed) : freed[k] # i)
    /\ free_head = Below(Len(freed) + 1)

(* A handle is alive from create() to destroy(), and from then on it is    *)
(* stale: alive() rejects it however the index is recycled, until all the  *)
(* VersionModulus - 1 versions of that index have been used up.            *)
HandleAliveIffCurrent ==
    \A t \in issued :
        epoch[t.index] - t.epoch < VersionModulus - 1
            => (Alive(t) <=> epoch[t.index] = t.epoch)

(* Recycling comes before growth: the slot array is never longer than the  *)
(* largest number of entities that were alive together.                    *)
NoSlotWasted == Len(slots) = peak

(* The handles alive() accepts, read off the slots. *)
LiveHandles == {[index |-> i, version |-> Slot(i).version] : i \in Holding}

Handles == INSTANCE EntityHandles WITH live <- LiveHandles

(* The slot array implements the handle promise: every create() makes one  *)
(* handle live on an index nobody holds, every destroy() retires one       *)
(* handle, and nothing else changes which handles are alive.               *)
ImplementsHandles == Handles!Spec
=============================================================================
