-------------------------- MODULE DeltaReplication --------------------------
(***************************************************************************)
(* A source registry, the DirtySnapshotTracker that turns its dirty frames *)
(* into full and delta snapshots, and a replica that restores them.        *)
(*                                                                         *)
(* slots is EntityStore::slots without the links of the free list, which   *)
(* rebuild_free_list makes anew in every copy: the version of the entity   *)
(* that has an index or gets it next, and whether it is alive.  A          *)
(* component's storage is its values, its dirty entries and its            *)
(* tombstones, as in ComponentTable; restoring reads nothing else of it.   *)
(* Entities that are excluded from snapshots, groups and the replica's own *)
(* change report are left out.  The replica has registered the source's    *)
(* components in the same order and has no entities before the first       *)
(* frame.                                                                  *)
(*                                                                         *)
(* Every registry starts with a token of its own and every delta takes     *)
(* another, from a counter of the process that starts at 1.  Tokens tell   *)
(* registries and deltas of one process apart; a replica in another        *)
(* process may be made with a number that the source or one of its deltas  *)
(* has in the source's.                                                    *)
(*                                                                         *)
(* A frame is a value of its own, so whether the replica restores it at    *)
(* once or later makes no difference; here it does at once, unless the     *)
(* frame is lost on its way.                                               *)
(***************************************************************************)
EXTENDS Naturals, Functions

CONSTANTS Index, Component, Value, Missing,
          Interval,     \* full_snapshot_interval_dirty_frames
          FirstTokens,  \* what state_token_ of the replica may be at first
          Faults        \* the frames that may be lost: some of "delta", "full"
                        \* and "refull", for a replica still at a full one

ASSUME IndexAssumption    == Index # {}
ASSUME ValueAssumption    == Missing \notin Value
ASSUME IntervalAssumption == Interval \in Nat \ {0}
ASSUME FirstTokensAssumption == FirstTokens \subseteq Nat

VARIABLES
    slots, val, dirty, removal,     \* the source registry
    frames,     \* DirtySnapshotTracker::dirty_frame_count_, modulo Interval
    last,       \* last_delta_, or last_full_: its token and entities_
    issued,     \* the tokens next_state_token() has returned
    replica,    \* the replica's slots and values, and its state_token_
    origin,     \* history: what the replica goes back to, see AfterDelta
    status,     \* history: what became of the last frame
    sent,       \* history: the source as it was at the last frame
    brief       \* history: see Brief

storages == <<val, dirty, removal>>
source   == <<slots, storages, brief>>
vars     == <<source, frames, last, issued, replica, origin, status, sent>>

NoRemoval == [kind |-> "none", version |-> 0]

(* state_token_ of the source: no operation but a restore changes it.  Its *)
(* deltas have the numbers from there on; NoToken stands for no frame, and *)
(* for the token of a replica that is neither the source's nor a delta's.  *)
NoToken     == 0
SourceToken == 1

Nowhere == [c \in Component |-> [i \in Index |-> Missing]]
Fresh   == [i \in Index |-> [live |-> FALSE, version |-> 1]]

Init ==
    /\ slots = Fresh /\ val = Nowhere
    /\ dirty = [c \in Component |-> {}]
    /\ removal = [c \in Component |-> [i \in Index |-> NoRemoval]]
    /\ frames = 0
    /\ last = [token |-> NoToken, entities |-> <<>>]
    /\ issued = SourceToken
    /\ \E token \in FirstTokens :
          replica = [slots |-> Fresh, val |-> Nowhere, token |-> token]
    /\ origin = "own" /\ status = "none"
    /\ sent = [slots |-> Fresh, val |-> Nowhere]
    /\ brief = FALSE

-----------------------------------------------------------------------------
(* The source. *)

UnchangedElsewhere == UNCHANGED <<frames, last, issued, replica, origin, status, sent>>

Has(c, i) == val[c][i] # Missing

Create(i) ==
    /\ ~slots[i].live
    /\ slots' = [slots EXCEPT ![i] = [live |-> TRUE, version |-> @.version]]
    /\ UNCHANGED <<storages, brief>> /\ UnchangedElsewhere

(* add, ensure and write *)
Put(c, i, v) ==
    /\ slots[i].live
    /\ val' = [val EXCEPT ![c][i] = v]
    /\ dirty' = [dirty EXCEPT ![c] = @ \cup {i}]
    /\ removal' = IF ~Has(c, i) /\ removal[c][i].version = slots[i].version
                  THEN [removal EXCEPT ![c][i] = NoRemoval] ELSE removal
    /\ UNCHANGED <<slots, brief>> /\ UnchangedElsewhere

(* Mistake: the entity's end is a mere removal. *)
DropAsRemoved(i, components, kind) ==
    /\ val' = [c \in Component |->
                  IF c \in components THEN [val[c] EXCEPT ![i] = Missing] ELSE val[c]]
    /\ dirty' = [c \in Component |-> IF c \in components THEN dirty[c] \ {i} ELSE dirty[c]]
    /\ removal' = [c \in Component |->
                      IF c \in components
                      THEN [removal[c] EXCEPT ![i] =
                               [kind |-> "removed", version |-> slots[i].version]]
                      ELSE removal[c]]

(* Entity i loses components: the removal replaces what the report said. *)
Drop(i, components, kind) ==
    /\ val' = [c \in Component |->
                  IF c \in components THEN [val[c] EXCEPT ![i] = Missing] ELSE val[c]]
    /\ dirty' = [c \in Component |-> IF c \in components THEN dirty[c] \ {i} ELSE dirty[c]]
    /\ removal' = [c \in Component |->
                      IF c \in components
                      THEN [removal[c] EXCEPT ![i] = [kind |-> kind, version |-> slots[i].version]]
                      ELSE removal[c]]

(* A component came and went within a frame, or went before its entity. *)
Brief(c, i) == sent.val[c][i] = Missing \/ sent.slots[i].version # slots[i].version

Remove(c, i) ==
    /\ Has(c, i)
    /\ Drop(i, {c}, "removed")
    /\ brief' = IF Brief(c, i) THEN TRUE ELSE brief
    /\ UNCHANGED slots /\ UnchangedElsewhere

Destroy(i) ==
    /\ slots[i].live
    /\ Drop(i, {c \in Component : Has(c, i)}, "destroyed")
    /\ slots' = [slots EXCEPT ![i] = [live |-> FALSE, version |-> @.version + 1]]
    /\ brief' = IF \E c \in Component : removal[c][i].kind = "removed" THEN TRUE ELSE brief
    /\ UnchangedElsewhere

-----------------------------------------------------------------------------
(* Snapshots and their restoration. *)

(* create_snapshot *)
Snapshot == [slots |-> slots, val |-> val, token |-> SourceToken]

(* create_delta_snapshot against last_delta_ or last_full_.  The entities  *)
(* are left out when they are those of the baseline; a baseline that left  *)
(* them out itself does not compare equal.                                 *)
Delta ==
    [baseline |-> last.token,
     token    |-> issued + 1,
     entities |-> IF slots = last.entities THEN <<>> ELSE slots,
     values   |-> [c \in Component |-> Restrict(val[c], dirty[c])],
     removal  |-> removal]

(* restore_delta_snapshot takes over the entities, then frees the indices  *)
(* of destroyed entities in every storage.                                 *)
Entities(r, d)  == IF d.entities = <<>> THEN r.slots ELSE d.entities
Destroyed(d)    == {i \in Index : \E c \in Component : d.removal[c][i].kind = "destroyed"}
Freed(r, d, c)  == [i \in Index |-> IF i \in Destroyed(d) THEN Missing ELSE r.val[c][i]]

RemovedIn(d, c) == {i \in Index : d.removal[c][i].kind = "removed"}

Without(s, indices) == [i \in Index |-> IF i \in indices THEN Missing ELSE s[i]]

(* The removals and the values that make it throw. *)
Unmatched(r, d, c) == {i \in RemovedIn(d, c) : Freed(r, d, c)[i] = Missing}
Dead(r, d, c)      == {i \in DOMAIN d.values[c] : ~Entities(r, d)[i].live}

Blocked(r, d, c) == Unmatched(r, d, c) # {} \/ Dead(r, d, c) # {}

(* Mistake: values before removals. *)
ReplayedValuesFirst(r, d, c) ==
    [i \in Index |->
        IF i \in RemovedIn(d, c) THEN Missing
        ELSE IF i \in DOMAIN d.values[c] THEN d.values[c][i] ELSE Freed(r, d, c)[i]]

(* Then, storage by storage, the removals and after them the values. *)
Replayed(r, d, c) ==
    [i \in Index |->
        IF i \in DOMAIN d.values[c]
        THEN d.values[c][i]
        ELSE Without(Freed(r, d, c), RemovedIn(d, c))[i]]

(* The token check. *)
Fits(r, d) == r.token = d.baseline

Throws(r, d) == \E c \in Component : Blocked(r, d, c)

(* The exception comes in storage `at', after some of its removals, or     *)
(* after all of them and some of its values, and after the storages in     *)
(* done; what has been changed stays changed.                              *)
Partly(r, d, c, removed, stored) ==
    [i \in Index |-> IF i \in stored THEN d.values[c][i]
                     ELSE Without(Freed(r, d, c), removed)[i]]

Interrupted(r, d, at, done, removed, stored) ==
    [r EXCEPT !.slots = Entities(r, d),
              !.val = [c \in Component |->
                  IF c \in done THEN Replayed(r, d, c)
                  ELSE IF c = at THEN Partly(r, d, c, removed, stored)
                  ELSE Freed(r, d, c)]]

Break(d) ==
    \E at \in Component, done \in SUBSET Component :
       /\ Blocked(replica, d, at)
       /\ \A c \in done : ~Blocked(replica, d, c)
       /\ \E removed \in SUBSET (RemovedIn(d, at) \ Unmatched(replica, d, at)),
             stored \in SUBSET (DOMAIN d.values[at] \ Dead(replica, d, at)) :
             /\ \/ removed = RemovedIn(d, at)
                \/ stored = {} /\ Unmatched(replica, d, at) # {}
             /\ replica' = Interrupted(replica, d, at, done, removed, stored)

(* A delta can only fit a replica that no full frame has reached by the    *)
(* chance of its token.                                                    *)
AfterDelta == IF origin = "own" THEN "chance" ELSE origin

RestoreDelta(d) ==
    \/ ~Fits(replica, d) /\ status' = "refused" /\ UNCHANGED <<replica, origin>>
    \/ /\ Fits(replica, d) /\ ~Throws(replica, d)
       /\ status' = "restored" /\ origin' = AfterDelta
       /\ replica' = [slots |-> Entities(replica, d), token |-> d.token,
                      val |-> [c \in Component |-> Replayed(replica, d, c)]]
    \/ /\ Fits(replica, d)
       /\ status' = "broken" /\ origin' = AfterDelta
       /\ Break(d)

Lose == status' = "lost" /\ UNCHANGED <<replica, origin>>

(* The replica is at a full frame, so that the next one makes no difference *)
(* to its token.                                                           *)
AtFull == origin = "full" /\ replica.token = SourceToken

-----------------------------------------------------------------------------
(* RegistryDirtyFrameBroadcaster::broadcast with the tracker as listener.  *)

(* on_registry_dirty_frame writes a full snapshot first and then at every  *)
(* Interval-th frame.                                                      *)
FullIsDue == last.token = NoToken \/ (frames + 1) % Interval = 0

WriteFull ==
    /\ FullIsDue
    /\ \/ replica' = Snapshot /\ status' = "restored" /\ origin' = "full"
       \/ (IF AtFull THEN "refull" ELSE "full") \in Faults /\ Lose
    /\ last' = [token |-> SourceToken, entities |-> slots]
    /\ UNCHANGED issued

WriteDelta ==
    /\ ~FullIsDue
    /\ \/ RestoreDelta(Delta)
       \/ "delta" \in Faults /\ Lose
    /\ last' = [token |-> issued + 1, entities |-> Delta.entities]
    /\ issued' = issued + 1

(* The scope of the frame clears the report, whatever became of it. *)
Broadcast ==
    /\ WriteFull \/ WriteDelta
    /\ frames' = (frames + 1) % Interval
    /\ dirty' = [c \in Component |-> {}]
    /\ removal' = [c \in Component |-> [i \in Index |-> NoRemoval]]
    /\ sent' = [slots |-> slots, val |-> val]
    /\ brief' = FALSE
    /\ UNCHANGED <<slots, val>>

Next ==
    \/ \E i \in Index :
          \/ Create(i) \/ Destroy(i)
          \/ \E c \in Component : Remove(c, i) \/ \E v \in Value : Put(c, i, v)
    \/ Broadcast

Spec == Init /\ [][Next]_vars

-----------------------------------------------------------------------------
Slot    == [live : BOOLEAN, version : Nat]
Removal == {NoRemoval} \cup [kind : {"removed", "destroyed"}, version : Nat]
Values  == [Component -> [Index -> Value \cup {Missing}]]

(* Types; only entities that are alive have components, and only what is   *)
(* there is dirty.                                                         *)
TypeOK ==
    /\ slots \in [Index -> Slot] /\ val \in Values
    /\ dirty \in [Component -> SUBSET Index]
    /\ removal \in [Component -> [Index -> Removal]]
    /\ \A c \in Component : /\ dirty[c] \subseteq {i \in Index : Has(c, i)}
                            /\ {i \in Index : Has(c, i)} \subseteq {i \in Index : slots[i].live}
    /\ frames \in 0 .. Interval - 1
    /\ last.token \in Nat /\ issued \in Nat /\ replica.token \in Nat
    /\ last.entities \in {<<>>} \cup [Index -> Slot]
    /\ replica.slots \in [Index -> Slot] /\ replica.val \in Values
    /\ origin \in {"own", "full", "chance"}
    /\ status \in {"none", "restored", "refused", "broken", "lost"}
    /\ sent \in [slots : [Index -> Slot], val : Values]
    /\ brief \in BOOLEAN

(* A frame that the replica has restored, full or delta, makes it the      *)
(* source as it was at that frame: the same entities under the same        *)
(* handles with the same components, whatever was added, written, removed, *)
(* destroyed and created again on reused indices since the frame before.   *)
(* Not so once a delta has fitted a replica that no full frame had         *)
(* reached, until one does.                                                *)
ReplicaExact ==
    status = "restored" /\ origin # "chance" =>
        replica.slots = sent.slots /\ replica.val = sent.val

(* Only a component that came and went within one frame, or that went      *)
(* before its entity did, makes a delta that its own baseline rejects; a   *)
(* replica that no full frame has reached may reject any that fits it.     *)
OnlyBriefComponentsBreak ==
    [][Broadcast => (status' = "broken" => brief \/ origin' = "chance")]_vars

(* "Delta snapshots validate against a baseline snapshot token" (README),  *)
(* and the test of it requires that a registry that has not restored the   *)
(* baseline throws: what is restored at all makes the replica the source.  *)
BaselineValidated ==
    status = "restored" => replica.slots = sent.slots /\ replica.val = sent.val
=============================================================================
