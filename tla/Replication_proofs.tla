------------------------- MODULE Replication_proofs -------------------------
(***************************************************************************)
(* That restored frames are exact, for any entities, components, values    *)
(* and intervals, whichever frames are lost but a second full one in a     *)
(* row.  Why it holds: the report accounts for every difference to the     *)
(* frame before (Tracked), and a replica with the token of the tracker's   *)
(* baseline is in its state, once a full frame has reached it              *)
(* (AtBaseline).                                                           *)
(*                                                                         *)
(* The second half says the same of frames that go through files, in both  *)
(* formats and with components left out: the part of the source is shared, *)
(* and a file of a delta is the delta of the values as the files show them. *)
(***************************************************************************)
EXTENDS SnapshotFormats, TLAPS

(* What is not dirty is as it was sent or is reported removed, and what    *)
(* outlives the report of a destroyed entity on its index is dirty.        *)
Tracked(c, i) ==
    i \notin dirty[c] =>
        IF val[c][i] # Missing
        THEN /\ val[c][i] = sent.val[c][i] /\ removal[c][i].kind = "none"
             /\ \A b \in Component : removal[b][i].kind # "destroyed"
        ELSE removal[c][i].kind # "none" \/ sent.val[c][i] = Missing

(* The version tells whether an entity was destroyed since.                *)
Versions(i) ==
    /\ sent.slots[i].version <= slots[i].version
    /\ sent.slots[i].version = slots[i].version =>
          \A b \in Component : removal[b][i].kind # "destroyed"

(* A removal the baseline matches, unless something was brief.             *)
Matched(c, i) ==
    removal[c][i].kind = "removed" =>
        \/ brief
        \/ /\ sent.val[c][i] # Missing
           /\ \A b \in Component : removal[b][i].kind # "destroyed"

Accounted == \A c \in Component, i \in Index : Tracked(c, i) /\ Matched(c, i) /\ Versions(i)

AtBaseline == origin = "full" /\ replica.token = last.token =>
                 replica.slots = sent.slots /\ replica.val = sent.val

Tokens == /\ issued >= SourceToken
          /\ last.token <= issued /\ (origin = "full" => replica.token <= issued)
          /\ last.entities \in {<<>>, sent.slots}

IInv == TypeOK /\ Accounted /\ AtBaseline /\ Tokens /\ ReplicaExact

LEMMA InitIInv == Init => IInv
<1> SUFFICES ASSUME Init PROVE IInv
  OBVIOUS
<1> USE DEF Init
<1>1. TypeOK
  <2>1. Fresh \in [Index -> Slot]
    BY DEF Fresh, Slot
  <2>2. Nowhere \in Values
    BY DEF Nowhere, Values
  <2>3. removal \in [Component -> [Index -> Removal]]
    BY DEF Removal
  <2>4. \A c \in Component, i \in Index : ~Has(c, i)
    BY DEF Has, Nowhere
  <2>5. 0 \in 0 .. Interval - 1
    BY IntervalAssumption
  <2>6. replica.token \in Nat /\ replica.slots = Fresh /\ replica.val = Nowhere
    BY FirstTokensAssumption
  <2> QED
    BY <2>1, <2>2, <2>3, <2>4, <2>5, <2>6 DEF TypeOK, NoToken, SourceToken
<1>2. Accounted
  BY DEF Accounted, Tracked, Matched, Versions, NoRemoval, Nowhere, Fresh
<1>3. AtBaseline /\ Tokens /\ ReplicaExact
  BY DEF AtBaseline, Tokens, ReplicaExact, NoToken, SourceToken
<1> QED
  BY <1>1, <1>2, <1>3 DEF IInv

-----------------------------------------------------------------------------
(* What the steps of the source have to keep: its types and its report. *)
SourceTypes ==
    /\ slots \in [Index -> Slot] /\ val \in Values
    /\ dirty \in [Component -> SUBSET Index]
    /\ removal \in [Component -> [Index -> Removal]]
    /\ \A c \in Component : /\ dirty[c] \subseteq {i \in Index : Has(c, i)}
                            /\ {i \in Index : Has(c, i)} \subseteq {i \in Index : slots[i].live}
    /\ brief \in BOOLEAN

SourceInv == SourceTypes /\ sent \in [slots : [Index -> Slot], val : Values] /\ Accounted

(* The last conjunct of the source's types, index by index. *)
Present == \A b \in Component, j \in Index : /\ j \in dirty[b] => val[b][j] # Missing
                                             /\ val[b][j] # Missing => slots[j].live

LEMMA TypesPresent == ASSUME SourceTypes PROVE Present
BY DEF SourceTypes, Present, Has

LEMMA SourceTyped ==
    ASSUME slots' \in [Index -> Slot], val' \in Values,
           dirty' \in [Component -> SUBSET Index],
           removal' \in [Component -> [Index -> Removal]], brief' \in BOOLEAN, Present'
    PROVE  SourceTypes'
BY DEF SourceTypes, Present, Has

LEMMA CreateStep == ASSUME SourceInv, NEW i \in Index, Create(i) PROVE SourceInv'
<1> USE DEF Create, storages
<1>1. /\ slots' \in [Index -> Slot]
      /\ \A j \in Index : slots'[j].version = slots[j].version
      /\ \A j \in Index : slots[j].live => slots'[j].live
  BY DEF SourceInv, SourceTypes, Slot
<1>2. SourceTypes'
  <2>1. \A c \in Component, j \in Index : Has(c, j)' <=> Has(c, j)
    BY DEF Has
  <2> QED
    BY <1>1, <2>1 DEF SourceInv, SourceTypes
<1>3. Accounted'
  BY <1>1 DEF SourceInv, Accounted, Tracked, Matched, Versions, UnchangedElsewhere
<1> QED
  BY <1>2, <1>3 DEF SourceInv, UnchangedElsewhere

LEMMA PutStep == ASSUME SourceInv, NEW c \in Component, NEW i \in Index, NEW v \in Value, Put(c, i, v)
                 PROVE SourceInv'
<1> USE DEF Put
<1>1. /\ val' \in Values
      /\ \A b \in Component, j \in Index :
            val'[b][j] = IF b = c /\ j = i THEN v ELSE val[b][j]
  BY DEF SourceInv, SourceTypes, Values
<1>2. /\ dirty' \in [Component -> SUBSET Index]
      /\ \A b \in Component : dirty'[b] = IF b = c THEN dirty[b] \cup {i} ELSE dirty[b]
  BY DEF SourceInv, SourceTypes
<1>3. /\ removal' \in [Component -> [Index -> Removal]]
      /\ \A b \in Component, j \in Index :
            removal'[b][j] = removal[b][j] \/ (b = c /\ j = i /\ removal'[b][j] = NoRemoval)
  BY DEF SourceInv, SourceTypes, Removal
<1>4. SourceTypes'
  BY <1>1, <1>2, <1>3, ValueAssumption DEF SourceInv, SourceTypes, Has
<1>5. ASSUME NEW b \in Component, NEW j \in Index
      PROVE  Tracked(b, j)' /\ Matched(b, j)' /\ Versions(j)'
  <2>1. Tracked(b, j) /\ Matched(b, j) /\ Versions(j) /\ UnchangedElsewhere
    BY DEF SourceInv, Accounted
  <2>2. \A a \in Component : removal[a][j].kind # "destroyed" => removal'[a][j].kind # "destroyed"
    BY <1>3 DEF NoRemoval
  <2>3. Tracked(b, j)'
    BY <1>1, <1>2, <1>3, <2>1, <2>2 DEF Tracked, UnchangedElsewhere
  <2>4. Matched(b, j)'
    BY <1>3, <2>1, <2>2 DEF Matched, UnchangedElsewhere, NoRemoval
  <2>5. Versions(j)'
    BY <2>1, <2>2 DEF Versions, UnchangedElsewhere
  <2> QED
    BY <2>3, <2>4, <2>5
<1>6. Accounted'
  BY <1>5 DEF Accounted
<1> QED
  BY <1>4, <1>6 DEF SourceInv, UnchangedElsewhere

(* The conjuncts of Drop, index by index. *)
LEMMA DropFacts ==
    ASSUME SourceTypes, NEW i \in Index, NEW K \in SUBSET Component,
           NEW kind \in {"removed", "destroyed"}, Drop(i, K, kind)
    PROVE  /\ val' \in Values
           /\ dirty' \in [Component -> SUBSET Index]
           /\ removal' \in [Component -> [Index -> Removal]]
           /\ \A b \in Component, j \in Index :
                 /\ val'[b][j] = IF b \in K /\ j = i THEN Missing ELSE val[b][j]
                 /\ j \in dirty'[b] <=> (j \in dirty[b] /\ ~(b \in K /\ j = i))
                 /\ removal'[b][j].kind = IF b \in K /\ j = i THEN kind ELSE removal[b][j].kind
<1> USE DEF Drop
<1>1. /\ val \in Values /\ dirty \in [Component -> SUBSET Index]
      /\ removal \in [Component -> [Index -> Removal]]
      /\ slots[i].version \in Nat
  BY DEF SourceTypes, Slot
<1>2. /\ val' \in Values
      /\ \A b \in Component, j \in Index :
            val'[b][j] = IF b \in K /\ j = i THEN Missing ELSE val[b][j]
  BY <1>1 DEF Values
<1>3. /\ dirty' \in [Component -> SUBSET Index]
      /\ \A b \in Component, j \in Index :
            j \in dirty'[b] <=> (j \in dirty[b] /\ ~(b \in K /\ j = i))
  BY <1>1
<1>4. [kind |-> kind, version |-> slots[i].version] \in Removal
  BY <1>1 DEF Removal
<1>5. removal' \in [Component -> [Index -> Removal]]
  BY <1>1, <1>4
<1>6. \A b \in Component, j \in Index :
         removal'[b][j].kind = IF b \in K /\ j = i THEN kind ELSE removal[b][j].kind
  BY <1>1
<1> QED
  BY <1>2, <1>3, <1>5, <1>6

LEMMA RemoveStep == ASSUME SourceInv, NEW c \in Component, NEW i \in Index, Remove(c, i)
                    PROVE  SourceInv'
<1>1. /\ Drop(i, {c}, "removed") /\ UnchangedElsewhere /\ UNCHANGED slots
      /\ brief' = IF Brief(c, i) THEN TRUE ELSE brief
  BY DEF Remove
<1>2. SourceTypes
  BY DEF SourceInv
<1>3. /\ val' \in Values
      /\ dirty' \in [Component -> SUBSET Index]
      /\ removal' \in [Component -> [Index -> Removal]]
      /\ \A b \in Component, j \in Index :
            /\ val'[b][j] = IF b = c /\ j = i THEN Missing ELSE val[b][j]
            /\ j \in dirty'[b] <=> (j \in dirty[b] /\ ~(b = c /\ j = i))
            /\ removal'[b][j].kind = IF b = c /\ j = i THEN "removed" ELSE removal[b][j].kind
  BY <1>1, <1>2, DropFacts
<1>4. SourceTypes'
  <2>1. Present'
    BY <1>1, <1>2, <1>3, TypesPresent DEF Present
  <2>2. brief' \in BOOLEAN /\ slots' \in [Index -> Slot]
    BY <1>1, <1>2 DEF SourceTypes
  <2> QED
    BY <1>3, <2>1, <2>2, SourceTyped
<1>5. ASSUME NEW b \in Component, NEW j \in Index
      PROVE  Tracked(b, j)' /\ Matched(b, j)' /\ Versions(j)'
  <2>1. Tracked(b, j) /\ Matched(b, j) /\ Versions(j) /\ UnchangedElsewhere
    BY <1>1 DEF SourceInv, Accounted
  <2>2. \A a \in Component : removal[a][j].kind # "destroyed" => removal'[a][j].kind # "destroyed"
    BY <1>3
  <2>3. Tracked(b, j)'
    BY <1>3, <2>1, <2>2 DEF Tracked, UnchangedElsewhere
  <2>4. Matched(b, j)'
    BY <1>1, <1>3, <2>1, <2>2 DEF Matched, Versions, Brief, UnchangedElsewhere
  <2>5. Versions(j)'
    BY <1>1, <2>1, <2>2 DEF Versions, UnchangedElsewhere
  <2> QED
    BY <2>3, <2>4, <2>5
<1>6. Accounted'
  BY <1>5 DEF Accounted
<1> QED
  BY <1>1, <1>4, <1>6 DEF SourceInv, UnchangedElsewhere

LEMMA DestroyStep == ASSUME SourceInv, NEW i \in Index, Destroy(i) PROVE SourceInv'
<1> DEFINE K == {c \in Component : Has(c, i)}
<1>1. /\ Drop(i, K, "destroyed") /\ UnchangedElsewhere
      /\ slots' = [slots EXCEPT ![i] = [live |-> FALSE, version |-> @.version + 1]]
      /\ brief' = IF \E c \in Component : removal[c][i].kind = "removed" THEN TRUE ELSE brief
  BY DEF Destroy
<1>2. SourceTypes
  BY DEF SourceInv
<1>3. /\ val' \in Values
      /\ dirty' \in [Component -> SUBSET Index]
      /\ removal' \in [Component -> [Index -> Removal]]
      /\ \A b \in Component, j \in Index :
            /\ val'[b][j] = IF b \in K /\ j = i THEN Missing ELSE val[b][j]
            /\ j \in dirty'[b] <=> (j \in dirty[b] /\ ~(b \in K /\ j = i))
            /\ removal'[b][j].kind = IF b \in K /\ j = i THEN "destroyed" ELSE removal[b][j].kind
  BY <1>1, <1>2, DropFacts
<1>4. /\ slots' \in [Index -> Slot]
      /\ slots'[i].version = slots[i].version + 1
      /\ \A j \in Index \ {i} : slots'[j] = slots[j]
      /\ slots[i].version \in Nat
  <2>1. slots \in [Index -> Slot]
    BY <1>2 DEF SourceTypes
  <2> QED
    BY <1>1, <2>1 DEF Slot
<1>5. \A b \in Component : val'[b][i] = Missing /\ i \notin dirty'[b]
  BY <1>2, <1>3 DEF SourceTypes, Has
<1>6. SourceTypes'
  <2>1. brief' \in BOOLEAN
    BY <1>1, <1>2 DEF SourceTypes
  <2>2. Present'
    BY <1>2, <1>3, <1>4, <1>5, TypesPresent DEF Present
  <2> QED
    BY <1>3, <1>4, <2>1, <2>2, SourceTyped
<1>7. ASSUME NEW b \in Component, NEW j \in Index
      PROVE  Tracked(b, j)' /\ Matched(b, j)' /\ Versions(j)'
  <2>1. Tracked(b, j) /\ Matched(b, j) /\ Versions(j) /\ sent' = sent
    BY <1>1 DEF SourceInv, Accounted, UnchangedElsewhere
  <2>2. CASE j # i
    <3>1. /\ val'[b][j] = val[b][j] /\ (j \in dirty'[b] <=> j \in dirty[b])
          /\ \A a \in Component : removal'[a][j].kind = removal[a][j].kind
          /\ slots'[j] = slots[j]
          /\ brief => brief'
      BY <1>1, <1>3, <1>4, <2>2
    <3> HIDE DEF K
    <3> QED
      BY <2>1, <3>1 DEF Tracked, Matched, Versions
  <2>3. CASE j = i
    <3>1. Tracked(b, i)'
      BY <1>3, <1>5, <2>1, <2>3 DEF Tracked, Has
    <3>2. Matched(b, i)'
      BY <1>1, <1>3 DEF Matched
    <3>3. Versions(i)'
      <4>1. sent.slots[i].version \in Nat
        BY DEF SourceInv, Slot
      <4> QED
        BY <1>4, <2>1, <2>3, <4>1 DEF Versions
    <3> QED
      BY <2>3, <3>1, <3>2, <3>3
  <2> QED
    BY <2>2, <2>3
<1>8. Accounted'
  BY <1>7 DEF Accounted
<1> QED
  BY <1>1, <1>6, <1>8 DEF SourceInv, UnchangedElsewhere

LEMMA SourceOfIInv == ASSUME IInv PROVE SourceInv
BY DEF IInv, TypeOK, SourceInv, SourceTypes

(* A step of the source leaves the rest alone. *)
LEMMA SourceStep ==
    ASSUME IInv, UnchangedElsewhere, SourceInv'
    PROVE  IInv'
<1>1. TypeOK' /\ Accounted'
  BY DEF IInv, TypeOK, SourceInv, SourceTypes, UnchangedElsewhere
<1>2. AtBaseline' /\ Tokens' /\ ReplicaExact'
  BY DEF IInv, AtBaseline, Tokens, ReplicaExact, UnchangedElsewhere
<1> QED
  BY <1>1, <1>2 DEF IInv

-----------------------------------------------------------------------------
(* The entities a delta leaves out are those of its baseline. *)
LEMMA EntitiesOfDelta ==
    ASSUME IInv, replica.slots = sent.slots
    PROVE  Entities(replica, Delta) = slots
<1>1. /\ slots \in [Index -> Slot]
      /\ last.entities \in {<<>>, sent.slots}
  BY DEF IInv, TypeOK, Tokens
<1>2. slots # <<>>
  <2>1. PICK i \in Index : TRUE
    BY IndexAssumption
  <2>2. DOMAIN slots # {}
    BY <1>1, <2>1
  <2> QED
    BY <2>2
<1>3. Delta.entities = IF slots = last.entities THEN <<>> ELSE slots
  BY DEF Delta
<1> QED
  BY <1>1, <1>2, <1>3 DEF Entities

(* A delta on its baseline: it throws only over brief components, and if   *)
(* it does not throw, the values are the source's.                         *)
LEMMA DeltaOnBaseline ==
    ASSUME IInv, replica.slots = sent.slots, replica.val = sent.val
    PROVE  /\ Throws(replica, Delta) => brief
           /\ ~Throws(replica, Delta) =>
                 \A c \in Component : Replayed(replica, Delta, c) = val[c]
<1>1. /\ val \in Values /\ sent.val \in Values
      /\ dirty \in [Component -> SUBSET Index]
      /\ removal \in [Component -> [Index -> Removal]]
      /\ Present
  BY TypesPresent, SourceOfIInv DEF IInv, TypeOK, SourceInv
<1>2. /\ Delta.removal = removal
      /\ Delta.values = [c \in Component |-> Restrict(val[c], dirty[c])]
  BY DEF Delta
<1>3. \A c \in Component, i \in Index :
         Freed(replica, Delta, c)[i] =
            IF \E b \in Component : removal[b][i].kind = "destroyed"
            THEN Missing ELSE sent.val[c][i]
  BY <1>2 DEF Freed, Destroyed
<1>4. \A c \in Component, i \in Index :
         i \in RemovedIn(Delta, c) <=> removal[c][i].kind = "removed"
  BY <1>2 DEF RemovedIn
<1>5. Throws(replica, Delta) => brief
  <2>0. \A c \in Component : Dead(replica, Delta, c) = {}
    <3>1. Entities(replica, Delta) = slots
      BY EntitiesOfDelta
    <3>2. \A c \in Component : DOMAIN Delta.values[c] = dirty[c] /\ dirty[c] \subseteq Index
      BY <1>1, <1>2 DEF Restrict
    <3> QED
      BY <1>1, <3>1, <3>2 DEF Dead, Present
  <2>1. SUFFICES ASSUME NEW c \in Component, NEW i \in Unmatched(replica, Delta, c)
                 PROVE  brief
    BY <2>0 DEF Throws, Blocked
  <2>2. /\ i \in Index /\ removal[c][i].kind = "removed"
        /\ Freed(replica, Delta, c)[i] = Missing
    BY <1>4, <2>1 DEF Unmatched, RemovedIn
  <2>3. Matched(c, i)
    BY <2>2 DEF IInv, Accounted
  <2> QED
    BY <1>3, <2>2, <2>3 DEF Matched
<1>6. ASSUME NEW c \in Component, NEW i \in Index
      PROVE  Replayed(replica, Delta, c)[i] = val[c][i]
  <2>1. Tracked(c, i)
    BY DEF IInv, Accounted
  <2>2. DOMAIN Delta.values[c] = dirty[c] /\ \A j \in dirty[c] : Delta.values[c][j] = val[c][j]
    <3>1. dirty[c] \subseteq Index
      BY <1>1
    <3> QED
      BY <1>1, <1>2, <3>1 DEF Restrict, Values
  <2>3. CASE i \in dirty[c]
    BY <2>2, <2>3 DEF Replayed
  <2>4. CASE i \notin dirty[c]
    <3>1. Replayed(replica, Delta, c)[i] =
             IF removal[c][i].kind = "removed" THEN Missing ELSE Freed(replica, Delta, c)[i]
      BY <1>4, <2>2, <2>4 DEF Replayed, Without
    <3>2. removal[c][i].kind \in {"none", "removed", "destroyed"}
      BY <1>1 DEF Removal, NoRemoval
    <3>3. CASE val[c][i] # Missing
      <4>1. removal[c][i].kind # "removed"
        BY <2>1, <2>4, <3>3 DEF Tracked
      <4> QED
        BY <1>3, <2>1, <2>4, <3>1, <3>3, <4>1 DEF Tracked
    <3>4. CASE val[c][i] = Missing
      BY <1>3, <2>1, <2>4, <3>1, <3>2, <3>4 DEF Tracked
    <3> QED
      BY <3>3, <3>4
  <2> QED
    BY <2>3, <2>4
<1>7. \A c \in Component : Replayed(replica, Delta, c) = val[c]
  <2>1. SUFFICES ASSUME NEW c \in Component PROVE Replayed(replica, Delta, c) = val[c]
    OBVIOUS
  <2>2. Replayed(replica, Delta, c) = [i \in Index |-> Replayed(replica, Delta, c)[i]]
    BY DEF Replayed
  <2>3. val[c] = [i \in Index |-> val[c][i]]
    BY <1>1 DEF Values
  <2>4. \A i \in Index : Replayed(replica, Delta, c)[i] = val[c][i]
    BY <1>6
  <2> HIDE DEF Replayed
  <2> QED
    BY <2>2, <2>3, <2>4
<1> QED
  BY <1>5, <1>7

LEMMA DeltaTyped == ASSUME IInv PROVE Delta.entities \in {<<>>, slots} /\ Delta.token = issued + 1
BY DEF Delta

LEMMA DeltaValuesTyped ==
    ASSUME IInv
    PROVE  \A c \in Component :
              /\ Replayed(replica, Delta, c) \in [Index -> Value \cup {Missing}]
              /\ \A removed \in SUBSET Index, stored \in SUBSET (DOMAIN Delta.values[c]) :
                    Partly(replica, Delta, c, removed, stored) \in [Index -> Value \cup {Missing}]
<1>1. /\ val \in Values /\ replica.val \in Values
      /\ dirty \in [Component -> SUBSET Index]
  BY DEF IInv, TypeOK
<1> TAKE c \in Component
<1>2. \A i \in DOMAIN Delta.values[c] : Delta.values[c][i] \in Value \cup {Missing}
  BY <1>1 DEF Delta, Restrict, Values
<1>3. \A removed \in SUBSET Index, i \in Index :
         Without(Freed(replica, Delta, c), removed)[i] \in Value \cup {Missing}
  BY <1>1 DEF Without, Freed, Values
<1>4. RemovedIn(Delta, c) \in SUBSET Index
  BY DEF RemovedIn
<1> QED
  BY <1>2, <1>3, <1>4 DEF Replayed, Partly

(* A replay that breaks off leaves the token, and types. *)
LEMMA BreakTyped ==
    ASSUME IInv, Break(Delta)
    PROVE  /\ replica'.slots \in [Index -> Slot] /\ replica'.val \in Values
           /\ replica'.token = replica.token /\ Throws(replica, Delta)
<1>0. PICK at \in Component, done \in SUBSET Component :
         /\ Blocked(replica, Delta, at)
         /\ \E removed \in SUBSET (RemovedIn(Delta, at) \ Unmatched(replica, Delta, at)),
               stored \in SUBSET (DOMAIN Delta.values[at] \ Dead(replica, Delta, at)) :
               replica' = Interrupted(replica, Delta, at, done, removed, stored)
  BY DEF Break
<1>1. PICK removed \in SUBSET (RemovedIn(Delta, at) \ Unmatched(replica, Delta, at)),
           stored \in SUBSET (DOMAIN Delta.values[at] \ Dead(replica, Delta, at)) :
              replica' = Interrupted(replica, Delta, at, done, removed, stored)
  BY <1>0
<1>2. /\ slots \in [Index -> Slot] /\ replica.slots \in [Index -> Slot] /\ replica.val \in Values
  BY DEF IInv, TypeOK
<1>3. /\ replica'.slots = Entities(replica, Delta) /\ replica'.token = replica.token
      /\ replica'.val = [c \in Component |->
                IF c \in done THEN Replayed(replica, Delta, c)
                ELSE IF c = at THEN Partly(replica, Delta, c, removed, stored)
                ELSE Freed(replica, Delta, c)]
  BY <1>1 DEF Interrupted
<1>4. Entities(replica, Delta) \in [Index -> Slot]
  BY <1>2, DeltaTyped DEF Entities
<1>5. \A c \in Component : Freed(replica, Delta, c) \in [Index -> Value \cup {Missing}]
  BY <1>2 DEF Freed, Values
<1>6. removed \in SUBSET Index /\ stored \in SUBSET (DOMAIN Delta.values[at])
  BY DEF RemovedIn
<1>7. /\ Partly(replica, Delta, at, removed, stored) \in [Index -> Value \cup {Missing}]
      /\ \A c \in Component : Replayed(replica, Delta, c) \in [Index -> Value \cup {Missing}]
  BY <1>6, DeltaValuesTyped
<1>8. replica'.val \in Values
  BY <1>3, <1>5, <1>7 DEF Values
<1> QED
  BY <1>0, <1>3, <1>4, <1>8 DEF Throws

(* A delta that is not lost, and fits a replica that a full frame has      *)
(* reached, or does not.                                                   *)
LEMMA RestoreStep ==
    ASSUME IInv, RestoreDelta(Delta)
    PROVE  /\ replica'.slots \in [Index -> Slot] /\ replica'.val \in Values
           /\ replica'.token \in Nat
           /\ status' \in {"restored", "refused", "broken"}
           /\ origin' \in {"own", "full", "chance"} /\ (origin' = "full" => origin = "full")
           /\ origin' = "own" => status' = "refused"
           /\ origin' = "full" =>
                 \/ /\ status' = "restored" /\ replica'.token = issued + 1
                    /\ replica'.slots = slots /\ replica'.val = val
                 \/ /\ status' \in {"refused", "broken"} /\ replica'.token = replica.token
                    /\ status' = "broken" => brief
<1>1. /\ slots \in [Index -> Slot] /\ val \in Values
      /\ replica.slots \in [Index -> Slot] /\ replica.val \in Values
      /\ replica.token \in Nat /\ issued \in Nat
      /\ origin \in {"own", "full", "chance"}
  BY DEF IInv, TypeOK
<1>2. Fits(replica, Delta) /\ origin = "full" => replica.slots = sent.slots /\ replica.val = sent.val
  BY DEF IInv, AtBaseline, Fits, Delta
<1>3. CASE ~Fits(replica, Delta) /\ status' = "refused" /\ UNCHANGED <<replica, origin>>
  BY <1>1, <1>3
<1>4. AfterDelta \in {"full", "chance"} /\ (AfterDelta = "full" => origin = "full")
  BY <1>1 DEF AfterDelta
<1>5. CASE /\ Fits(replica, Delta) /\ ~Throws(replica, Delta)
           /\ status' = "restored" /\ origin' = AfterDelta
           /\ replica' = [slots |-> Entities(replica, Delta), token |-> Delta.token,
                          val |-> [c \in Component |-> Replayed(replica, Delta, c)]]
  <2>1. Delta.token = issued + 1 /\ Delta.entities \in {<<>>, slots}
    BY DeltaTyped
  <2>2. replica'.slots \in [Index -> Slot] /\ replica'.token = issued + 1
    BY <1>1, <1>5, <2>1 DEF Entities
  <2>3. replica'.val \in Values
    BY <1>5, DeltaValuesTyped DEF Values
  <2>4. ASSUME origin = "full" PROVE replica'.slots = slots /\ replica'.val = val
    <3>1. Entities(replica, Delta) = slots
      BY <1>2, <1>5, <2>4, EntitiesOfDelta
    <3>2. \A c \in Component : Replayed(replica, Delta, c) = val[c]
      BY <1>2, <1>5, <2>4, DeltaOnBaseline
    <3>3. val = [c \in Component |-> val[c]]
      BY <1>1 DEF Values
    <3>4. [c \in Component |-> Replayed(replica, Delta, c)] = val
      BY <3>2, <3>3
    <3> QED
      BY <1>5, <3>1, <3>4
  <2>5. origin' \in {"full", "chance"} /\ (origin' = "full" => origin = "full")
    BY <1>4, <1>5
  <2>6. status' = "restored" /\ replica'.token \in Nat
    BY <1>1, <1>5, <2>2
  <2> QED
    BY <2>2, <2>3, <2>4, <2>5, <2>6
<1>6. CASE Fits(replica, Delta) /\ status' = "broken" /\ origin' = AfterDelta /\ Break(Delta)
  <2>1. origin = "full" => brief
    BY <1>2, <1>6, BreakTyped, DeltaOnBaseline
  <2>2. /\ replica'.slots \in [Index -> Slot] /\ replica'.val \in Values
        /\ replica'.token = replica.token
    BY <1>6, BreakTyped
  <2>3. origin' \in {"full", "chance"} /\ (origin' = "full" => origin = "full")
    BY <1>4, <1>6
  <2> QED
    BY <1>1, <1>6, <2>1, <2>2, <2>3
<1> QED
  BY <1>3, <1>5, <1>6 DEF RestoreDelta

(* What the tracker and the replica do of a broadcast. *)
LEMMA FrameStep ==
    ASSUME IInv, "refull" \notin Faults, WriteFull \/ WriteDelta
    PROVE  /\ replica'.slots \in [Index -> Slot] /\ replica'.val \in Values
           /\ replica'.token \in Nat /\ last'.token \in Nat /\ issued' \in Nat
           /\ last'.entities \in {<<>>, slots} /\ origin' \in {"own", "full", "chance"}
           /\ SourceToken <= issued' /\ last'.token <= issued'
           /\ origin' = "full" => replica'.token <= issued'
           /\ status' \in {"restored", "refused", "broken", "lost"}
           /\ status' = "broken" => brief \/ origin' = "chance"
           /\ \/ status' = "restored" /\ origin' # "chance"
              \/ origin' = "full" /\ replica'.token = last'.token
              => replica'.slots = slots /\ replica'.val = val
<1>1. /\ slots \in [Index -> Slot] /\ val \in Values
      /\ replica.slots \in [Index -> Slot] /\ replica.val \in Values
      /\ replica.token \in Nat /\ issued \in Nat /\ origin \in {"own", "full", "chance"}
      /\ (origin = "full" => replica.token <= issued) /\ SourceToken <= issued
  BY DEF IInv, TypeOK, Tokens
<1>2. CASE WriteFull
  <2>1. last' = [token |-> SourceToken, entities |-> slots] /\ issued' = issued
    BY <1>2 DEF WriteFull
  <2>2. CASE replica' = Snapshot /\ status' = "restored" /\ origin' = "full"
    BY <1>1, <2>1, <2>2 DEF Snapshot, SourceToken
  <2>3. CASE Lose /\ ~AtFull
    BY <1>1, <2>1, <2>3 DEF Lose, AtFull, SourceToken
  <2> QED
    BY <1>2, <2>2, <2>3 DEF WriteFull
<1>3. CASE WriteDelta
  <2>1. /\ last'.token = issued + 1 /\ last'.entities \in {<<>>, slots}
        /\ issued' = issued + 1
    BY <1>3, DeltaTyped DEF WriteDelta
  <2>2. CASE Lose
    BY <1>1, <2>1, <2>2 DEF Lose, SourceToken
  <2>3. CASE RestoreDelta(Delta)
    <3>1. /\ replica'.slots \in [Index -> Slot] /\ replica'.val \in Values
          /\ replica'.token \in Nat
          /\ status' \in {"restored", "refused", "broken"}
          /\ origin' \in {"own", "full", "chance"} /\ (origin' = "full" => origin = "full")
          /\ origin' = "own" => status' = "refused"
      BY <2>3, RestoreStep
    <3>2. ASSUME origin' = "full"
          PROVE  /\ replica'.token <= issued'
                 /\ status' = "broken" => brief
                 /\ status' = "restored" \/ replica'.token = last'.token =>
                       replica'.slots = slots /\ replica'.val = val
      <4>1. \/ /\ status' = "restored" /\ replica'.token = issued + 1
               /\ replica'.slots = slots /\ replica'.val = val
            \/ /\ status' \in {"refused", "broken"} /\ replica'.token = replica.token
               /\ status' = "broken" => brief
        BY <2>3, <3>2, RestoreStep
      <4>2. replica.token <= issued
        BY <1>1, <3>1, <3>2
      <4> QED
        BY <1>1, <2>1, <4>1, <4>2 DEF SourceToken
    <3> QED
      BY <1>1, <2>1, <3>1, <3>2 DEF SourceToken
  <2> QED
    BY <1>3, <2>2, <2>3 DEF WriteDelta
<1> QED
  BY <1>2, <1>3

(* The frame's end starts a new report, of nothing. *)
LEMMA ReportCleared ==
    ASSUME SourceInv, UNCHANGED <<slots, val>>,
           dirty' = [c \in Component |-> {}],
           removal' = [c \in Component |-> [i \in Index |-> NoRemoval]],
           sent' = [slots |-> slots, val |-> val], brief' = FALSE
    PROVE  SourceInv'
<1>1. slots \in [Index -> Slot] /\ val \in Values /\ Present
  BY TypesPresent DEF SourceInv, SourceTypes
<1>2. SourceTypes'
  <2>1. removal' \in [Component -> [Index -> Removal]] /\ dirty' \in [Component -> SUBSET Index]
    BY DEF Removal
  <2>2. Present'
    BY <1>1 DEF Present
  <2> QED
    BY <1>1, <2>1, <2>2, SourceTyped
<1>3. Accounted'
  <2>1. \A i \in Index : sent'.slots[i] = slots'[i] /\ slots'[i].version \in Nat
    BY <1>1 DEF Slot
  <2>2. \A c \in Component, i \in Index : removal'[c][i].kind = "none"
    BY DEF NoRemoval
  <2>3. \A c \in Component, i \in Index : sent'.val[c][i] = val'[c][i]
    OBVIOUS
  <2> QED
    BY <2>1, <2>2, <2>3 DEF Accounted, Tracked, Matched, Versions
<1> QED
  BY <1>1, <1>2, <1>3 DEF SourceInv

LEMMA BroadcastStep == ASSUME IInv, "refull" \notin Faults, Broadcast PROVE IInv'
<1>1. /\ WriteFull \/ WriteDelta
      /\ frames' = (frames + 1) % Interval
      /\ sent' = [slots |-> slots, val |-> val]
      /\ UNCHANGED <<slots, val>>
  BY DEF Broadcast
<1>2. SourceInv'
  BY ReportCleared, SourceOfIInv DEF Broadcast
<1>3. TypeOK'
  <2>1. slots \in [Index -> Slot] /\ val \in Values /\ frames \in Nat
    BY IntervalAssumption DEF IInv, TypeOK
  <2>2. frames' \in 0 .. Interval - 1
    BY <1>1, <2>1, IntervalAssumption
  <2>3. sent' \in [slots : [Index -> Slot], val : Values]
    BY <1>1, <2>1
  <2>4. last'.entities \in {<<>>} \cup [Index -> Slot]
    BY <1>1, <2>1, FrameStep
  <2> QED
    BY <1>1, <1>2, <2>2, <2>3, <2>4, FrameStep DEF TypeOK, SourceInv, SourceTypes
<1>4. Accounted' /\ AtBaseline' /\ ReplicaExact' /\ Tokens'
  BY <1>1, <1>2, FrameStep DEF SourceInv, AtBaseline, ReplicaExact, Tokens
<1> QED
  BY <1>3, <1>4 DEF IInv

LEMMA NextIInv == ASSUME IInv, "refull" \notin Faults, [Next]_vars PROVE IInv'
<1>1. CASE UNCHANGED vars
  <2> USE <1>1 DEF vars, source, storages
  <2>1. TypeOK'
    BY DEF IInv, TypeOK, Has
  <2>2. Accounted'
    BY DEF IInv, Accounted, Tracked, Matched, Versions
  <2>3. AtBaseline' /\ Tokens' /\ ReplicaExact'
    BY DEF IInv, AtBaseline, Tokens, ReplicaExact
  <2> QED
    BY <2>1, <2>2, <2>3 DEF IInv
<1>2. CASE Next
  <2>1. ASSUME NEW i \in Index, Create(i) PROVE IInv'
    BY <2>1, CreateStep, SourceOfIInv, SourceStep DEF Create
  <2>2. ASSUME NEW i \in Index, Destroy(i) PROVE IInv'
    BY <2>2, DestroyStep, SourceOfIInv, SourceStep DEF Destroy
  <2>3. ASSUME NEW i \in Index, NEW c \in Component, Remove(c, i) PROVE IInv'
    BY <2>3, RemoveStep, SourceOfIInv, SourceStep DEF Remove
  <2>4. ASSUME NEW i \in Index, NEW c \in Component, NEW v \in Value, Put(c, i, v) PROVE IInv'
    BY <2>4, PutStep, SourceOfIInv, SourceStep DEF Put
  <2>5. CASE Broadcast
    BY <2>5, BroadcastStep
  <2> QED
    BY <1>2, <2>1, <2>2, <2>3, <2>4, <2>5 DEF Next
<1> QED
  BY <1>1, <1>2

LEMMA Invariance == ASSUME "refull" \notin Faults PROVE Spec => []IInv
<1>1. IInv /\ [Next]_vars => IInv'
  BY NextIInv
<1> QED
  BY <1>1, InitIInv, PTL DEF Spec

-----------------------------------------------------------------------------
(* The registry, its report, the tracker and the replica keep their types; *)
(* only living entities have components, only components are dirty.        *)
THEOREM TypeCorrect == ASSUME "refull" \notin Faults PROVE Spec => []TypeOK
<1>1. IInv => TypeOK
  BY DEF IInv
<1> QED
  BY <1>1, Invariance, PTL

(* A restored frame makes the replica the source of that frame, whatever   *)
(* was done to the source and whichever of those frames were lost before,  *)
(* unless a delta has fitted a replica that no full frame had reached.     *)
THEOREM RestoredIsExact == ASSUME "refull" \notin Faults PROVE Spec => []ReplicaExact
<1>1. IInv => ReplicaExact
  BY DEF IInv
<1> QED
  BY <1>1, Invariance, PTL

(* A delta never throws on its baseline but for a component that came and  *)
(* went within the frame or before its entity; on another state, only for  *)
(* a replica that no full frame had reached when a delta fitted it.        *)
THEOREM OnlyBriefBreak == ASSUME "refull" \notin Faults PROVE Spec => OnlyBriefComponentsBreak
<1>1. ASSUME IInv, [Next]_vars
      PROVE  [Broadcast => (status' = "broken" => brief \/ origin' = "chance")]_vars
  BY <1>1, FrameStep DEF Broadcast
<1> QED
  BY <1>1, Invariance, PTL DEF Spec, OnlyBriefComponentsBreak

(* Tokens tell apart the registries of one process. *)
Distinct == origin # "chance" /\ (origin = "own" => replica.token = NoToken)

LEMMA DistinctKept == ASSUME Distinct, [Next]_vars PROVE Distinct'
<1>1. ASSUME RestoreDelta(Delta), ~FullIsDue PROVE Distinct'
  <2>1. CASE ~Fits(replica, Delta) /\ UNCHANGED <<replica, origin>>
    BY <2>1 DEF Distinct
  <2>2. CASE Fits(replica, Delta) /\ origin' = AfterDelta
    <3>1. origin # "own"
      BY <1>1, <2>2 DEF Distinct, Fits, Delta, FullIsDue
    <3> QED
      BY <2>2, <3>1 DEF Distinct, AfterDelta
  <2> QED
    BY <1>1, <2>1, <2>2 DEF RestoreDelta
<1>2. CASE Broadcast
  BY <1>1, <1>2 DEF Broadcast, WriteFull, WriteDelta, Lose, Distinct
<1>3. CASE UNCHANGED <<replica, origin>>
  BY <1>3 DEF Distinct
<1> QED
  BY <1>2, <1>3
     DEF Next, vars, Create, Destroy, Remove, Put, UnchangedElsewhere

(* Of a replica in the source's process, or of one that is made with any   *)
(* other number the source's tokens never reach, whatever is restored is   *)
(* the source: a delta restores only on its baseline.                      *)
THEOREM OneProcessExact ==
    ASSUME "refull" \notin Faults, FirstTokens \subseteq {NoToken}
    PROVE  Spec => []BaselineValidated
<1>1. Init => Distinct
  BY DEF Init, Distinct
<1>2. Distinct /\ [Next]_vars => Distinct'
  BY DistinctKept
<1>3. IInv /\ Distinct => BaselineValidated
  BY DEF IInv, ReplicaExact, Distinct, BaselineValidated
<1> QED
  BY <1>1, <1>2, <1>3, Invariance, PTL DEF Spec

-----------------------------------------------------------------------------
(* Frames through files. *)

(* The source besides: only a component with a storage was ever reported,  *)
(* and what is added is dirty.                                             *)
Stored ==
    /\ pools \subseteq Component
    /\ added \in [Component -> SUBSET Index]
    /\ \A c \in Component : added[c] \subseteq dirty[c]
    /\ \A c \in Component \ pools, i \in Index :
          val[c][i] = Missing /\ removal[c][i] = NoRemoval

FileSource == SourceInv /\ Stored

LEMMA InitSource == Init => SourceInv
<1>1. ASSUME Init PROVE Accounted
  BY <1>1 DEF Init, Accounted, Tracked, Matched, Versions, NoRemoval, Nowhere, Fresh
<1> QED
  BY <1>1, InitIInv DEF IInv, TypeOK, SourceInv, SourceTypes

LEMMA CreateStored == ASSUME FileSource, NEW i \in Index, CreateHere(i) PROVE FileSource'
<1>1. SourceInv'
  BY CreateStep DEF FileSource, CreateHere
<1>2. added' = added
  BY DEF FileSource, Stored, CreateHere, Loses
<1> QED
  BY <1>1, <1>2 DEF FileSource, Stored, CreateHere, Create, Loses, storages

LEMMA PutStored ==
    ASSUME FileSource, NEW c \in Component, NEW i \in Index, NEW v \in Value, PutHere(c, i, v)
    PROVE  FileSource'
<1>1. SourceInv'
  BY PutStep DEF FileSource, PutHere
<1>2. /\ val \in Values /\ dirty \in [Component -> SUBSET Index]
      /\ removal \in [Component -> [Index -> Removal]] /\ Stored /\ Present
  BY TypesPresent DEF FileSource, SourceInv, SourceTypes
<1>3. /\ \A b \in Component \ {c} : val'[b] = val[b] /\ removal'[b] = removal[b]
      /\ \A b \in Component : dirty'[b] = IF b = c THEN dirty[b] \cup {i} ELSE dirty[b]
  BY <1>2 DEF PutHere, Put, Values
<1>4. /\ added' \in [Component -> SUBSET Index]
      /\ \A b \in Component : added'[b] \subseteq IF b = c THEN added[b] \cup {i} ELSE added[b]
  BY <1>2 DEF PutHere, Stored
<1>5. pools' = pools \cup {c}
  BY DEF PutHere
<1>6. Stored'
  <2>1. \A b \in Component : added'[b] \subseteq dirty'[b]
    BY <1>2, <1>3, <1>4 DEF Stored
  <2>2. \A b \in Component \ pools', j \in Index :
           val'[b][j] = Missing /\ removal'[b][j] = NoRemoval
    BY <1>2, <1>3, <1>5 DEF Stored
  <2>3. pools' \subseteq Component
    BY <1>2, <1>5 DEF Stored
  <2> QED
    BY <1>4, <2>1, <2>2, <2>3 DEF Stored
<1> QED
  BY <1>1, <1>6 DEF FileSource

LEMMA DropStored ==
    ASSUME FileSource, NEW i \in Index, NEW K \in SUBSET Component,
           NEW kind \in {"removed", "destroyed"}, Drop(i, K, kind),
           \A c \in K : Has(c, i),
           NEW L \in SUBSET Component, Loses(i, L), K \subseteq L,
           SourceInv'
    PROVE  FileSource'
<1>1. Stored /\ K \subseteq pools
  BY DEF FileSource, Stored, Has
<1>2. /\ \A b \in Component \ K : val'[b] = val[b] /\ removal'[b] = removal[b]
      /\ \A b \in Component : dirty'[b] = IF b \in K THEN dirty[b] \ {i} ELSE dirty[b]
  BY DEF Drop
<1>3. /\ added' = [b \in Component |-> IF b \in L THEN added[b] \ {i} ELSE added[b]]
      /\ pools' = pools
  BY DEF Loses
<1>4. Stored'
  <2>1. added' \in [Component -> SUBSET Index]
    BY <1>1, <1>3 DEF Stored
  <2>2. \A b \in Component : added'[b] \subseteq dirty'[b]
    BY <1>1, <1>2, <1>3 DEF Stored
  <2>3. \A b \in Component \ pools', j \in Index :
           val'[b][j] = Missing /\ removal'[b][j] = NoRemoval
    BY <1>1, <1>2, <1>3 DEF Stored
  <2> QED
    BY <1>1, <1>3, <2>1, <2>2, <2>3 DEF Stored
<1> QED
  BY <1>4 DEF FileSource

LEMMA RemoveStored ==
    ASSUME FileSource, NEW c \in Component, NEW i \in Index, RemoveHere(c, i) PROVE FileSource'
<1>1. SourceInv'
  BY RemoveStep DEF FileSource, RemoveHere
<1> QED
  BY <1>1, DropStored DEF RemoveHere, Remove

LEMMA DestroyStored == ASSUME FileSource, NEW i \in Index, DestroyHere(i) PROVE FileSource'
<1>1. SourceInv'
  BY DestroyStep DEF FileSource, DestroyHere
<1> DEFINE K == {c \in Component : Has(c, i)}
<1>2. Drop(i, K, "destroyed") /\ Loses(i, Component)
  BY DEF DestroyHere, Destroy
<1>3. \A c \in K : Has(c, i)
  OBVIOUS
<1>4. K \subseteq Component
  OBVIOUS
<1> HIDE DEF K
<1> QED
  BY <1>1, <1>2, <1>3, <1>4, DropStored

LEMMA BroadcastStored == ASSUME FileSource, FileBroadcast PROVE FileSource'
<1>1. SourceInv'
  BY ReportCleared DEF FileSource, FileBroadcast
<1>2. Stored'
  BY DEF FileSource, Stored, FileBroadcast
<1> QED
  BY <1>1, <1>2 DEF FileSource

-----------------------------------------------------------------------------
(* What is read of a file that was written of the object s.  Values that   *)
(* traits code against a previous one come back where the format does not  *)
(* use these traits, or the traits do not look at the previous value.      *)

IsObject(s) ==
    s = [kind |-> s.kind, token |-> s.token, baseline |-> s.baseline,
         entities |-> s.entities, components |-> s.components,
         pools |-> s.pools, group |-> s.group]

Absolute == setup.relative => Native

Seen(x) == IF Native THEN x ELSE Rounded(x)

LEMMA FileShape ==
    ASSUME NEW s, IsObject(s), DOMAIN s.pools \subseteq s.components
    PROVE  /\ IsObject(File(s))
           /\ File(s).kind = s.kind /\ File(s).token = s.token
           /\ File(s).baseline = s.baseline /\ File(s).entities = s.entities
           /\ File(s).components = Written(s)
           /\ Native => File(s).group = s.group
           /\ DOMAIN File(s).pools = {c \in DOMAIN s.pools : Selected(c)}
           /\ \A c \in DOMAIN File(s).pools :
                 File(s).pools[c] = IF Native THEN s.pools[c] ELSE PersistentPool(s, c)
<1> USE DEF IsObject
<1>1. CASE Native
  <2>1. File(s) = [s EXCEPT !.components = Written(s),
                            !.pools = [c \in Written(s) \cap DOMAIN s.pools |-> s.pools[c]]]
    BY <1>1 DEF File, NativeFile
  <2>2. Written(s) \cap DOMAIN s.pools = {c \in DOMAIN s.pools : Selected(c)}
    BY <1>1 DEF Written
  <2>3. File(s) = [kind |-> s.kind, token |-> s.token, baseline |-> s.baseline,
                   entities |-> s.entities, components |-> Written(s),
                   pools |-> [c \in Written(s) \cap DOMAIN s.pools |-> s.pools[c]],
                   group |-> s.group]
    BY <2>1
  <2> HIDE DEF IsObject
  <2>4. IsObject(File(s))
    BY <2>3 DEF IsObject
  <2> QED
    BY <1>1, <2>2, <2>3, <2>4
<1>2. CASE ~Native
  <2>1. File(s) = [s EXCEPT !.components = Written(s),
                            !.pools = [c \in Written(s) |-> PersistentPool(s, c)],
                            !.group = {}]
    BY <1>2 DEF File, PersistentFile
  <2>2. Written(s) = {c \in DOMAIN s.pools : Selected(c)}
    BY <1>2 DEF Written
  <2>3. File(s) = [kind |-> s.kind, token |-> s.token, baseline |-> s.baseline,
                   entities |-> s.entities, components |-> Written(s),
                   pools |-> [c \in Written(s) |-> PersistentPool(s, c)],
                   group |-> {}]
    BY <2>1
  <2> HIDE DEF IsObject
  <2>4. IsObject(File(s))
    BY <2>3 DEF IsObject
  <2> QED
    BY <1>2, <2>2, <2>3, <2>4
<1> QED
  BY <1>1, <1>2

LEMMA ReadShape ==
    ASSUME NEW f, IsObject(f)
    PROVE  /\ ReadObject(f).kind = f.kind /\ ReadObject(f).token = f.token
           /\ ReadObject(f).baseline = f.baseline
           /\ ReadObject(f).pools = [c \in DOMAIN f.pools |-> ReadPool(f, c)]
           /\ Native \/ f.kind # "full" =>
                 ReadObject(f).entities = f.entities /\ ReadObject(f).group = f.group
                 /\ ReadObject(f).components = f.components
           /\ ~Native /\ f.kind = "full" =>
                 ReadObject(f).entities =
                    [i \in Index |-> IF i \in setup.taken
                                     THEN [live |-> TRUE, version |-> 1] ELSE f.entities[i]]
<1> DEFINE read == [f EXCEPT !.pools = [c \in DOMAIN f.pools |-> ReadPool(f, c)]]
<1>1. /\ IsObject(read) /\ read.kind = f.kind /\ read.token = f.token
      /\ read.baseline = f.baseline /\ read.entities = f.entities /\ read.group = f.group
      /\ read.components = f.components
      /\ read.pools = [c \in DOMAIN f.pools |-> ReadPool(f, c)]
  BY DEF IsObject
<1>2. CASE f.kind = "full" /\ ~Native
  <2>1. ReadObject(f) =
           [read EXCEPT !.entities = [i \in Index |-> IF i \in setup.taken
                                          THEN [live |-> TRUE, version |-> 1] ELSE @[i]],
                        !.components = Component, !.group = {}]
    BY <1>2 DEF ReadObject
  <2> HIDE DEF read
  <2> QED
    BY <1>1, <1>2, <2>1 DEF IsObject
<1>3. CASE ~(f.kind = "full" /\ ~Native)
  <2>1. ReadObject(f) = read
    BY <1>3 DEF ReadObject
  <2> HIDE DEF read
  <2> QED
    BY <1>1, <1>3, <2>1
<1> QED
  BY <1>2, <1>3

LEMMA FileRead ==
    ASSUME NEW s, IsObject(s), DOMAIN s.pools \subseteq s.components
    PROVE  LET r == ReadObject(File(s))
           IN /\ r.kind = s.kind /\ r.token = s.token /\ r.baseline = s.baseline
              /\ Native \/ s.kind # "full" => r.entities = s.entities
              /\ ~Native /\ s.kind = "full" =>
                    r.entities = [i \in Index |-> IF i \in setup.taken
                                     THEN [live |-> TRUE, version |-> 1] ELSE s.entities[i]]
              /\ Native => r.group = s.group /\ r.components = Written(s)
              /\ DOMAIN r.pools = {c \in DOMAIN s.pools : Selected(c)}
              /\ \A c \in DOMAIN r.pools :
                    /\ r.pools[c].tombs = s.pools[c].tombs
                    /\ DOMAIN r.pools[c].cells = DOMAIN s.pools[c].cells
                    /\ \A i \in DOMAIN s.pools[c].cells :
                          /\ Absolute => r.pools[c].cells[i].value = Seen(s.pools[c].cells[i].value)
                          /\ Native => r.pools[c].cells[i] = ReadCell(s.pools[c].cells[i])
<1> DEFINE f == File(s)
           r == ReadObject(f)
<1>1. /\ IsObject(f)
      /\ f.kind = s.kind /\ f.token = s.token
      /\ f.baseline = s.baseline /\ f.entities = s.entities
      /\ f.components = Written(s)
      /\ Native => f.group = s.group
      /\ DOMAIN f.pools = {c \in DOMAIN s.pools : Selected(c)}
      /\ \A c \in DOMAIN f.pools :
            f.pools[c] = IF Native THEN s.pools[c] ELSE PersistentPool(s, c)
  BY FileShape
<1> HIDE DEF f
<1>2. /\ r.kind = f.kind /\ r.token = f.token /\ r.baseline = f.baseline
      /\ r.pools = [c \in DOMAIN f.pools |-> ReadPool(f, c)]
      /\ Native \/ f.kind # "full" => r.entities = f.entities /\ r.group = f.group
                                      /\ r.components = f.components
      /\ ~Native /\ f.kind = "full" =>
            r.entities = [i \in Index |-> IF i \in setup.taken
                             THEN [live |-> TRUE, version |-> 1] ELSE f.entities[i]]
  BY <1>1, ReadShape
<1> HIDE DEF r
<1>3. ASSUME NEW c \in DOMAIN f.pools
      PROVE  /\ r.pools[c].tombs = s.pools[c].tombs
             /\ DOMAIN r.pools[c].cells = DOMAIN s.pools[c].cells
             /\ \A i \in DOMAIN s.pools[c].cells :
                   /\ Absolute => r.pools[c].cells[i].value = Seen(s.pools[c].cells[i].value)
                   /\ Native => r.pools[c].cells[i] = ReadCell(s.pools[c].cells[i])
  <2>1. r.pools[c] = ReadPool(f, c)
    BY <1>2
  <2>2. CASE Native
    <3>1. f.pools[c] = s.pools[c]
      BY <1>1, <2>2
    <3>2. /\ r.pools[c].tombs = s.pools[c].tombs
          /\ r.pools[c].cells = [i \in DOMAIN s.pools[c].cells |-> ReadCell(s.pools[c].cells[i])]
      BY <2>1, <2>2, <3>1 DEF ReadPool
    <3>3. \A x : ReadCell(x).value = x.value
      BY DEF ReadCell, Cleared, Emplaced
    <3> QED
      BY <2>2, <3>2, <3>3 DEF Seen
  <2>3. CASE ~Native
    <3> USE <2>3
    <3>1. f.pools[c] = PersistentPool(s, c)
      BY <1>1, <2>3
    <3>2. /\ f.pools[c].tombs = s.pools[c].tombs
          /\ DOMAIN f.pools[c].cells = DOMAIN s.pools[c].cells
          /\ \A i \in DOMAIN s.pools[c].cells :
                f.pools[c].cells[i].payload.value = Rounded(s.pools[c].cells[i].value)
      BY <3>1 DEF PersistentPool, Coded
    <3>3. /\ r.pools[c].tombs = f.pools[c].tombs
          /\ r.pools[c].cells = [i \in DOMAIN f.pools[c].cells |-> ReadPersistentCell(f, c, i)]
      BY <2>1, <2>3 DEF ReadPool
    <3>4. Absolute =>
             \A i : ReadPersistentCell(f, c, i).value = f.pools[c].cells[i].payload.value
      BY DEF ReadPersistentCell, Decoded, Absolute, Cleared, Emplaced
    <3> QED
      BY <2>3, <3>2, <3>3, <3>4 DEF Seen
  <2> QED
    BY <2>2, <2>3
<1> QED
  BY <1>1, <1>2, <1>3 DEF f, r

(* What the replica is to have of the source's values v. *)
Kept(v) == [c \in Component |-> IF Selected(c) THEN Shown(v)[c] ELSE Nowhere[c]]

LEMMA KeptValues ==
    ASSUME NEW v, NEW c \in Component, NEW i \in Index
    PROVE  Kept(v)[c][i] =
              IF Selected(c) /\ v[c][i] # Missing THEN Seen(v[c][i]) ELSE Missing
BY DEF Kept, Shown, Nowhere, Seen

LEMMA FullRead ==
    ASSUME FileSource
    PROVE  LET r == ReadObject(File(FullObject))
           IN /\ r.kind = "full" /\ r.token = SourceToken
              /\ r.entities \in [Index -> Slot]
              /\ \A i \in Index \ setup.taken : r.entities[i] = slots[i]
              /\ Absolute => ValuesOf(r) = Kept(val)
              /\ Native => r.group = Matches(val)
              /\ \A c \in Component : Selected(c) =>
                    /\ TombsOf(r, c) = removal[c]
                    /\ Native => Marked(r, c, "dirty") = dirty[c]
                                 /\ Marked(r, c, "added") = added[c]
<1> DEFINE s == FullObject
           r == ReadObject(File(s))
<1>1. /\ slots \in [Index -> Slot] /\ val \in Values
      /\ dirty \in [Component -> SUBSET Index]
      /\ removal \in [Component -> [Index -> Removal]]
      /\ Present /\ Stored
  BY TypesPresent DEF FileSource, SourceInv, SourceTypes
<1>2. /\ IsObject(s) /\ s.kind = "full" /\ s.token = SourceToken
      /\ s.entities = slots /\ s.group = Matches(val)
      /\ s.components = Component
      /\ s.pools = [c \in pools |-> Pool(c, {i \in Index : Has(c, i)})]
  BY DEF FullObject, IsObject
<1> DEFINE Cell(c, i) == [value |-> val[c][i], dirty |-> i \in dirty[c], added |-> i \in added[c]]
<1> HIDE DEF s
<1>3. /\ DOMAIN s.pools = pools /\ pools \subseteq Component
      /\ \A c \in pools : /\ s.pools[c].tombs = removal[c]
                          /\ s.pools[c].cells = [i \in {j \in Index : Has(c, j)} |-> Cell(c, i)]
  BY <1>1, <1>2 DEF Pool, Stored
<1>4. \A c, i : Cell(c, i).value = val[c][i]
  OBVIOUS
<1> HIDE DEF Cell
<1>5. ASSUME NEW c \in pools
      PROVE  /\ DOMAIN s.pools[c].cells = {j \in Index : Has(c, j)}
             /\ \A i \in {j \in Index : Has(c, j)} : s.pools[c].cells[i] = Cell(c, i)
  <2>1. s.pools[c].cells = [i \in {j \in Index : Has(c, j)} |-> Cell(c, i)]
    BY <1>3
  <2> QED
    BY <2>1
<1>6. /\ r.kind = s.kind /\ r.token = s.token
      /\ Native => r.entities = s.entities
      /\ ~Native => r.entities = [i \in Index |-> IF i \in setup.taken
                                    THEN [live |-> TRUE, version |-> 1] ELSE s.entities[i]]
      /\ Native => r.group = s.group
      /\ DOMAIN r.pools = {c \in pools : Selected(c)}
      /\ \A c \in DOMAIN r.pools :
            /\ r.pools[c].tombs = s.pools[c].tombs
            /\ DOMAIN r.pools[c].cells = DOMAIN s.pools[c].cells
            /\ \A i \in DOMAIN s.pools[c].cells :
                  /\ Absolute => r.pools[c].cells[i].value = Seen(s.pools[c].cells[i].value)
                  /\ Native => r.pools[c].cells[i] = ReadCell(s.pools[c].cells[i])
  BY <1>2, <1>3, FileRead
<1> HIDE DEF r
<1>7. r.entities \in [Index -> Slot] /\ \A i \in Index \ setup.taken : r.entities[i] = slots[i]
  <2>1. [live |-> TRUE, version |-> 1] \in Slot
    BY DEF Slot
  <2> QED
    BY <1>1, <1>2, <1>6, <2>1
<1>8. ASSUME NEW c \in Component, Selected(c)
      PROVE  TombsOf(r, c) = removal[c]
  <2>1. CASE c \in pools
    BY <1>3, <1>6, <1>8, <2>1 DEF TombsOf
  <2>2. CASE c \notin pools
    <3>1. TombsOf(r, c) = [i \in Index |-> NoRemoval]
      BY <1>6, <2>2 DEF TombsOf, NoReport
    <3>2. removal[c] = [i \in Index |-> removal[c][i]]
      BY <1>1
    <3> QED
      BY <1>1, <2>2, <3>1, <3>2 DEF Stored
  <2> QED
    BY <2>1, <2>2
<1>9. ASSUME NEW c \in Component, Selected(c), Native
      PROVE  Marked(r, c, "dirty") = dirty[c] /\ Marked(r, c, "added") = added[c]
  <2>1. added[c] \subseteq dirty[c] /\ dirty[c] \subseteq {i \in Index : Has(c, i)}
    BY <1>1 DEF Stored, Present, Has
  <2>2. CASE c \in pools
    <3>1. /\ CellsOf(r, c) = r.pools[c].cells
          /\ DOMAIN r.pools[c].cells = {i \in Index : Has(c, i)}
      BY <1>3, <1>6, <1>9, <2>2 DEF CellsOf
    <3>2. \A i \in {j \in Index : Has(c, j)} :
             r.pools[c].cells[i] = ReadCell(Cell(c, i))
      BY <1>5, <1>6, <1>9, <2>2
    <3>3. \A i \in {j \in Index : Has(c, j)} :
             /\ r.pools[c].cells[i]["dirty"] <=> i \in dirty[c]
             /\ r.pools[c].cells[i]["added"] <=> i \in dirty[c] /\ i \in added[c]
      BY <3>2 DEF ReadCell, Cleared, Emplaced, Cell
    <3> QED
      BY <2>1, <3>1, <3>3 DEF Marked
  <2>3. CASE c \notin pools
    <3>1. CellsOf(r, c) = <<>>
      BY <1>6, <2>3 DEF CellsOf
    <3>2. dirty[c] = {}
      BY <1>1, <2>1, <2>3 DEF Stored, Has
    <3> QED
      BY <2>1, <3>1, <3>2 DEF Marked
  <2> QED
    BY <2>2, <2>3
<1>10. ASSUME Absolute PROVE ValuesOf(r) = Kept(val)
  <2>1. ASSUME NEW c \in Component, NEW i \in Index
        PROVE  (IF i \in DOMAIN CellsOf(r, c) THEN CellsOf(r, c)[i].value ELSE Missing)
                  = Kept(val)[c][i]
    <3>1. CASE c \in pools /\ Selected(c)
      <4>1. CellsOf(r, c) = r.pools[c].cells /\ DOMAIN r.pools[c].cells = {j \in Index : Has(c, j)}
        BY <1>3, <1>6, <3>1 DEF CellsOf
      <4>2. Has(c, i) => r.pools[c].cells[i].value = Seen(val[c][i])
        BY <1>5, <1>4, <1>6, <1>10, <3>1
      <4> QED
        BY <1>1, <3>1, <4>1, <4>2, KeptValues DEF Has
    <3>2. CASE ~(c \in pools /\ Selected(c))
      <4>1. CellsOf(r, c) = <<>>
        BY <1>6, <3>2 DEF CellsOf
      <4>2. Kept(val)[c][i] = Missing
        BY <1>1, <3>2, KeptValues DEF Stored
      <4> QED
        BY <4>1, <4>2
    <3> QED
      BY <3>1, <3>2
  <2>2. Kept(val) = [c \in Component |-> [i \in Index |-> Kept(val)[c][i]]]
    BY <1>1 DEF Kept, Shown, Nowhere
  <2>3. ValuesOf(r) = [c \in Component |-> [i \in Index |->
            IF i \in DOMAIN CellsOf(r, c) THEN CellsOf(r, c)[i].value ELSE Missing]]
    BY DEF ValuesOf
  <2> HIDE DEF Kept
  <2> QED
    BY <2>1, <2>2, <2>3
<1> QED
  BY <1>2, <1>6, <1>7, <1>8, <1>9, <1>10 DEF r, s

(* The delta that the reader restores is the tracker's, of the components  *)
(* that were selected and of the values as the format shows them.          *)
FileDelta == AsDelta(ReadObject(File(DeltaObject)))

LEMMA DeltaRead ==
    ASSUME FileSource
    PROVE  /\ FileDelta.baseline = last.token /\ FileDelta.token = issued + 1
           /\ FileDelta.entities = Delta.entities
           /\ ReadObject(File(DeltaObject)).kind = "delta"
           /\ FileDelta = [baseline |-> FileDelta.baseline, token |-> FileDelta.token,
                           entities |-> FileDelta.entities, values |-> FileDelta.values,
                           removal |-> FileDelta.removal]
           /\ FileDelta.values = [c \in Component |->
                                     [i \in DOMAIN FileDelta.values[c] |-> FileDelta.values[c][i]]]
           /\ \A c \in Component :
                 /\ DOMAIN FileDelta.values[c] = IF Selected(c) THEN dirty[c] ELSE {}
                 /\ Absolute => \A i \in DOMAIN FileDelta.values[c] :
                                  FileDelta.values[c][i] = Seen(val[c][i])
           /\ FileDelta.removal =
                 [c \in Component |-> IF Selected(c) THEN removal[c]
                                      ELSE [i \in Index |-> NoRemoval]]
<1> DEFINE s == DeltaObject
           r == ReadObject(File(s))
           Cell(c, i) == [value |-> val[c][i], dirty |-> i \in dirty[c], added |-> i \in added[c]]
<1>1. /\ val \in Values /\ dirty \in [Component -> SUBSET Index]
      /\ removal \in [Component -> [Index -> Removal]]
  BY DEF FileSource, SourceInv, SourceTypes
<1>2. /\ IsObject(s) /\ s.kind = "delta" /\ s.token = issued + 1 /\ s.baseline = last.token
      /\ s.entities = Delta.entities /\ s.components = Reported
      /\ s.pools = [c \in Reported |-> Pool(c, dirty[c])]
  BY DEF DeltaObject, IsObject, Delta
<1> HIDE DEF s
<1>3. /\ DOMAIN s.pools = Reported
      /\ \A c \in Reported : /\ s.pools[c].tombs = removal[c]
                             /\ s.pools[c].cells = [i \in dirty[c] |-> Cell(c, i)]
  BY <1>2 DEF Pool
<1>4. \A c, i : Cell(c, i).value = val[c][i]
  OBVIOUS
<1> HIDE DEF Cell
<1>5. \A c \in Reported : /\ DOMAIN s.pools[c].cells = dirty[c]
                         /\ \A i \in dirty[c] : s.pools[c].cells[i].value = val[c][i]
  <2>1. ASSUME NEW c \in Reported
        PROVE  /\ DOMAIN s.pools[c].cells = dirty[c]
               /\ \A i \in dirty[c] : s.pools[c].cells[i] = Cell(c, i)
    <3>1. s.pools[c].cells = [i \in dirty[c] |-> Cell(c, i)]
      BY <1>3
    <3> QED
      BY <3>1
  <2> QED
    BY <1>4, <2>1
<1>6. /\ r.kind = "delta" /\ r.token = s.token /\ r.baseline = s.baseline
      /\ r.entities = s.entities
      /\ DOMAIN r.pools = {c \in Reported : Selected(c)}
      /\ \A c \in DOMAIN r.pools :
            /\ r.pools[c].tombs = removal[c]
            /\ DOMAIN r.pools[c].cells = dirty[c]
            /\ Absolute => \A i \in dirty[c] : r.pools[c].cells[i].value = Seen(val[c][i])
  <2>1. s.kind # "full" /\ DOMAIN s.pools \subseteq s.components
    BY <1>2, <1>3
  <2>2. /\ r.kind = s.kind /\ r.token = s.token /\ r.baseline = s.baseline
        /\ r.entities = s.entities
        /\ DOMAIN r.pools = {c \in DOMAIN s.pools : Selected(c)}
        /\ \A c \in DOMAIN r.pools :
              /\ r.pools[c].tombs = s.pools[c].tombs
              /\ DOMAIN r.pools[c].cells = DOMAIN s.pools[c].cells
              /\ Absolute => \A i \in DOMAIN s.pools[c].cells :
                    r.pools[c].cells[i].value = Seen(s.pools[c].cells[i].value)
    BY <1>2, <2>1, FileRead
  <2> HIDE DEF r
  <2>3. ASSUME NEW c \in DOMAIN r.pools
        PROVE  /\ r.pools[c].tombs = removal[c]
               /\ DOMAIN r.pools[c].cells = dirty[c]
               /\ Absolute => \A i \in dirty[c] : r.pools[c].cells[i].value = Seen(val[c][i])
    <3>1. /\ c \in Reported /\ r.pools[c].tombs = s.pools[c].tombs
          /\ DOMAIN r.pools[c].cells = DOMAIN s.pools[c].cells
          /\ Absolute => \A i \in DOMAIN s.pools[c].cells :
                r.pools[c].cells[i].value = Seen(s.pools[c].cells[i].value)
      BY <1>3, <2>2
    <3>2. /\ s.pools[c].tombs = removal[c] /\ DOMAIN s.pools[c].cells = dirty[c]
          /\ \A i \in dirty[c] : s.pools[c].cells[i].value = val[c][i]
      BY <1>3, <1>5, <3>1
    <3> QED
      BY <3>1, <3>2
  <2> QED
    BY <1>2, <1>3, <2>2, <2>3
<1> HIDE DEF r
<1>7. FileDelta =
         [baseline |-> r.baseline, token |-> r.token, entities |-> r.entities,
          values  |-> [c \in Component |->
                          [i \in DOMAIN CellsOf(r, c) |-> CellsOf(r, c)[i].value]],
          removal |-> [c \in Component |-> TombsOf(r, c)]]
  BY DEF FileDelta, AsDelta, r, s
<1>8. ASSUME NEW c \in Component
      PROVE  /\ DOMAIN CellsOf(r, c) = IF Selected(c) THEN dirty[c] ELSE {}
             /\ Absolute => \A i \in DOMAIN CellsOf(r, c) :
                               CellsOf(r, c)[i].value = Seen(val[c][i])
             /\ TombsOf(r, c) = IF Selected(c) THEN removal[c] ELSE [i \in Index |-> NoRemoval]
  <2>1. CASE c \in Reported /\ Selected(c)
    BY <1>6, <2>1 DEF CellsOf, TombsOf
  <2>2. CASE ~(c \in Reported /\ Selected(c))
    <3>1. CellsOf(r, c) = <<>> /\ TombsOf(r, c) = [i \in Index |-> NoRemoval]
      BY <1>6, <2>2 DEF CellsOf, TombsOf, NoReport
    <3>2. CASE Selected(c)
      <4>1. dirty[c] = {} /\ \A i \in Index : removal[c][i] = NoRemoval
        BY <2>2, <3>2 DEF Reported
      <4>2. removal[c] = [i \in Index |-> removal[c][i]]
        BY <1>1
      <4>3. removal[c] = [i \in Index |-> NoRemoval]
        BY <4>1, <4>2
      <4> QED
        BY <3>1, <3>2, <4>1, <4>3
    <3>3. CASE ~Selected(c)
      BY <3>1, <3>3
    <3> QED
      BY <3>2, <3>3
  <2> QED
    BY <2>1, <2>2
<1>9. /\ FileDelta.baseline = last.token /\ FileDelta.token = issued + 1
      /\ FileDelta.entities = Delta.entities
  BY <1>2, <1>6, <1>7
<1>10. /\ FileDelta.values = [c \in Component |->
                                 [i \in DOMAIN FileDelta.values[c] |-> FileDelta.values[c][i]]]
       /\ \A c \in Component :
             /\ DOMAIN FileDelta.values[c] = DOMAIN CellsOf(r, c)
             /\ \A i \in DOMAIN FileDelta.values[c] :
                   FileDelta.values[c][i] = CellsOf(r, c)[i].value
  BY <1>7
<1>11. FileDelta.removal =
          [c \in Component |-> IF Selected(c) THEN removal[c] ELSE [i \in Index |-> NoRemoval]]
  BY <1>7, <1>8
<1>12. FileDelta = [baseline |-> FileDelta.baseline, token |-> FileDelta.token,
                    entities |-> FileDelta.entities, values |-> FileDelta.values,
                    removal |-> FileDelta.removal]
  BY <1>7
<1>13. \A c \in Component :
          /\ DOMAIN FileDelta.values[c] = IF Selected(c) THEN dirty[c] ELSE {}
          /\ Absolute => \A i \in DOMAIN FileDelta.values[c] :
                           FileDelta.values[c][i] = Seen(val[c][i])
  <2>1. SUFFICES ASSUME NEW c \in Component
                 PROVE  /\ DOMAIN FileDelta.values[c] = IF Selected(c) THEN dirty[c] ELSE {}
                        /\ Absolute => \A i \in DOMAIN FileDelta.values[c] :
                                         FileDelta.values[c][i] = Seen(val[c][i])
    OBVIOUS
  <2>2. /\ DOMAIN FileDelta.values[c] = DOMAIN CellsOf(r, c)
        /\ \A i \in DOMAIN FileDelta.values[c] :
              FileDelta.values[c][i] = CellsOf(r, c)[i].value
    BY <1>10
  <2> QED
    BY <1>8, <2>2
<1> QED
  BY <1>6, <1>9, <1>10, <1>11, <1>12, <1>13 DEF r, s

LEMMA FileOnBaseline ==
    ASSUME FileSource, Absolute, \A c \in Component : replica.val[c] = Kept(sent.val)[c]
    PROVE  \A c \in Component : Replayed(replica, FileDelta, c) = Kept(val)[c]
<1> DEFINE d == FileDelta
<1>1. /\ dirty \in [Component -> SUBSET Index]
      /\ removal \in [Component -> [Index -> Removal]]
      /\ \A c \in Component, i \in Index : Tracked(c, i)
  BY DEF FileSource, SourceInv, SourceTypes, Accounted
<1>2. \A c \in Component :
         /\ DOMAIN d.values[c] = IF Selected(c) THEN dirty[c] ELSE {}
         /\ \A i \in DOMAIN d.values[c] : d.values[c][i] = Seen(val[c][i])
  BY DeltaRead
<1>3. \A c \in Component, i \in Index :
         d.removal[c][i].kind = IF Selected(c) THEN removal[c][i].kind ELSE "none"
  BY DeltaRead DEF NoRemoval
<1>4. \A c \in Component : \A i \in dirty[c] : Has(c, i)
  BY <1>1, TypesPresent DEF FileSource, SourceInv, Present, Has
<1> HIDE DEF d
<1>5. \A i \in Index :
         i \in Destroyed(d) <=> \E b \in Component : Selected(b) /\ removal[b][i].kind = "destroyed"
  BY <1>3 DEF Destroyed
<1>6. \A c \in Component, i \in Index :
         Freed(replica, d, c)[i] = IF i \in Destroyed(d) THEN Missing ELSE Kept(sent.val)[c][i]
  BY DEF Freed
<1>7. \A c \in Component, i \in Index :
         i \in RemovedIn(d, c) <=> Selected(c) /\ removal[c][i].kind = "removed"
  BY <1>3 DEF RemovedIn
<1>8. ASSUME NEW c \in Component, NEW i \in Index
      PROVE  Replayed(replica, d, c)[i] = Kept(val)[c][i]
  <2>1. Kept(val)[c][i] = IF Selected(c) /\ val[c][i] # Missing THEN Seen(val[c][i]) ELSE Missing
    BY KeptValues
  <2>2. Kept(sent.val)[c][i] =
           IF Selected(c) /\ sent.val[c][i] # Missing THEN Seen(sent.val[c][i]) ELSE Missing
    BY KeptValues
  <2>3. CASE i \in DOMAIN d.values[c]
    <3>1. Replayed(replica, d, c)[i] = Seen(val[c][i])
      BY <1>2, <2>3 DEF Replayed
    <3>2. Selected(c) /\ val[c][i] # Missing
      BY <1>2, <1>4, <2>3 DEF Has
    <3> QED
      BY <2>1, <3>1, <3>2
  <2>4. CASE i \notin DOMAIN d.values[c]
    <3>1. Replayed(replica, d, c)[i] =
             IF i \in RemovedIn(d, c) THEN Missing ELSE Freed(replica, d, c)[i]
      BY <2>4 DEF Replayed, Without
    <3>2. CASE ~Selected(c)
      BY <1>6, <2>1, <2>2, <3>1, <3>2
    <3>3. CASE Selected(c) /\ val[c][i] # Missing
      <4>1. /\ val[c][i] = sent.val[c][i] /\ removal[c][i].kind = "none"
            /\ \A b \in Component : removal[b][i].kind # "destroyed"
        BY <1>1, <1>2, <2>4, <3>3 DEF Tracked
      <4>2. i \notin RemovedIn(d, c) /\ i \notin Destroyed(d)
        BY <1>5, <1>7, <4>1
      <4> QED
        BY <1>6, <2>1, <2>2, <3>1, <4>1, <4>2
    <3>4. CASE Selected(c) /\ val[c][i] = Missing
      <4>1. removal[c][i].kind \in {"none", "removed", "destroyed"}
        BY <1>1 DEF Removal, NoRemoval
      <4>2. removal[c][i].kind # "none" \/ sent.val[c][i] = Missing
        BY <1>1, <1>2, <2>4, <3>4 DEF Tracked
      <4> QED
        BY <1>5, <1>6, <1>7, <2>1, <2>2, <3>1, <3>4, <4>1, <4>2
    <3> QED
      BY <3>2, <3>3, <3>4
  <2> QED
    BY <2>3, <2>4
<1> SUFFICES ASSUME NEW c \in Component PROVE Replayed(replica, d, c) = Kept(val)[c]
  BY DEF d
<1>9. Replayed(replica, d, c) = [i \in Index |-> Replayed(replica, d, c)[i]]
  BY DEF Replayed
<1>10. Kept(val)[c] = [i \in Index |-> Kept(val)[c][i]]
  BY DEF Kept, Shown, Nowhere
<1>11. \A i \in Index : Replayed(replica, d, c)[i] = Kept(val)[c][i]
  BY <1>8
<1> HIDE DEF Replayed, Kept
<1> QED
  BY <1>9, <1>10, <1>11

LEMMA FileEntities ==
    ASSUME FileSource, last.entities \in {<<>>, sent.slots},
           \A i \in Index \ setup.taken : replica.slots[i] = sent.slots[i]
    PROVE  \A i \in Index \ setup.taken : Entities(replica, FileDelta)[i] = slots[i]
<1>1. slots \in [Index -> Slot] /\ FileDelta.entities = IF slots = last.entities THEN <<>> ELSE slots
  BY DeltaRead DEF FileSource, SourceInv, SourceTypes, Delta
<1>2. slots # <<>>
  <2>1. PICK i \in Index : TRUE
    BY IndexAssumption
  <2>2. DOMAIN slots # {}
    BY <1>1, <2>1
  <2> QED
    BY <2>2
<1> QED
  BY <1>1, <1>2 DEF Entities

(* The entities of the group that a delta leaves in it are those that      *)
(* match, if they were before.                                             *)
LEMMA GroupFollows ==
    ASSUME NEW d, copy.group = Matches(replica.val),
           replica'.val = [c \in Component |-> Replayed(replica, d, c)]
    PROVE  Regrouped(d) = Matches(replica'.val)
<1> SUFFICES ASSUME NEW i \in Matches(replica'.val) PROVE i \in Regrouped(d)
  BY DEF Regrouped
<1>1. i \in Index /\ \A c \in Component : Replayed(replica, d, c)[i] # Missing
  BY DEF Matches
<1>2. CASE \E c \in Component : i \in DOMAIN d.values[c]
  BY <1>2 DEF Regrouped
<1>3. CASE \A c \in Component : i \notin DOMAIN d.values[c]
  <2>1. ASSUME NEW c \in Component
        PROVE  i \notin RemovedIn(d, c) /\ i \notin Destroyed(d) /\ replica.val[c][i] # Missing
    <3>1. Without(Freed(replica, d, c), RemovedIn(d, c))[i] # Missing
      BY <1>1, <1>3 DEF Replayed
    <3> QED
      BY <1>1, <3>1 DEF Without, Freed
  <2>2. i \in copy.group
    BY <1>1, <2>1 DEF Matches
  <2>3. i \in Destroyed(d) => \E c \in Component : TRUE
    BY DEF Destroyed
  <2> QED
    BY <2>1, <2>2, <2>3 DEF Regrouped
<1> QED
  BY <1>2, <1>3

-----------------------------------------------------------------------------
(* A setup whose values and groups the format carries: traits that code    *)
(* against the previous value are not asked, and the group's file has all  *)
(* the components the group owns.  The others are refuted by a run, or     *)
(* have a group in the replica that the file says nothing about.           *)
Carried(u) ==
    /\ u.relative => u.format = "native"
    /\ u.grouped => u.format = "native" /\ u.include = {} /\ u.exclude = {}

(* A replica with the token of the tracker's baseline is in its state,     *)
(* unless a frame was missed and no token shows it.                        *)
FileAtBaseline ==
    ~missed /\ origin = "full" /\ replica.token = last.token /\ last.token # NoToken =>
        /\ \A i \in Index \ setup.taken : replica.slots[i] = sent.slots[i]
        /\ \A c \in Component : replica.val[c] = Kept(sent.val)[c]
        /\ setup.grouped => copy.group = Matches(replica.val)

FileTokens ==
    /\ issued \in Nat /\ last.token \in Nat /\ replica.token \in Nat
    /\ issued >= SourceToken /\ last.token <= issued
    /\ origin \in {"own", "full", "chance"} /\ (origin = "full" => replica.token <= issued)
    /\ ~missed => last.entities \in {<<>>, sent.slots}

FileInv == FileSource /\ FileAtBaseline /\ FileTokens /\ RestoredExact

(* What becomes of the replica in a broadcast. *)
FileOutcome ==
    /\ FileTokens' /\ FileAtBaseline' /\ RestoredExact'

LEMMA FullStep ==
    ASSUME FileInv, Carried(setup), FullIsDue, Send(FullObject),
           setup' = setup, issued' = issued, sent' = [slots |-> slots, val |-> val]
    PROVE  FileOutcome
<1> DEFINE r == ReadObject(File(FullObject))
<1>1. Absolute /\ FileSource /\ slots \in [Index -> Slot]
  BY DEF FileInv, FileSource, SourceInv, SourceTypes, Carried, Absolute, Native
<1>2. /\ r.kind = "full" /\ r.token = SourceToken
      /\ \A i \in Index \ setup.taken : r.entities[i] = slots[i]
      /\ ValuesOf(r) = Kept(val)
      /\ Native => r.group = Matches(val)
  BY <1>1, FullRead
<1>3. /\ last' = [token |-> SourceToken, entities |-> slots]
      /\ missed' = (status' # "restored" /\ (missed \/ AtFull))
  BY DEF Send, FullObject
<1>4. /\ issued \in Nat /\ replica.token \in Nat /\ issued >= SourceToken
      /\ origin \in {"own", "full", "chance"} /\ (origin = "full" => replica.token <= issued)
  BY DEF FileInv, FileTokens
<1>5. Kept(val) = Kept(sent.val)'
  BY DEF Kept, Shown, Selected, Native
<1>6. CASE /\ replica' = [slots |-> r.entities, val |-> ValuesOf(r), token |-> r.token]
           /\ copy'.group = r.group /\ status' = "restored" /\ origin' = "full"
  <2>1. setup.grouped => copy'.group = Matches(replica'.val)
    <3>1. SUFFICES ASSUME setup.grouped PROVE copy'.group = Matches(replica'.val)
      OBVIOUS
    <3>2. Native /\ \A c \in Component : Selected(c)
      BY <3>1 DEF Carried, Native, Selected
    <3>3. \A c \in Component, i \in Index : Kept(val)[c][i] = val[c][i]
      BY <3>2, KeptValues DEF Seen
    <3> QED
      BY <1>2, <1>6, <3>2, <3>3 DEF Matches
  <2>2. FileAtBaseline'
    BY <1>2, <1>5, <1>6, <2>1 DEF FileAtBaseline
  <2>3. FileTokens'
    BY <1>2, <1>3, <1>4, <1>6 DEF FileTokens, SourceToken
  <2>4. RestoredExact'
    <3>1. \A c \in Component : replica'.val[c] = Kept(sent.val)'[c]
      BY <1>2, <1>5, <1>6
    <3>2. \A c \in Component :
             Kept(sent.val)'[c] = IF Selected(c)' THEN Shown(sent.val)'[c] ELSE Nowhere[c]
      BY DEF Kept, Nowhere
    <3> QED
      BY <1>2, <1>6, <2>1, <3>1, <3>2 DEF RestoredExact, Visited
  <2> QED
    BY <2>2, <2>3, <2>4 DEF FileOutcome
<1>7. CASE replica'.token = replica.token /\ origin' = origin /\ status' # "restored"
  <2>1. FileAtBaseline' /\ RestoredExact'
    BY <1>3, <1>7 DEF FileAtBaseline, RestoredExact, AtFull
  <2>2. FileTokens'
    BY <1>3, <1>4, <1>7 DEF FileTokens, SourceToken
  <2> QED
    BY <2>1, <2>2 DEF FileOutcome
<1>8. CASE Deliver(File(FullObject))
  <2>1. CASE ~CanRead(File(FullObject))
    BY <1>7, <1>8, <2>1 DEF Deliver, Unread
  <2>2. CASE CanRead(File(FullObject))
    <3>1. RestoreFull(r)
      BY <1>2, <1>8, <2>2 DEF Deliver, Restore
    <3>2. CASE Misbound(r)
      BY <1>7, <3>1, <3>2 DEF RestoreFull
    <3>3. CASE ~Misbound(r)
      BY <1>6, <3>1, <3>3 DEF RestoreFull
    <3> QED
      BY <3>2, <3>3
  <2> QED
    BY <2>1, <2>2
<1>9. CASE Lose
  BY <1>7, <1>9 DEF Lose
<1> QED
  BY <1>8, <1>9 DEF Send

LEMMA DeltaStep ==
    ASSUME FileInv, Carried(setup), ~FullIsDue, Send(DeltaObject),
           setup' = setup, issued' = issued + 1, sent' = [slots |-> slots, val |-> val]
    PROVE  FileOutcome
<1> DEFINE d == FileDelta
<1>1. Absolute /\ FileSource /\ slots \in [Index -> Slot]
  BY DEF FileInv, FileSource, SourceInv, SourceTypes, Carried, Absolute, Native
<1>2. d.baseline = last.token /\ d.token = issued + 1
  BY <1>1, DeltaRead
<1>3. /\ last' = [token |-> issued + 1, entities |-> Delta.entities]
      /\ missed' = missed
      /\ Delta.entities \in {<<>>, slots}
  BY DEF Send, DeltaObject, Delta
<1>4. /\ issued \in Nat /\ replica.token \in Nat /\ issued >= SourceToken
      /\ origin \in {"own", "full", "chance"} /\ (origin = "full" => replica.token <= issued)
  BY DEF FileInv, FileTokens
<1>5. Kept(val) = Kept(sent.val)'
  BY DEF Kept, Shown, Selected, Native
<1> HIDE DEF d
<1>6. CASE replica'.token = replica.token /\ origin' \in {origin, AfterDelta} /\ status' # "restored"
  <2>0. origin' \in {"own", "full", "chance"} /\ (origin' = "full" => origin = "full")
    BY <1>4, <1>6 DEF AfterDelta
  <2>1. FileAtBaseline' /\ RestoredExact'
    BY <1>3, <1>4, <1>6, <2>0 DEF FileAtBaseline, RestoredExact
  <2>2. FileTokens'
    BY <1>3, <1>4, <1>6, <2>0 DEF FileTokens, SourceToken
  <2> QED
    BY <2>1, <2>2 DEF FileOutcome
<1>7. CASE /\ Fits(replica, d) /\ status' = "restored" /\ origin' = AfterDelta
           /\ replica' = [slots |-> Entities(replica, d), token |-> d.token,
                          val |-> [c \in Component |-> Replayed(replica, d, c)]]
           /\ copy'.group = Regrouped(d)
  <2>0. origin' \in {"full", "chance"} /\ (origin' = "full" => origin = "full")
    BY <1>4, <1>7 DEF AfterDelta
  <2>1. FileTokens'
    BY <1>2, <1>3, <1>4, <1>7, <2>0 DEF FileTokens, SourceToken
  <2>2. CASE missed \/ origin' = "chance"
    BY <1>3, <2>1, <2>2 DEF FileOutcome, FileAtBaseline, RestoredExact
  <2>3. CASE ~missed /\ origin' = "full"
    <3>1. replica.token = last.token /\ last.token # NoToken
      BY <1>2, <1>7 DEF Fits, FullIsDue
    <3>2. /\ \A i \in Index \ setup.taken : replica.slots[i] = sent.slots[i]
          /\ \A c \in Component : replica.val[c] = Kept(sent.val)[c]
          /\ setup.grouped => copy.group = Matches(replica.val)
          /\ last.entities \in {<<>>, sent.slots}
      BY <2>0, <2>3, <3>1 DEF FileInv, FileAtBaseline, FileTokens
    <3>3. \A i \in Index \ setup.taken : replica'.slots[i] = slots[i]
      BY <1>1, <1>7, <3>2, FileEntities DEF d
    <3>4. \A c \in Component : replica'.val[c] = Kept(val)[c]
      BY <1>1, <1>7, <3>2, FileOnBaseline DEF d
    <3>5. setup.grouped => copy'.group = Matches(replica'.val)
      BY <1>7, <3>2, GroupFollows
    <3>6. FileAtBaseline'
      BY <1>5, <3>3, <3>4, <3>5 DEF FileAtBaseline
    <3>7. \A c \in Component :
             Kept(sent.val)'[c] = IF Selected(c)' THEN Shown(sent.val)'[c] ELSE Nowhere[c]
      BY DEF Kept, Nowhere
    <3>8. RestoredExact'
      BY <1>5, <3>3, <3>4, <3>5, <3>7 DEF RestoredExact, Visited
    <3> QED
      BY <2>1, <3>6, <3>8 DEF FileOutcome
  <2> QED
    BY <2>0, <2>2, <2>3
<1>8. CASE Deliver(File(DeltaObject))
  <2>1. CASE ~CanRead(File(DeltaObject))
    BY <1>6, <1>8, <2>1 DEF Deliver, Unread
  <2>2. CASE CanRead(File(DeltaObject))
    <3>1. RestoreDeltaObject(ReadObject(File(DeltaObject)))
      BY <1>1, <1>8, <2>2, DeltaRead DEF Deliver, Restore
    <3>2. /\ RestoreDelta(d)
          /\ status' = "restored" => copy'.group = Regrouped(d)
      BY <3>1 DEF RestoreDeltaObject, FileDelta, d
    <3>3. CASE ~Fits(replica, d) /\ status' = "refused" /\ UNCHANGED <<replica, origin>>
      BY <1>6, <3>3
    <3>4. CASE /\ Fits(replica, d) /\ ~Throws(replica, d)
               /\ status' = "restored" /\ origin' = AfterDelta
               /\ replica' = [slots |-> Entities(replica, d), token |-> d.token,
                              val |-> [c \in Component |-> Replayed(replica, d, c)]]
      BY <1>7, <3>2, <3>4
    <3>5. CASE status' = "broken" /\ origin' = AfterDelta /\ Break(d)
      <4>1. replica'.token = replica.token
        BY <3>5 DEF Break, Interrupted
      <4> QED
        BY <1>6, <3>5, <4>1
    <3> QED
      BY <3>2, <3>3, <3>4, <3>5 DEF RestoreDelta
  <2> QED
    BY <2>1, <2>2
<1>9. CASE Lose
  BY <1>6, <1>9 DEF Lose
<1> QED
  BY <1>8, <1>9 DEF Send

(* A step of the source, told apart by what it shares with the others. *)
SourceMoves ==
    \E i \in Index :
       \/ CreateHere(i) \/ DestroyHere(i)
       \/ \E c \in Component : RemoveHere(c, i) \/ \E v \in Value : PutHere(c, i, v)

LEMMA FormatSteps == FormatNext <=> SourceMoves \/ FileBroadcast
BY DEF FormatNext, SourceMoves

LEMMA SourceMovesKeep ==
    ASSUME FileSource, SourceMoves
    PROVE  FileSource' /\ UnchangedElsewhere /\ UNCHANGED <<setup, fileVars>>
<1>1. ASSUME NEW i \in Index, CreateHere(i)
      PROVE  FileSource' /\ UnchangedElsewhere /\ UNCHANGED <<setup, fileVars>>
  BY <1>1, CreateStored DEF CreateHere, Create, Loses
<1>2. ASSUME NEW i \in Index, DestroyHere(i)
      PROVE  FileSource' /\ UnchangedElsewhere /\ UNCHANGED <<setup, fileVars>>
  BY <1>2, DestroyStored DEF DestroyHere, Destroy, Loses
<1>3. ASSUME NEW i \in Index, NEW c \in Component, RemoveHere(c, i)
      PROVE  FileSource' /\ UnchangedElsewhere /\ UNCHANGED <<setup, fileVars>>
  BY <1>3, RemoveStored DEF RemoveHere, Remove, Loses
<1>4. ASSUME NEW i \in Index, NEW c \in Component, NEW v \in Value, PutHere(c, i, v)
      PROVE  FileSource' /\ UnchangedElsewhere /\ UNCHANGED <<setup, fileVars>>
  BY <1>4, PutStored DEF PutHere, Put
<1> QED
  BY <1>1, <1>2, <1>3, <1>4 DEF SourceMoves

LEMMA InitFileSource == FormatInit => FileSource
<1> SUFFICES ASSUME FormatInit PROVE FileSource
  OBVIOUS
<1>1. SourceInv
  BY InitSource DEF FormatInit
<1>2. Stored
  BY DEF FormatInit, Init, Stored, Nowhere
<1> QED
  BY <1>1, <1>2 DEF FileSource

LEMMA FileSourceKept == ASSUME FileSource, [FormatNext]_formatVars PROVE FileSource'
<1>1. CASE UNCHANGED formatVars
  <2>1. SourceInv' /\ Stored'
    BY <1>1 DEF FileSource, SourceInv, SourceTypes, Accounted, Tracked, Matched, Versions, Has,
                Stored, formatVars, vars, source, storages
  <2> QED
    BY <2>1 DEF FileSource
<1> QED
  BY <1>1, FormatSteps, SourceMovesKeep, BroadcastStored

LEMMA FileSourceHolds == FormatSpec => []FileSource
BY InitFileSource, FileSourceKept, PTL DEF FormatSpec

Settled == setup \in Setups /\ FileInv

LEMMA InitSettled == FormatInit => Settled
<1> SUFFICES ASSUME FormatInit PROVE Settled
  OBVIOUS
<1>1. FileTokens /\ FileAtBaseline /\ RestoredExact
  BY FirstTokensAssumption
     DEF FormatInit, Init, FileTokens, FileAtBaseline, RestoredExact, NoToken, SourceToken
<1> QED
  BY <1>1, InitFileSource DEF Settled, FileInv, FormatInit

(* A file that cannot be written makes a missed frame. *)
LEMMA FailStep ==
    ASSUME FileInv, NEW s, FailToWrite(s), issued' \in {issued, issued + 1}
    PROVE  FileOutcome
BY DEF FileInv, FailToWrite, FileOutcome, FileTokens, FileAtBaseline, RestoredExact, SourceToken

LEMMA SettledKept ==
    ASSUME \A u \in Setups : Carried(u), Settled, [FormatNext]_formatVars
    PROVE  Settled'
<1>1. FileSource' /\ FileInv
  BY FileSourceKept DEF Settled, FileInv
<1>2. CASE SourceMoves \/ UNCHANGED formatVars
  <2>1. UNCHANGED <<setup, last, issued, replica, origin, status, sent, base, copy, missed>>
    BY <1>1, <1>2, SourceMovesKeep
       DEF FileInv, UnchangedElsewhere, fileVars, formatVars, vars
  <2>2. FileTokens' /\ FileAtBaseline'
    BY <1>1, <2>1 DEF FileInv, FileTokens, FileAtBaseline, Kept, Shown, Selected, Native
  <2>3. RestoredExact'
    BY <1>1, <2>1 DEF FileInv, RestoredExact, Visited, Shown, Selected, Native
  <2> QED
    BY <1>1, <2>1, <2>2, <2>3 DEF Settled, FileInv
<1>3. CASE FileBroadcast
  <2>1. setup' = setup /\ sent' = [slots |-> slots, val |-> val]
    BY <1>3 DEF FileBroadcast
  <2>2. Carried(setup)
    BY DEF Settled
  <2>3. CASE FullIsDue
    <3>1. issued' = issued /\ (Send(FullObject) \/ FailToWrite(FullObject))
      BY <1>3, <2>3 DEF FileBroadcast
    <3>2. FileOutcome
      BY <1>1, <2>1, <2>2, <2>3, <3>1, FullStep, FailStep
    <3> QED
      BY <1>1, <2>1, <3>2 DEF FileOutcome, FileInv, Settled
  <2>4. CASE ~FullIsDue
    <3>1. issued' = issued + 1 /\ (Send(DeltaObject) \/ FailToWrite(DeltaObject))
      BY <1>3, <2>4 DEF FileBroadcast
    <3>2. FileOutcome
      BY <1>1, <2>1, <2>2, <2>4, <3>1, DeltaStep, FailStep
    <3> QED
      BY <1>1, <2>1, <3>2 DEF FileOutcome, FileInv, Settled
  <2> QED
    BY <2>3, <2>4
<1> QED
  BY <1>2, <1>3, FormatSteps

(* What is read back and restored is what the source had at that frame, of *)
(* the selected components and as the format shows it, for any setup of    *)
(* writer and reader that the format carries and whichever frames were     *)
(* lost, refused or not written before, unless a delta has fitted a        *)
(* replica that no full frame had reached; and a view of the replica       *)
(* visits all of it (SnapshotFormats).                                     *)
THEOREM FilesRestoreExact ==
    ASSUME \A u \in Setups : Carried(u) PROVE FormatSpec => []RestoredExact
<1>1. Settled /\ [FormatNext]_formatVars => Settled'
  BY SettledKept
<1>2. Settled => RestoredExact
  BY DEF Settled, FileInv
<1> QED
  BY <1>1, <1>2, InitSettled, PTL DEF FormatSpec

-----------------------------------------------------------------------------
Counted == issued \in Nat /\ FileSource

LEMMA CountedHolds == FormatSpec => []Counted
<1>1. FormatInit => Counted
  BY InitFileSource DEF FormatInit, Init, Counted, SourceToken
<1>2. ASSUME Counted, [FormatNext]_formatVars PROVE Counted'
  <2>1. FileSource'
    BY <1>2, FileSourceKept DEF Counted
  <2>2. issued' \in {issued, issued + 1}
    BY <1>2, FormatSteps, SourceMovesKeep
       DEF Counted, FileBroadcast, UnchangedElsewhere, formatVars, vars
  <2> QED
    BY <1>2, <2>1, <2>2 DEF Counted
<1> QED
  BY <1>1, <1>2, PTL DEF FormatSpec

(* A full frame that is restored brings the change report along: the       *)
(* removals in either format, the dirty and added entries in the native    *)
(* one, for any setup of writer and reader (write_storage, read_storage).  *)
THEOREM FilesRestoreReport == FormatSpec => ReportRestored
<1>1. ASSUME Counted, [FormatNext]_formatVars
      PROVE  [FileBroadcast /\ issued' = issued /\ status' = "restored" =>
                 \A c \in {x \in Component : Selected(x)} :
                    /\ copy'.report[c].tombs = removal[c]
                    /\ Native => /\ copy'.report[c].dirty = dirty[c]
                                 /\ copy'.report[c].added = added[c]]_formatVars
  <2> SUFFICES ASSUME FileBroadcast, issued' = issued, status' = "restored",
                      NEW c \in Component, Selected(c)
               PROVE  /\ copy'.report[c].tombs = removal[c]
                      /\ Native => /\ copy'.report[c].dirty = dirty[c]
                                   /\ copy'.report[c].added = added[c]
    OBVIOUS
  <2> DEFINE r == ReadObject(File(FullObject))
  <2>1. FullIsDue
    BY <1>1 DEF FileBroadcast, Counted
  <2>2. Send(FullObject)
    BY <2>1 DEF FileBroadcast, FailToWrite
  <2>3. Deliver(File(FullObject))
    BY <2>2 DEF Send, Lose
  <2>4. /\ r.kind = "full" /\ TombsOf(r, c) = removal[c]
        /\ Native => Marked(r, c, "dirty") = dirty[c] /\ Marked(r, c, "added") = added[c]
    BY <1>1, FullRead DEF Counted
  <2>5. RestoreFull(r)
    BY <2>3, <2>4 DEF Deliver, Unread, Restore
  <2>6. copy'.report = ReportOf(r)
    BY <2>5 DEF RestoreFull
  <2> HIDE DEF r
  <2> QED
    BY <2>4, <2>6 DEF ReportOf
<1> QED
  BY <1>1, CountedHolds, PTL DEF FormatSpec, ReportRestored

-----------------------------------------------------------------------------
(* The steps as Memory sees them: it has the values the format shows. *)

LEMMA ShownValues ==
    ASSUME NEW v \in Values, NEW c \in Component, NEW i \in Index
    PROVE  /\ Shown(v)[c][i] = IF v[c][i] = Missing THEN Missing ELSE Seen(v[c][i])
           /\ Shown(v)[c][i] = Missing <=> v[c][i] = Missing
<1>1. v[c][i] \in Value \cup {Missing}
  BY DEF Values
<1> QED
  BY <1>1, RoundingAssumption DEF Shown, Seen

LEMMA MemoryHas ==
    ASSUME FileSource, NEW c \in Component, NEW i \in Index
    PROVE  Memory!Has(c, i) <=> Has(c, i)
BY ShownValues DEF FileSource, SourceInv, SourceTypes, Memory!Has, Has

LEMMA MemoryDrop ==
    ASSUME FileSource, NEW i \in Index, NEW K \in SUBSET Component,
           NEW kind \in {"removed", "destroyed"}, Drop(i, K, kind), setup' = setup
    PROVE  Memory!Drop(i, K, kind)
<1>1. val \in Values
  BY DEF FileSource, SourceInv, SourceTypes
<1>2. \A c \in Component, j \in Index :
         val'[c][j] = IF c \in K /\ j = i THEN Missing ELSE val[c][j]
  BY <1>1 DEF Drop, Values
<1>3. \A c \in Component, j \in Index :
         Shown(val)'[c][j] = IF c \in K /\ j = i THEN Missing ELSE Shown(val)[c][j]
  BY <1>2 DEF Shown, Native
<1>4. Shown(val)' = [c \in Component |-> [j \in Index |-> Shown(val)'[c][j]]]
  BY DEF Shown
<1>5. Shown(val) = [c \in Component |-> [j \in Index |-> Shown(val)[c][j]]]
  BY DEF Shown
<1> DEFINE dropped == [c \in Component |-> IF c \in K THEN [Shown(val)[c] EXCEPT ![i] = Missing]
                                           ELSE Shown(val)[c]]
<1>6. dropped = [c \in Component |-> [j \in Index |->
                    IF c \in K /\ j = i THEN Missing ELSE Shown(val)[c][j]]]
  BY <1>5
<1>7. Shown(val)' = dropped
  BY <1>3, <1>4, <1>6
<1> HIDE DEF dropped
<1> QED
  BY <1>7 DEF Drop, Memory!Drop, dropped

LEMMA MemoryPut ==
    ASSUME FileSource, NEW c \in Component, NEW i \in Index, NEW v \in Value, PutHere(c, i, v)
    PROVE  Memory!Put(c, i, Seen(v))
<1>1. val \in Values /\ setup' = setup /\ Put(c, i, v)
  BY DEF FileSource, SourceInv, SourceTypes, PutHere
<1>2. v # Missing
  BY ValueAssumption
<1>3. \A b \in Component, j \in Index : val'[b][j] = IF b = c /\ j = i THEN v ELSE val[b][j]
  BY <1>1 DEF Put, Values
<1>4. \A b \in Component, j \in Index :
         Shown(val)'[b][j] = IF b = c /\ j = i THEN Seen(v) ELSE Shown(val)[b][j]
  BY <1>1, <1>2, <1>3 DEF Shown, Native, Seen
<1>5. Shown(val)' = [b \in Component |-> [j \in Index |-> Shown(val)'[b][j]]]
  BY DEF Shown
<1>6. Shown(val) = [b \in Component |-> [j \in Index |-> Shown(val)[b][j]]]
  BY DEF Shown
<1>7. [Shown(val) EXCEPT ![c][i] = Seen(v)] =
         [b \in Component |-> [j \in Index |->
             IF b = c /\ j = i THEN Seen(v) ELSE Shown(val)[b][j]]]
  BY <1>6
<1>8. Shown(val)' = [Shown(val) EXCEPT ![c][i] = Seen(v)]
  BY <1>4, <1>5, <1>7
<1>9. Memory!Has(c, i) <=> Has(c, i)
  BY MemoryHas
<1>10. Shown(sent.val)' = Shown(sent.val) /\ UnchangedElsewhere
  BY <1>1 DEF Put, UnchangedElsewhere, Shown, Native
<1>11. Memory!UnchangedElsewhere
  BY <1>10 DEF UnchangedElsewhere, Memory!UnchangedElsewhere
<1>12. removal' = IF ~Memory!Has(c, i) /\ removal[c][i].version = slots[i].version
                  THEN [removal EXCEPT ![c][i] = NoRemoval] ELSE removal
  BY <1>1, <1>9 DEF Put
<1>13. /\ slots[i].live /\ dirty' = [dirty EXCEPT ![c] = @ \cup {i}]
       /\ UNCHANGED <<slots, brief>>
  BY <1>1 DEF Put
<1>14. Memory!NoRemoval = NoRemoval
  BY DEF NoRemoval, Memory!NoRemoval
<1> QED
  BY <1>8, <1>11, <1>12, <1>13, <1>14 DEF Memory!Put

LEMMA MemorySource ==
    ASSUME FileSource, SourceMoves PROVE Memory!Next
<1>1. /\ setup' = setup /\ sent' = sent /\ UnchangedElsewhere
      /\ val \in Values /\ removal \in [Component -> [Index -> Removal]]
      /\ sent.val \in Values
  BY SourceMovesKeep DEF FileSource, SourceInv, SourceTypes, UnchangedElsewhere
<1>2. Shown(sent.val)' = Shown(sent.val)
  BY <1>1 DEF Shown, Native
<1>3. Memory!UnchangedElsewhere
  BY <1>1, <1>2 DEF UnchangedElsewhere, Memory!UnchangedElsewhere
<1>4. \A c \in Component, i \in Index :
         /\ Memory!Has(c, i) <=> Has(c, i)
         /\ Memory!Brief(c, i) <=> Brief(c, i)
  BY <1>1, MemoryHas, ShownValues DEF Memory!Brief, Brief
<1>5. ASSUME NEW i \in Index, CreateHere(i) PROVE Memory!Create(i)
  <2>1. Shown(val)' = Shown(val)
    BY <1>1, <1>5 DEF CreateHere, Create, storages, Shown, Native
  <2> QED
    BY <1>3, <1>5, <2>1 DEF CreateHere, Create, storages, Memory!Create, Memory!storages
<1>6. ASSUME NEW i \in Index, DestroyHere(i) PROVE Memory!Destroy(i)
  <2>1. {c \in Component : Memory!Has(c, i)} = {c \in Component : Has(c, i)}
    BY <1>4
  <2>2. Drop(i, {c \in Component : Has(c, i)}, "destroyed")
    BY <1>6 DEF DestroyHere, Destroy
  <2>3. Memory!Drop(i, {c \in Component : Memory!Has(c, i)}, "destroyed")
    BY <1>1, <2>1, <2>2, MemoryDrop
  <2> QED
    BY <1>3, <1>6, <2>3 DEF DestroyHere, Destroy, Memory!Destroy
<1>7. ASSUME NEW i \in Index, NEW c \in Component, RemoveHere(c, i) PROVE Memory!Remove(c, i)
  <2>1. Memory!Drop(i, {c}, "removed")
    BY <1>1, <1>7, MemoryDrop DEF RemoveHere, Remove
  <2> QED
    BY <1>3, <1>4, <1>7, <2>1 DEF RemoveHere, Remove, Memory!Remove
<1>8. ASSUME NEW i \in Index, NEW c \in Component, NEW v \in Value, PutHere(c, i, v)
      PROVE  \E w \in Value \cup {Rounded(x) : x \in Value} : Memory!Put(c, i, w)
  BY <1>8, MemoryPut DEF Seen
<1> QED
  BY <1>5, <1>6, <1>7, <1>8 DEF SourceMoves, Memory!Next

LEMMA TransparentFile ==
    ASSUME FileSource, Transparent
    PROVE  /\ \A c \in Component : Selected(c)
           /\ CanWrite(FullObject) /\ CanWrite(DeltaObject)
           /\ CanRead(File(FullObject)) /\ CanRead(File(DeltaObject))
           /\ ~Misbound(ReadObject(File(FullObject)))
<1>1. pools \subseteq Component /\ Reported \subseteq Component
  BY DEF FileSource, Stored, Reported
<1>2. \A c \in Component : Selected(c)
  BY DEF Transparent, Selected
<1>3. /\ FullObject.components = Component /\ DOMAIN FullObject.pools = pools
      /\ DeltaObject.components = Reported /\ DOMAIN DeltaObject.pools = Reported
  BY DEF FullObject, DeltaObject
<1>4. /\ Written(FullObject) \subseteq Component /\ Written(DeltaObject) \subseteq Component
      /\ Native => Written(FullObject) = Component
  BY <1>1, <1>2, <1>3 DEF Written
<1>5. /\ CanWrite(FullObject) /\ CanWrite(DeltaObject)
  BY <1>4 DEF CanWrite, Transparent
<1>6. /\ File(FullObject).components = Written(FullObject)
      /\ File(DeltaObject).components = Written(DeltaObject)
  BY DEF File, NativeFile, PersistentFile, FullObject, DeltaObject
<1>7. /\ CanRead(File(FullObject)) /\ CanRead(File(DeltaObject))
  BY <1>4, <1>6 DEF CanRead, Transparent
<1>8. Native => ReadObject(File(FullObject)).components = File(FullObject).components
  BY DEF ReadObject, File, NativeFile, FullObject
<1> QED
  BY <1>2, <1>4, <1>5, <1>6, <1>7, <1>8 DEF Misbound, Transparent

LEMMA MemoryFull ==
    ASSUME FileSource, Transparent, Absolute, FullIsDue, Send(FullObject), UNCHANGED issued
    PROVE  Memory!WriteFull
<1> DEFINE r == ReadObject(File(FullObject))
<1>1. slots \in [Index -> Slot] /\ val \in Values
  BY DEF FileSource, SourceInv, SourceTypes
<1>2. /\ r.kind = "full" /\ r.token = SourceToken
      /\ r.entities \in [Index -> Slot]
      /\ \A i \in Index \ setup.taken : r.entities[i] = slots[i]
      /\ ValuesOf(r) = Kept(val)
  BY FullRead
<1>3. r.entities = slots
  BY <1>1, <1>2 DEF Transparent
<1>4. CanRead(File(FullObject)) /\ ~Misbound(r) /\ \A c \in Component : Selected(c)
  BY TransparentFile
<1>5. Kept(val) = Shown(val)
  BY <1>4 DEF Kept, Shown
<1>6. ASSUME Deliver(File(FullObject))
      PROVE  replica' = Memory!Snapshot /\ status' = "restored" /\ origin' = "full"
  <2>1. RestoreFull(r)
    BY <1>2, <1>4, <1>6 DEF Deliver, Restore
  <2> HIDE DEF r
  <2> QED
    BY <1>2, <1>3, <1>4, <1>5, <2>1
       DEF RestoreFull, Memory!Snapshot, SourceToken, Memory!SourceToken
<1>7. FullObject.kind = "full" /\ FullObject.token = SourceToken /\ FullObject.entities = slots
  BY DEF FullObject
<1>8. \/ Deliver(File(FullObject))
      \/ (IF AtFull THEN "refull" ELSE "full") \in Faults /\ Lose
  BY <1>7 DEF Send, MayLose
<1>9. (Memory!Lose <=> Lose) /\ (Memory!AtFull <=> AtFull)
  BY DEF Lose, Memory!Lose, AtFull, Memory!AtFull, SourceToken, Memory!SourceToken
<1>10. last' = [token |-> SourceToken, entities |-> slots]
  BY <1>7 DEF Send
<1>11. Memory!FullIsDue
  BY DEF FullIsDue, Memory!FullIsDue, NoToken, Memory!NoToken
<1> HIDE DEF r
<1> QED
  BY <1>6, <1>8, <1>9, <1>10, <1>11 DEF Memory!WriteFull, SourceToken, Memory!SourceToken

LEMMA MemoryDelta ==
    ASSUME FileSource, Transparent, Absolute, ~FullIsDue, Send(DeltaObject), issued' = issued + 1
    PROVE  Memory!WriteDelta
<1> DEFINE d == FileDelta
<1>1. /\ val \in Values /\ dirty \in [Component -> SUBSET Index]
      /\ removal \in [Component -> [Index -> Removal]] /\ Present
  BY TypesPresent DEF FileSource, SourceInv, SourceTypes
<1>2. CanRead(File(DeltaObject)) /\ \A c \in Component : Selected(c)
  BY TransparentFile
<1>3. /\ d.baseline = last.token /\ d.token = issued + 1 /\ d.entities = Delta.entities
      /\ ReadObject(File(DeltaObject)).kind = "delta"
      /\ d = [baseline |-> d.baseline, token |-> d.token, entities |-> d.entities,
              values |-> d.values, removal |-> d.removal]
      /\ d.values = [c \in Component |-> [i \in DOMAIN d.values[c] |-> d.values[c][i]]]
      /\ \A c \in Component : /\ DOMAIN d.values[c] = dirty[c]
                              /\ \A i \in dirty[c] : d.values[c][i] = Seen(val[c][i])
      /\ d.removal = [c \in Component |-> removal[c]]
  BY <1>2, DeltaRead
<1>4. \A c \in Component : \A i \in dirty[c] : Seen(val[c][i]) = Shown(val)[c][i]
  BY <1>1, ShownValues DEF Present
<1> DEFINE V(c) == d.values[c]
           W(c) == [i \in dirty[c] |-> Shown(val)[c][i]]
<1>5. \A c \in Component : Memory!Restrict(Shown(val)[c], dirty[c]) = W(c)
  BY DEF Memory!Restrict
<1>6. ASSUME NEW c \in Component PROVE V(c) = W(c)
  <2>1. V(c) = [i \in DOMAIN V(c) |-> V(c)[i]]
    BY <1>3
  <2>2. DOMAIN V(c) = dirty[c] /\ \A i \in dirty[c] : V(c)[i] = Seen(val[c][i])
    BY <1>3
  <2>3. \A i \in dirty[c] : Seen(val[c][i]) = Shown(val)[c][i]
    BY <1>4
  <2> HIDE DEF V
  <2> QED
    BY <2>1, <2>2, <2>3
<1>7. d.values = [c \in Component |-> Memory!Restrict(Shown(val)[c], dirty[c])]
  <2>1. d.values = [c \in Component |-> V(c)]
    BY <1>3
  <2> HIDE DEF V, W
  <2> QED
    BY <1>5, <1>6, <2>1
<1>8. d.removal = removal
  BY <1>1, <1>3
<1>9. Memory!Delta = [baseline |-> last.token, token |-> issued + 1, entities |-> Delta.entities,
                      values |-> [c \in Component |-> Memory!Restrict(Shown(val)[c], dirty[c])],
                      removal |-> removal]
  BY DEF Memory!Delta, Delta
<1>10. d = Memory!Delta
  BY <1>3, <1>7, <1>8, <1>9
<1>11. RestoreDelta(d) <=> Memory!RestoreDelta(d)
  BY DEF RestoreDelta, Memory!RestoreDelta, Fits, Memory!Fits, Throws, Memory!Throws,
         Entities, Memory!Entities, Replayed, Memory!Replayed, Unmatched, Memory!Unmatched,
         Dead, Memory!Dead, Blocked, Memory!Blocked, AfterDelta, Memory!AfterDelta,
         Break, Memory!Break, Partly, Memory!Partly,
         Interrupted, Memory!Interrupted, Freed, Memory!Freed, RemovedIn, Memory!RemovedIn,
         Destroyed, Memory!Destroyed, Without, Memory!Without
<1> HIDE DEF d
<1>12. ASSUME Deliver(File(DeltaObject)) PROVE Memory!RestoreDelta(Memory!Delta)
  <2>1. RestoreDelta(d)
    BY <1>2, <1>3, <1>12 DEF Deliver, Restore, RestoreDeltaObject, d, FileDelta
  <2> QED
    BY <1>10, <1>11, <2>1
<1>13. /\ DeltaObject.kind = "delta" /\ DeltaObject.token = issued + 1
       /\ DeltaObject.entities = Delta.entities
  BY DEF DeltaObject, Delta
<1>14. Deliver(File(DeltaObject)) \/ ("delta" \in Faults /\ Lose)
  BY <1>13 DEF Send, MayLose
<1>15. Memory!Lose <=> Lose
  BY DEF Lose, Memory!Lose
<1>16. last' = [token |-> issued + 1, entities |-> Memory!Delta.entities]
  BY <1>9, <1>13 DEF Send
<1>17. ~Memory!FullIsDue
  BY DEF FullIsDue, Memory!FullIsDue, NoToken, Memory!NoToken
<1> QED
  BY <1>12, <1>14, <1>15, <1>16, <1>17 DEF Memory!WriteDelta

LEMMA MemoryBroadcast ==
    ASSUME FileSource, Transparent, Absolute, FileBroadcast PROVE Memory!Broadcast
<1>1. CanWrite(FullObject) /\ CanWrite(DeltaObject)
  BY TransparentFile
<1>2. Memory!WriteFull \/ Memory!WriteDelta
  <2>1. CASE FullIsDue
    BY <1>1, <2>1, MemoryFull DEF FileBroadcast, FailToWrite
  <2>2. CASE ~FullIsDue
    BY <1>1, <2>2, MemoryDelta DEF FileBroadcast, FailToWrite
  <2> QED
    BY <2>1, <2>2
<1>3. setup' = setup /\ val' = val /\ sent' = [slots |-> slots, val |-> val]
  BY DEF FileBroadcast
<1>4. Shown(val)' = Shown(val) /\ Shown(sent.val)' = Shown(val)
  BY <1>3 DEF Shown, Native
<1>5. [slots |-> sent.slots, val |-> Shown(sent.val)]' = [slots |-> slots, val |-> Shown(val)]
  BY <1>3, <1>4
<1>6. /\ frames' = (frames + 1) % Interval
      /\ dirty' = [c \in Component |-> {}]
      /\ removal' = [c \in Component |-> [i \in Index |-> Memory!NoRemoval]]
      /\ brief' = FALSE /\ slots' = slots
  BY DEF FileBroadcast, NoRemoval, Memory!NoRemoval
<1> QED
  BY <1>2, <1>4, <1>5, <1>6 DEF Memory!Broadcast

Known == setup \in Setups /\ FileSource

LEMMA KnownHolds == FormatSpec => []Known
<1>1. FormatInit => Known
  BY InitFileSource DEF FormatInit, Known
<1>2. ASSUME Known, [FormatNext]_formatVars PROVE Known'
  <2>1. FileSource'
    BY <1>2, FileSourceKept DEF Known
  <2>2. setup' = setup
    BY <1>2, FormatSteps, SourceMovesKeep DEF Known, FileBroadcast, formatVars
  <2> QED
    BY <1>2, <2>1, <2>2 DEF Known
<1> QED
  BY <1>1, <1>2, PTL DEF FormatSpec

(* Where everything is selected, written and read, a registry that is      *)
(* replicated through files takes the steps of one that hands its frames   *)
(* over in memory, with the values the format shows: the frames are the    *)
(* same full snapshots and deltas, are refused, break off and are lost in  *)
(* the same states (SnapshotFormats).  Of the setups it needs that traits  *)
(* which code against the previous value are used in the native format     *)
(* only, where values are written whole: the persistent format garbles     *)
(* them (NothingGarbled).                                                  *)
THEOREM FilesImplementMemory ==
    ASSUME \A u \in Setups : u.relative => u.format = "native"
    PROVE  FormatSpec => ImplementsReplication
<1>1. ASSUME Known, [FormatNext]_formatVars
      PROVE  [Transparent => [Memory!Next]_(Memory!vars)]_formatVars
  <2> SUFFICES ASSUME Transparent, formatVars' # formatVars
               PROVE  Memory!Next
    OBVIOUS
  <2>1. FileSource /\ Absolute
    BY <1>1 DEF Known, Absolute, Native
  <2>2. SourceMoves \/ FileBroadcast
    BY <1>1, FormatSteps
  <2> QED
    BY <2>1, <2>2, MemorySource, MemoryBroadcast DEF Memory!Next
<1> QED
  BY <1>1, KnownHolds, PTL DEF FormatSpec, ImplementsReplication
=============================================================================
