-------------------------- MODULE Lifecycle_proofs --------------------------
(***************************************************************************)
(* The entity store and the registry built on it.  First EntityStore's     *)
(* invariants, for every index space and version width; then add, remove   *)
(* and destroy with their hooks, nested as deep as the program likes:      *)
(* where callbacks are careful the store below is never misused, no        *)
(* component outlives its entity and the mirrors of listeners are exact.   *)
(***************************************************************************)
EXTENDS Lifecycle, SequenceTheorems, TLAPS

(* What the three updates of a sequence that the actions perform yield. *)
LEMMA AppendElements ==
    ASSUME NEW S, NEW q \in Seq(S), NEW x \in S
    PROVE  /\ Append(q, x) \in Seq(S)
           /\ Len(Append(q, x)) = Len(q) + 1
           /\ \A k \in 1 .. Len(q) : Append(q, x)[k] = q[k]
           /\ Append(q, x)[Len(q) + 1] = x
OBVIOUS

LEMMA PopElements ==
    ASSUME NEW S, NEW q \in Seq(S), Len(q) > 0
    PROVE  /\ SubSeq(q, 1, Len(q) - 1) \in Seq(S)
           /\ Len(SubSeq(q, 1, Len(q) - 1)) = Len(q) - 1
           /\ \A k \in 1 .. Len(q) - 1 : SubSeq(q, 1, Len(q) - 1)[k] = q[k]
<1>1. /\ Len(q) \in Nat
      /\ \A k \in 1 .. Len(q) - 1 : q[k] \in S
  OBVIOUS
<1>2. /\ SubSeq(q, 1, Len(q) - 1) \in Seq(S)
      /\ Len(SubSeq(q, 1, Len(q) - 1))
           = IF 1 <= Len(q) - 1 THEN Len(q) - 1 - 1 + 1 ELSE 0
      /\ \A k \in 1 .. Len(q) - 1 - 1 + 1 :
            SubSeq(q, 1, Len(q) - 1)[k] = q[1 + k - 1]
  BY <1>1, SubSeqProperties
<1> DEFINE p == SubSeq(q, 1, Len(q) - 1)
<1> DEFINE n == Len(q)
<1>3. n - 1 - 1 + 1 = n - 1 /\ Len(p) = n - 1
  <2> n \in Nat /\ n > 0
    BY <1>1
  <2> Len(p) = IF 1 <= n - 1 THEN n - 1 - 1 + 1 ELSE 0
    BY <1>2
  <2> HIDE DEF n, p
  <2> QED
    OBVIOUS
<1>4. ASSUME NEW k \in 1 .. Len(q) - 1 PROVE p[k] = q[k]
  <2>1. p[k] = q[1 + k - 1] /\ 1 + k - 1 = k
    BY <1>2, <1>3
  <2> QED
    BY <2>1
<1> QED
  BY <1>2, <1>3, <1>4

LEMMA ExceptElements ==
    ASSUME NEW S, NEW q \in Seq(S), NEW i \in 0 .. Len(q) - 1, NEW x \in S
    PROVE  /\ [q EXCEPT ![i + 1] = x] \in Seq(S)
           /\ Len([q EXCEPT ![i + 1] = x]) = Len(q)
           /\ [q EXCEPT ![i + 1] = x][i + 1] = x
           /\ \A k \in 0 .. Len(q) - 1 :
                  k # i => [q EXCEPT ![i + 1] = x][k + 1] = q[k + 1]
OBVIOUS

(***************************************************************************)
(* The inductive invariant.  HandleAliveIffCurrent says whether a handle   *)
(* is alive; a step can only preserve it if it is also known which version *)
(* the slot is at: as many after the handle's as the index was destroyed   *)
(* since, counted through the wrap-around that skips 0.                    *)
(***************************************************************************)
Advanced(v, n) == IF v + n < VersionModulus THEN v + n ELSE v + n - (VersionModulus - 1)

HandleHistory(t) ==
    /\ t.index \in Indices
    /\ t.epoch <= epoch[t.index]
    /\ epoch[t.index] = t.epoch => Holds(t.index)
    /\ epoch[t.index] - t.epoch < VersionModulus - 1
         => Slot(t.index).version = Advanced(t.version, epoch[t.index] - t.epoch)

VersionFollowsEpoch == \A t \in issued : HandleHistory(t)

IInv == TypeOK /\ FreeListIsStack /\ VersionFollowsEpoch /\ NoSlotWasted

SlotRecord == [link : Index \cup {InvalidIndex}, version : Version]

LEMMA InitIInv == Init => IInv
<1> SUFFICES ASSUME Init PROVE IInv
  OBVIOUS
<1> USE IndexAssumption, VersionAssumption DEF Init
<1>1. TypeOK
  BY DEF TypeOK, Index, Version
<1>2. FreeListIsStack
  BY DEF FreeListIsStack, Indices, Below
<1>3. VersionFollowsEpoch /\ NoSlotWasted
  BY DEF VersionFollowsEpoch, NoSlotWasted
<1> QED
  BY <1>1, <1>2, <1>3 DEF IInv

(* create() from the free list. *)
LEMMA RecycleIInv ==
    ASSUME IInv, Recycle
    PROVE  IInv'
<1> USE IndexAssumption, VersionAssumption
<1> DEFINE i == free_head
           n == Len(freed)
<1>1. /\ slots \in Seq(SlotRecord) /\ Len(slots) \in Nat /\ Len(slots) <= InvalidIndex
      /\ freed \in Seq(Index) /\ n \in Nat
      /\ peak \in Nat
  BY DEF IInv, TypeOK, SlotRecord
<1>f. /\ \A k \in 1 .. n : freed[k] \in Indices /\ Slot(freed[k]).link = Below(k)
      /\ \A j, k \in 1 .. n : freed[j] = freed[k] => j = k
      /\ \A m \in Indices : Holds(m) <=> (\A k \in 1 .. n : freed[k] # m)
      /\ i = IF n + 1 = 1 THEN InvalidIndex ELSE freed[n + 1 - 1]
      /\ i # InvalidIndex
  BY DEF IInv, FreeListIsStack, Recycle, Below
<1>2. n > 0 /\ i = freed[n] /\ i \in Indices /\ Slot(i).link = Below(n)
  <2>1. n > 0
    BY <1>1, <1>f
  <2>2. n + 1 - 1 = n /\ n + 1 # 1 /\ n \in 1 .. n
    BY <1>1, <2>1
  <2> QED
    BY <1>f, <2>1, <2>2
<1>3. i + 1 \in 1 .. Len(slots) /\ i \in Index /\ slots[i + 1] \in SlotRecord
  BY <1>1, <1>2 DEF Indices, Index
<1> DEFINE new == [slots[i + 1] EXCEPT !.link = i]
<1>4. new \in SlotRecord /\ new.link = i /\ new.version = Slot(i).version
  BY <1>3 DEF SlotRecord, Slot
<1>5. slots' = [slots EXCEPT ![i + 1] = new]
  BY DEF Recycle
<1>6. /\ slots' \in Seq(SlotRecord) /\ Len(slots') = Len(slots) /\ Indices' = Indices
      /\ slots'[i + 1] = new
      /\ \A m \in Indices : m # i => slots'[m + 1] = slots[m + 1]
  BY <1>1, <1>2, <1>4, <1>5, ExceptElements DEF Indices
<1>7. /\ freed' \in Seq(Index) /\ Len(freed') = n - 1
      /\ \A k \in 1 .. n - 1 : freed'[k] = freed[k]
  BY <1>1, <1>2, PopElements DEF Recycle
<1>8. free_head' = Below(n) /\ free_head' \in Index \cup {InvalidIndex}
  BY <1>2, <1>3 DEF Recycle, SlotRecord, Slot
<1>9. epoch' = epoch /\ epoch[i] \in Nat
  BY <1>3 DEF Recycle, IInv, TypeOK
<1>10. issued' = issued \cup {[index |-> i, version |-> Slot(i).version, epoch |-> epoch[i]]}
  BY DEF Recycle, Issue
<1>11. Len(slots) = peak /\ Len(slots') - Len(freed') <= peak
  BY <1>1, <1>2, <1>6, <1>7 DEF IInv, NoSlotWasted
<1>12. peak' = peak
  BY <1>1, <1>6, <1>7, <1>11 DEF Recycle, NotePeak
<1>13. TypeOK'
  <2>1. issued' \subseteq [index : Index, version : Version, epoch : Nat]
    BY <1>3, <1>9, <1>10 DEF IInv, TypeOK, SlotRecord, Slot
  <2> QED
    BY <2>1, <1>1, <1>6, <1>7, <1>8, <1>9, <1>12 DEF IInv, TypeOK, SlotRecord
<1>14. FreeListIsStack'
  <2> USE DEF Slot, Holds
  <2>1. \A k \in 1 .. n - 1 : freed[k] # i /\ freed[k] \in Indices
    BY <1>f, <1>2, <1>1
  <2>2. ASSUME NEW k \in 1 .. Len(freed')
        PROVE  (freed[k] \in Indices /\ Slot(freed[k]).link = Below(k))'
    <3>1. k \in 1 .. n - 1 /\ k \in 1 .. n /\ freed'[k] = freed[k] /\ Below(k)' = Below(k)
      BY <1>1, <1>7 DEF Below
    <3>2. freed[k] \in Indices /\ Slot(freed[k]).link = Below(k) /\ freed[k] # i
      BY <2>1, <3>1, <1>f
    <3>3. slots'[freed[k] + 1] = slots[freed[k] + 1]
      BY <1>6, <3>2
    <3> QED
      BY <1>6, <3>1, <3>2, <3>3
  <2>3. ASSUME NEW j \in 1 .. Len(freed'), NEW k \in 1 .. Len(freed'), freed'[j] = freed'[k]
        PROVE  j = k
    <3>1. j \in 1 .. n - 1 /\ k \in 1 .. n - 1
      BY <1>7
    <3>2. j \in 1 .. n /\ k \in 1 .. n /\ freed[j] = freed[k]
      BY <3>1, <2>3, <1>1, <1>7
    <3> QED
      BY <3>2, <1>f
  <2>4. ASSUME NEW m \in Indices
        PROVE  Holds(m)' <=> \A k \in 1 .. Len(freed') : freed'[k] # m
    <3>1. CASE m = i
      BY <3>1, <1>1, <1>4, <1>6, <1>7, <2>1
    <3>2. CASE m # i
      <4>1. slots'[m + 1] = slots[m + 1]
        BY <3>2, <1>6
      <4>2. Holds(m) <=> \A k \in 1 .. n : freed[k] # m
        BY <1>f
      <4>3. (\A k \in 1 .. n : freed[k] # m) <=> (\A k \in 1 .. n - 1 : freed[k] # m)
        BY <3>2, <1>1, <1>2
      <4> QED
        BY <4>1, <4>2, <4>3, <1>1, <1>7
    <3> QED
      BY <3>1, <3>2
  <2>5. free_head' = Below(Len(freed) + 1)'
    BY <1>1, <1>2, <1>7, <1>8 DEF Below
  <2> QED
    BY <1>6, <2>2, <2>3, <2>4, <2>5 DEF FreeListIsStack
<1>15. VersionFollowsEpoch'
  <2> SUFFICES ASSUME NEW t \in issued' PROVE HandleHistory(t)'
    BY DEF VersionFollowsEpoch
  <2> USE DEF HandleHistory, Slot, Holds, Advanced
  <2>1. CASE t \in issued
    <3>1. HandleHistory(t) /\ t.index \in Index /\ epoch[t.index] \in Nat /\ t.epoch \in Nat
      BY <2>1 DEF IInv, VersionFollowsEpoch, TypeOK
    <3>2. CASE t.index = i
      BY <3>1, <3>2, <1>4, <1>6, <1>9
    <3>3. CASE t.index # i
      <4>1. slots'[t.index + 1] = slots[t.index + 1]
        BY <3>1, <3>3, <1>6
      <4> QED
        BY <4>1, <3>1, <1>6, <1>9
    <3> QED
      BY <3>2, <3>3
  <2>2. CASE t = [index |-> i, version |-> Slot(i).version, epoch |-> epoch[i]]
    <3>1. /\ t.index = i /\ t.version = Slot(i).version /\ t.epoch = epoch[i]
          /\ Slot(i).version \in 1 .. VersionModulus - 1
      BY <2>2, <1>3 DEF SlotRecord, Version
    <3> QED
      BY <3>1, <1>2, <1>4, <1>6, <1>9
  <2> QED
    BY <2>1, <2>2, <1>10
<1>16. NoSlotWasted'
  BY <1>6, <1>11, <1>12 DEF NoSlotWasted
<1> QED
  BY <1>13, <1>14, <1>15, <1>16 DEF IInv

(* create() when nothing is free. *)
LEMMA GrowIInv ==
    ASSUME IInv, Grow
    PROVE  IInv'
<1> USE IndexAssumption, VersionAssumption
<1> DEFINE i == Len(slots)
           new == [link |-> i, version |-> 1]
<1>1. /\ slots \in Seq(SlotRecord) /\ i \in Nat /\ i < InvalidIndex
      /\ freed \in Seq(Index) /\ Len(freed) \in Nat
      /\ peak \in Nat
  BY DEF IInv, TypeOK, SlotRecord, Grow
<1>f. /\ \A k \in 1 .. Len(freed) : freed[k] \in Indices /\ Slot(freed[k]).link = Below(k)
      /\ \A m \in Indices : Holds(m) <=> (\A k \in 1 .. Len(freed) : freed[k] # m)
      /\ InvalidIndex = IF Len(freed) + 1 = 1 THEN InvalidIndex ELSE freed[Len(freed) + 1 - 1]
  BY DEF IInv, FreeListIsStack, Grow, Below
<1>2. Len(freed) = 0
  <2> SUFFICES ASSUME Len(freed) > 0 PROVE FALSE
    BY <1>1
  <2>1. Len(freed) + 1 - 1 = Len(freed) /\ Len(freed) + 1 # 1 /\ Len(freed) \in 1 .. Len(freed)
    BY <1>1
  <2>2. InvalidIndex \in Indices
    BY <2>1, <1>f
  <2> QED
    BY <2>2, <1>1 DEF Indices
<1>3. new \in SlotRecord /\ i \in Index
  BY <1>1 DEF SlotRecord, Index, Version
<1>4. /\ slots' \in Seq(SlotRecord) /\ Len(slots') = i + 1
      /\ slots'[i + 1] = new
      /\ \A m \in Indices : slots'[m + 1] = slots[m + 1]
      /\ Indices' = 0 .. i
  <2>1. slots' = Append(slots, new)
    BY DEF Grow
  <2>2. \A k \in 1 .. i : slots'[k] = slots[k]
    BY <2>1, <1>1, <1>3, AppendElements
  <2>3. \A m \in Indices : m + 1 \in 1 .. i
    BY <1>1 DEF Indices
  <2>4. slots' \in Seq(SlotRecord) /\ Len(slots') = i + 1 /\ slots'[i + 1] = new
    BY <2>1, <1>1, <1>3, AppendElements
  <2> QED
    BY <2>2, <2>3, <2>4, <1>1 DEF Indices
<1>5. /\ freed' = freed /\ free_head' = InvalidIndex /\ epoch' = epoch
      /\ issued' = issued \cup {[index |-> i, version |-> 1, epoch |-> epoch[i]]}
      /\ epoch[i] \in Nat
  BY <1>3 DEF Grow, Issue, IInv, TypeOK
<1>6. peak' = i + 1
  BY <1>1, <1>2, <1>4, <1>5 DEF Grow, NotePeak, IInv, NoSlotWasted
<1>7. TypeOK'
  <2>1. issued' \subseteq [index : Index, version : Version, epoch : Nat]
    BY <1>3, <1>5 DEF IInv, TypeOK, Version
  <2> QED
    BY <2>1, <1>1, <1>4, <1>5, <1>6 DEF IInv, TypeOK, SlotRecord
<1>8. FreeListIsStack'
  <2>1. ASSUME NEW m \in 0 .. i PROVE Holds(m)'
    <3>1. CASE m = i
      BY <3>1, <1>4 DEF Holds, Slot
    <3>2. CASE m # i
      <4>1. m \in Indices
        BY <3>2, <1>1 DEF Indices
      <4>2. Holds(m)
        BY <4>1, <1>2, <1>f
      <4> QED
        BY <4>1, <4>2, <1>4 DEF Holds, Slot
    <3> QED
      BY <3>1, <3>2
  <2> QED
    BY <2>1, <1>2, <1>4, <1>5 DEF FreeListIsStack, Below
<1>9. VersionFollowsEpoch'
  <2> SUFFICES ASSUME NEW t \in issued' PROVE HandleHistory(t)'
    BY DEF VersionFollowsEpoch
  <2> USE DEF HandleHistory, Slot, Holds, Advanced
  <2>1. CASE t \in issued
    <3>1. HandleHistory(t) /\ t.index \in Indices
      BY <2>1 DEF IInv, VersionFollowsEpoch
    <3>2. t.index \in Indices' /\ slots'[t.index + 1] = slots[t.index + 1]
      BY <3>1, <1>1, <1>4 DEF Indices
    <3> QED
      BY <3>1, <3>2, <1>5
  <2>2. CASE t = [index |-> i, version |-> 1, epoch |-> epoch[i]]
    BY <2>2, <1>1, <1>4, <1>5
  <2> QED
    BY <2>1, <2>2, <1>5
<1> QED
  BY <1>4, <1>6, <1>7, <1>8, <1>9 DEF IInv, NoSlotWasted

(* destroy() of a live handle. *)
LEMMA DestroyIInv ==
    ASSUME IInv, NEW h \in issued, Destroy(h)
    PROVE  IInv'
<1> USE IndexAssumption, VersionAssumption
<1> DEFINE i == h.index
           n == Len(freed)
           new == [link |-> free_head, version |-> NextVersion(h.version)]
<1>1. /\ slots \in Seq(SlotRecord) /\ Len(slots) \in Nat /\ Len(slots) <= InvalidIndex
      /\ freed \in Seq(Index) /\ n \in Nat
      /\ free_head \in Index \cup {InvalidIndex}
      /\ epoch \in [Index -> Nat]
  BY DEF IInv, TypeOK, SlotRecord
<1>f. /\ \A k \in 1 .. n : freed[k] \in Indices /\ Slot(freed[k]).link = Below(k)
      /\ \A j, k \in 1 .. n : freed[j] = freed[k] => j = k
      /\ \A m \in Indices : Holds(m) <=> (\A k \in 1 .. n : freed[k] # m)
      /\ free_head = Below(n + 1)
  BY DEF IInv, FreeListIsStack
<1>2. /\ i \in Indices /\ Holds(i) /\ i \in Index
      /\ Slot(i).version = h.version /\ h.version \in Version
  BY <1>1 DEF Destroy, Retire, Alive, Indices, Index, IInv, TypeOK
<1>3. \A k \in 1 .. n : freed[k] # i
  BY <1>2, <1>f
<1>i. i = h.index
  OBVIOUS
<1> HIDE DEF i
<1>4. NextVersion(h.version) \in Version /\ new \in SlotRecord
  BY <1>1, <1>2 DEF NextVersion, Version, SlotRecord
<1>5. /\ slots' \in Seq(SlotRecord) /\ Len(slots') = Len(slots) /\ Indices' = Indices
      /\ slots'[i + 1] = new
      /\ \A m \in Indices : m # i => slots'[m + 1] = slots[m + 1]
  <2>1. slots' = [slots EXCEPT ![i + 1] = new]
    BY <1>i DEF Destroy, Retire
  <2>2. i \in 0 .. Len(slots) - 1
    BY <1>2 DEF Indices
  <2> HIDE DEF new
  <2> QED
    BY <2>1, <2>2, <1>1, <1>4, ExceptElements DEF Indices
<1>6. /\ freed' \in Seq(Index) /\ Len(freed') = n + 1
      /\ \A k \in 1 .. n : freed'[k] = freed[k]
      /\ freed'[n + 1] = i
  BY <1>1, <1>2, <1>i, AppendElements DEF Destroy, Retire
<1>7. /\ epoch' \in [Index -> Nat] /\ epoch'[i] = epoch[i] + 1
      /\ \A m \in Index : m # i => epoch'[m] = epoch[m]
      /\ issued' = issued /\ peak' = peak /\ free_head' = i
  BY <1>1, <1>2, <1>i DEF Destroy, Retire
<1> HIDE DEF n
<1>8. TypeOK'
  BY <1>1, <1>2, <1>5, <1>6, <1>7 DEF IInv, TypeOK, SlotRecord
<1>9. FreeListIsStack'
  <2> USE DEF Slot, Holds
  <2>1. ASSUME NEW k \in 1 .. Len(freed')
        PROVE  (freed[k] \in Indices /\ Slot(freed[k]).link = Below(k))'
    <3>1. CASE k = n + 1
      <4>1. Below(k)' = Below(k)
        BY <3>1, <1>1, <1>6 DEF Below
      <4> QED
        BY <3>1, <4>1, <1>2, <1>5, <1>6, <1>f
    <3>2. CASE k # n + 1
      <4>1. k \in 1 .. n /\ freed'[k] = freed[k]
        BY <3>2, <1>1, <1>6
      <4>2. Below(k)' = Below(k)
        BY <4>1, <1>1, <1>6 DEF Below
      <4>3. freed[k] \in Indices /\ Slot(freed[k]).link = Below(k) /\ freed[k] # i
        BY <4>1, <1>3, <1>f
      <4>4. slots'[freed[k] + 1] = slots[freed[k] + 1]
        BY <4>3, <1>5
      <4> QED
        BY <4>1, <4>2, <4>3, <4>4, <1>5
    <3> QED
      BY <3>1, <3>2
  <2>2. ASSUME NEW j \in 1 .. Len(freed'), NEW k \in 1 .. Len(freed'), freed'[j] = freed'[k]
        PROVE  j = k
    <3>1. j \in 1 .. n + 1 /\ k \in 1 .. n + 1
      BY <1>6
    <3>2. CASE j = n + 1 \/ k = n + 1
      <4>1. ASSUME NEW l \in 1 .. n + 1, freed'[l] = i PROVE l = n + 1
        <5>1. ~(l \in 1 .. n)
          BY <4>1, <1>3, <1>6
        <5> QED
          BY <5>1, <1>1
      <4> QED
        BY <4>1, <3>1, <3>2, <2>2, <1>6
    <3>3. CASE j # n + 1 /\ k # n + 1
      <4>1. j \in 1 .. n /\ k \in 1 .. n /\ freed[j] = freed[k]
        BY <3>1, <3>3, <2>2, <1>1, <1>6
      <4> QED
        BY <4>1, <1>f
    <3> QED
      BY <3>2, <3>3
  <2>3. ASSUME NEW m \in Indices
        PROVE  Holds(m)' <=> \A k \in 1 .. Len(freed') : freed'[k] # m
    <3>1. CASE m = i
      <4>1. free_head # i
        <5>1. CASE n = 0
          BY <5>1, <1>f, <1>2, <1>1 DEF Below, Index
        <5>2. CASE n # 0
          <6>1. free_head = freed[n] /\ n \in 1 .. n
            BY <5>2, <1>f, <1>1 DEF Below
          <6> QED
            BY <6>1, <1>3
        <5> QED
          BY <5>1, <5>2
      <4>2. ~Holds(m)'
        BY <3>1, <4>1, <1>5
      <4>3. n + 1 \in 1 .. Len(freed') /\ freed'[n + 1] = m
        BY <3>1, <1>1, <1>6
      <4> QED
        BY <4>2, <4>3
    <3>2. CASE m # i
      <4>1. slots'[m + 1] = slots[m + 1]
        BY <3>2, <1>5
      <4>2. Holds(m) <=> \A k \in 1 .. n : freed[k] # m
        BY <1>f
      <4>3. (\A k \in 1 .. n : freed[k] # m) <=> (\A k \in 1 .. n + 1 : freed'[k] # m)
        <5>1. /\ freed'[n + 1] # m
              /\ \A k \in 1 .. n : freed'[k] = freed[k]
          BY <3>2, <1>6
        <5>2. 1 .. n + 1 = (1 .. n) \cup {n + 1}
          BY <1>1
        <5> QED
          BY <5>1, <5>2
      <4> QED
        BY <4>1, <4>2, <4>3, <1>6
    <3> QED
      BY <3>1, <3>2
  <2>4. free_head' = Below(Len(freed) + 1)'
    BY <1>1, <1>6, <1>7 DEF Below
  <2> QED
    BY <1>5, <2>1, <2>2, <2>3, <2>4 DEF FreeListIsStack
<1>10. VersionFollowsEpoch'
  <2> SUFFICES ASSUME NEW t \in issued PROVE HandleHistory(t)'
    BY <1>7 DEF VersionFollowsEpoch
  <2> USE DEF HandleHistory, Slot, Holds
  <2>1. HandleHistory(t) /\ t.index \in Index /\ t.epoch \in Nat /\ t.version \in Version
    BY DEF IInv, VersionFollowsEpoch, TypeOK
  <2>2. CASE t.index # i
    <3>1. slots'[t.index + 1] = slots[t.index + 1] /\ epoch'[t.index] = epoch[t.index]
      BY <2>1, <2>2, <1>5, <1>7
    <3> QED
      BY <2>1, <3>1, <1>5 DEF Advanced
  <2>3. CASE t.index = i
    <3> DEFINE d == epoch[i] - t.epoch
    <3>1. d \in Nat /\ epoch[i] \in Nat /\ epoch'[i] - t.epoch = d + 1 /\ epoch'[i] # t.epoch
      <4>1. /\ epoch[i] \in Nat /\ t.epoch \in Nat /\ t.epoch <= epoch[i]
            /\ epoch'[i] = epoch[i] + 1
        BY <2>1, <2>3, <1>2, <1>1, <1>7
      <4> QED
        BY <4>1
    <3>2. ASSUME d + 1 < VersionModulus - 1
          PROVE  slots'[i + 1].version = Advanced(t.version, d + 1)
      <4>1. h.version = Advanced(t.version, d)
        BY <2>1, <2>3, <3>1, <3>2, <1>2
      <4>2. NextVersion(h.version) = Advanced(t.version, d + 1)
        BY <4>1, <3>1, <3>2, <2>1, <1>2 DEF Advanced, NextVersion, Version
      <4> QED
        BY <4>2, <1>5
    <3> QED
      BY <3>1, <3>2, <2>1, <2>3, <1>5, <1>7
  <2> QED
    BY <2>2, <2>3
<1> QED
  BY <1>5, <1>7, <1>8, <1>9, <1>10 DEF IInv, NoSlotWasted

LEMMA NextIInv == IInv /\ [Next]_vars => IInv'
<1> SUFFICES ASSUME IInv, [Next]_vars PROVE IInv'
  OBVIOUS
<1>1. CASE Recycle
  BY <1>1, RecycleIInv
<1>2. CASE Grow
  BY <1>2, GrowIInv
<1>3. ASSUME NEW h \in issued, Destroy(h) PROVE IInv'
  BY <1>3, DestroyIInv
<1>4. CASE UNCHANGED vars
  <2> USE <1>4 DEF vars
  <2>1. TypeOK' /\ NoSlotWasted'
    BY DEF IInv, TypeOK, NoSlotWasted
  <2>2. FreeListIsStack'
    BY DEF IInv, FreeListIsStack, Below, Indices, Slot, Holds
  <2>3. VersionFollowsEpoch'
    BY DEF IInv, VersionFollowsEpoch, HandleHistory, Indices, Slot, Holds
  <2> QED
    BY <2>1, <2>2, <2>3 DEF IInv
<1> QED
  BY <1>1, <1>2, <1>3, <1>4 DEF Next, CreateThrows, DestroyReturnsFalse

THEOREM IInvHolds == Spec => []IInv
BY InitIInv, NextIInv, PTL DEF Spec

(* Slots, free list head and handles always have their types: a slot never *)
(* carries version 0 and create() never grows past the index space.        *)
THEOREM TypeCorrect == Spec => []TypeOK
<1>1. IInv => TypeOK
  BY DEF IInv
<1> QED
  BY <1>1, IInvHolds, PTL

(* The links create() and destroy() thread through the dead slots are      *)
(* always the stack of freed indices, whatever the order of the calls.     *)
THEOREM FreeListCorrect == Spec => []FreeListIsStack
<1>1. IInv => FreeListIsStack
  BY DEF IInv
<1> QED
  BY <1>1, IInvHolds, PTL

(* The slot array is as long as the largest number of entities alive at    *)
(* once: create() never grows it while an index is free.                   *)
THEOREM SlotsTight == Spec => []NoSlotWasted
<1>1. IInv => NoSlotWasted
  BY DEF IInv
<1> QED
  BY <1>1, IInvHolds, PTL

(* alive() tells a current handle from a stale one until the index has     *)
(* been destroyed VersionModulus - 1 times: the version reached after n    *)
(* destroys, n in 1 .. VersionModulus - 2, differs from the handle's.      *)
THEOREM StaleHandlesRejected == Spec => []HandleAliveIffCurrent
<1>1. IInv => HandleAliveIffCurrent
  <2> SUFFICES ASSUME IInv, NEW t \in issued,
                      epoch[t.index] - t.epoch < VersionModulus - 1
               PROVE  Alive(t) <=> epoch[t.index] = t.epoch
    BY DEF HandleAliveIffCurrent
  <2>1. /\ HandleHistory(t) /\ t.index \in Index
        /\ t.version \in Version /\ t.epoch \in Nat /\ epoch[t.index] \in Nat
    BY DEF IInv, VersionFollowsEpoch, TypeOK
  <2> DEFINE d == epoch[t.index] - t.epoch
  <2>2. d \in Nat /\ d < VersionModulus - 1 /\ Slot(t.index).version = Advanced(t.version, d)
    BY <2>1 DEF HandleHistory
  <2>3. Advanced(t.version, d) = t.version <=> d = 0
    BY <2>1, <2>2, VersionAssumption DEF Advanced, Version
  <2> QED
    BY <2>1, <2>2, <2>3, VersionAssumption DEF Alive, HandleHistory, Version
<1> QED
  BY <1>1, IInvHolds, PTL

(***************************************************************************)
(* The refinement.  One lemma per kind of step says what it does to the    *)
(* slots; the mapped step follows.                                         *)
(***************************************************************************)
LEMMA RecycleSlots ==
    ASSUME IInv, Recycle
    PROVE  \E i \in Indices :
              /\ ~Holds(i) /\ Holds(i)' /\ Slot(i)'.version = Slot(i).version
              /\ Indices' = Indices
              /\ \A m \in Indices : m # i => Slot(m)' = Slot(m)
<1> USE IndexAssumption DEF Slot, Holds
<1> PICK i : i = free_head
  OBVIOUS
<1> DEFINE n == Len(freed)
<1>1. /\ slots \in Seq(SlotRecord) /\ Len(slots) \in Nat /\ Len(slots) <= InvalidIndex
      /\ n \in Nat /\ free_head # InvalidIndex /\ free_head = Below(n + 1)
      /\ \A k \in 1 .. n : freed[k] \in Indices /\ ~Holds(freed[k])
  BY DEF IInv, TypeOK, FreeListIsStack, SlotRecord, Recycle
<1>2. n \in 1 .. n /\ n + 1 # 1 /\ n + 1 - 1 = n
  BY <1>1 DEF Below
<1>3. i \in Indices /\ ~Holds(i)
  BY <1>1, <1>2 DEF Below
<1>4. i \in 0 .. Len(slots) - 1 /\ i \in Index /\ slots[i + 1] \in SlotRecord
  BY <1>1, <1>3 DEF Indices, Index
<1> DEFINE new == [slots[i + 1] EXCEPT !.link = i]
<1>5. new \in SlotRecord /\ new.link = i /\ new.version = slots[i + 1].version
  BY <1>4 DEF SlotRecord
<1>6. slots' = [slots EXCEPT ![i + 1] = new]
  BY DEF Recycle
<1> HIDE DEF new
<1>7. /\ Len(slots') = Len(slots) /\ slots'[i + 1] = new
      /\ \A m \in 0 .. Len(slots) - 1 : m # i => slots'[m + 1] = slots[m + 1]
  BY <1>1, <1>4, <1>5, <1>6, ExceptElements
<1>8. Indices' = Indices /\ \A m \in Indices : m # i => Slot(m)' = Slot(m)
  BY <1>7 DEF Indices
<1> QED
  BY <1>3, <1>5, <1>7, <1>8

LEMMA GrowSlots ==
    ASSUME IInv, Grow
    PROVE  \E i \in Index :
              /\ Indices' = Indices \cup {i} /\ i \notin Indices
              /\ Holds(i)' /\ Slot(i)'.version = 1
              /\ \A m \in Indices : Slot(m)' = Slot(m)
<1> USE IndexAssumption, VersionAssumption DEF Slot, Holds
<1> PICK i : i = Len(slots)
  OBVIOUS
<1> DEFINE new == [link |-> i, version |-> 1]
<1>1. /\ slots \in Seq(SlotRecord) /\ i \in Nat /\ i < InvalidIndex
      /\ slots' = Append(slots, new) /\ Len(slots) = i
  BY DEF IInv, TypeOK, SlotRecord, Grow
<1>2. new \in SlotRecord
  BY <1>1 DEF SlotRecord, Index, Version
<1>3. /\ Len(slots') = i + 1 /\ slots'[i + 1] = new
      /\ \A k \in 1 .. i : slots'[k] = slots[k]
  BY <1>1, <1>2, AppendElements
<1>4. ASSUME NEW m \in Indices PROVE slots'[m + 1] = slots[m + 1]
  <2>1. m + 1 \in 1 .. i
    BY <1>1 DEF Indices
  <2> QED
    BY <2>1, <1>3
<1>5. i \notin Indices /\ Indices' = Indices \cup {i}
  BY <1>1, <1>3 DEF Indices
<1>6. i \in Index /\ slots'[i + 1].link = i /\ slots'[i + 1].version = 1
  BY <1>1, <1>3 DEF Index
<1> QED
  BY <1>4, <1>5, <1>6

LEMMA DestroySlots ==
    ASSUME IInv, NEW h \in issued, Destroy(h)
    PROVE  \E i \in Indices :
              /\ i = h.index
              /\ Holds(i) /\ ~Holds(i)' /\ Indices' = Indices
              /\ \A m \in Indices : m # i => Slot(m)' = Slot(m)
<1> USE IndexAssumption, VersionAssumption DEF Slot, Holds
<1> DEFINE new == [link |-> free_head, version |-> NextVersion(h.version)]
<1>1. PICK i : i = h.index
  OBVIOUS
<1>2. /\ slots \in Seq(SlotRecord) /\ Len(slots) \in Nat /\ Len(slots) <= InvalidIndex
      /\ i \in Indices /\ Holds(i) /\ h.version \in Version
      /\ free_head \in Index \cup {InvalidIndex}
      /\ slots' = [slots EXCEPT ![i + 1] = new]
  BY <1>1 DEF IInv, TypeOK, SlotRecord, Destroy, Retire, Alive
<1>3. new \in SlotRecord /\ new.link = free_head
  BY <1>2 DEF NextVersion, Version, SlotRecord
<1> HIDE DEF new
<1>4. i \in 0 .. Len(slots) - 1
  BY <1>2 DEF Indices
<1>5. /\ Len(slots') = Len(slots) /\ slots'[i + 1] = new
      /\ \A m \in 0 .. Len(slots) - 1 : m # i => slots'[m + 1] = slots[m + 1]
  BY <1>2, <1>3, <1>4, ExceptElements
<1>6. free_head # i
  <2>1. /\ Len(freed) \in Nat /\ free_head = Below(Len(freed) + 1)
        /\ \A k \in 1 .. Len(freed) : freed[k] # i
    BY <1>2 DEF IInv, TypeOK, FreeListIsStack
  <2>2. CASE Len(freed) = 0
    BY <2>1, <2>2, <1>2 DEF Below, Indices
  <2>3. CASE Len(freed) # 0
    <3>1. free_head = freed[Len(freed)] /\ Len(freed) \in 1 .. Len(freed)
      BY <2>1, <2>3 DEF Below
    <3> QED
      BY <3>1, <2>1
  <2> QED
    BY <2>2, <2>3
<1>7. Indices' = Indices /\ \A m \in Indices : m # i => Slot(m)' = Slot(m)
  BY <1>5 DEF Indices
<1> QED
  BY <1>1, <1>2, <1>3, <1>5, <1>6, <1>7

LEMMA LiveHandleType ==
    ASSUME IInv, NEW i \in Indices
    PROVE  [index |-> i, version |-> Slot(i).version] \in Handles!Handle
<1>1. slots \in Seq(SlotRecord) /\ Len(slots) \in Nat /\ Len(slots) <= InvalidIndex
  BY DEF IInv, TypeOK, SlotRecord
<1>2. i \in Index /\ i + 1 \in 1 .. Len(slots)
  BY <1>1, IndexAssumption DEF Indices, Index
<1>3. slots[i + 1] \in SlotRecord
  BY <1>1, <1>2
<1> QED
  BY <1>2, <1>3 DEF Handles!Handle, Index, Version, Slot, SlotRecord

LEMMA AddsLiveHandle ==
    ASSUME NEW i, i \in Indices', Holds(i)', ~(i \in Holding),
           \A m \in Indices' : m # i => m \in Indices /\ Slot(m)' = Slot(m),
           \A m \in Indices : m \in Indices',
           [index |-> i, version |-> Slot(i)'.version] \in Handles!Handle
    PROVE  Handles!Create
<1> DEFINE h == [index |-> i, version |-> Slot(i)'.version]
<1>1. \A l \in LiveHandles : l.index # h.index
  BY DEF LiveHandles
<1>2. ASSUME NEW m PROVE m \in Holding' <=> m \in Holding \/ m = i
  BY DEF Holding, Holds
<1>3. \A m \in Holding : Slot(m)' = Slot(m)
  BY DEF Holding
<1>4. LiveHandles' = LiveHandles \cup {h}
  BY <1>2, <1>3 DEF LiveHandles
<1> QED
  BY <1>1, <1>4 DEF Handles!Create

LEMMA RemovesLiveHandle ==
    ASSUME NEW i \in Indices, Holds(i), ~Holds(i)', Indices' = Indices,
           \A m \in Indices : m # i => Slot(m)' = Slot(m)
    PROVE  Handles!Destroy
<1> DEFINE h == [index |-> i, version |-> Slot(i).version]
<1>1. h \in LiveHandles
  BY DEF LiveHandles, Holding
<1>2. ASSUME NEW m PROVE m \in Holding' <=> m \in Holding /\ m # i
  BY DEF Holding, Holds
<1>3. \A m \in Holding' : Slot(m)' = Slot(m)
  BY <1>2 DEF Holding
<1>4. LiveHandles' = LiveHandles \ {h}
  BY <1>2, <1>3 DEF LiveHandles
<1> QED
  BY <1>1, <1>4 DEF Handles!Destroy

(* create() and destroy() over slots and free list do what EntityHandles   *)
(* promises, step by step.                                                 *)
THEOREM StoreImplementsHandles == Spec => ImplementsHandles
<1>1. Init => Handles!Init
  BY DEF Init, Handles!Init, LiveHandles, Holding, Indices
<1>2. IInv /\ IInv' /\ [Next]_vars => [Handles!Next]_LiveHandles
  <2> SUFFICES ASSUME IInv, IInv', [Next]_vars
               PROVE  Handles!Next \/ LiveHandles' = LiveHandles
    OBVIOUS
  <2> USE DEF Handles!Next
  <2>1. CASE Recycle
    <3>1. PICK i \in Indices :
              /\ ~Holds(i) /\ Holds(i)' /\ Slot(i)'.version = Slot(i).version
              /\ Indices' = Indices
              /\ \A m \in Indices : m # i => Slot(m)' = Slot(m)
      BY <2>1, RecycleSlots
    <3>2. [index |-> i, version |-> Slot(i).version] \in Handles!Handle
      BY LiveHandleType
    <3> QED
      BY <3>1, <3>2, AddsLiveHandle DEF Holding
  <2>2. CASE Grow
    <3>1. PICK i \in Index :
              /\ Indices' = Indices \cup {i} /\ i \notin Indices
              /\ Holds(i)' /\ Slot(i)'.version = 1
              /\ \A m \in Indices : Slot(m)' = Slot(m)
      BY <2>2, GrowSlots
    <3>2. [index |-> i, version |-> 1] \in Handles!Handle
      BY VersionAssumption DEF Handles!Handle, Index
    <3> QED
      BY <3>1, <3>2, AddsLiveHandle DEF Holding
  <2>3. ASSUME NEW h \in issued, Destroy(h) PROVE Handles!Next
    BY <2>3, DestroySlots, RemovesLiveHandle
  <2>4. CASE UNCHANGED vars
    BY <2>4 DEF vars, LiveHandles, Holding, Indices, Holds, Slot
  <2> QED
    BY <2>1, <2>2, <2>3, <2>4 DEF Next, CreateThrows, DestroyReturnsFalse
<1> QED
  BY <1>1, <1>2, IInvHolds, PTL DEF Spec, ImplementsHandles, Handles!Spec

(***************************************************************************)
(* The registry on top of the store.                                       *)
(***************************************************************************)
Entity == [index : Index, version : Version]

FrameSet ==
    [op : {"add", "remove", "destroy"}, entity : Entity, component : Component \cup {"none"},
     calls : Seq(Listener), todo : SUBSET Component, running : BOOLEAN]

LifeTypeOK ==
    /\ has \in [Component -> SUBSET Index]
    /\ hooks \in [Component -> Seq(Listener)]
    /\ \A c \in Component : \A n \in DOMAIN hooks[c] : Mirrors[hooks[c][n]] = c
    /\ stack \in Seq(FrameSet)
    /\ mirror \in [Listener -> SUBSET Entity]

(* The entities create() has returned that are alive, and the storages.    *)
Live  == {e \in Entity : Alive(e) /\ \E t \in issued : e = Name(t)}
Stock == [c \in Component |-> Contents(c)]

(* An operation under way: its entity is alive, and has the component that *)
(* the hooks are told of; destroy has collected whatever the entity has.   *)
Good(f, L, C) ==
    /\ f.entity \in L
    /\ f.op # "destroy" => f.component \in Component
    /\ f.component # "none" => f.entity \in C[f.component]
    /\ f.op = "destroy" =>
          \A c \in Component : f.entity \in C[c] => c \in f.todo \cup {f.component}
    /\ \A k \in DOMAIN f.calls : Mirrors[f.calls[k]] = f.component

AllGood(q, L, C) == \A n \in DOMAIN q : Good(q[n], L, C)

(* No two operations under way concern the same component of an entity,    *)
(* and destroy is the first of its entity.                                 *)
Apart(q) ==
    \A m, n \in DOMAIN q :
        m < n /\ q[m].entity = q[n].entity =>
            q[n].op # "destroy" /\ q[m].component # q[n].component

Tells(f, l) == \E k \in DOMAIN f.calls : f.calls[k] = l

(* What l believes, X, is what is so, C, up to the operations under way: a *)
(* component just added that l will still be told of, and one that is      *)
(* about to be removed.                                                    *)
Follows(l, X, C, q) ==
    /\ X \subseteq C
    /\ \A e \in C : \/ e \in X
                    \/ \E n \in DOMAIN q : /\ q[n].entity = e /\ q[n].component = Mirrors[l]
                                           /\ q[n].op = "add" => Tells(q[n], l)
    /\ \A n \in DOMAIN q :
          q[n].op # "add" /\ q[n].component = Mirrors[l] /\ ~Tells(q[n], l)
             => q[n].entity \notin X

FramesOK == AllGood(stack, Live, Stock) /\ Apart(stack)

MirrorsFollow ==
    \A l \in Listener : Subscribed(l) => Follows(l, mirror[l], Stock[Mirrors[l]], stack)

LInv == IInv /\ LifeTypeOK /\ NoComponentOutlivesEntity /\ FramesOK /\ MirrorsFollow

-----------------------------------------------------------------------------
(* The stack. *)
LEMMA PushSeq ==
    ASSUME NEW F, NEW q \in Seq(F), NEW f \in F, NEW p, p = Append(q, f)
    PROVE  /\ p \in Seq(F)
           /\ \E k : /\ k \notin DOMAIN q /\ DOMAIN p = DOMAIN q \cup {k} /\ p[k] = f
                     /\ \A n \in DOMAIN q : p[n] = q[n] /\ n \in Nat /\ n < k
<1>1. /\ p \in Seq(F) /\ Len(p) = Len(q) + 1 /\ Len(q) \in Nat
      /\ \A n \in 1 .. Len(q) : p[n] = q[n]
      /\ p[Len(q) + 1] = f
  BY AppendElements
<1>2. PICK k : k = Len(q) + 1
  OBVIOUS
<1>3. /\ k \notin DOMAIN q /\ DOMAIN p = DOMAIN q \cup {k} /\ p[k] = f
      /\ \A n \in DOMAIN q : p[n] = q[n] /\ n \in Nat /\ n < k
  BY <1>1, <1>2
<1> QED
  BY <1>1, <1>3

LEMMA PopSeq ==
    ASSUME NEW F, NEW q \in Seq(F), q # <<>>, NEW p, p = SubSeq(q, 1, Len(q) - 1)
    PROVE  /\ p \in Seq(F)
           /\ Len(q) \in DOMAIN q /\ DOMAIN p = DOMAIN q \ {Len(q)}
           /\ \A n \in DOMAIN p : p[n] = q[n] /\ n < Len(q)
<1>1. Len(q) \in Nat /\ Len(q) > 0 /\ DOMAIN q = 1 .. Len(q)
  OBVIOUS
<1>2. /\ p \in Seq(F) /\ Len(p) = Len(q) - 1
      /\ \A n \in 1 .. Len(q) - 1 : p[n] = q[n]
  BY <1>1, PopElements
<1>3. DOMAIN p = 1 .. Len(q) - 1
  BY <1>2
<1> QED
  BY <1>1, <1>2, <1>3

LEMMA SetTopSeq ==
    ASSUME NEW F, NEW q \in Seq(F), q # <<>>, NEW f \in F, NEW p, p = [q EXCEPT ![Len(q)] = f]
    PROVE  /\ p \in Seq(F)
           /\ Len(q) \in DOMAIN q /\ DOMAIN p = DOMAIN q /\ p[Len(q)] = f
           /\ \A n \in DOMAIN q : n \in Nat /\ (n # Len(q) => p[n] = q[n] /\ n < Len(q))
<1>1. Len(q) \in Nat /\ Len(q) > 0 /\ DOMAIN q = 1 .. Len(q)
  OBVIOUS
<1> QED
  BY <1>1

LEMMA TopIs ==
    ASSUME LifeTypeOK, stack # <<>>
    PROVE  Len(stack) \in DOMAIN stack /\ Top = stack[Len(stack)] /\ Top \in FrameSet
<1>1. stack \in Seq(FrameSet) /\ Len(stack) \in DOMAIN stack
  BY DEF LifeTypeOK
<1> QED
  BY <1>1 DEF Top

-----------------------------------------------------------------------------
(* Operations under way that stay good. *)
LEMMA GoodKept ==
    ASSUME NEW f, NEW L, NEW C, Good(f, L, C), NEW M, NEW D,
           f.entity \in M,
           f.component # "none" => f.entity \in D[f.component],
           f.op = "destroy" => \A c \in Component : f.entity \in D[c] => f.entity \in C[c]
    PROVE  Good(f, M, D)
BY DEF Good

LEMMA PushGood ==
    ASSUME NEW L, NEW C, NEW q \in Seq(FrameSet), AllGood(q, L, C),
           NEW f \in FrameSet, Good(f, L, C), NEW p, p = Append(q, f)
    PROVE  AllGood(p, L, C)
BY PushSeq DEF AllGood

LEMMA SetTopGood ==
    ASSUME NEW L, NEW C, NEW q \in Seq(FrameSet), q # <<>>,
           \A n \in DOMAIN q : n # Len(q) => Good(q[n], L, C),
           NEW f \in FrameSet, Good(f, L, C), NEW p, p = [q EXCEPT ![Len(q)] = f]
    PROVE  AllGood(p, L, C)
BY SetTopSeq DEF AllGood

LEMMA PopGood ==
    ASSUME NEW L, NEW C, NEW q \in Seq(FrameSet), q # <<>>,
           \A n \in DOMAIN q : n # Len(q) => Good(q[n], L, C),
           NEW p, p = SubSeq(q, 1, Len(q) - 1)
    PROVE  AllGood(p, L, C)
BY PopSeq DEF AllGood

LEMMA PushApart ==
    ASSUME NEW q \in Seq(FrameSet), Apart(q), NEW f \in FrameSet,
           \A m \in DOMAIN q : q[m].entity = f.entity =>
                                  f.op # "destroy" /\ q[m].component # f.component,
           NEW p, p = Append(q, f)
    PROVE  Apart(p)
<1>1. PICK k : /\ k \notin DOMAIN q /\ DOMAIN p = DOMAIN q \cup {k} /\ p[k] = f
               /\ \A n \in DOMAIN q : p[n] = q[n] /\ n \in Nat /\ n < k
  BY PushSeq
<1>2. ASSUME NEW m \in DOMAIN p, NEW n \in DOMAIN p, m < n, p[m].entity = p[n].entity
      PROVE  p[n].op # "destroy" /\ p[m].component # p[n].component
  <2>1. CASE n \in DOMAIN q /\ m \in DOMAIN q
    BY <1>1, <1>2, <2>1 DEF Apart
  <2>2. CASE n = k /\ m \in DOMAIN q
    BY <1>1, <1>2, <2>2
  <2>3. CASE m = k
    <3>1. k \in Nat /\ Len(q) \in Nat
      <4>1. p \in Seq(FrameSet)
        BY PushSeq
      <4> QED
        BY <1>1, <4>1
    <3> QED
      BY <1>1, <1>2, <2>3, <3>1
  <2> QED
    BY <1>1, <2>1, <2>2, <2>3
<1> QED
  BY <1>2 DEF Apart

LEMMA SetTopApart ==
    ASSUME NEW q \in Seq(FrameSet), q # <<>>, Apart(q), NEW f \in FrameSet,
           f.entity = q[Len(q)].entity, f.op = q[Len(q)].op,
           f.component = q[Len(q)].component \/ f.op = "destroy",
           NEW p, p = [q EXCEPT ![Len(q)] = f]
    PROVE  Apart(p)
<1>1. /\ Len(q) \in DOMAIN q /\ DOMAIN p = DOMAIN q /\ p[Len(q)] = f
      /\ \A n \in DOMAIN q : n \in Nat /\ (n # Len(q) => p[n] = q[n] /\ n < Len(q))
  BY SetTopSeq
<1>2. ASSUME NEW m \in DOMAIN q, NEW n \in DOMAIN q, m < n, p[m].entity = p[n].entity
      PROVE  p[n].op # "destroy" /\ p[m].component # p[n].component
  <2>1. m # Len(q)
    BY <1>1, <1>2
  <2> QED
    BY <1>1, <1>2, <2>1 DEF Apart
<1> QED
  BY <1>1, <1>2 DEF Apart

LEMMA PopApart ==
    ASSUME NEW q \in Seq(FrameSet), q # <<>>, Apart(q), NEW p, p = SubSeq(q, 1, Len(q) - 1)
    PROVE  Apart(p)
BY PopSeq DEF Apart
-----------------------------------------------------------------------------
(* What a listener believes. *)

(* A hook that is still to be called for f, or f removes the component. *)
Excuses(f, l, e) ==
    /\ f.entity = e /\ f.component = Mirrors[l]
    /\ f.op = "add" => Tells(f, l)

Contradicts(f, l, X) ==
    /\ f.op # "add" /\ f.component = Mirrors[l] /\ ~Tells(f, l)
    /\ f.entity \in X

LEMMA FollowsIs ==
    ASSUME NEW l, NEW X, NEW C, NEW q
    PROVE  Follows(l, X, C, q) <=>
              /\ X \subseteq C
              /\ \A e \in C : e \in X \/ \E n \in DOMAIN q : Excuses(q[n], l, e)
              /\ \A n \in DOMAIN q : ~Contradicts(q[n], l, X)
BY DEF Follows, Excuses, Contradicts

LEMMA FollowsTrivially ==
    ASSUME NEW l, NEW C, NEW q, \A n \in DOMAIN q : q[n].op = "add" \/ q[n].component # Mirrors[l]
    PROVE  Follows(l, C, C, q)
BY DEF Follows

(* A new operation: all that listen will be told. *)
LEMMA PushFollows ==
    ASSUME NEW l, NEW X, NEW C, NEW q \in Seq(FrameSet), Follows(l, X, C, q),
           NEW f \in FrameSet, f.component = Mirrors[l] => Tells(f, l),
           NEW D, C \subseteq D,
           \A e \in D \ C : f.entity = e /\ f.component = Mirrors[l],
           NEW p, p = Append(q, f)
    PROVE  Follows(l, X, D, p)
<1>1. PICK k : /\ k \notin DOMAIN q /\ DOMAIN p = DOMAIN q \cup {k} /\ p[k] = f
               /\ \A n \in DOMAIN q : p[n] = q[n] /\ n \in Nat /\ n < k
  BY PushSeq
<1>2. /\ X \subseteq C
      /\ \A e \in C : e \in X \/ \E n \in DOMAIN q : Excuses(q[n], l, e)
      /\ \A n \in DOMAIN q : ~Contradicts(q[n], l, X)
  BY FollowsIs
<1>3. ~Contradicts(f, l, X)
  BY DEF Contradicts
<1>4. ASSUME NEW e \in D PROVE e \in X \/ \E n \in DOMAIN p : Excuses(p[n], l, e)
  <2>1. CASE e \in C
    BY <1>1, <1>2, <2>1
  <2>2. CASE e \notin C
    <3>1. Excuses(f, l, e)
      BY <2>2 DEF Excuses
    <3> QED
      BY <1>1, <3>1
  <2> QED
    BY <2>1, <2>2
<1>5. \A n \in DOMAIN p : ~Contradicts(p[n], l, X)
  BY <1>1, <1>2, <1>3
<1> QED
  BY <1>2, <1>4, <1>5, FollowsIs

(* An operation ends once its hooks are called; a removal takes effect. *)
LEMMA PopFollows ==
    ASSUME NEW l, NEW X, NEW C, NEW q \in Seq(FrameSet), q # <<>>, Follows(l, X, C, q),
           NEW f, f = q[Len(q)], ~Tells(f, l),
           NEW D, D \subseteq C,
           f.op # "add" /\ f.component = Mirrors[l] => f.entity \notin D,
           \A e \in C : e \notin D => f.op # "add" /\ f.component = Mirrors[l] /\ e = f.entity,
           NEW p, p = SubSeq(q, 1, Len(q) - 1)
    PROVE  Follows(l, X, D, p)
<1>1. /\ Len(q) \in DOMAIN q /\ DOMAIN p = DOMAIN q \ {Len(q)}
      /\ \A n \in DOMAIN p : p[n] = q[n]
  BY PopSeq
<1>2. /\ X \subseteq C
      /\ \A e \in C : e \in X \/ \E n \in DOMAIN q : Excuses(q[n], l, e)
      /\ \A n \in DOMAIN q : ~Contradicts(q[n], l, X)
  BY FollowsIs
<1>3. ~Contradicts(f, l, X)
  BY <1>1, <1>2
<1>4. X \subseteq D
  BY <1>2, <1>3 DEF Contradicts
<1>5. ASSUME NEW e \in D PROVE e \in X \/ \E n \in DOMAIN p : Excuses(p[n], l, e)
  <2>1. ~Excuses(f, l, e)
    BY DEF Excuses
  <2>2. e \in C
    OBVIOUS
  <2> QED
    BY <1>1, <1>2, <2>1, <2>2
<1>6. \A n \in DOMAIN p : ~Contradicts(p[n], l, X)
  BY <1>1, <1>2
<1> QED
  BY <1>4, <1>5, <1>6, FollowsIs

(* The innermost operation goes on. *)
LEMMA SetTopFollows ==
    ASSUME NEW l, NEW X, NEW C, NEW q \in Seq(FrameSet), q # <<>>, Follows(l, X, C, q),
           NEW f, f = q[Len(q)], NEW g \in FrameSet, NEW Y, NEW D, Y \subseteq D, D \subseteq C,
           \A e \in D : e # f.entity => (e \in X <=> e \in Y),
           f.entity \in D /\ (f.entity \in X \/ Excuses(f, l, f.entity))
               => f.entity \in Y \/ Excuses(g, l, f.entity),
           f.entity \in Y /\ f.entity \notin X
               => \A n \in DOMAIN q : n # Len(q) => q[n].entity # f.entity
                                                    \/ q[n].component # Mirrors[l],
           ~Contradicts(g, l, Y),
           NEW p, p = [q EXCEPT ![Len(q)] = g]
    PROVE  Follows(l, Y, D, p)
<1>1. /\ Len(q) \in DOMAIN q /\ DOMAIN p = DOMAIN q /\ p[Len(q)] = g
      /\ \A n \in DOMAIN q : n # Len(q) => p[n] = q[n]
  BY SetTopSeq
<1>2. /\ X \subseteq C
      /\ \A e \in C : e \in X \/ \E n \in DOMAIN q : Excuses(q[n], l, e)
      /\ \A n \in DOMAIN q : ~Contradicts(q[n], l, X)
  BY FollowsIs
<1>3. ASSUME NEW e \in D PROVE e \in Y \/ \E n \in DOMAIN p : Excuses(p[n], l, e)
  <2>1. e \in X \/ \E n \in DOMAIN q : Excuses(q[n], l, e)
    BY <1>2
  <2>2. CASE e # f.entity
    <3>1. ~Excuses(f, l, e)
      BY <2>2 DEF Excuses
    <3> QED
      BY <1>1, <2>1, <2>2, <3>1
  <2>3. CASE e = f.entity
    BY <1>1, <2>1, <2>3
  <2> QED
    BY <2>2, <2>3
<1>4. ASSUME NEW n \in DOMAIN p PROVE ~Contradicts(p[n], l, Y)
  <2>1. CASE n = Len(q)
    BY <1>1, <2>1
  <2>2. CASE n # Len(q)
    <3>1. p[n] = q[n] /\ ~Contradicts(q[n], l, X)
      BY <1>1, <1>2, <2>2
    <3>2. CASE q[n].entity \in X
      BY <3>1, <3>2 DEF Contradicts
    <3>3. CASE q[n].entity \notin X
      BY <1>1, <2>2, <3>1, <3>3 DEF Contradicts
    <3> QED
      BY <3>2, <3>3
  <2> QED
    BY <2>1, <2>2
<1> QED
  BY <1>3, <1>4, FollowsIs
-----------------------------------------------------------------------------
(* Which entities are alive and which components they have.                *)
LEMMA HandleOf ==
    ASSUME NEW e \in Live
    PROVE  /\ e \in Entity /\ e.index \in Index /\ e.index \in Holding
           /\ Handle(e.index) = e
           /\ \A c \in Component : e \in Stock[c] <=> e.index \in has[c]
<1>1. e \in Entity /\ Alive(e)
  BY DEF Live
<1>2. e.index \in Index /\ e.index \in Holding /\ Slot(e.index).version = e.version
  BY <1>1 DEF Alive, Holding, Entity
<1>3. Handle(e.index) = e
  BY <1>1, <1>2 DEF Handle, Entity
<1>4. ASSUME NEW c \in Component PROVE e \in Stock[c] <=> e.index \in has[c]
  <2>1. Stock[c] = {Handle(i) : i \in has[c]}
    BY DEF Stock, Contents
  <2>2. \A i \in has[c] : Handle(i).index = i
    BY DEF Handle
  <2> QED
    BY <1>3, <2>1, <2>2
<1> QED
  BY <1>1, <1>2, <1>3, <1>4

LEMMA OnePerIndex ==
    ASSUME NEW e \in Live, NEW f \in Live, e.index = f.index
    PROVE  e = f
BY HandleOf

LEMMA NameLive ==
    ASSUME IInv, NEW h \in issued, Alive(h)
    PROVE  Name(h) \in Live /\ Name(h).index = h.index
<1>1. h.index \in Index /\ h.version \in Version
  BY DEF IInv, TypeOK
<1>2. Name(h) \in Entity /\ Name(h).index = h.index /\ Name(h).version = h.version
  BY <1>1 DEF Name, Entity
<1>3. Alive(Name(h))
  BY <1>2 DEF Alive
<1> QED
  BY <1>2, <1>3 DEF Live

(* Slot i is in use and a step leaves it so. *)
SlotKept(i) == i \in Holding' /\ Slot(i)' = Slot(i)

LEMMA StaysLive ==
    ASSUME issued \subseteq issued', NEW e \in Live, SlotKept(e.index)
    PROVE  e \in Live'
<1>1. PICK i, v : i = e.index /\ v = e.version
  OBVIOUS
<1>2. /\ e \in Entity /\ v # 0 /\ Slot(i).version = v
      /\ \E t \in issued : e = Name(t)
  BY <1>1 DEF Live, Alive
<1>3. i \in Indices' /\ Holds(i)' /\ Slot(i)' = Slot(i)
  BY <1>1 DEF SlotKept, Holding
<1>4. Alive(e)'
  BY <1>1, <1>2, <1>3 DEF Alive
<1>5. \E t \in issued' : e = Name(t)
  BY <1>2
<1>6. (\E t \in issued : e = Name(t))'
  BY <1>5 DEF Name
<1> QED
  BY <1>2, <1>4, <1>6 DEF Live, Entity, Index, Version

LEMMA StockKept ==
    ASSUME has' = has, \A c \in Component : \A i \in has[c] : SlotKept(i)
    PROVE  Stock' = Stock
<1>1. ASSUME NEW c \in Component PROVE Contents(c)' = Contents(c)
  <2>1. \A i \in has[c] : Handle(i)' = Handle(i)
    BY DEF Handle, SlotKept
  <2> QED
    BY <2>1 DEF Contents
<1> QED
  BY <1>1 DEF Stock

LEMMA SlotsUnchanged ==
    ASSUME UNCHANGED storeVars
    PROVE  /\ Live' = Live /\ Holding' = Holding /\ (IInv <=> IInv')
           /\ (has' = has => Stock' = Stock)
<1>1. UNCHANGED <<slots, free_head, freed, epoch, issued, peak>>
  BY DEF storeVars, vars
<1>2. Holding' = Holding /\ \A i : Slot(i)' = Slot(i)
  BY <1>1 DEF Holding, Holds, Indices, Slot
<1>3. Live' = Live
  BY <1>1 DEF Live, Alive, Holds, Indices, Slot, Name, Entity, Index, Version
<1>4. has' = has => Stock' = Stock
  BY <1>1 DEF Stock, Contents, Handle, Slot
<1>5. IInv <=> IInv'
  BY <1>1 DEF IInv, TypeOK, FreeListIsStack, VersionFollowsEpoch, NoSlotWasted,
              Below, Holds, Indices, Slot, HandleHistory
<1> QED
  BY <1>2, <1>3, <1>4, <1>5

LEMMA CreatesKeeps ==
    ASSUME IInv, Creates
    PROVE  issued \subseteq issued' /\ \A i \in Holding : SlotKept(i)
<1>1. CASE Recycle
  <2>1. PICK i \in Indices :
            /\ ~Holds(i) /\ Holds(i)' /\ Slot(i)'.version = Slot(i).version
            /\ Indices' = Indices
            /\ \A m \in Indices : m # i => Slot(m)' = Slot(m)
    BY <1>1, RecycleSlots
  <2>2. ASSUME NEW m \in Holding PROVE SlotKept(m)
    <3>1. m \in Indices /\ Holds(m) /\ m # i
      BY <2>1 DEF Holding
    <3>2. Slot(m)' = Slot(m) /\ m \in Indices'
      BY <2>1, <3>1
    <3> QED
      BY <3>1, <3>2 DEF SlotKept, Holding, Holds
  <2> QED
    BY <1>1, <2>2 DEF Recycle, Issue
<1>2. CASE Grow
  <2>1. PICK i \in Index :
            /\ Indices' = Indices \cup {i} /\ i \notin Indices
            /\ Holds(i)' /\ Slot(i)'.version = 1
            /\ \A m \in Indices : Slot(m)' = Slot(m)
    BY <1>2, GrowSlots
  <2>2. ASSUME NEW m \in Holding PROVE SlotKept(m)
    <3>1. m \in Indices /\ Holds(m)
      BY DEF Holding
    <3>2. Slot(m)' = Slot(m) /\ m \in Indices'
      BY <2>1, <3>1
    <3> QED
      BY <3>1, <3>2 DEF SlotKept, Holding, Holds
  <2> QED
    BY <1>2, <2>2 DEF Grow, Issue
<1>3. CASE CreateThrows
  BY <1>3 DEF CreateThrows, vars, SlotKept, Holding, Holds, Indices, Slot
<1> QED
  BY <1>1, <1>2, <1>3 DEF Creates

LEMMA DestroyKeeps ==
    ASSUME IInv, NEW h \in issued, Destroy(h)
    PROVE  issued' = issued /\ \A i \in Holding : i # h.index => SlotKept(i)
<1>1. PICK i \in Indices :
          /\ i = h.index
          /\ Holds(i) /\ ~Holds(i)' /\ Indices' = Indices
          /\ \A m \in Indices : m # i => Slot(m)' = Slot(m)
  BY DestroySlots
<1>2. ASSUME NEW m \in Holding, m # h.index PROVE SlotKept(m)
  <2>1. m \in Indices' /\ Slot(m)' = Slot(m) /\ Holds(m)
    BY <1>1, <1>2 DEF Holding
  <2> QED
    BY <2>1 DEF SlotKept, Holding, Holds
<1> QED
  BY <1>2 DEF Destroy, Retire

(* A storage gains or loses one entity. *)
LEMMA StockGains ==
    ASSUME LifeTypeOK, UNCHANGED storeVars, NEW e \in Live, NEW c \in Component,
           has' = [has EXCEPT ![c] = @ \cup {e.index}]
    PROVE  Stock' = [Stock EXCEPT ![c] = @ \cup {e}]
<1>1. \A i : Handle(i)' = Handle(i)
  BY DEF storeVars, vars, Handle, Slot
<1>2. \A d \in Component : Contents(d)' = {Handle(i) : i \in has'[d]}
  BY <1>1 DEF Contents
<1>3. has'[c] = has[c] \cup {e.index} /\ \A d \in Component \ {c} : has'[d] = has[d]
  BY DEF LifeTypeOK
<1>4. Contents(c)' = Contents(c) \cup {e}
  <2>1. e = Handle(e.index)
    BY HandleOf
  <2>2. Contents(c)' = {Handle(i) : i \in has[c] \cup {e.index}}
    BY <1>2, <1>3
  <2> QED
    BY <2>1, <2>2 DEF Contents
<1>5. \A d \in Component \ {c} : Contents(d)' = Contents(d)
  BY <1>2, <1>3 DEF Contents
<1> QED
  BY <1>4, <1>5 DEF Stock

LEMMA StockLoses ==
    ASSUME LifeTypeOK, UNCHANGED storeVars, NEW e \in Live, NEW c \in Component,
           has' = [has EXCEPT ![c] = @ \ {e.index}]
    PROVE  Stock' = [Stock EXCEPT ![c] = @ \ {e}]
<1>1. \A i : Handle(i)' = Handle(i) /\ Handle(i).index = i
  BY DEF storeVars, vars, Handle, Slot
<1>2. \A d \in Component : Contents(d)' = {Handle(i) : i \in has'[d]}
  BY <1>1 DEF Contents
<1>3. has'[c] = has[c] \ {e.index} /\ \A d \in Component \ {c} : has'[d] = has[d]
  BY DEF LifeTypeOK
<1>4. Contents(c)' = Contents(c) \ {e}
  <2>1. e = Handle(e.index)
    BY HandleOf
  <2>2. \A i : i # e.index => Handle(i) # e
    BY <1>1
  <2> QED
    BY <1>2, <1>3, <2>1, <2>2 DEF Contents
<1>5. \A d \in Component \ {c} : Contents(d)' = Contents(d)
  BY <1>2, <1>3 DEF Contents
<1> QED
  BY <1>4, <1>5 DEF Stock
-----------------------------------------------------------------------------
(* One lemma per operation.                                                *)
Rest == LifeTypeOK /\ NoComponentOutlivesEntity /\ FramesOK /\ MirrorsFollow

LEMMA LInvParts ==
    ASSUME LInv
    PROVE  /\ IInv /\ LifeTypeOK /\ NoComponentOutlivesEntity
           /\ AllGood(stack, Live, Stock) /\ Apart(stack) /\ MirrorsFollow
           /\ stack \in Seq(FrameSet) /\ hooks \in [Component -> Seq(Listener)]
           /\ \A n \in DOMAIN stack : stack[n] \in FrameSet /\ Good(stack[n], Live, Stock)
           /\ \A l \in Listener : Mirrors[l] \in Component
BY MirrorsAssumption DEF LInv, FramesOK, LifeTypeOK, AllGood

LEMMA CreatesInv ==
    ASSUME LInv, Creates
    PROVE  Rest'
<1>1. UNCHANGED <<has, hooks, stack, mirror>>
  BY DEF Creates, lifeVars
<1>2. issued \subseteq issued' /\ \A i \in Holding : SlotKept(i)
  BY LInvParts, CreatesKeeps
<1>3. \A c \in Component : \A i \in has[c] : i \in Holding
  BY DEF LInv, NoComponentOutlivesEntity
<1>4. Stock' = Stock
  BY <1>1, <1>2, <1>3, StockKept
<1>5. \A e \in Live : e \in Live'
  BY <1>2, StaysLive, HandleOf
<1>6. LifeTypeOK'
  BY <1>1 DEF LInv, LifeTypeOK, Entity, Index, Version, FrameSet
<1>7. NoComponentOutlivesEntity'
  BY <1>1, <1>2, <1>3 DEF NoComponentOutlivesEntity, SlotKept
<1>8. AllGood(stack, Live', Stock)
  BY <1>5, LInvParts, GoodKept DEF AllGood, Good
<1>9. FramesOK'
  BY <1>1, <1>4, <1>8, LInvParts DEF FramesOK
<1>10. MirrorsFollow'
  BY <1>1, <1>4, LInvParts DEF MirrorsFollow, Subscribed
<1> QED
  BY <1>6, <1>7, <1>9, <1>10 DEF Rest

LEMMA FrameType ==
    ASSUME NEW h, Name(h) \in Entity, NEW op \in {"add", "remove", "destroy"},
           NEW c \in Component \cup {"none"}, NEW calls \in Seq(Listener),
           NEW todo \in SUBSET Component
    PROVE  /\ Frame(op, h, c, calls, todo) \in FrameSet
           /\ Frame(op, h, c, calls, todo).op = op
           /\ Frame(op, h, c, calls, todo).entity = Name(h)
           /\ Frame(op, h, c, calls, todo).component = c
           /\ Frame(op, h, c, calls, todo).calls = calls
           /\ Frame(op, h, c, calls, todo).todo = todo
BY DEF Frame, FrameSet

(* A frame that calls all the hooks of component c tells who subscribed. *)
LEMMA HooksTell ==
    ASSUME LifeTypeOK, NEW c \in Component, NEW f, f.component = c, f.calls = hooks[c]
    PROVE  /\ \A k \in DOMAIN f.calls : Mirrors[f.calls[k]] = f.component
           /\ \A l \in Listener : Subscribed(l) /\ f.component = Mirrors[l] => Tells(f, l)
BY DEF LifeTypeOK, Subscribed, Tells

LEMMA AddInv ==
    ASSUME LInv, Careful, NEW h \in issued, NEW c \in Component, Add(h, c)
    PROVE  Rest'
<1>1. /\ Alive(h) /\ has' = [has EXCEPT ![c] = @ \cup {h.index}]
      /\ UNCHANGED storeVars /\ hooks' = hooks /\ mirror' = mirror
  BY DEF Add
<1>2. PICK e : e = Name(h)
  OBVIOUS
<1>3. /\ e \in Live /\ e.index = h.index /\ e \in Entity /\ h.index \in Index
      /\ h.index \in Holding /\ (e \in Stock[c] <=> h.index \in has[c])
  BY <1>1, <1>2, LInvParts, NameLive, HandleOf
<1>4. Live' = Live /\ Holding' = Holding
  BY <1>1, SlotsUnchanged
<1>5. PICK S : S = [Stock EXCEPT ![c] = @ \cup {e}]
  OBVIOUS
<1>6. Stock' = S
  BY <1>1, <1>3, <1>5, LInvParts, StockGains
<1>7. /\ S[c] = Stock[c] \cup {e}
      /\ \A d \in Component : Stock[d] \subseteq S[d] /\ (d # c => S[d] = Stock[d])
  BY <1>5 DEF Stock
<1>8. \A n \in DOMAIN stack : stack[n].op = "destroy" => stack[n].entity # e
  BY <1>3 DEF Add, MayAdd, Under
<1>9. AllGood(stack, Live, S)
  <2>1. ASSUME NEW n \in DOMAIN stack PROVE Good(stack[n], Live, S)
    <3>1. PICK f : f = stack[n]
      OBVIOUS
    <3>2. Good(f, Live, Stock) /\ f \in FrameSet /\ (f.op = "destroy" => f.entity # e)
      BY <1>8, <3>1, LInvParts
    <3>3. f.entity \in Live /\ (f.component # "none" => f.entity \in S[f.component])
      BY <1>7, <3>2 DEF Good, FrameSet
    <3>4. f.op = "destroy" => \A d \in Component : f.entity \in S[d] => f.entity \in Stock[d]
      BY <1>7, <3>2
    <3>5. Good(f, Live, S)
      BY <3>2, <3>3, <3>4, GoodKept
    <3> QED
      BY <3>1, <3>5
  <2> QED
    BY <2>1 DEF AllGood
<1>10. NoComponentOutlivesEntity'
  BY <1>1, <1>3, <1>4 DEF NoComponentOutlivesEntity, LInv, LifeTypeOK
<1>11. has' \in [Component -> SUBSET Index]
  BY <1>1, <1>3 DEF LInv, LifeTypeOK
<1>12. CASE h.index \in has[c] \/ hooks[c] = <<>>
  <2>1. stack' = stack
    BY <1>12 DEF Add
  <2>2. LifeTypeOK'
    BY <1>1, <1>11, <2>1 DEF LInv, LifeTypeOK
  <2>3. FramesOK'
    BY <1>4, <1>6, <1>9, <2>1, LInvParts DEF FramesOK
  <2>4. ASSUME NEW l \in Listener, Subscribed(l) PROVE S[Mirrors[l]] = Stock[Mirrors[l]]
    <3>1. Mirrors[l] = c => hooks[c] # <<>>
      BY <2>4 DEF Subscribed
    <3> QED
      BY <1>3, <1>7, <1>12, <3>1, LInvParts
  <2>5. MirrorsFollow'
    BY <1>1, <1>6, <2>1, <2>4, LInvParts DEF MirrorsFollow, Subscribed
  <2> QED
    BY <1>10, <2>2, <2>3, <2>5 DEF Rest
<1>13. CASE h.index \notin has[c] /\ hooks[c] # <<>>
  <2>1. PICK f : f = Frame("add", h, c, hooks[c], {})
    OBVIOUS
  <2>2. stack' = Append(stack, f)
    BY <1>13, <2>1 DEF Add, Push
  <2>3. /\ f \in FrameSet /\ f.op = "add" /\ f.entity = e /\ f.component = c
        /\ f.calls = hooks[c]
    BY <1>2, <1>3, <2>1, LInvParts, FrameType
  <2>4. /\ \A k \in DOMAIN f.calls : Mirrors[f.calls[k]] = f.component
        /\ \A l \in Listener : Subscribed(l) /\ f.component = Mirrors[l] => Tells(f, l)
    BY <2>3, LInvParts, HooksTell
  <2>5. Good(f, Live, S)
    BY <1>3, <1>7, <2>3, <2>4 DEF Good
  <2>6. \A m \in DOMAIN stack : stack[m].entity = e => stack[m].component # c
    BY <1>3, <1>13, LInvParts, ComponentAssumption DEF Good
  <2>7. FramesOK'
    <3>1. AllGood(stack', Live, S)
      BY <1>9, <2>2, <2>3, <2>5, LInvParts, PushGood
    <3>2. Apart(stack')
      BY <2>2, <2>3, <2>6, LInvParts, PushApart
    <3> QED
      BY <1>4, <1>6, <3>1, <3>2 DEF FramesOK
  <2>8. LifeTypeOK'
    <3>1. stack' \in Seq(FrameSet)
      BY <2>2, <2>3, LInvParts, PushSeq
    <3> QED
      BY <1>1, <1>11, <3>1 DEF LInv, LifeTypeOK
  <2>9. ASSUME NEW l \in Listener, Subscribed(l)
        PROVE  Follows(l, mirror[l], S[Mirrors[l]], stack')
    <3>1. Follows(l, mirror[l], Stock[Mirrors[l]], stack)
      BY <2>9, LInvParts DEF MirrorsFollow
    <3>2. /\ Stock[Mirrors[l]] \subseteq S[Mirrors[l]]
          /\ \A x \in S[Mirrors[l]] \ Stock[Mirrors[l]] : f.entity = x /\ f.component = Mirrors[l]
      BY <1>7, <2>3, LInvParts
    <3> QED
      BY <2>2, <2>3, <2>4, <2>9, <3>1, <3>2, LInvParts, PushFollows
  <2>10. MirrorsFollow'
    BY <1>1, <1>6, <2>9 DEF MirrorsFollow, Subscribed
  <2> QED
    BY <1>10, <2>7, <2>8, <2>10 DEF Rest
<1> QED
  BY <1>12, <1>13
(* A step that pushes a frame and changes nothing else. *)
LEMMA PushInv ==
    ASSUME LInv, UNCHANGED <<storeVars, has, hooks, mirror>>,
           NEW f \in FrameSet, stack' = Append(stack, f), Good(f, Live, Stock),
           \A m \in DOMAIN stack : stack[m].entity = f.entity =>
                                      f.op # "destroy" /\ stack[m].component # f.component,
           \A l \in Listener : Subscribed(l) /\ f.component = Mirrors[l] => Tells(f, l)
    PROVE  Rest'
<1>1. UNCHANGED storeVars /\ has' = has /\ hooks' = hooks /\ mirror' = mirror
  OBVIOUS
<1>2. Live' = Live /\ Holding' = Holding /\ Stock' = Stock
  BY <1>1, SlotsUnchanged
<1>3. stack' \in Seq(FrameSet)
  BY LInvParts, PushSeq
<1>4. LifeTypeOK'
  BY <1>1, <1>3 DEF LInv, LifeTypeOK
<1>5. NoComponentOutlivesEntity'
  BY <1>1, <1>2 DEF LInv, NoComponentOutlivesEntity
<1>6. AllGood(stack', Live, Stock) /\ Apart(stack')
  BY LInvParts, PushGood, PushApart
<1>7. ASSUME NEW l \in Listener, Subscribed(l)
      PROVE  Follows(l, mirror[l], Stock[Mirrors[l]], stack')
  <2>1. Follows(l, mirror[l], Stock[Mirrors[l]], stack)
    BY <1>7, LInvParts DEF MirrorsFollow
  <2>2. PICK C : C = Stock[Mirrors[l]]
    OBVIOUS
  <2>3. C \subseteq C /\ \A x \in C \ C : f.entity = x /\ f.component = Mirrors[l]
    OBVIOUS
  <2>4. Follows(l, mirror[l], C, stack')
    BY <1>7, <2>1, <2>2, <2>3, LInvParts, PushFollows
  <2> QED
    BY <2>2, <2>4
<1>8. MirrorsFollow'
  BY <1>1, <1>2, <1>7 DEF MirrorsFollow, Subscribed
<1> QED
  BY <1>2, <1>4, <1>5, <1>6, <1>8 DEF Rest, FramesOK

LEMMA RemoveInv ==
    ASSUME LInv, Careful, NEW h \in issued, NEW c \in Component, Remove(h, c)
    PROVE  Rest'
<1>1. PICK f, e : f = Frame("remove", h, c, hooks[c], {}) /\ e = Name(h)
  OBVIOUS
<1>2. /\ Alive(h) /\ h.index \in has[c] /\ UNCHANGED <<storeVars, has, hooks, mirror>>
      /\ stack' = Append(stack, f)
      /\ \A n \in DOMAIN stack : ~(stack[n].entity.index = h.index /\ stack[n].component = c)
  BY <1>1 DEF Remove, Push, MayRemove, At
<1>3. e \in Live /\ e.index = h.index /\ e \in Entity /\ e \in Stock[c]
  BY <1>1, <1>2, LInvParts, NameLive, HandleOf
<1>4. /\ f \in FrameSet /\ f.op = "remove" /\ f.entity = e /\ f.component = c
      /\ f.calls = hooks[c]
  BY <1>1, <1>3, LInvParts, FrameType
<1>5. /\ \A k \in DOMAIN f.calls : Mirrors[f.calls[k]] = f.component
      /\ \A l \in Listener : Subscribed(l) /\ f.component = Mirrors[l] => Tells(f, l)
  BY <1>4, LInvParts, HooksTell
<1>6. Good(f, Live, Stock)
  BY <1>3, <1>4, <1>5 DEF Good
<1>7. \A m \in DOMAIN stack : stack[m].entity = f.entity =>
                                 f.op # "destroy" /\ stack[m].component # f.component
  BY <1>2, <1>3, <1>4
<1> QED
  BY <1>2, <1>4, <1>5, <1>6, <1>7, PushInv

LEMMA BeginDestroyInv ==
    ASSUME LInv, Careful, NEW h \in issued, BeginDestroy(h)
    PROVE  Rest'
<1>1. PICK f, e : f = Frame("destroy", h, "none", <<>>, Held(h)) /\ e = Name(h)
  OBVIOUS
<1>2. /\ Alive(h) /\ UNCHANGED <<storeVars, has, hooks, mirror>>
      /\ stack' = Append(stack, f)
      /\ \A n \in DOMAIN stack : stack[n].entity.index # h.index
  BY <1>1 DEF BeginDestroy, Push, MayDestroy
<1>3. e \in Live /\ e.index = h.index /\ e \in Entity
  BY <1>1, <1>2, LInvParts, NameLive, HandleOf
<1>4. /\ f \in FrameSet /\ f.op = "destroy" /\ f.entity = e /\ f.component = "none"
      /\ f.calls = <<>> /\ f.todo = Held(h)
  <2>1. PICK T, q, o, c : T = Held(h) /\ q = <<>> /\ o = "destroy" /\ c = "none"
    OBVIOUS
  <2>2. /\ T \in SUBSET Component /\ q \in Seq(Listener)
        /\ o \in {"add", "remove", "destroy"} /\ c \in Component \cup {"none"}
        /\ Name(h) \in Entity /\ f = Frame(o, h, c, q, T)
    BY <1>1, <1>3, <2>1 DEF Held
  <2>3. /\ f \in FrameSet /\ f.op = o /\ f.entity = e /\ f.component = c
        /\ f.calls = q /\ f.todo = T
    BY <1>1, <2>2, FrameType
  <2> QED
    BY <2>1, <2>3
<1>5. \A c \in Component : e \in Stock[c] => c \in f.todo
  BY <1>3, <1>4, HandleOf DEF Held
<1>6. Good(f, Live, Stock)
  BY <1>3, <1>4, <1>5 DEF Good
<1>7. \A m \in DOMAIN stack : stack[m].entity = f.entity =>
                                 f.op # "destroy" /\ stack[m].component # f.component
  BY <1>2, <1>3, <1>4
<1>8. \A l \in Listener : Subscribed(l) /\ f.component = Mirrors[l] => Tells(f, l)
  BY <1>4, LInvParts, ComponentAssumption
<1> QED
  BY <1>2, <1>4, <1>6, <1>7, <1>8, PushInv

LEMMA AttachInv ==
    ASSUME LInv, NEW l \in Listener, Attach(l)
    PROVE  Rest'
<1>1. PICK c : c = Mirrors[l]
  OBVIOUS
<1>2. /\ UNCHANGED storeVars /\ has' = has /\ stack' = stack
      /\ hooks' = [hooks EXCEPT ![c] = Append(@, l)]
      /\ mirror' = [mirror EXCEPT ![l] = Contents(c)]
      /\ \A n \in DOMAIN stack : stack[n].op = "add" \/ stack[n].component # c
      /\ c \in Component
  BY <1>1, LInvParts DEF Attach
<1>3. Live' = Live /\ Holding' = Holding /\ Stock' = Stock
  BY <1>2, SlotsUnchanged
<1>4. Contents(c) \in SUBSET Entity
  <2>1. \A i \in has[c] : i \in Index /\ i \in Indices
    BY <1>2, LInvParts DEF LifeTypeOK, NoComponentOutlivesEntity, Holding
  <2>2. \A i \in Indices : Slot(i).version \in Version
    <3>1. slots \in Seq(SlotRecord)
      BY LInvParts DEF IInv, TypeOK, SlotRecord
    <3>2. \A i \in Indices : i + 1 \in 1 .. Len(slots)
      BY <3>1 DEF Indices
    <3>3. \A k \in 1 .. Len(slots) : slots[k] \in SlotRecord
      BY <3>1
    <3>4. \A x \in SlotRecord : x.version \in Version
      BY DEF SlotRecord
    <3> QED
      BY <3>2, <3>3, <3>4 DEF Slot
  <2> QED
    BY <2>1, <2>2 DEF Contents, Handle, Entity
<1>5. /\ hooks' \in [Component -> Seq(Listener)]
      /\ \A d \in Component : \A n \in DOMAIN hooks'[d] : Mirrors[hooks'[d][n]] = d
      /\ \A m \in Listener : m # l /\ Subscribed(m)' => Subscribed(m)
  <2>1. hooks[c] \in Seq(Listener)
    BY <1>2, LInvParts
  <2>2. PICK q : q = Append(hooks[c], l)
    OBVIOUS
  <2>3. hooks' = [hooks EXCEPT ![c] = q]
    BY <1>2, <2>2
  <2>4. /\ q \in Seq(Listener)
        /\ \A n \in DOMAIN q : q[n] = l \/ (n \in DOMAIN hooks[c] /\ q[n] = hooks[c][n])
    BY <2>1, <2>2, PushSeq
  <2>5. hooks'[c] = q /\ \A d \in Component \ {c} : hooks'[d] = hooks[d]
    BY <1>2, <2>3, LInvParts
  <2>6. ASSUME NEW d \in Component, NEW n \in DOMAIN hooks'[d] PROVE Mirrors[hooks'[d][n]] = d
    <3>1. \A k \in DOMAIN hooks[d] : Mirrors[hooks[d][k]] = d
      BY LInvParts DEF LifeTypeOK
    <3>2. CASE d = c
      BY <1>1, <2>4, <2>5, <3>1, <3>2
    <3>3. CASE d # c
      BY <2>5, <3>1, <3>3
    <3> QED
      BY <3>2, <3>3
  <2>7. ASSUME NEW m \in Listener, m # l, Subscribed(m)' PROVE Subscribed(m)
    <3>1. \E n \in DOMAIN hooks'[Mirrors[m]] : hooks'[Mirrors[m]][n] = m
      BY <2>7 DEF Subscribed
    <3>2. \E n \in DOMAIN hooks[Mirrors[m]] : hooks[Mirrors[m]][n] = m
      BY <2>4, <2>5, <2>7, <3>1, LInvParts
    <3> QED
      BY <3>2 DEF Subscribed
  <2> QED
    BY <1>2, <2>3, <2>4, <2>6, <2>7, LInvParts
<1>6. mirror' \in [Listener -> SUBSET Entity]
  BY <1>2, <1>4, LInvParts DEF LifeTypeOK
<1>7. LifeTypeOK'
  BY <1>2, <1>5, <1>6, LInvParts DEF LifeTypeOK
<1>8. NoComponentOutlivesEntity' /\ FramesOK'
  BY <1>2, <1>3, LInvParts DEF NoComponentOutlivesEntity, FramesOK
<1>9. ASSUME NEW m \in Listener, Subscribed(m)'
      PROVE  Follows(m, mirror'[m], Stock[Mirrors[m]], stack)
  <2>1. CASE m = l
    <3>1. mirror'[l] = Stock[c]
      BY <1>2, LInvParts DEF LifeTypeOK, Stock
    <3> QED
      BY <1>1, <1>2, <2>1, <3>1, FollowsTrivially
  <2>2. CASE m # l
    <3>1. mirror'[m] = mirror[m]
      BY <1>2, <2>2, LInvParts DEF LifeTypeOK
    <3> QED
      BY <1>5, <1>9, <2>2, <3>1, LInvParts DEF MirrorsFollow
  <2> QED
    BY <2>1, <2>2
<1>10. MirrorsFollow'
  BY <1>2, <1>3, <1>9 DEF MirrorsFollow
<1> QED
  BY <1>7, <1>8, <1>10 DEF Rest

LEMMA SeqElements ==
    ASSUME NEW R, NEW S, NEW p \in Seq(R), R \subseteq S
    PROVE  p \in Seq(S) /\ \A k \in DOMAIN p : p[k] \in R
OBVIOUS

(* One element of a sequence goes. *)
Cut(q, n) == SubSeq(q, 1, n - 1) \o SubSeq(q, n + 1, Len(q))

LEMMA CutSeq ==
    ASSUME NEW S, NEW q \in Seq(S), NEW n \in DOMAIN q
    PROVE  Cut(q, n) \in Seq(S) /\ \A k \in DOMAIN Cut(q, n) : \E j \in DOMAIN q : Cut(q, n)[k] = q[j]
<1>1. PICK R : R = {q[j] : j \in DOMAIN q}
  OBVIOUS
<1>2. /\ n \in Nat /\ n >= 1 /\ n <= Len(q) /\ Len(q) \in Nat /\ DOMAIN q = 1 .. Len(q)
      /\ \A j \in 1 .. Len(q) : q[j] \in S
  OBVIOUS
<1>3. R \subseteq S /\ \A j \in 1 .. Len(q) : q[j] \in R
  BY <1>1, <1>2
<1>4. SubSeq(q, 1, n - 1) \in Seq(R)
  <2>1. 1 \in Int /\ n - 1 \in Int /\ \A j \in 1 .. n - 1 : q[j] \in R
    BY <1>2, <1>3
  <2> QED
    BY <2>1, SubSeqProperties
<1>5. SubSeq(q, n + 1, Len(q)) \in Seq(R)
  <2>1. n + 1 \in Int /\ Len(q) \in Int /\ \A j \in n + 1 .. Len(q) : q[j] \in R
    BY <1>2, <1>3
  <2> QED
    BY <2>1, SubSeqProperties
<1>6. Cut(q, n) \in Seq(R)
  BY <1>4, <1>5, ConcatProperties DEF Cut
<1>7. Cut(q, n) \in Seq(S) /\ \A k \in DOMAIN Cut(q, n) : Cut(q, n)[k] \in R
  BY <1>3, <1>6, SeqElements
<1> QED
  BY <1>1, <1>7

LEMMA DetachInv ==
    ASSUME LInv, NEW l \in Listener, Detach(l)
    PROVE  Rest'
<1>1. PICK c : c = Mirrors[l]
  OBVIOUS
<1>2. UNCHANGED storeVars /\ has' = has /\ stack' = stack /\ mirror' = mirror /\ c \in Component
  BY <1>1, LInvParts DEF Detach
<1>3. Live' = Live /\ Holding' = Holding /\ Stock' = Stock
  BY <1>2, SlotsUnchanged
<1>4. PICK n \in DOMAIN hooks[c] :
          hooks' = [hooks EXCEPT ![c] = SubSeq(@, 1, n - 1) \o SubSeq(@, n + 1, Len(@))]
  BY <1>1 DEF Detach
<1>5. /\ hooks' \in [Component -> Seq(Listener)]
      /\ \A d \in Component : \A k \in DOMAIN hooks'[d] : Mirrors[hooks'[d][k]] = d
      /\ \A m \in Listener : Subscribed(m)' => Subscribed(m)
  <2>1. hooks[c] \in Seq(Listener)
    BY <1>2, LInvParts
  <2>2. PICK q : q = Cut(hooks[c], n)
    OBVIOUS
  <2>3. hooks' = [hooks EXCEPT ![c] = q]
    BY <1>4, <2>2 DEF Cut
  <2>4. q \in Seq(Listener) /\ \A k \in DOMAIN q : \E j \in DOMAIN hooks[c] : q[k] = hooks[c][j]
    BY <2>1, <2>2, CutSeq
  <2>5. hooks'[c] = q /\ \A d \in Component \ {c} : hooks'[d] = hooks[d]
    BY <1>2, <2>3, LInvParts
  <2>6. ASSUME NEW d \in Component, NEW k \in DOMAIN hooks'[d] PROVE Mirrors[hooks'[d][k]] = d
    BY <2>4, <2>5, <2>6, LInvParts DEF LifeTypeOK
  <2>7. ASSUME NEW m \in Listener, Subscribed(m)' PROVE Subscribed(m)
    <3>1. \E k \in DOMAIN hooks'[Mirrors[m]] : hooks'[Mirrors[m]][k] = m
      BY <2>7 DEF Subscribed
    <3>2. \E k \in DOMAIN hooks[Mirrors[m]] : hooks[Mirrors[m]][k] = m
      <4>1. CASE Mirrors[m] = c
        BY <2>4, <2>5, <3>1, <4>1
      <4>2. CASE Mirrors[m] # c
        BY <2>5, <3>1, <4>2, LInvParts
      <4> QED
        BY <4>1, <4>2
    <3> QED
      BY <3>2 DEF Subscribed
  <2> QED
    BY <1>2, <2>3, <2>4, <2>6, <2>7, LInvParts
<1>6. LifeTypeOK'
  BY <1>2, <1>5, LInvParts DEF LifeTypeOK
<1>7. NoComponentOutlivesEntity' /\ FramesOK'
  BY <1>2, <1>3, LInvParts DEF NoComponentOutlivesEntity, FramesOK
<1>8. MirrorsFollow'
  BY <1>2, <1>3, <1>5, LInvParts DEF MirrorsFollow
<1> QED
  BY <1>6, <1>7, <1>8 DEF Rest
(* The innermost operation goes on and the storages stay as they are. *)
LEMMA SetTopInv ==
    ASSUME LInv, UNCHANGED <<storeVars, has, hooks>>, stack # <<>>,
           NEW g \in FrameSet, stack' = [stack EXCEPT ![Len(stack)] = g],
           g.entity = Top.entity, g.op = Top.op,
           g.component = Top.component \/ g.op = "destroy",
           Good(g, Live, Stock), mirror' \in [Listener -> SUBSET Entity],
           \A l \in Listener :
              Subscribed(l) => Follows(l, mirror'[l], Stock[Mirrors[l]], stack')
    PROVE  Rest'
<1>1. UNCHANGED storeVars /\ has' = has /\ hooks' = hooks
  OBVIOUS
<1>2. Live' = Live /\ Holding' = Holding /\ Stock' = Stock
  BY <1>1, SlotsUnchanged
<1>3. Top = stack[Len(stack)]
  BY LInvParts, TopIs
<1>4. stack' \in Seq(FrameSet)
  BY LInvParts, SetTopSeq
<1>5. LifeTypeOK'
  BY <1>1, <1>4 DEF LInv, LifeTypeOK, Entity, Index, Version
<1>6. NoComponentOutlivesEntity'
  BY <1>1, <1>2 DEF LInv, NoComponentOutlivesEntity
<1>7. AllGood(stack', Live, Stock)
  BY LInvParts, SetTopGood
<1>8. Apart(stack')
  BY <1>3, LInvParts, SetTopApart
<1>9. MirrorsFollow'
  BY <1>1, <1>2 DEF MirrorsFollow, Subscribed
<1> QED
  BY <1>2, <1>5, <1>6, <1>7, <1>8, <1>9 DEF Rest, FramesOK

(* What is known of the innermost operation. *)
LEMMA TopFacts ==
    ASSUME LInv, stack # <<>>
    PROVE  /\ Len(stack) \in DOMAIN stack /\ Top = stack[Len(stack)] /\ Top \in FrameSet
           /\ Good(Top, Live, Stock)
           /\ \A n \in DOMAIN stack : n # Len(stack) /\ stack[n].entity = Top.entity =>
                 stack[n].component # Top.component /\ Top.op # "destroy"
           /\ \A l \in Listener : Subscribed(l) => ~Contradicts(Top, l, mirror[l])
<1>1. Len(stack) \in DOMAIN stack /\ Top = stack[Len(stack)] /\ Top \in FrameSet
  BY LInvParts, TopIs
<1>2. \A n \in DOMAIN stack : n \in Nat /\ n <= Len(stack)
  BY LInvParts
<1>3. ASSUME NEW n \in DOMAIN stack, n # Len(stack), stack[n].entity = Top.entity
      PROVE  stack[n].component # Top.component /\ Top.op # "destroy"
  <2>1. n < Len(stack)
    BY <1>1, <1>2, <1>3
  <2> QED
    BY <1>1, <1>3, <2>1, LInvParts DEF Apart
<1>4. ASSUME NEW l \in Listener, Subscribed(l) PROVE ~Contradicts(Top, l, mirror[l])
  <2>1. Follows(l, mirror[l], Stock[Mirrors[l]], stack)
    BY <1>4, LInvParts DEF MirrorsFollow
  <2> QED
    BY <1>1, <2>1 DEF Follows, Contradicts
<1> QED
  BY <1>1, <1>3, <1>4, LInvParts

(* Mirrors need no update where the frame on top tells as before. *)
LEMMA SetTopKeeps ==
    ASSUME LInv, stack # <<>>, NEW g \in FrameSet, stack' = [stack EXCEPT ![Len(stack)] = g],
           NEW l \in Listener, Subscribed(l),
           Excuses(Top, l, Top.entity) => Excuses(g, l, Top.entity),
           ~Contradicts(g, l, mirror[l])
    PROVE  Follows(l, mirror[l], Stock[Mirrors[l]], stack')
<1>1. PICK X, C : X = mirror[l] /\ C = Stock[Mirrors[l]]
  OBVIOUS
<1>2. Follows(l, X, C, stack)
  BY <1>1, LInvParts DEF MirrorsFollow
<1>3. PICK f : f = stack[Len(stack)]
  OBVIOUS
<1>4. f = Top
  BY <1>3, TopFacts
<1>5. X \subseteq C /\ C \subseteq C
  BY <1>2 DEF Follows
<1>6. Follows(l, X, C, stack')
  BY <1>1, <1>2, <1>3, <1>4, <1>5, LInvParts, SetTopFollows
<1> QED
  BY <1>1, <1>6
LEMMA NotifyInv ==
    ASSUME LInv, Notify
    PROVE  Rest'
<1>1. /\ stack # <<>> /\ Top.calls # <<>> /\ UNCHANGED <<storeVars, has, hooks>>
  BY DEF Notify, Waiting
<1>2. PICK f, k, q, g, e :
          /\ f = Top /\ k = Head(f.calls) /\ q = Tail(f.calls) /\ e = f.entity
          /\ g = [f EXCEPT !.calls = q, !.running = TRUE]
  OBVIOUS
<1>3. /\ stack' = [stack EXCEPT ![Len(stack)] = g]
      /\ mirror' = [mirror EXCEPT ![k] = IF f.op = "add" THEN @ \cup {e} ELSE @ \ {e}]
  BY <1>2 DEF Notify, SetTop
<1>4. /\ f = stack[Len(stack)] /\ f \in FrameSet /\ Good(f, Live, Stock)
      /\ Len(stack) \in DOMAIN stack
  BY <1>1, <1>2, TopFacts
<1>5. /\ f.calls \in Seq(Listener) /\ f.calls # <<>> /\ e \in Entity
      /\ e \in Live /\ f.component \in Component \cup {"none"}
  BY <1>1, <1>2, <1>4 DEF FrameSet, Good
<1>6. /\ q \in Seq(Listener) /\ k \in Listener /\ 1 \in DOMAIN f.calls /\ k = f.calls[1]
      /\ \A n \in DOMAIN q : n + 1 \in DOMAIN f.calls /\ q[n] = f.calls[n + 1]
  BY <1>2, <1>5
<1>7. \A l : Tells(f, l) => l = k \/ Tells(g, l)
  <2>1. ASSUME NEW n \in DOMAIN f.calls PROVE n = 1 \/ \E m \in DOMAIN q : q[m] = f.calls[n]
    <3>1. CASE n # 1
      <4>1. n - 1 \in DOMAIN q /\ q[n - 1] = f.calls[n]
        BY <1>2, <1>5, <3>1
      <4> QED
        BY <4>1
    <3> QED
      BY <3>1
  <2>2. g.calls = q
    BY <1>2, <1>4 DEF FrameSet
  <2> QED
    BY <1>6, <2>1, <2>2 DEF Tells
<1>8. /\ g \in FrameSet /\ g.op = f.op /\ g.entity = e /\ g.component = f.component
      /\ g.todo = f.todo /\ g.calls = q
  BY <1>2, <1>4, <1>6 DEF FrameSet
<1>9. Mirrors[k] = f.component /\ f.component \in Component /\ e \in Stock[f.component]
  <2>1. Mirrors[k] = f.component
    BY <1>4, <1>6 DEF Good
  <2>2. f.component # "none"
    BY <1>6, <2>1, LInvParts, ComponentAssumption
  <2> QED
    BY <1>2, <1>4, <1>5, <2>1, <2>2 DEF Good
<1>10. Good(g, Live, Stock)
  <2>1. \A n \in DOMAIN q : Mirrors[q[n]] = f.component
    BY <1>4, <1>6 DEF Good
  <2> QED
    BY <1>2, <1>4, <1>8, <2>1 DEF Good
<1>11. mirror \in [Listener -> SUBSET Entity]
  BY LInvParts DEF LifeTypeOK
<1>12. mirror' \in [Listener -> SUBSET Entity]
  BY <1>3, <1>5, <1>6, <1>11
<1>13. ASSUME NEW l \in Listener, Subscribed(l)
       PROVE  Follows(l, mirror'[l], Stock[Mirrors[l]], stack')
  <2>1. ~Contradicts(f, l, mirror[l])
    BY <1>1, <1>2, <1>13, TopFacts
  <2>2. CASE l # k
    <3>1. mirror'[l] = mirror[l] /\ (Tells(f, l) => Tells(g, l))
      BY <1>3, <1>7, <1>11, <2>2
    <3>2. Excuses(f, l, e) => Excuses(g, l, e)
      BY <1>2, <1>8, <3>1 DEF Excuses
    <3>3. ~Contradicts(g, l, mirror[l])
      BY <1>2, <1>8, <2>1, <3>1 DEF Contradicts
    <3> QED
      BY <1>1, <1>2, <1>3, <1>8, <1>13, <3>1, <3>2, <3>3, SetTopKeeps
  <2>3. CASE l = k
    <3>1. PICK X, Y, C : X = mirror[l] /\ Y = mirror'[l] /\ C = Stock[Mirrors[l]]
      OBVIOUS
    <3>2. Y = IF f.op = "add" THEN X \cup {e} ELSE X \ {e}
      BY <1>3, <1>6, <1>11, <2>3, <3>1
    <3>3. Follows(l, X, C, stack)
      BY <1>13, <3>1, LInvParts DEF MirrorsFollow
    <3>4. X \subseteq C /\ e \in C
      BY <1>9, <2>3, <3>1, <3>3 DEF Follows
    <3>5. Y \subseteq C /\ C \subseteq C /\ \A x \in C : x # e => (x \in X <=> x \in Y)
      BY <3>2, <3>4
    <3>6. e \in Y \/ Excuses(g, l, e)
      BY <1>8, <1>9, <2>3, <3>2 DEF Excuses
    <3>7. ~Contradicts(g, l, Y)
      BY <1>8, <3>2 DEF Contradicts
    <3>8. \A n \in DOMAIN stack : n # Len(stack) => stack[n].entity # e
                                                    \/ stack[n].component # Mirrors[l]
      BY <1>1, <1>2, <1>9, <2>3, TopFacts
    <3>9. Follows(l, Y, C, stack')
      <4>1. stack \in Seq(FrameSet) /\ stack # <<>>
        BY <1>1, LInvParts
      <4>2. /\ \A x \in C : x # f.entity => (x \in X <=> x \in Y)
            /\ f.entity \in Y \/ Excuses(g, l, f.entity)
            /\ \A n \in DOMAIN stack : n # Len(stack) => stack[n].entity # f.entity
                                                       \/ stack[n].component # Mirrors[l]
        BY <1>2, <3>5, <3>6, <3>8
      <4> QED
        BY <1>3, <1>4, <1>8, <3>3, <3>5, <3>7, <4>1, <4>2, SetTopFollows
    <3> QED
      BY <3>1, <3>9
  <2> QED
    BY <2>2, <2>3
<1> QED
  BY <1>1, <1>2, <1>3, <1>8, <1>10, <1>12, <1>13, SetTopInv

(* A step that replaces the frame on top and changes nothing else. *)
LEMMA ReplaceInv ==
    ASSUME LInv, stack # <<>>, UNCHANGED <<storeVars, has, hooks, mirror>>,
           NEW g \in FrameSet, stack' = [stack EXCEPT ![Len(stack)] = g],
           g.entity = Top.entity, g.op = Top.op,
           g.component = Top.component \/ g.op = "destroy",
           Good(g, Live, Stock),
           \A l \in Listener :
              Subscribed(l) => /\ Excuses(Top, l, Top.entity) => Excuses(g, l, Top.entity)
                               /\ ~Contradicts(g, l, mirror[l])
    PROVE  Rest'
<1>1. mirror' \in [Listener -> SUBSET Entity]
  BY LInvParts DEF LifeTypeOK
<1>2. ASSUME NEW l \in Listener, Subscribed(l)
      PROVE  Follows(l, mirror'[l], Stock[Mirrors[l]], stack')
  <2>1. Follows(l, mirror[l], Stock[Mirrors[l]], stack')
    BY <1>2, SetTopKeeps
  <2> QED
    BY <2>1
<1> QED
  BY <1>1, <1>2, SetTopInv

LEMMA ReturnInv ==
    ASSUME LInv, Return
    PROVE  Rest'
<1>1. stack # <<>> /\ UNCHANGED <<storeVars, has, hooks, mirror>>
  BY DEF Return
<1>2. PICK g : g = [Top EXCEPT !.running = FALSE]
  OBVIOUS
<1>3. stack' = [stack EXCEPT ![Len(stack)] = g]
  BY <1>2 DEF Return, SetTop
<1>4. Top \in FrameSet /\ Good(Top, Live, Stock)
  BY <1>1, TopFacts
<1>5. /\ g \in FrameSet /\ g.op = Top.op /\ g.entity = Top.entity
      /\ g.component = Top.component /\ g.todo = Top.todo /\ g.calls = Top.calls
  BY <1>2, <1>4 DEF FrameSet
<1>6. Good(g, Live, Stock)
  BY <1>4, <1>5 DEF Good
<1>7. \A l \in Listener : Subscribed(l) =>
          /\ Excuses(Top, l, Top.entity) => Excuses(g, l, Top.entity)
          /\ ~Contradicts(g, l, mirror[l])
  <2>1. \A l \in Listener : Subscribed(l) => ~Contradicts(Top, l, mirror[l])
    BY <1>1, TopFacts
  <2> QED
    BY <1>5, <2>1 DEF Excuses, Contradicts, Tells
<1> QED
  BY <1>1, <1>3, <1>5, <1>6, <1>7, ReplaceInv

LEMMA DestroyNextInv ==
    ASSUME LInv, NEW c \in Component, DestroyNext(c)
    PROVE  Rest'
<1>1. /\ stack # <<>> /\ Top.op = "destroy" /\ Top.calls = <<>> /\ Top.component = "none"
      /\ c \in Top.todo /\ UNCHANGED <<storeVars, has, hooks, mirror>>
  BY DEF DestroyNext, Notified, Waiting
<1>2. PICK e, T : e = Top.entity /\ T = Top.todo \ {c}
  OBVIOUS
<1>3. Top \in FrameSet /\ Good(Top, Live, Stock)
  BY <1>1, TopFacts
<1>4. /\ e \in Live /\ (e \in Stock[c] <=> e.index \in has[c])
      /\ \A d \in Component : e \in Stock[d] => d \in T \cup {c}
  <2>1. e \in Live /\ \A d \in Component : e \in Stock[d] => d \in Top.todo \cup {"none"}
    BY <1>1, <1>2, <1>3 DEF Good
  <2> QED
    BY <1>2, <2>1, HandleOf, ComponentAssumption
<1>5. CASE e.index \in has[c]
  <2>1. PICK q : q = hooks[c]
    OBVIOUS
  <2>2. PICK g : g = [Top EXCEPT !.todo = T, !.component = c, !.calls = q]
    OBVIOUS
  <2>3. stack' = [stack EXCEPT ![Len(stack)] = g]
    BY <1>2, <1>5, <2>1, <2>2 DEF DestroyNext, SetTop
  <2>4. q \in Seq(Listener)
    BY <2>1, LInvParts
  <2>5. /\ g \in FrameSet /\ g.op = Top.op /\ g.entity = e /\ g.component = c
        /\ g.todo = T /\ g.calls = hooks[c]
    BY <1>2, <1>3, <2>1, <2>2, <2>4 DEF FrameSet
  <2>6. /\ \A k \in DOMAIN g.calls : Mirrors[g.calls[k]] = g.component
        /\ \A l \in Listener : Subscribed(l) /\ g.component = Mirrors[l] => Tells(g, l)
    BY <2>5, LInvParts, HooksTell
  <2>7. Good(g, Live, Stock)
    BY <1>1, <1>4, <1>5, <2>5, <2>6 DEF Good
  <2>8. \A l \in Listener : Subscribed(l) =>
            /\ Excuses(Top, l, Top.entity) => Excuses(g, l, Top.entity)
            /\ ~Contradicts(g, l, mirror[l])
    BY <1>1, <2>6, LInvParts, ComponentAssumption DEF Excuses, Contradicts
  <2> QED
    BY <1>1, <1>2, <2>3, <2>5, <2>7, <2>8, ReplaceInv
<1>6. CASE e.index \notin has[c]
  <2>1. PICK g : g = [Top EXCEPT !.todo = T]
    OBVIOUS
  <2>2. stack' = [stack EXCEPT ![Len(stack)] = g]
    BY <1>2, <1>6, <2>1 DEF DestroyNext, SetTop
  <2>3. /\ g \in FrameSet /\ g.op = Top.op /\ g.entity = e /\ g.component = "none"
        /\ g.todo = T /\ g.calls = <<>>
    BY <1>1, <1>2, <1>3, <2>1 DEF FrameSet
  <2>4. Good(g, Live, Stock)
    BY <1>1, <1>4, <1>6, <2>3 DEF Good
  <2>5. \A l \in Listener : Subscribed(l) =>
            /\ Excuses(Top, l, Top.entity) => Excuses(g, l, Top.entity)
            /\ ~Contradicts(g, l, mirror[l])
    BY <1>1, <2>3, LInvParts, ComponentAssumption DEF Excuses, Contradicts
  <2> QED
    BY <1>1, <1>2, <2>2, <2>3, <2>4, <2>5, ReplaceInv
<1> QED
  BY <1>5, <1>6
LEMMA EndAddInv ==
    ASSUME LInv, EndAdd
    PROVE  Rest'
<1>1. /\ stack # <<>> /\ Top.op = "add" /\ Top.calls = <<>>
      /\ UNCHANGED storeVars /\ has' = has /\ hooks' = hooks /\ mirror' = mirror
      /\ stack' = SubSeq(stack, 1, Len(stack) - 1)
  BY DEF EndAdd, Notified, Waiting, Pop
<1>2. Live' = Live /\ Holding' = Holding /\ Stock' = Stock
  BY <1>1, SlotsUnchanged
<1>3. stack' \in Seq(FrameSet) /\ AllGood(stack', Live, Stock) /\ Apart(stack')
  BY <1>1, LInvParts, PopSeq, PopGood, PopApart
<1>4. LifeTypeOK' /\ NoComponentOutlivesEntity' /\ FramesOK'
  BY <1>1, <1>2, <1>3, LInvParts DEF LifeTypeOK, NoComponentOutlivesEntity, FramesOK
<1>5. ASSUME NEW l \in Listener, Subscribed(l)
      PROVE  Follows(l, mirror[l], Stock[Mirrors[l]], stack')
  <2>1. PICK X, C : X = mirror[l] /\ C = Stock[Mirrors[l]]
    OBVIOUS
  <2>2. Follows(l, X, C, stack)
    BY <1>5, <2>1, LInvParts DEF MirrorsFollow
  <2>3. PICK f : f = stack[Len(stack)]
    OBVIOUS
  <2>4. f.op = "add" /\ ~Tells(f, l)
    BY <1>1, <2>3, TopFacts DEF Tells
  <2>5. Follows(l, X, C, stack')
    BY <1>1, <2>2, <2>3, <2>4, LInvParts, PopFollows
  <2> QED
    BY <2>1, <2>5
<1>6. MirrorsFollow'
  BY <1>1, <1>2, <1>5 DEF MirrorsFollow, Subscribed
<1> QED
  BY <1>4, <1>6 DEF Rest

(* The entity of the innermost operation loses the component in question:  *)
(* no other operation under way relied on it.                              *)
LEMMA TopLoses ==
    ASSUME LInv, stack # <<>>, Top.component \in Component, UNCHANGED storeVars,
           has' = [has EXCEPT ![Top.component] = @ \ {Top.entity.index}],
           NEW S, S = [Stock EXCEPT ![Top.component] = @ \ {Top.entity}]
    PROVE  /\ Stock' = S
           /\ has' \in [Component -> SUBSET Index]
           /\ NoComponentOutlivesEntity'
           /\ Top.entity \in Live
           /\ S[Top.component] = Stock[Top.component] \ {Top.entity}
           /\ \A d \in Component : /\ d # Top.component => S[d] = Stock[d]
                                   /\ S[d] \subseteq Stock[d]
           /\ \A n \in DOMAIN stack : n # Len(stack) => Good(stack[n], Live, S)
<1>1. PICK c, e : c = Top.component /\ e = Top.entity
  OBVIOUS
<1>2. /\ e \in Live /\ c \in Component /\ c # "none" /\ S = [Stock EXCEPT ![c] = @ \ {e}]
      /\ has' = [has EXCEPT ![c] = @ \ {e.index}]
  BY <1>1, TopFacts, ComponentAssumption DEF Good
<1>3. Stock' = S
  BY <1>2, LInvParts, StockLoses
<1>4. /\ has' \in [Component -> SUBSET Index]
      /\ \A d \in Component : has'[d] \subseteq has[d]
  BY <1>2, LInvParts DEF LifeTypeOK
<1>5. NoComponentOutlivesEntity'
  BY <1>4, LInvParts, SlotsUnchanged DEF NoComponentOutlivesEntity
<1>6. /\ S[c] = Stock[c] \ {e}
      /\ \A d \in Component : (d # c => S[d] = Stock[d]) /\ S[d] \subseteq Stock[d]
  BY <1>2 DEF Stock
<1>7. ASSUME NEW n \in DOMAIN stack, n # Len(stack) PROVE Good(stack[n], Live, S)
  <2>1. PICK f : f = stack[n]
    OBVIOUS
  <2>2. Good(f, Live, Stock) /\ f \in FrameSet /\ (f.entity = e => f.component # c)
    BY <1>1, <1>7, <2>1, LInvParts, TopFacts
  <2>3. f.entity \in Live /\ (f.component # "none" => f.entity \in S[f.component])
    BY <1>6, <2>2 DEF Good, FrameSet
  <2>4. f.op = "destroy" => \A d \in Component : f.entity \in S[d] => f.entity \in Stock[d]
    BY <1>6
  <2>5. Good(f, Live, S)
    BY <2>2, <2>3, <2>4, GoodKept
  <2> QED
    BY <2>1, <2>5
<1> QED
  BY <1>1, <1>2, <1>3, <1>4, <1>5, <1>6, <1>7

LEMMA EndRemoveInv ==
    ASSUME LInv, EndRemove
    PROVE  Rest'
<1>1. /\ stack # <<>> /\ Top.op = "remove" /\ Top.calls = <<>>
      /\ UNCHANGED storeVars /\ hooks' = hooks /\ mirror' = mirror
      /\ has' = [has EXCEPT ![Top.component] = @ \ {Top.entity.index}]
      /\ stack' = SubSeq(stack, 1, Len(stack) - 1)
  BY DEF EndRemove, Notified, Waiting, Pop, Without
<1>2. PICK f : f = stack[Len(stack)]
  OBVIOUS
<1>3. f = Top /\ f.component \in Component
  BY <1>1, <1>2, TopFacts DEF Good
<1>4. PICK S : S = [Stock EXCEPT ![f.component] = @ \ {f.entity}]
  OBVIOUS
<1>5. /\ Stock' = S /\ has' \in [Component -> SUBSET Index] /\ NoComponentOutlivesEntity'
      /\ S[f.component] = Stock[f.component] \ {f.entity}
      /\ \A d \in Component : d # f.component => S[d] = Stock[d]
      /\ \A n \in DOMAIN stack : n # Len(stack) => Good(stack[n], Live, S)
  BY <1>1, <1>3, <1>4, TopLoses
<1>6. Live' = Live
  BY <1>1, SlotsUnchanged
<1>7. stack' \in Seq(FrameSet) /\ AllGood(stack', Live, S) /\ Apart(stack')
  BY <1>1, <1>5, LInvParts, PopSeq, PopGood, PopApart
<1>8. LifeTypeOK' /\ FramesOK'
  BY <1>1, <1>5, <1>6, <1>7, LInvParts DEF LifeTypeOK, FramesOK
<1>9. ASSUME NEW l \in Listener, Subscribed(l)
      PROVE  Follows(l, mirror[l], S[Mirrors[l]], stack')
  <2>1. PICK X, C, D : X = mirror[l] /\ C = Stock[Mirrors[l]] /\ D = S[Mirrors[l]]
    OBVIOUS
  <2>2. Follows(l, X, C, stack)
    BY <1>9, <2>1, LInvParts DEF MirrorsFollow
  <2>3. f.op = "remove" /\ ~Tells(f, l)
    BY <1>1, <1>3 DEF Tells
  <2>4. /\ D \subseteq C /\ (f.component = Mirrors[l] => f.entity \notin D)
        /\ \A e \in C : e \notin D => f.component = Mirrors[l] /\ e = f.entity
    BY <1>5, <2>1, <2>3, LInvParts
  <2>5. Follows(l, X, D, stack')
    <3>1. /\ stack \in Seq(FrameSet) /\ stack # <<>>
          /\ stack' = SubSeq(stack, 1, Len(stack) - 1)
      BY <1>1, LInvParts
    <3> QED
      BY <1>2, <2>2, <2>3, <2>4, <3>1, PopFollows
  <2> QED
    BY <2>1, <2>5
<1>10. MirrorsFollow'
  BY <1>1, <1>5, <1>9 DEF MirrorsFollow, Subscribed
<1> QED
  BY <1>5, <1>8, <1>10 DEF Rest

LEMMA DestroyDropsInv ==
    ASSUME LInv, DestroyDrops
    PROVE  Rest'
<1>1. /\ stack # <<>> /\ Top.op = "destroy" /\ Top.calls = <<>> /\ Top.component # "none"
      /\ UNCHANGED storeVars /\ hooks' = hooks /\ mirror' = mirror
      /\ has' = [has EXCEPT ![Top.component] = @ \ {Top.entity.index}]
  BY DEF DestroyDrops, Notified, Waiting, Without
<1>2. PICK f : f = stack[Len(stack)]
  OBVIOUS
<1>3. PICK g : g = [f EXCEPT !.component = "none"]
  OBVIOUS
<1>4. f = Top /\ f \in FrameSet /\ f.component \in Component /\ Good(f, Live, Stock)
  BY <1>1, <1>2, TopFacts DEF FrameSet
<1>5. stack' = [stack EXCEPT ![Len(stack)] = g]
  BY <1>3, <1>4 DEF DestroyDrops, SetTop
<1>6. /\ g \in FrameSet /\ g.op = "destroy" /\ g.entity = f.entity /\ g.component = "none"
      /\ g.todo = f.todo /\ g.calls = <<>>
  BY <1>1, <1>3, <1>4 DEF FrameSet
<1>7. PICK S : S = [Stock EXCEPT ![f.component] = @ \ {f.entity}]
  OBVIOUS
<1>8. /\ Stock' = S /\ has' \in [Component -> SUBSET Index] /\ NoComponentOutlivesEntity'
      /\ S[f.component] = Stock[f.component] \ {f.entity} /\ f.entity \in Live
      /\ \A d \in Component : (d # f.component => S[d] = Stock[d]) /\ S[d] \subseteq Stock[d]
      /\ \A n \in DOMAIN stack : n # Len(stack) => Good(stack[n], Live, S)
  BY <1>1, <1>4, <1>7, TopLoses
<1>9. Live' = Live
  BY <1>1, SlotsUnchanged
<1>10. Good(g, Live, S)
  BY <1>1, <1>4, <1>6, <1>8 DEF Good
<1>11. /\ stack' \in Seq(FrameSet) /\ AllGood(stack', Live, S) /\ Apart(stack')
  <2>1. stack \in Seq(FrameSet) /\ Apart(stack)
    BY LInvParts
  <2>2. AllGood(stack', Live, S)
    BY <1>1, <1>5, <1>6, <1>8, <1>10, <2>1, SetTopGood
  <2>3. Apart(stack')
    BY <1>1, <1>2, <1>4, <1>5, <1>6, <2>1, SetTopApart
  <2> QED
    BY <1>1, <1>5, <1>6, <2>1, <2>2, <2>3, SetTopSeq
<1>12. LifeTypeOK' /\ FramesOK'
  BY <1>1, <1>8, <1>9, <1>11, LInvParts DEF LifeTypeOK, FramesOK
<1>13. ASSUME NEW l \in Listener, Subscribed(l)
       PROVE  Follows(l, mirror[l], S[Mirrors[l]], stack')
  <2>1. PICK X, C, D : X = mirror[l] /\ C = Stock[Mirrors[l]] /\ D = S[Mirrors[l]]
    OBVIOUS
  <2>2. Follows(l, X, C, stack) /\ ~Contradicts(f, l, X)
    BY <1>1, <1>4, <1>13, <2>1, LInvParts, TopFacts DEF MirrorsFollow
  <2>3. ~Tells(f, l)
    BY <1>1, <1>4 DEF Tells
  <2>4. f.component = Mirrors[l] => f.entity \notin X
    BY <1>1, <1>4, <2>2, <2>3 DEF Contradicts
  <2>5. X \subseteq D /\ D \subseteq C /\ (f.component = Mirrors[l] => f.entity \notin D)
    BY <1>8, <2>1, <2>2, <2>4, LInvParts DEF Follows
  <2>6. /\ f.entity \in D /\ (f.entity \in X \/ Excuses(f, l, f.entity))
              => f.entity \in X \/ Excuses(g, l, f.entity)
        /\ ~Contradicts(g, l, X)
    BY <1>6, <2>5, LInvParts, ComponentAssumption DEF Excuses, Contradicts
  <2>7. Follows(l, X, D, stack')
    BY <1>1, <1>2, <1>5, <1>6, <2>2, <2>5, <2>6, LInvParts, SetTopFollows
  <2> QED
    BY <2>1, <2>7
<1>14. MirrorsFollow'
  BY <1>1, <1>8, <1>13 DEF MirrorsFollow, Subscribed
<1> QED
  BY <1>8, <1>12, <1>14 DEF Rest
(* destroy() retires the slot of a handle that is still alive. *)
LEMMA EndDestroyDestroys ==
    ASSUME LInv, EndDestroy
    PROVE  \E t \in issued : Name(t) = Top.entity /\ Destroy(t)
<1>1. stack # <<>> /\ Retire(Top.entity)
  BY DEF EndDestroy, Notified, Waiting
<1>2. Top.entity \in Live
  BY <1>1, TopFacts DEF Good
<1>3. PICK t \in issued : Top.entity = Name(t)
  BY <1>2 DEF Live
<1>4. Top.entity.index = t.index /\ Top.entity.version = t.version
  BY <1>3 DEF Name
<1>5. Alive(t)
  BY <1>2, <1>4 DEF Live, Alive
<1>6. Retire(t)
  BY <1>1, <1>4 DEF Retire
<1> QED
  BY <1>3, <1>5, <1>6 DEF Destroy

LEMMA EndDestroyInv ==
    ASSUME LInv, EndDestroy
    PROVE  Rest'
<1>1. /\ stack # <<>> /\ Top.op = "destroy" /\ Top.calls = <<>> /\ Top.component = "none"
      /\ Top.todo = {} /\ has' = has /\ hooks' = hooks /\ mirror' = mirror
      /\ stack' = SubSeq(stack, 1, Len(stack) - 1)
  BY DEF EndDestroy, Notified, Waiting, Pop
<1>2. PICK f : f = stack[Len(stack)]
  OBVIOUS
<1>3. /\ f = Top /\ Good(f, Live, Stock) /\ f.entity \in Live
      /\ \A n \in DOMAIN stack : n # Len(stack) => stack[n].entity # f.entity
  BY <1>1, <1>2, TopFacts DEF Good
<1>4. PICK t \in issued : Name(t) = f.entity /\ Destroy(t)
  BY <1>3, EndDestroyDestroys
<1>5. t.index = f.entity.index
  BY <1>4 DEF Name
<1>6. issued' = issued /\ \A i \in Holding : i # f.entity.index => SlotKept(i)
  BY <1>4, <1>5, LInvParts, DestroyKeeps
<1>7. \A c \in Component : f.entity.index \notin has[c]
  <2>1. \A c \in Component : f.entity \notin Stock[c]
    BY <1>1, <1>3, ComponentAssumption DEF Good
  <2> QED
    BY <1>3, <2>1, HandleOf
<1>8. \A c \in Component : \A i \in has[c] : i \in Holding /\ i # f.entity.index
  BY <1>7, LInvParts DEF NoComponentOutlivesEntity
<1>9. Stock' = Stock
  BY <1>1, <1>6, <1>8, StockKept
<1>10. NoComponentOutlivesEntity'
  BY <1>1, <1>6, <1>8 DEF NoComponentOutlivesEntity, SlotKept
<1>11. ASSUME NEW n \in DOMAIN stack, n # Len(stack) PROVE Good(stack[n], Live', Stock)
  <2>1. PICK g : g = stack[n]
    OBVIOUS
  <2>2. Good(g, Live, Stock) /\ g.entity # f.entity /\ g.entity \in Live
    BY <1>3, <1>11, <2>1, LInvParts DEF Good
  <2>3. PICK x : x = g.entity
    OBVIOUS
  <2>4. x \in Live /\ x.index # f.entity.index /\ x.index \in Holding
    BY <1>3, <2>2, <2>3, OnePerIndex, HandleOf
  <2>5. x \in Live'
    BY <1>6, <2>4, StaysLive
  <2>6. g.component # "none" => g.entity \in Stock[g.component]
    BY <2>2 DEF Good
  <2>7. Good(g, Live', Stock)
    BY <2>2, <2>3, <2>5, <2>6, GoodKept
  <2> QED
    BY <2>1, <2>7
<1>12. stack' \in Seq(FrameSet) /\ AllGood(stack', Live', Stock) /\ Apart(stack')
  BY <1>1, <1>11, LInvParts, PopSeq, PopGood, PopApart
<1>13. LifeTypeOK' /\ FramesOK'
  BY <1>1, <1>9, <1>12, LInvParts DEF LifeTypeOK, FramesOK
<1>14. ASSUME NEW l \in Listener, Subscribed(l)
       PROVE  Follows(l, mirror[l], Stock[Mirrors[l]], stack')
  <2>1. PICK X, C : X = mirror[l] /\ C = Stock[Mirrors[l]]
    OBVIOUS
  <2>2. Follows(l, X, C, stack)
    BY <1>14, <2>1, LInvParts DEF MirrorsFollow
  <2>3. ~Tells(f, l) /\ f.component # Mirrors[l]
    BY <1>1, <1>3, LInvParts, ComponentAssumption DEF Tells
  <2>4. Follows(l, X, C, stack')
    BY <1>1, <1>2, <2>2, <2>3, LInvParts, PopFollows
  <2> QED
    BY <2>1, <2>4
<1>15. MirrorsFollow'
  BY <1>1, <1>9, <1>14 DEF MirrorsFollow, Subscribed
<1> QED
  BY <1>10, <1>13, <1>15 DEF Rest
-----------------------------------------------------------------------------
(* The registry never misuses the store below: each step of an operation   *)
(* is a step of EntityStore or leaves it alone.                            *)
LEMMA StoreStep ==
    ASSUME LInv, [LifeNext]_<<storeVars, lifeVars>>
    PROVE  [Next]_vars
<1>1. CASE Creates
  BY <1>1 DEF Creates, Next
<1>2. CASE EndDestroy
  BY <1>2, EndDestroyDestroys DEF Next
<1>3. CASE \E h \in issued : NothingToDo(h)
  BY <1>3 DEF NothingToDo, Next
<1>4. CASE \E h \in issued : (\E c \in Component : Add(h, c) \/ Remove(h, c)) \/ BeginDestroy(h)
  BY <1>4 DEF Add, Remove, BeginDestroy, storeVars
<1>5. CASE \E l \in Listener : Attach(l) \/ Detach(l)
  BY <1>5 DEF Attach, Detach, storeVars
<1>6. CASE Notify \/ Return \/ EndAdd \/ EndRemove \/ DestroyDrops
  BY <1>6 DEF Notify, Return, EndAdd, EndRemove, DestroyDrops, storeVars
<1>7. CASE \E c \in Component : DestroyNext(c)
  BY <1>7 DEF DestroyNext, storeVars
<1>8. CASE UNCHANGED <<storeVars, lifeVars>>
  BY <1>8 DEF storeVars
<1> QED
  BY <1>1, <1>2, <1>3, <1>4, <1>5, <1>6, <1>7, <1>8 DEF LifeNext, Frames

LEMMA Stutters ==
    ASSUME LInv, UNCHANGED <<storeVars, lifeVars>>
    PROVE  Rest'
<1>1. /\ UNCHANGED storeVars
      /\ has' = has /\ hooks' = hooks /\ stack' = stack /\ mirror' = mirror
  BY DEF lifeVars
<1>2. Live' = Live /\ Holding' = Holding /\ Stock' = Stock
  BY <1>1, SlotsUnchanged
<1> QED
  BY <1>1, <1>2, LInvParts
     DEF Rest, LifeTypeOK, NoComponentOutlivesEntity, FramesOK, MirrorsFollow, Subscribed

LEMMA LifeNextInv ==
    ASSUME LInv, Careful, [LifeNext]_<<storeVars, lifeVars>>
    PROVE  LInv'
<1>1. IInv'
  BY StoreStep, NextIInv, LInvParts
<1>2. Rest'
  <2>1. CASE Creates
    BY <2>1, CreatesInv
  <2>2. ASSUME NEW h \in issued, NEW c \in Component, Add(h, c) \/ Remove(h, c) PROVE Rest'
    BY <2>2, AddInv, RemoveInv
  <2>3. ASSUME NEW h \in issued, BeginDestroy(h) PROVE Rest'
    BY <2>3, BeginDestroyInv
  <2>4. ASSUME NEW h \in issued, NothingToDo(h) PROVE Rest'
    <3>1. UNCHANGED <<storeVars, lifeVars>>
      BY <2>4 DEF NothingToDo, DestroyReturnsFalse, storeVars
    <3> QED
      BY <3>1, Stutters
  <2>5. ASSUME NEW l \in Listener, Attach(l) \/ Detach(l) PROVE Rest'
    BY <2>5, AttachInv, DetachInv
  <2>6. CASE Frames
    BY <2>6, NotifyInv, ReturnInv, EndAddInv, EndRemoveInv, DestroyNextInv, DestroyDropsInv,
       EndDestroyInv DEF Frames
  <2>7. CASE UNCHANGED <<storeVars, lifeVars>>
    BY <2>7, Stutters
  <2> QED
    BY <2>1, <2>2, <2>3, <2>4, <2>5, <2>6, <2>7 DEF LifeNext
<1> QED
  BY <1>1, <1>2 DEF LInv, Rest

LEMMA LifeInitInv ==
    ASSUME LifeInit
    PROVE  LInv
<1>1. IInv
  BY InitIInv DEF LifeInit
<1>2. LifeTypeOK
  BY DEF LifeInit, LifeTypeOK
<1>3. NoComponentOutlivesEntity /\ FramesOK /\ MirrorsFollow
  BY MirrorsAssumption DEF LifeInit, NoComponentOutlivesEntity, FramesOK, AllGood, Apart, MirrorsFollow, Subscribed
<1> QED
  BY <1>1, <1>2, <1>3 DEF LInv

LEMMA LInvHolds ==
    ASSUME Careful
    PROVE  LifeSpec => []LInv
BY LifeInitInv, LifeNextInv, PTL DEF LifeSpec
-----------------------------------------------------------------------------
(* No storage ever holds the index of an entity that is gone: remove and   *)
(* destroy take every component away before the slot is retired, also when *)
(* their callbacks add, remove and destroy in between, as long as these    *)
(* leave the entity and component alone that an operation under way is     *)
(* about.                                                                  *)
THEOREM StoragesHoldTheLiving ==
    ASSUME Careful
    PROVE  LifeSpec => []NoComponentOutlivesEntity
<1>1. LInv => NoComponentOutlivesEntity
  BY DEF LInv
<1> QED
  BY <1>1, LInvHolds, PTL

LEMMA MirrorsExact ==
    ASSUME LInv
    PROVE  MirrorExact
<1> SUFFICES ASSUME stack = <<>>, NEW l \in Listener, Subscribed(l)
             PROVE  mirror[l] = Contents(Mirrors[l])
  BY DEF MirrorExact
<1>1. PICK X, C : X = mirror[l] /\ C = Stock[Mirrors[l]]
  OBVIOUS
<1>2. Follows(l, X, C, stack) /\ DOMAIN stack = {}
  BY <1>1, LInvParts DEF MirrorsFollow
<1>3. X = C
  BY <1>2 DEF Follows
<1> QED
  BY <1>1, <1>3, LInvParts DEF Stock

LEMMA NotifySeesComponent ==
    ASSUME LInv, Notify
    PROVE  Alive(Top.entity) /\ Top.entity.index \in has[Top.component]
<1>1. stack # <<>> /\ Top.calls # <<>>
  BY DEF Notify, Waiting
<1>2. Good(Top, Live, Stock) /\ Top \in FrameSet
  BY <1>1, TopFacts
<1>3. Top.calls \in Seq(Listener)
  BY <1>2 DEF FrameSet
<1>4. 1 \in DOMAIN Top.calls /\ Top.calls[1] \in Listener
  BY <1>1, <1>3
<1>5. Top.component \in Component
  BY <1>2, <1>4, LInvParts DEF Good
<1>6. Top.entity \in Live /\ Top.entity \in Stock[Top.component]
  BY <1>2, <1>5, ComponentAssumption DEF Good
<1> QED
  BY <1>5, <1>6, HandleOf DEF Live

(* Listeners are told of every change and of nothing that is not so: with  *)
(* no operation under way each one's mirror is the storage, and a callback *)
(* always finds its entity alive and holding the component, whatever the   *)
(* other callbacks did and whoever subscribed or unsubscribed meanwhile.   *)
THEOREM HooksCorrect ==
    ASSUME Careful
    PROVE  LifeSpec => HooksFaithful
<1>1. LInv => MirrorExact
  BY MirrorsExact
<1>2. LInv /\ [LifeNext]_<<storeVars, lifeVars>>
         => [Notify => /\ Alive(Top.entity)
                       /\ Top.entity.index \in has[Top.component]]_<<storeVars, lifeVars>>
  BY NotifySeesComponent
<1>3. LifeSpec => [][Notify => /\ Alive(Top.entity)
                               /\ Top.entity.index \in has[Top.component]]_<<storeVars, lifeVars>>
  BY <1>2, LInvHolds, PTL DEF LifeSpec
<1>4. LifeSpec => HookSeesComponent
  BY <1>3 DEF HookSeesComponent
<1> QED
  BY <1>1, <1>4, LInvHolds, PTL DEF HooksFaithful

(* With hooks and components on top the registry still is the entity store *)
(* alone: destroy() retires a handle that is alive, however many callbacks *)
(* ran since it looked.                                                    *)
THEOREM LifecycleImplementsStore ==
    ASSUME Careful
    PROVE  LifeSpec => Spec
<1>1. LifeInit => Init
  BY DEF LifeInit
<1>2. LInv /\ [LifeNext]_<<storeVars, lifeVars>> => [Next]_vars
  BY StoreStep
<1> QED
  BY <1>1, <1>2, LInvHolds, PTL DEF LifeSpec, Spec

(* So create() and destroy() keep the promise about handles when they are  *)
(* called from callbacks, too.                                             *)
THEOREM LifecycleImplementsHandles ==
    ASSUME Careful
    PROVE  LifeSpec => ImplementsHandles
BY LifecycleImplementsStore, StoreImplementsHandles, PTL
=============================================================================
