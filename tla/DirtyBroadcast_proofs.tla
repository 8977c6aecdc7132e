----------------------- MODULE DirtyBroadcast_proofs -----------------------
(***************************************************************************)
(* The change report is complete, for any indices and values and without a *)
(* bound on how often an index is recycled; and subscribers that share one *)
(* report miss nothing of it, for any number of listeners, nested          *)
(* broadcasts, changes and recycled indices.                               *)
(***************************************************************************)
EXTENDS DirtyBroadcast, FiniteSetTheorems, TLAPS

(* The report of one component (DirtyTracking). *)
IInv == TrackTypeOK /\ EveryChangeIsDirty /\ AdditionsReported /\ ReportReplays

LEMMA InitIInv == TrackInit => IInv
<1> SUFFICES ASSUME TrackInit PROVE IInv
  OBVIOUS
<1> USE MissingAssumption DEF TrackInit, Init, Has, Now, Absent, NoRemoval, Removed
<1>1. TrackTypeOK
  BY DEF TrackTypeOK, TypeOK, Removal
<1>2. EveryChangeIsDirty /\ AdditionsReported /\ ReportReplays
  BY DEF EveryChangeIsDirty, AdditionsReported, ReportReplays
<1> QED
  BY <1>1, <1>2 DEF IInv

(* An operation on index i leaves every other index alone. *)
Elsewhere(i) ==
    \A j \in Index \ {i} :
        /\ gen'[j] = gen[j] /\ val'[j] = val[j] /\ removal'[j] = removal[j]
        /\ j \in dirty' <=> j \in dirty
        /\ j \in added' <=> j \in added

(* What add, write, remove, destroy and clear_dirty do to their own index. *)
LEMMA PutHere ==
    ASSUME TypeOK, NEW i \in Index, NEW v \in Value, Put(i, v)
    PROVE  /\ TypeOK' /\ Elsewhere(i)
           /\ Has(i)' /\ i \in dirty' /\ gen'[i] = gen[i]
           /\ ~Has(i) => i \in added'
           /\ i \in added => i \in added'
<1> USE MissingAssumption DEF Put, TypeOK, Has
<1>1. removal' \in [Index -> Removal] /\ \A j \in Index : removal'[j].gen <= gen'[j]
  BY DEF Removal, NoRemoval
<1>2. val' \in [Index -> Value \cup {Missing}] /\ val'[i] = v
  BY DEF Has
<1>3. added' \subseteq dirty' /\ dirty' \subseteq {j \in Index : Has(j)'}
  BY <1>2
<1> QED
  BY <1>1, <1>2, <1>3 DEF Elsewhere

LEMMA DropHere ==
    ASSUME TypeOK, NEW i \in Index, NEW kind \in {"removed", "destroyed"}, Drop(i, kind),
           gen' \in [Index -> Nat], gen'[i] >= gen[i],
           \A j \in Index \ {i} : gen'[j] = gen[j],
           alive' \subseteq alive, alive \ {i} \subseteq alive'
    PROVE  TypeOK' /\ Elsewhere(i) /\ ~Has(i)' /\ Removed(i)'
<1> USE DEF Drop, TypeOK, Has
<1>1. /\ removal' \in [Index -> Removal] /\ \A j \in Index : removal'[j].gen <= gen'[j]
      /\ removal'[i].kind = kind
  BY DEF Removal, NoRemoval
<1>2. val' \in [Index -> Value \cup {Missing}] /\ val'[i] = Missing
  OBVIOUS
<1>3. added' \subseteq dirty' /\ dirty' \subseteq {j \in Index : Has(j)'}
  BY <1>2
<1> QED
  BY <1>1, <1>2, <1>3 DEF Elsewhere, Removed

LEMMA ClearHere ==
    ASSUME TypeOK, NEW i \in Index, ClearDirty(i)
    PROVE  TypeOK' /\ Elsewhere(i) /\ gen' = gen /\ val' = val
<1> USE DEF ClearDirty, TypeOK, Has
<1>1. removal' \in [Index -> Removal] /\ \A j \in Index : removal'[j].gen <= gen'[j]
  BY DEF Removal, NoRemoval
<1> QED
  BY <1>1 DEF Elsewhere

(* The invariant at the indices an operation leaves alone. *)
Complete(j) ==
    /\ Now(j) # base[j] => IF Has(j) THEN j \in dirty ELSE Removed(j)
    /\ Has(j) /\ base[j].gen # gen[j] => j \in added
    /\ j \notin acked =>
          Now(j) = IF j \in dirty THEN [gen |-> gen[j], val |-> val[j]]
                   ELSE IF Removed(j) THEN Absent ELSE base[j]

LEMMA IInvByIndex == IInv <=> TrackTypeOK /\ \A j \in Index : Complete(j)
BY DEF IInv, Complete, EveryChangeIsDirty, AdditionsReported, ReportReplays, IsDirty,
       TrackTypeOK, TypeOK

LEMMA IInvByIndexNext == IInv' <=> TrackTypeOK' /\ \A j \in Index : Complete(j)'
BY DEF IInv, Complete, EveryChangeIsDirty, AdditionsReported, ReportReplays, IsDirty,
       TrackTypeOK, TypeOK

LEMMA CompleteElsewhere ==
    ASSUME NEW i \in Index, Elsewhere(i), NEW j \in Index \ {i}, Complete(j),
           base'[j] = base[j], j \in acked' <=> j \in acked
    PROVE  Complete(j)'
BY DEF Complete, Elsewhere, Now, Has, Removed, Absent

LEMMA ArriveIInv ==
    ASSUME IInv, NEW i \in Index, Arrive(i)
    PROVE  IInv'
<1>1. /\ TrackTypeOK /\ \A j \in Index : Complete(j)
      /\ alive' = alive \cup {i}
      /\ UNCHANGED <<gen, val, dirty, added, removal, base, acked>>
  BY IInvByIndex DEF Arrive, Create
<1>2. TrackTypeOK'
  BY <1>1 DEF TrackTypeOK, TypeOK, Has, Absent
<1>3. \A j \in Index : Complete(j)'
  BY <1>1 DEF Complete, Now, Has, Removed, Absent
<1> QED
  BY <1>2, <1>3, IInvByIndexNext

LEMMA ChangeIInv ==
    ASSUME IInv, NEW i \in Index, Change(i)
    PROVE  IInv'
<1>1. /\ TypeOK /\ \A j \in Index : Complete(j)
      /\ base' = base /\ acked' = acked
      /\ gen \in [Index -> Nat]
  BY IInvByIndex DEF Change, TrackTypeOK, TypeOK
<1>2. ASSUME TypeOK', Elsewhere(i), Complete(i)' PROVE IInv'
  <2>1. \A j \in Index \ {i} : Complete(j)'
    BY <1>1, <1>2, CompleteElsewhere
  <2>2. TrackTypeOK'
    BY <1>1, <1>2 DEF IInv, TrackTypeOK
  <2> QED
    BY <1>2, <2>1, <2>2, IInvByIndexNext
<1>3. ASSUME NEW v \in Value, Put(i, v) PROVE IInv'
  <2>1. TypeOK' /\ Elsewhere(i)
    BY <1>1, <1>3, PutHere
  <2>2. Complete(i)'
    <3>1. /\ Has(i)' /\ i \in dirty' /\ gen'[i] = gen[i]
          /\ ~Has(i) => i \in added'
          /\ i \in added => i \in added'
      BY <1>1, <1>3, PutHere
    <3> QED
      BY <1>1, <3>1 DEF Complete, Now
  <2> QED
    BY <1>2, <2>1, <2>2
<1>4. CASE Remove(i)
  <2>1. Drop(i, "removed") /\ gen' = gen /\ alive' = alive
    BY <1>4 DEF Remove
  <2>2. TypeOK' /\ Elsewhere(i) /\ ~Has(i)' /\ Removed(i)'
    BY <1>1, <2>1, DropHere
  <2>3. Complete(i)'
    BY <2>1, <2>2 DEF Complete, Now, Drop
  <2> QED
    BY <1>2, <2>2, <2>3
<1>5. CASE Destroy(i)
  <2>1. /\ gen' \in [Index -> Nat] /\ gen'[i] >= gen[i]
        /\ \A j \in Index \ {i} : gen'[j] = gen[j]
        /\ alive' = alive \ {i}
    BY <1>1, <1>5 DEF Destroy
  <2>2. CASE Has(i)
    <3>1. Drop(i, "destroyed")
      BY <1>5, <2>2 DEF Destroy
    <3>2. TypeOK' /\ Elsewhere(i) /\ ~Has(i)' /\ Removed(i)'
      BY <1>1, <2>1, <3>1, DropHere
    <3>3. Complete(i)'
      BY <3>1, <3>2 DEF Complete, Now, Drop
    <3> QED
      BY <1>2, <3>2, <3>3
  <2>3. CASE ~Has(i)
    <3>1. UNCHANGED <<val, dirty, added, removal>>
      BY <1>5, <2>3 DEF Destroy
    <3>2. TypeOK'
      <4>1. \A j \in Index : removal'[j].gen <= gen'[j]
        BY <1>1, <2>1, <3>1 DEF TypeOK, Removal, NoRemoval
      <4>2. \A j \in Index : Has(j)' <=> Has(j)
        BY <3>1 DEF Has
      <4>3. /\ alive' \subseteq Index /\ {j \in Index : Has(j)'} \subseteq alive'
            /\ dirty' \subseteq {j \in Index : Has(j)'}
        BY <1>1, <2>1, <2>3, <3>1, <4>2 DEF TypeOK
      <4> QED
        BY <4>1, <4>3, <1>1, <2>1, <3>1 DEF TypeOK
    <3>3. Elsewhere(i)
      BY <2>1, <3>1 DEF Elsewhere
    <3>4. Complete(i)'
      BY <1>1, <2>3, <3>1 DEF Complete, Now, Has, Removed, TypeOK
    <3> QED
      BY <1>2, <3>2, <3>3, <3>4
  <2> QED
    BY <2>2, <2>3
<1> QED
  BY <1>3, <1>4, <1>5 DEF Change

LEMMA AcknowledgeIInv ==
    ASSUME IInv, NEW i \in Index, Acknowledge(i)
    PROVE  IInv'
<1>1. /\ TrackTypeOK /\ TypeOK /\ \A j \in Index : Complete(j)
  BY IInvByIndex DEF TrackTypeOK
<1>2. TypeOK' /\ Elsewhere(i) /\ gen' = gen /\ val' = val
  BY <1>1, ClearHere DEF Acknowledge
<1>3. Now(i)' = Now(i) /\ Now(i) \in {Absent} \cup [gen : Nat, val : Value]
  BY <1>1, <1>2 DEF Now, Has, TypeOK
<1>4. /\ base'[i] = Now(i) /\ i \in acked'
      /\ \A j \in Index \ {i} : base'[j] = base[j] /\ (j \in acked' <=> j \in acked)
  BY <1>1 DEF Acknowledge, TrackTypeOK
<1>5. TrackTypeOK'
  BY <1>1, <1>2, <1>3 DEF TrackTypeOK, Acknowledge
<1>6. Complete(i)'
  BY <1>2, <1>3, <1>4 DEF Complete, Now, Has, Absent
<1>7. \A j \in Index \ {i} : Complete(j)'
  BY <1>1, <1>2, <1>4, CompleteElsewhere
<1> QED
  BY <1>5, <1>6, <1>7, IInvByIndexNext

LEMMA AcknowledgeAllIInv ==
    ASSUME IInv, AcknowledgeAll
    PROVE  IInv'
<1>1. /\ TrackTypeOK /\ TypeOK
      /\ alive' = alive /\ gen' = gen /\ val' = val /\ dirty' = {} /\ added' = {}
      /\ removal' = [i \in Index |-> NoRemoval]
      /\ base' = [i \in Index |-> Now(i)] /\ acked' = {}
  BY DEF IInv, TrackTypeOK, AcknowledgeAll, ClearAllDirty
<1>2. TypeOK'
  BY <1>1 DEF TypeOK, Has, Removal, NoRemoval
<1>3. \A i \in Index : Now(i)' = Now(i) /\ Now(i) \in {Absent} \cup [gen : Nat, val : Value]
  BY <1>1 DEF Now, Has, TypeOK
<1>4. TrackTypeOK'
  BY <1>1, <1>2, <1>3 DEF TrackTypeOK
<1>5. ASSUME NEW i \in Index PROVE Complete(i)'
  BY <1>1, <1>3 DEF Complete, Now, Has, Absent, Removed, NoRemoval
<1> QED
  BY <1>4, <1>5, IInvByIndexNext

THEOREM IInvHolds == TrackSpec => []IInv
<1>1. IInv /\ [TrackNext]_vars => IInv'
  <2> SUFFICES ASSUME IInv, [TrackNext]_vars PROVE IInv'
    OBVIOUS
  <2>1. CASE UNCHANGED vars
    BY <2>1 DEF vars, table, IInv, TrackTypeOK, TypeOK, EveryChangeIsDirty,
                AdditionsReported, ReportReplays, Now, Has, IsDirty, Removed, Absent
  <2> QED
    BY <2>1, ArriveIInv, ChangeIInv, AcknowledgeIInv, AcknowledgeAllIInv DEF TrackNext
<1> QED
  BY <1>1, InitIInv, PTL DEF TrackSpec

(* is_dirty of a live entity never misses a change, whatever the order of  *)
(* adds, writes, removes, destroys, index reuses and clears; what is_dirty *)
(* no longer answers, the entity being gone, each_removed reports.         *)
THEOREM ChangesDirty == TrackSpec => []EveryChangeIsDirty
<1>1. IInv => EveryChangeIsDirty
  BY DEF IInv
<1> QED
  BY <1>1, IInvHolds, PTL

(* each_added never misses an entity that got the component. *)
THEOREM AdditionsComplete == TrackSpec => []AdditionsReported
<1>1. IInv => AdditionsReported
  BY DEF IInv
<1> QED
  BY <1>1, IInvHolds, PTL

(* The removals and the dirty values replay a consumer's copy into the     *)
(* current table at every index that was not cleared one by one.           *)
THEOREM ReportComplete == TrackSpec => []ReportReplays
<1>1. IInv => ReportReplays
  BY DEF IInv
<1> QED
  BY <1>1, IInvHolds, PTL
-----------------------------------------------------------------------------
(* The broadcaster over it.                                                *)
Row   == [gen : Nat, val : Value \cup {Missing}]
Entry == [id : Issued, live : BOOLEAN]
Frame == [at : Nat \ {0}, running : Issued \cup {Nobody}, read : BOOLEAN]

Listed(q) == {q[k].id : k \in DOMAIN q}

(* A listener that runs was found among the consumers, and nothing leaves  *)
(* them before the outermost broadcast has ended.                          *)
BroadcastTypeOK ==
    /\ next_id \in Nat \ {0} /\ ended \subseteq Issued
    /\ consumers \in Seq(Entry) /\ waiting \in Seq(Entry)
    /\ stack \in Seq(Frame)
    /\ \A n \in DOMAIN stack : stack[n].running \in Listed(consumers) \cup {Nobody}
    /\ copy \in Seq({Lost} \cup [Index -> Row]) /\ Len(copy) = next_id - 1

(* A subscription has one entry, which is live until it is reset. *)
Faithful(q) ==
    \A j, k \in DOMAIN q : /\ q[j].id = q[k].id => j = k
                           /\ q[j].live <=> q[j].id \notin ended

OneEntry ==
    /\ Faithful(consumers) /\ Faithful(waiting)
    /\ Listed(consumers) \cap Listed(waiting) = {}
    /\ Issued \ ended \subseteq Listed(consumers) \cup Listed(waiting)
    /\ stack = <<>> => waiting = <<>>
    /\ \A id \in ended : copy[id] = Lost

(* An entity that has the component is not the one that a removal still    *)
(* reported on its index speaks of.                                        *)
RemovalOlder == \A i \in Index : Has(i) /\ Removed(i) => removal[i].gen < gen[i]

(* A copy that the report brings up to date. *)
Catches(known) ==
    \A i \in Index :
        /\ known[i].gen <= gen[i]
        /\ Now(i) = IF i \in dirty THEN Now(i)
                    ELSE IF Removed(i) /\ removal[i].gen >= known[i].gen THEN Absent
                    ELSE known[i]

CurrentTable == [i \in Index |-> Now(i)]

(* Whoever has had his turn in the innermost broadcast knows the table, so *)
(* the end of that broadcast clears nothing that he has still to be told.  *)
Follows(id) ==
    copy[id] # Lost => Catches(copy[id]) /\ (id \in ToCome \/ copy[id] = CurrentTable)

BInv == IInv /\ BroadcastTypeOK /\ OneEntry /\ RemovalOlder /\ \A id \in Issued : Follows(id)

-----------------------------------------------------------------------------
(* Every set of naturals that is finite can be listed in ascending order.  *)
LEMMA LeastNat ==
    ASSUME NEW T \in SUBSET Nat, T # {}
    PROVE  \E n \in T : \A m \in T : n <= m
<1> DEFINE R == {ss \in Nat \X Nat : ss[1] < ss[2]}
<1>1. IsWellFoundedOn(R, Nat)
  BY NatLessThanWellFounded, Zenon DEF OpToRel
<1> HIDE DEF R
<1>2. PICK n \in T : \A m \in T : ~(<<m, n>> \in R)
  BY <1>1, WFMin
<1>3. ASSUME NEW m \in T PROVE n <= m
  <2>1. <<m, n>> \in Nat \X Nat /\ <<m, n>>[1] = m /\ <<m, n>>[2] = n
    OBVIOUS
  <2>2. m < n => <<m, n>> \in R
    BY <2>1 DEF R
  <2> QED
    BY <1>2, <2>2
<1> QED
  BY <1>2, <1>3

Ascends(f) == \A j, k \in DOMAIN f : j < k => f[j] < f[k]

LEMMA AscendingList ==
    ASSUME NEW L \in SUBSET Nat, IsFiniteSet(L)
    PROVE  \E f \in [1 .. Cardinality(L) -> L] : Ascends(f)
<1> DEFINE Listable(M) == \E f \in [1 .. Cardinality(M) -> M] : Ascends(f)
           Bad == {n \in Nat : \E M \in SUBSET Nat :
                                   IsFiniteSet(M) /\ Cardinality(M) = n /\ ~Listable(M)}
<1> SUFFICES ASSUME ~Listable(L) PROVE FALSE
  OBVIOUS
<1>1. Bad # {} /\ Bad \subseteq Nat
  BY FS_CardinalityType
<1>2. PICK n \in Bad : \A m \in Bad : n <= m
  <2> HIDE DEF Bad
  <2> QED
    BY <1>1, LeastNat
<1>3. PICK M \in SUBSET Nat : IsFiniteSet(M) /\ Cardinality(M) = n /\ ~Listable(M)
  BY <1>2
<1>4. n \in Nat
  BY <1>2
<1>5. n # 0
  <2> SUFFICES ASSUME n = 0 PROVE FALSE
    OBVIOUS
  <2>1. [k \in 1 .. 0 |-> 0] \in [1 .. 0 -> M] /\ Ascends([k \in 1 .. 0 |-> 0])
    BY DEF Ascends
  <2> QED
    BY <1>3, <2>1
<1>6. PICK x \in M : \A y \in M : x <= y
  BY <1>3, <1>5, FS_EmptySet, LeastNat
<1>7. IsFiniteSet(M \ {x}) /\ Cardinality(M \ {x}) = n - 1
  BY <1>3, FS_RemoveElement
<1>8. Listable(M \ {x})
  <2>1. n - 1 \in Nat /\ ~(n <= n - 1)
    BY <1>4, <1>5
  <2>2. n - 1 \notin Bad
    <3> HIDE DEF Bad
    <3> QED
      BY <1>2, <2>1
  <2> QED
    BY <1>7, <2>1, <2>2
<1>9. PICK g \in [1 .. n - 1 -> M \ {x}] : Ascends(g)
  BY <1>7, <1>8
<1> DEFINE f == [k \in 1 .. n |-> IF k = 1 THEN x ELSE g[k - 1]]
<1>10. \A k \in 1 .. n : k # 1 => k - 1 \in 1 .. n - 1 /\ f[k] = g[k - 1] /\ f[k] \in M \ {x}
  BY <1>4, <1>9
<1>11. f \in [1 .. n -> M] /\ DOMAIN f = 1 .. n
  BY <1>10
<1>12. f[1] = x
  BY <1>4, <1>5
<1> HIDE DEF f
<1>13. Ascends(f)
  <2> SUFFICES ASSUME NEW j \in 1 .. n, NEW k \in 1 .. n, j < k PROVE f[j] < f[k]
    BY <1>11 DEF Ascends
  <2>1. k # 1 /\ f[k] \in M \ {x} /\ f[k] = g[k - 1] /\ k - 1 \in 1 .. n - 1
    BY <1>4, <1>10
  <2>2. CASE j = 1
    <3>1. x \in Nat /\ f[k] \in Nat /\ x <= f[k] /\ x # f[k] /\ f[j] = x
      BY <1>6, <1>12, <2>1, <2>2
    <3> QED
      BY <3>1
  <2>3. CASE j # 1
    <3>1. f[j] = g[j - 1] /\ j - 1 \in 1 .. n - 1 /\ j - 1 < k - 1
      BY <1>4, <1>10, <2>3
    <3> QED
      BY <1>9, <2>1, <3>1 DEF Ascends
  <2> QED
    BY <2>2, <2>3
<1> QED
  BY <1>3, <1>11, <1>13

(* remove_unsubscribed keeps the entries that are not reset, once each. *)
Kept(q, r) ==
    /\ r \in Seq(Entry) /\ Faithful(r)
    /\ \A k \in DOMAIN r : r[k].live
    /\ Listed(r) = Listed(q) \ ended

LEMMA LiveKept ==
    ASSUME NEW q \in Seq(Entry), Faithful(q)
    PROVE  Kept(q, Live(q))
<1> DEFINE live  == {k \in DOMAIN q : q[k].live}
           order == CHOOSE f \in [1 .. Cardinality(live) -> live] :
                       \A j, k \in DOMAIN f : j < k => f[j] < f[k]
           r     == Live(q)
<1>1. DOMAIN q = 1 .. Len(q) /\ Len(q) \in Nat
  OBVIOUS
<1>2. live \in SUBSET Nat /\ IsFiniteSet(live) /\ Cardinality(live) \in Nat
  <2>1. IsFiniteSet(1 .. Len(q))
    BY <1>1, FS_Interval
  <2> QED
    BY <1>1, <2>1, FS_Subset, FS_CardinalityType
<1>3. r = [k \in 1 .. Cardinality(live) |-> q[order[k]]]
  BY DEF Live
<1> HIDE DEF r
<1>4. order \in [1 .. Cardinality(live) -> live] /\ Ascends(order)
  <2> HIDE DEF live
  <2>1. \E f \in [1 .. Cardinality(live) -> live] : Ascends(f)
    BY <1>2, AscendingList
  <2> QED
    BY <2>1 DEF Ascends
<1>5. \A k \in live : k \in DOMAIN q /\ q[k].live
  OBVIOUS
<1>6. \A k \in DOMAIN q : q[k].live => k \in live
  OBVIOUS
<1> HIDE DEF live, order
<1>7. ASSUME NEW j \in 1 .. Cardinality(live), NEW k \in 1 .. Cardinality(live), order[j] = order[k]
      PROVE  j = k
  <2>1. order[j] \in Nat /\ order[k] \in Nat /\ DOMAIN order = 1 .. Cardinality(live)
    BY <1>2, <1>4
  <2>2. ~(order[j] < order[k]) /\ ~(order[k] < order[j])
    BY <1>7, <2>1
  <2>3. ~(j < k) /\ ~(k < j)
    BY <1>4, <2>1, <2>2 DEF Ascends
  <2> QED
    BY <1>2, <2>3
<1>8. order \in Surjection(1 .. Cardinality(live), live)
  <2>1. order \in Injection(1 .. Cardinality(live), live)
    BY <1>4, <1>7 DEF Injection, IsInjective
  <2>2. Cardinality(1 .. Cardinality(live)) = Cardinality(live)
    BY <1>2, FS_Interval
  <2> QED
    BY <1>2, <2>1, <2>2, FS_Injection
<1>9. r \in Seq(Entry) /\ DOMAIN r = 1 .. Cardinality(live)
      /\ \A k \in DOMAIN r : r[k] = q[order[k]] /\ order[k] \in DOMAIN q /\ r[k].live
  <2>1. \A k \in 1 .. Cardinality(live) :
            order[k] \in DOMAIN q /\ q[order[k]] \in Entry /\ q[order[k]].live
    BY <1>4, <1>5
  <2>2. DOMAIN r = 1 .. Cardinality(live) /\ \A k \in DOMAIN r : r[k] = q[order[k]]
    BY <1>3
  <2>3. r \in Seq(Entry)
    BY <1>2, <1>3, <2>1
  <2> QED
    BY <2>1, <2>2, <2>3
<1>10. Faithful(r)
  BY <1>7, <1>9 DEF Faithful
<1>11. Listed(r) = Listed(q) \ ended
  <2>1. ASSUME NEW k \in DOMAIN r PROVE r[k].id \in Listed(q) \ ended
    BY <1>9 DEF Faithful, Listed
  <2>2. ASSUME NEW k \in DOMAIN q, q[k].id \notin ended PROVE q[k].id \in Listed(r)
    <3>1. k \in live
      BY <1>6, <2>2 DEF Faithful
    <3>2. PICK j \in 1 .. Cardinality(live) : order[j] = k
      BY <1>8, <3>1 DEF Surjection
    <3> QED
      BY <1>9, <3>2 DEF Listed
  <2> QED
    BY <2>1, <2>2 DEF Listed
<1> QED
  BY <1>9, <1>10, <1>11 DEF Kept, r

-----------------------------------------------------------------------------
(* A change sets the value, replaces it by its removal, or destroys an     *)
(* entity that does not have the component.                                *)
LEMMA ChangeEffect ==
    ASSUME IInv, RemovalOlder, NEW i \in Index, Change(i)
    PROVE  /\ Elsewhere(i) /\ gen'[i] >= gen[i]
           /\ Has(i)' /\ Removed(i)' => removal'[i].gen < gen'[i]
           /\ \/ i \in dirty'
              \/ i \notin dirty' /\ ~Has(i)' /\ Removed(i)' /\ removal'[i].gen = gen[i]
              \/ i \notin dirty' /\ ~Has(i)' /\ ~Has(i) /\ removal'[i] = removal[i]
<1>1. TypeOK /\ \A j \in Index : gen[j] \in Nat
  BY DEF IInv, TrackTypeOK, TypeOK
<1>2. ASSUME NEW v \in Value, Put(i, v)
      PROVE  /\ Elsewhere(i) /\ gen'[i] = gen[i] /\ i \in dirty'
             /\ Has(i)' /\ Removed(i)' => removal'[i].gen < gen'[i]
  <2>1. Elsewhere(i) /\ gen'[i] = gen[i] /\ i \in dirty'
    BY <1>1, <1>2, PutHere
  <2>2. removal[i].gen <= gen[i] /\ removal[i].gen \in Nat
    BY <1>1 DEF TypeOK, Removal, NoRemoval
  <2>3. CASE ~Has(i) /\ removal[i].gen = gen[i]
    BY <1>1, <1>2, <2>1, <2>3 DEF Put, Removed, NoRemoval, TypeOK
  <2>4. CASE ~(~Has(i) /\ removal[i].gen = gen[i])
    BY <1>1, <1>2, <2>1, <2>2, <2>4 DEF Put, RemovalOlder, Removed
  <2> QED
    BY <2>1, <2>3, <2>4
<1>3. ASSUME NEW kind \in {"removed", "destroyed"}, Drop(i, kind),
             gen' \in [Index -> Nat], gen'[i] >= gen[i],
             \A j \in Index \ {i} : gen'[j] = gen[j],
             alive' \subseteq alive, alive \ {i} \subseteq alive'
      PROVE  Elsewhere(i) /\ i \notin dirty' /\ ~Has(i)' /\ Removed(i)' /\ removal'[i].gen = gen[i]
  <2>1. Elsewhere(i) /\ ~Has(i)' /\ Removed(i)'
    BY <1>1, <1>3, DropHere
  <2>2. i \notin dirty' /\ removal'[i].gen = gen[i]
    BY <1>1, <1>3 DEF Drop, TypeOK
  <2> QED
    BY <2>1, <2>2
<1>4. CASE Remove(i)
  <2>1. Drop(i, "removed") /\ gen' = gen /\ alive' = alive
    BY <1>4 DEF Remove
  <2>2. gen' \in [Index -> Nat] /\ gen'[i] >= gen[i]
    BY <1>1, <2>1 DEF TypeOK
  <2> QED
    BY <1>3, <2>1, <2>2
<1>5. CASE Destroy(i)
  <2>1. /\ gen' \in [Index -> Nat] /\ gen'[i] >= gen[i]
        /\ \A j \in Index \ {i} : gen'[j] = gen[j]
        /\ alive' = alive \ {i}
    BY <1>1, <1>5 DEF Destroy, TypeOK
  <2>2. CASE Has(i)
    BY <1>3, <1>5, <2>1, <2>2 DEF Destroy
  <2>3. CASE ~Has(i)
    <3>1. UNCHANGED <<val, dirty, added, removal>> /\ i \notin dirty
      BY <1>1, <1>5, <2>3 DEF Destroy, TypeOK
    <3> QED
      BY <2>1, <2>3, <3>1 DEF Elsewhere, Has
  <2> QED
    BY <2>2, <2>3
<1> QED
  BY <1>1, <1>2, <1>4, <1>5 DEF Change

(* What the report tells a copy, as the table changes. *)
LEMMA ChangeCatches ==
    ASSUME IInv, RemovalOlder, NEW i \in Index, Change(i)
    PROVE  /\ RemovalOlder'
           /\ \A known \in [Index -> Row] : Catches(known) => Catches(known)'
<1>1. \A j \in Index : gen[j] \in Nat
  BY DEF IInv, TrackTypeOK, TypeOK
<1>2. /\ Elsewhere(i) /\ gen'[i] >= gen[i] /\ gen'[i] \in Nat
      /\ Has(i)' /\ Removed(i)' => removal'[i].gen < gen'[i]
      /\ \/ i \in dirty'
         \/ i \notin dirty' /\ ~Has(i)' /\ Removed(i)' /\ removal'[i].gen = gen[i]
         \/ i \notin dirty' /\ ~Has(i)' /\ ~Has(i) /\ removal'[i] = removal[i]
  <2>1. gen' \in [Index -> Nat]
    BY ChangeIInv DEF IInv, TrackTypeOK, TypeOK
  <2> QED
    BY <2>1, ChangeEffect
<1>3. RemovalOlder'
  BY <1>2 DEF RemovalOlder, Elsewhere, Has, Removed
<1>4. ASSUME NEW known \in [Index -> Row], Catches(known), NEW j \in Index
      PROVE  /\ known[j].gen <= gen'[j]
             /\ Now(j)' = IF j \in dirty' THEN Now(j)'
                          ELSE IF Removed(j)' /\ removal'[j].gen >= known[j].gen THEN Absent
                          ELSE known[j]
  <2>1. known[j].gen \in Nat
    BY DEF Row
  <2>2. /\ known[j].gen <= gen[j]
        /\ Now(j) = IF j \in dirty THEN Now(j)
                    ELSE IF Removed(j) /\ removal[j].gen >= known[j].gen THEN Absent
                    ELSE known[j]
    BY <1>4 DEF Catches
  <2>3. CASE j = i
    <3>1. i \in dirty => Has(i)
      BY DEF IInv, TrackTypeOK, TypeOK
    <3> QED
      BY <1>1, <1>2, <2>1, <2>2, <2>3, <3>1 DEF Now, Removed, Absent
  <2>4. CASE j # i
    BY <1>2, <2>2, <2>4 DEF Elsewhere, Now, Has, Removed
  <2> QED
    BY <2>3, <2>4
<1> QED
  BY <1>3, <1>4 DEF Catches

LEMMA CurrentCatches ==
    ASSUME IInv, RemovalOlder
    PROVE  CurrentTable \in [Index -> Row] /\ Catches(CurrentTable)
<1>1. ASSUME NEW i \in Index
      PROVE  /\ gen[i] \in Nat /\ removal[i].gen \in Nat /\ Now(i) \in Row
             /\ Now(i).gen = IF Has(i) THEN gen[i] ELSE 0
             /\ ~Has(i) => Now(i) = Absent
  BY DEF IInv, TrackTypeOK, TypeOK, Removal, NoRemoval, Now, Row, Has, Absent
<1>2. CurrentTable \in [Index -> Row] /\ \A i \in Index : CurrentTable[i] = Now(i)
  BY <1>1 DEF CurrentTable
<1> QED
  BY <1>1, <1>2 DEF Catches, RemovalOlder

(* Replaying the report on a copy that catches up gives the table. *)
LEMMA CatchesReplayed ==
    ASSUME NEW known, Catches(known)
    PROVE  Replayed(known) = CurrentTable
BY DEF Catches, Replayed, CurrentTable

(* When the report is cleared only the table itself is still up to date. *)
LEMMA ClearedCatches ==
    ASSUME IInv, AcknowledgeAll
    PROVE  /\ IInv' /\ RemovalOlder' /\ CurrentTable' = CurrentTable
           /\ Catches(CurrentTable)'
<1>1. IInv'
  BY AcknowledgeAllIInv
<1>2. /\ gen' = gen /\ val' = val /\ dirty' = {}
      /\ removal' = [i \in Index |-> NoRemoval]
  BY DEF AcknowledgeAll, ClearAllDirty
<1>3. CurrentTable' = CurrentTable
  BY <1>2 DEF CurrentTable, Now, Has
<1>4. RemovalOlder'
  BY <1>2 DEF RemovalOlder, Removed, NoRemoval
<1>5. ASSUME NEW i \in Index
      PROVE  Now(i).gen <= gen[i] /\ Now(i)' = Now(i)
  BY <1>2 DEF IInv, TrackTypeOK, TypeOK, Now, Has, Absent
<1>6. Catches(CurrentTable)'
  BY <1>2, <1>5 DEF Catches, CurrentTable, Removed, NoRemoval
<1> QED
  BY <1>1, <1>3, <1>4, <1>6

-----------------------------------------------------------------------------
(* Copies and subscriptions. *)
LEMMA CopyAt ==
    ASSUME BroadcastTypeOK
    PROVE  /\ DOMAIN copy = Issued
           /\ \A id \in Issued : copy[id] = Lost \/ copy[id] \in [Index -> Row]
<1>1. DOMAIN copy = 1 .. Len(copy) /\ \A id \in DOMAIN copy : copy[id] \in {Lost} \cup [Index -> Row]
  BY DEF BroadcastTypeOK
<1> QED
  BY <1>1 DEF BroadcastTypeOK, Issued

LEMMA LosingCopies ==
    ASSUME BroadcastTypeOK, NEW ids, NEW c, c = Losing(ids)
    PROVE  /\ c \in Seq({Lost} \cup [Index -> Row]) /\ Len(c) = next_id - 1
           /\ \A id \in Issued : c[id] = IF id \in ids THEN Lost ELSE copy[id]
<1>1. /\ DOMAIN copy = Issued /\ Issued = 1 .. next_id - 1 /\ next_id - 1 \in Nat
      /\ \A id \in Issued : copy[id] \in {Lost} \cup [Index -> Row]
  BY CopyAt DEF Issued, BroadcastTypeOK
<1>2. c = [id \in 1 .. next_id - 1 |-> IF id \in ids THEN Lost ELSE copy[id]]
  BY <1>1 DEF Losing
<1>3. c \in [1 .. next_id - 1 -> {Lost} \cup [Index -> Row]]
  BY <1>1, <1>2
<1> QED
  BY <1>1, <1>2, <1>3

LEMMA InnermostFrame ==
    ASSUME BroadcastTypeOK, stack # <<>>
    PROVE  /\ broadcast_depth \in Nat \ {0} /\ broadcast_depth \in DOMAIN stack
           /\ Innermost \in Frame /\ Innermost.running \in Listed(consumers) \cup {Nobody}
<1>1. stack \in Seq(Frame) /\ Len(stack) \in 1 .. Len(stack) /\ DOMAIN stack = 1 .. Len(stack)
  BY DEF BroadcastTypeOK
<1> QED
  BY <1>1 DEF BroadcastTypeOK, Innermost, broadcast_depth

(* A step that leaves the table and the report alone keeps every copy as   *)
(* good as it was; whose turn passes has to know the table.                *)
LEMMA CopiesKept ==
    ASSUME RemovalOlder, UNCHANGED <<gen, val, dirty, added, removal>>
    PROVE  /\ RemovalOlder' /\ CurrentTable' = CurrentTable
           /\ \A known : Catches(known)' <=> Catches(known)
<1>1. RemovalOlder' /\ CurrentTable' = CurrentTable
  BY DEF RemovalOlder, CurrentTable, Now, Has, Removed, Absent
<1>2. \A known : Catches(known)' <=> Catches(known)
  BY DEF Catches, Now, Has, Removed, Absent
<1> QED
  BY <1>1, <1>2

LEMMA TableKept ==
    ASSUME IInv, RemovalOlder, UNCHANGED vars
    PROVE  /\ IInv' /\ RemovalOlder' /\ CurrentTable' = CurrentTable
           /\ \A known : Catches(known)' <=> Catches(known)
<1>1. UNCHANGED <<alive, gen, val, dirty, added, removal, base, acked>>
  BY DEF vars, table
<1>2. IInv'
  BY <1>1 DEF IInv, TrackTypeOK, TypeOK, EveryChangeIsDirty, AdditionsReported, ReportReplays,
              Now, Has, IsDirty, Removed, Absent
<1> QED
  BY <1>1, <1>2, CopiesKept

LEMMA FollowsKept ==
    ASSUME BInv, UNCHANGED vars, NEW id \in Issued, copy'[id] = copy[id],
           id \in ToCome => id \in ToCome' \/ copy[id] \in {Lost, CurrentTable}
    PROVE  Follows(id)'
BY TableKept DEF BInv, Follows

LEMMA EntriesKept ==
    ASSUME OneEntry, BroadcastTypeOK, UNCHANGED <<consumers, waiting, next_id, ended>>,
           stack' = <<>> => stack = <<>>,
           \A id \in Issued : copy[id] = Lost => copy'[id] = Lost
    PROVE  OneEntry'
<1>1. Faithful(consumers)' /\ Faithful(waiting)'
  BY DEF OneEntry, Faithful
<1>2. Listed(consumers)' = Listed(consumers) /\ Listed(waiting)' = Listed(waiting)
      /\ Issued' = Issued
  BY DEF Listed, Issued
<1>3. \A id \in ended : copy'[id] = Lost
  BY DEF OneEntry, BroadcastTypeOK
<1> QED
  BY <1>1, <1>2, <1>3 DEF OneEntry

LEMMA BInitHolds == BroadcastInit => BInv
<1> SUFFICES ASSUME BroadcastInit PROVE BInv
  OBVIOUS
<1>1. IInv
  BY InitIInv DEF BroadcastInit
<1>2. consumers = <<>> /\ waiting = <<>> /\ next_id = 1 /\ stack = <<>> /\ copy = <<>> /\ ended = {}
  BY DEF BroadcastInit
<1>3. BroadcastTypeOK
  BY <1>2 DEF BroadcastTypeOK
<1>4. OneEntry
  BY <1>2 DEF OneEntry, Faithful, Listed, Issued
<1>5. RemovalOlder
  BY DEF RemovalOlder, BroadcastInit, TrackInit, Init, Removed, NoRemoval
<1>6. Issued = {}
  BY <1>2 DEF Issued
<1> QED
  BY <1>1, <1>3, <1>4, <1>5, <1>6 DEF BInv

LEMMA CreateHereBInv ==
    ASSUME BInv, NEW i \in Index, CreateHere(i)
    PROVE  BInv'
<1>1. /\ IInv /\ BroadcastTypeOK /\ OneEntry /\ RemovalOlder /\ \A id \in Issued : Follows(id)
      /\ Arrive(i) /\ UNCHANGED <<consumers, waiting, next_id, stack, copy, ended>>
      /\ UNCHANGED <<gen, val, dirty, added, removal>>
  BY DEF BInv, CreateHere, broadcast, state, history, Arrive, Create
<1>2. Issued' = Issued /\ ToCome' = ToCome
  BY <1>1 DEF Issued, ToCome, Innermost, broadcast_depth
<1>3. BroadcastTypeOK'
  BY <1>1, <1>2 DEF BroadcastTypeOK, Listed, Entry, Frame, Row
<1>4. OneEntry'
  BY <1>1, EntriesKept
<1>5. \A id \in Issued : Follows(id)'
  BY <1>1, <1>2, CopiesKept DEF Follows
<1> QED
  BY <1>1, <1>2, <1>3, <1>4, <1>5, ArriveIInv, CopiesKept DEF BInv

LEMMA ChangeHereBInv ==
    ASSUME BInv, NEW i \in Index, ChangeHere(i)
    PROVE  BInv'
<1>1. /\ IInv /\ BroadcastTypeOK /\ OneEntry /\ RemovalOlder /\ \A id \in Issued : Follows(id)
      /\ Change(i) /\ copy' = Losing(Issued \ ToCome)
      /\ UNCHANGED <<consumers, waiting, next_id, stack, ended>>
  BY DEF BInv, ChangeHere, state
<1>2. Issued' = Issued /\ ToCome' = ToCome
  BY <1>1 DEF Issued, ToCome, Innermost, broadcast_depth
<1>3. /\ copy' \in Seq({Lost} \cup [Index -> Row]) /\ Len(copy') = next_id - 1
      /\ \A id \in Issued : copy'[id] = IF id \in ToCome THEN copy[id] ELSE Lost
  BY <1>1, LosingCopies
<1>4. BroadcastTypeOK'
  BY <1>1, <1>2, <1>3 DEF BroadcastTypeOK, Listed, Row, Entry, Frame
<1>5. OneEntry'
  BY <1>1, <1>3, EntriesKept
<1>6. IInv' /\ RemovalOlder' /\ \A known \in [Index -> Row] : Catches(known) => Catches(known)'
  BY <1>1, ChangeIInv, ChangeCatches
<1>7. ASSUME NEW id \in Issued PROVE Follows(id)'
  <2>1. copy[id] = Lost \/ copy[id] \in [Index -> Row]
    BY <1>1, CopyAt
  <2> QED
    BY <1>1, <1>2, <1>3, <1>6, <2>1 DEF Follows
<1> QED
  BY <1>2, <1>4, <1>5, <1>6, <1>7 DEF BInv

LEMMA ClearBInv ==
    ASSUME BInv, Clear
    PROVE  BInv'
<1>1. /\ IInv /\ BroadcastTypeOK /\ OneEntry /\ RemovalOlder
      /\ copy' = Losing(Issued)
      /\ UNCHANGED <<consumers, waiting, next_id, stack, ended>>
      /\ AcknowledgeAll \/ \E i \in Index : Acknowledge(i)
  BY DEF BInv, Clear, state
<1>2. Issued' = Issued
  BY <1>1 DEF Issued
<1>3. /\ copy' \in Seq({Lost} \cup [Index -> Row]) /\ Len(copy') = next_id - 1
      /\ \A id \in Issued : copy'[id] = Lost
  BY <1>1, LosingCopies
<1>4. BroadcastTypeOK'
  BY <1>1, <1>2, <1>3 DEF BroadcastTypeOK, Listed, Row, Entry, Frame
<1>5. OneEntry'
  BY <1>1, <1>3, EntriesKept
<1>6. IInv' /\ RemovalOlder'
  <2>1. CASE AcknowledgeAll
    BY <1>1, <2>1, ClearedCatches
  <2>2. ASSUME NEW i \in Index, Acknowledge(i) PROVE IInv' /\ RemovalOlder'
    <3>1. IInv' /\ ClearDirty(i)
      BY <1>1, <2>2, AcknowledgeIInv DEF Acknowledge
    <3>2. RemovalOlder'
      BY <1>1, <3>1 DEF RemovalOlder, ClearDirty, Has, Removed, NoRemoval, IInv, TrackTypeOK, TypeOK
    <3> QED
      BY <3>1, <3>2
  <2> QED
    BY <1>1, <2>1, <2>2
<1> QED
  BY <1>2, <1>3, <1>4, <1>5, <1>6 DEF BInv, Follows

-----------------------------------------------------------------------------
LEMMA SeqWider ==
    ASSUME NEW S, NEW T, S \subseteq T, NEW q \in Seq(S)
    PROVE  q \in Seq(T)
OBVIOUS

LEMMA SeqLonger ==
    ASSUME NEW S, NEW e \in S, NEW q \in Seq(S)
    PROVE  Append(q, e) \in Seq(S)
OBVIOUS

LEMMA SeqEmpty ==
    ASSUME NEW S, NEW q \in Seq(S), Len(q) = 0
    PROVE  q = <<>>
OBVIOUS

LEMMA ListedIssued ==
    ASSUME NEW q \in Seq(Entry)
    PROVE  Listed(q) \subseteq Issued
<1>1. \A k \in DOMAIN q : q[k] \in Entry
  OBVIOUS
<1> QED
  BY <1>1 DEF Listed, Entry

LEMMA AppendEntry ==
    ASSUME NEW q \in Seq(Entry), Faithful(q), NEW id, id \notin Listed(q), id \notin ended,
           NEW r, r = Append(q, [id |-> id, live |-> TRUE])
    PROVE  Faithful(r) /\ Listed(r) = Listed(q) \cup {id}
<1> DEFINE e == [id |-> id, live |-> TRUE]
<1>1. e.id = id /\ e.live = TRUE
  OBVIOUS
<1>2. r = Append(q, e)
  OBVIOUS
<1> HIDE DEF e
<1>3. /\ DOMAIN q = 1 .. Len(q) /\ Len(q) \in Nat
      /\ DOMAIN r = DOMAIN q \cup {Len(q) + 1} /\ Len(q) + 1 \notin DOMAIN q
      /\ r[Len(q) + 1] = e /\ \A k \in DOMAIN q : r[k] = q[k]
  <2>1. DOMAIN r = 1 .. Len(q) + 1
    BY <1>2
  <2> QED
    BY <1>2, <2>1
<1>4. Listed(r) = Listed(q) \cup {id}
  BY <1>1, <1>3 DEF Listed
<1>5. ASSUME NEW j \in DOMAIN r, NEW k \in DOMAIN r
      PROVE  (r[j].id = r[k].id => j = k) /\ (r[j].live <=> r[j].id \notin ended)
  <2>1. \A n \in DOMAIN q : q[n].id # id
    BY DEF Listed
  <2> QED
    BY <1>1, <1>3, <2>1 DEF Faithful
<1> QED
  BY <1>4, <1>5 DEF Faithful

LEMMA SubscribeBInv ==
    ASSUME BInv, Subscribe
    PROVE  BInv'
<1>1. /\ IInv /\ BroadcastTypeOK /\ OneEntry /\ RemovalOlder /\ \A id \in Issued : Follows(id)
      /\ next_id' = next_id + 1 /\ copy' = Append(copy, CurrentTable)
      /\ UNCHANGED vars /\ stack' = stack /\ ended' = ended
  BY DEF BInv, Subscribe, CurrentTable
<1>2. /\ IInv' /\ RemovalOlder' /\ CurrentTable' = CurrentTable
      /\ \A known : Catches(known)' <=> Catches(known)
      /\ CurrentTable \in [Index -> Row] /\ Catches(CurrentTable)
  BY <1>1, TableKept, CurrentCatches
<1>3. Issued' = Issued \cup {next_id} /\ next_id \notin Issued /\ next_id \in Nat \ {0}
  BY <1>1 DEF Issued, BroadcastTypeOK
<1>4. /\ copy' \in Seq({Lost} \cup [Index -> Row]) /\ Len(copy') = next_id' - 1
      /\ copy'[next_id] = CurrentTable /\ \A id \in Issued : copy'[id] = copy[id]
  <2>1. copy \in Seq({Lost} \cup [Index -> Row]) /\ Len(copy) = next_id - 1
    BY <1>1 DEF BroadcastTypeOK
  <2> QED
    BY <1>1, <1>2, <1>3, <2>1 DEF Issued
<1>5. Entry \subseteq Entry' /\ Frame \subseteq Frame' /\ [id |-> next_id, live |-> TRUE] \in Entry'
  BY <1>3 DEF Entry, Frame
<1>6. /\ consumers \in Seq(Entry) /\ waiting \in Seq(Entry) /\ stack \in Seq(Frame)
      /\ next_id \notin Listed(consumers) /\ next_id \notin Listed(waiting) /\ next_id \notin ended
      /\ Listed(consumers) \subseteq Issued
      /\ Faithful(consumers) /\ Faithful(waiting)
  BY <1>1, <1>3, ListedIssued DEF BroadcastTypeOK, OneEntry
<1>7. \/ /\ stack = <<>> /\ waiting' = waiting
         /\ consumers' = Append(consumers, [id |-> next_id, live |-> TRUE])
      \/ /\ stack # <<>> /\ consumers' = consumers
         /\ waiting' = Append(waiting, [id |-> next_id, live |-> TRUE])
  BY <1>6 DEF Subscribe, broadcast_depth
<1>8. /\ consumers' \in Seq(Entry') /\ waiting' \in Seq(Entry') /\ stack' \in Seq(Frame')
  <2>1. consumers \in Seq(Entry') /\ waiting \in Seq(Entry') /\ stack \in Seq(Frame')
    BY <1>5, <1>6, SeqWider
  <2>2. \A q \in Seq(Entry') : Append(q, [id |-> next_id, live |-> TRUE]) \in Seq(Entry')
    BY <1>5, SeqLonger
  <2> QED
    BY <1>1, <1>7, <2>1, <2>2
<1>9. /\ Faithful(consumers') /\ Faithful(waiting')
      /\ \/ stack = <<>> /\ Listed(consumers') = Listed(consumers) \cup {next_id} /\ waiting' = waiting
         \/ stack # <<>> /\ Listed(waiting') = Listed(waiting) \cup {next_id} /\ consumers' = consumers
  BY <1>6, <1>7, AppendEntry
<1>10. BroadcastTypeOK'
  <2>1. Listed(consumers) \subseteq Listed(consumers)'
    BY <1>9 DEF Listed
  <2>2. \A n \in DOMAIN stack' : stack'[n].running \in Listed(consumers)' \cup {Nobody}
    BY <1>1, <2>1 DEF BroadcastTypeOK
  <2> QED
    BY <1>1, <1>3, <1>4, <1>8, <2>2 DEF BroadcastTypeOK
<1>11. OneEntry'
  <2>1. Faithful(consumers)' /\ Faithful(waiting)'
    BY <1>1, <1>9 DEF Faithful
  <2>2. \A id \in ended : copy'[id] = Lost
    BY <1>1, <1>4 DEF OneEntry, BroadcastTypeOK
  <2>3. /\ Listed(consumers') \cap Listed(waiting') = {}
        /\ (Issued \cup {next_id}) \ ended \subseteq Listed(consumers') \cup Listed(waiting')
        /\ stack = <<>> => waiting' = <<>>
    BY <1>1, <1>6, <1>9 DEF OneEntry
  <2> QED
    BY <1>1, <1>3, <2>1, <2>2, <2>3 DEF OneEntry, Listed
<1>12. ASSUME NEW id \in Issued' PROVE Follows(id)'
  <2>1. CASE id = next_id
    BY <1>2, <1>4, <2>1 DEF Follows
  <2>2. CASE id \in Issued
    <3>1. id \in ToCome => id \in ToCome'
      BY <1>1, <1>3, <1>9 DEF ToCome, Innermost, broadcast_depth
    <3> QED
      BY <1>1, <1>4, <2>2, <3>1, FollowsKept
  <2> QED
    BY <1>3, <2>1, <2>2
<1> QED
  BY <1>2, <1>10, <1>11, <1>12 DEF BInv

LEMMA WithoutEntry ==
    ASSUME NEW q \in Seq(Entry), Faithful(q), NEW id, NEW r, r = Without(q, id)
    PROVE  /\ r \in Seq(Entry) /\ Len(r) = Len(q) /\ DOMAIN r = DOMAIN q
           /\ Listed(r) = Listed(q)
           /\ \A k \in DOMAIN r : /\ r[k].id = q[k].id
                                  /\ r[k].live <=> r[k].id \notin ended \cup {id}
<1>1. r = [k \in 1 .. Len(q) |-> IF q[k].id = id THEN [q[k] EXCEPT !.live = FALSE] ELSE q[k]]
  BY DEF Without
<1>2. ASSUME NEW k \in 1 .. Len(q)
      PROVE  /\ r[k] \in Entry /\ r[k].id = q[k].id
             /\ r[k].live <=> r[k].id \notin ended \cup {id}
  <2>1. q[k] \in Entry /\ (q[k].live <=> q[k].id \notin ended)
    BY DEF Faithful
  <2> QED
    BY <1>1, <2>1 DEF Entry
<1>3. DOMAIN q = 1 .. Len(q) /\ DOMAIN r = 1 .. Len(q) /\ Len(q) \in Nat
  BY <1>1
<1>4. r \in [1 .. Len(q) -> Entry]
  BY <1>1, <1>2
<1>5. r \in Seq(Entry) /\ Len(r) = Len(q)
  BY <1>3, <1>4
<1>6. Listed(r) = Listed(q)
  BY <1>2, <1>3 DEF Listed
<1> QED
  BY <1>2, <1>3, <1>5, <1>6

LEMMA ResetBInv ==
    ASSUME BInv, NEW id \in Issued, Reset(id)
    PROVE  BInv'
<1>1. /\ IInv /\ BroadcastTypeOK /\ OneEntry /\ RemovalOlder /\ \A i \in Issued : Follows(i)
      /\ id \notin ended /\ ended' = ended \cup {id} /\ copy' = Losing({id})
      /\ UNCHANGED vars /\ next_id' = next_id /\ stack' = stack
      /\ consumers' = Without(consumers, id) /\ waiting' = Without(waiting, id)
  BY DEF BInv, Reset
<1>2. /\ copy' \in Seq({Lost} \cup [Index -> Row]) /\ Len(copy') = next_id - 1
      /\ \A i \in Issued : copy'[i] = IF i = id THEN Lost ELSE copy[i]
  BY <1>1, LosingCopies
<1>3. /\ consumers \in Seq(Entry) /\ Faithful(consumers)
      /\ waiting \in Seq(Entry) /\ Faithful(waiting)
  BY <1>1 DEF BroadcastTypeOK, OneEntry
<1>4. /\ consumers' \in Seq(Entry) /\ waiting' \in Seq(Entry)
      /\ Len(consumers') = Len(consumers) /\ Len(waiting') = Len(waiting)
      /\ Listed(consumers') = Listed(consumers) /\ Listed(waiting') = Listed(waiting)
  BY <1>1, <1>3, WithoutEntry
<1>5. /\ DOMAIN consumers' = DOMAIN consumers
      /\ \A k \in DOMAIN consumers' : /\ consumers'[k].id = consumers[k].id
                                      /\ consumers'[k].live <=> consumers'[k].id \notin ended'
  BY <1>1, <1>3, WithoutEntry
<1>6. /\ DOMAIN waiting' = DOMAIN waiting
      /\ \A k \in DOMAIN waiting' : /\ waiting'[k].id = waiting[k].id
                                    /\ waiting'[k].live <=> waiting'[k].id \notin ended'
  BY <1>1, <1>3, WithoutEntry
<1>7. Issued' = Issued /\ Entry' = Entry /\ Frame' = Frame
  BY <1>1 DEF Issued, Entry, Frame
<1>8. Listed(consumers)' = Listed(consumers) /\ Listed(waiting)' = Listed(waiting)
  BY <1>4 DEF Listed
<1>9. BroadcastTypeOK'
  BY <1>1, <1>2, <1>4, <1>7, <1>8 DEF BroadcastTypeOK
<1>10. OneEntry'
  <2>1. Faithful(consumers)' /\ Faithful(waiting)'
    BY <1>3, <1>5, <1>6 DEF Faithful
  <2>2. \A i \in ended' : copy'[i] = Lost
    BY <1>1, <1>2 DEF OneEntry, BroadcastTypeOK
  <2>3. stack' = <<>> => waiting' = <<>>
    <3>1. stack' = <<>> => Len(waiting') = 0
      BY <1>1, <1>4 DEF OneEntry
    <3> QED
      BY <1>4, <3>1, SeqEmpty
  <2> QED
    BY <1>1, <1>7, <1>8, <2>1, <2>2, <2>3 DEF OneEntry
<1>11. ToCome' = ToCome
  <2>1. CASE stack = <<>>
    BY <1>1, <1>7, <2>1 DEF ToCome
  <2>2. CASE stack # <<>>
    <3>1. Innermost' = Innermost /\ Innermost.at \in Nat \ {0}
      BY <1>1, <2>2, InnermostFrame DEF Innermost, broadcast_depth, Frame
    <3>2. \A k \in Innermost.at .. Len(consumers) : consumers'[k].id = consumers[k].id
      BY <1>3, <1>5, <3>1
    <3> QED
      BY <1>1, <1>4, <2>2, <3>1, <3>2 DEF ToCome
  <2> QED
    BY <2>1, <2>2
<1>12. ASSUME NEW i \in Issued PROVE Follows(i)'
  <2>1. CASE i = id
    BY <1>2, <2>1 DEF Follows
  <2>2. CASE i # id
    BY <1>1, <1>2, <1>11, <2>2, FollowsKept
  <2> QED
    BY <2>1, <2>2
<1> QED
  BY <1>1, <1>7, <1>9, <1>10, <1>12, TableKept DEF BInv

-----------------------------------------------------------------------------
(* A broadcast, up to its end. *)
LEMMA BeginBInv ==
    ASSUME BInv, BeginBroadcast
    PROVE  BInv'
<1> DEFINE f == [at |-> 1, running |-> Nobody, read |-> FALSE]
<1>1. /\ IInv /\ BroadcastTypeOK /\ OneEntry /\ RemovalOlder /\ \A i \in Issued : Follows(i)
      /\ CallerRuns /\ stack' = Append(stack, f)
      /\ UNCHANGED vars /\ UNCHANGED <<consumers, waiting, next_id, copy, ended>>
  BY DEF BInv, BeginBroadcast, state, history
<1>2. stack \in Seq(Frame) /\ f \in Frame /\ f.at = 1 /\ f.running = Nobody /\ f.read = FALSE
  BY <1>1 DEF BroadcastTypeOK, Frame
<1> HIDE DEF f
<1>3. /\ stack' \in Seq(Frame) /\ stack' # <<>> /\ Len(stack') \in DOMAIN stack'
      /\ stack'[Len(stack')] = f
      /\ \A n \in DOMAIN stack' : (n \in DOMAIN stack /\ stack'[n] = stack[n]) \/ stack'[n] = f
  BY <1>1, <1>2
<1>4. Issued' = Issued /\ Entry' = Entry /\ Frame' = Frame
      /\ Listed(consumers)' = Listed(consumers) /\ Listed(waiting)' = Listed(waiting)
  BY <1>1 DEF Issued, Entry, Frame, Listed
<1>5. BroadcastTypeOK'
  BY <1>1, <1>2, <1>3, <1>4 DEF BroadcastTypeOK
<1>6. OneEntry'
  BY <1>1, <1>3, EntriesKept
<1>7. ToCome' = Listed(consumers) \cup {Nobody}
  <2>1. Innermost' = f
    BY <1>3 DEF Innermost, broadcast_depth
  <2>2. ToCome' = {consumers[k].id : k \in 1 .. Len(consumers)} \cup {Nobody}
    BY <1>1, <1>2, <1>3, <2>1 DEF ToCome
  <2>3. DOMAIN consumers = 1 .. Len(consumers)
    BY <1>1 DEF BroadcastTypeOK
  <2> QED
    BY <2>2, <2>3 DEF Listed
<1>8. ASSUME NEW i \in Issued PROVE Follows(i)'
  <2>1. CASE stack = <<>>
    <3>1. Listed(waiting) = {}
      BY <1>1, <2>1 DEF OneEntry, Listed
    <3>2. i \in ToCome' \/ copy[i] = Lost
      BY <1>1, <1>7, <3>1 DEF OneEntry
    <3> QED
      BY <1>1, <3>2, FollowsKept
  <2>2. CASE stack # <<>>
    <3>1. ToCome \subseteq Listed(consumers) \cup {Nobody}
      <4>1. Innermost.at \in Nat \ {0} /\ Innermost.running \in Listed(consumers) \cup {Nobody}
        BY <1>1, <2>2, InnermostFrame DEF Frame
      <4>2. \A k \in Innermost.at .. Len(consumers) : k \in DOMAIN consumers
        BY <1>1, <4>1 DEF BroadcastTypeOK
      <4> QED
        BY <2>2, <4>1, <4>2 DEF ToCome, Listed
    <3> QED
      BY <1>1, <1>7, <3>1, FollowsKept
  <2> QED
    BY <2>1, <2>2
<1> QED
  BY <1>1, <1>4, <1>5, <1>6, <1>8, TableKept DEF BInv

(* Steps of the innermost broadcast. *)
Remaining(f) ==
    {consumers[k].id : k \in f.at .. Len(consumers)} \cup (IF f.read THEN {} ELSE {f.running})

LEMMA InnermostStep ==
    ASSUME BInv, stack # <<>>,
           NEW f \in Frame, f.running \in Listed(consumers) \cup {Nobody},
           stack' = [stack EXCEPT ![broadcast_depth] = f],
           UNCHANGED vars, UNCHANGED <<consumers, waiting, next_id, ended>>,
           copy' \in Seq({Lost} \cup [Index -> Row]), Len(copy') = next_id - 1,
           \A id \in Issued : copy[id] = Lost => copy'[id] = Lost
    PROVE  /\ IInv' /\ RemovalOlder' /\ BroadcastTypeOK' /\ OneEntry'
           /\ Issued' = Issued /\ CurrentTable' = CurrentTable /\ ToCome' = Remaining(f)
           /\ \A known : Catches(known)' <=> Catches(known)
<1>1. IInv /\ BroadcastTypeOK /\ OneEntry /\ RemovalOlder
  BY DEF BInv
<1>2. /\ broadcast_depth \in DOMAIN stack /\ broadcast_depth = Len(stack) /\ stack \in Seq(Frame)
  BY <1>1, InnermostFrame DEF BroadcastTypeOK, broadcast_depth
<1>3. /\ stack' \in Seq(Frame) /\ stack' # <<>> /\ Len(stack') = Len(stack)
      /\ DOMAIN stack' = DOMAIN stack /\ stack'[Len(stack')] = f
      /\ \A n \in DOMAIN stack' : stack'[n] = stack[n] \/ stack'[n] = f
  BY <1>2
<1>4. Issued' = Issued /\ Entry' = Entry /\ Frame' = Frame /\ Listed(consumers)' = Listed(consumers)
  BY DEF Issued, Entry, Frame, Listed
<1>5. BroadcastTypeOK'
  BY <1>1, <1>3, <1>4 DEF BroadcastTypeOK
<1>6. OneEntry'
  BY <1>1, <1>3, EntriesKept
<1>7. Innermost' = f
  BY <1>3 DEF Innermost, broadcast_depth
<1>8. ToCome' = Remaining(f)
  BY <1>3, <1>7 DEF ToCome, Remaining
<1> QED
  BY <1>1, <1>4, <1>5, <1>6, <1>8, TableKept

LEMMA ReadBInv ==
    ASSUME BInv, Read
    PROVE  BInv'
<1> DEFINE f   == [Innermost EXCEPT !.read = TRUE]
           who == Innermost.running
<1>1. /\ IInv /\ BroadcastTypeOK /\ OneEntry /\ RemovalOlder /\ \A i \in Issued : Follows(i)
      /\ stack # <<>> /\ UNCHANGED vars /\ UNCHANGED <<consumers, waiting, next_id, ended>>
      /\ who # Nobody /\ ~Innermost.read
      /\ copy' = [copy EXCEPT ![who] = IF copy[who] = Lost THEN Lost ELSE Replayed(copy[who])]
      /\ stack' = [stack EXCEPT ![broadcast_depth].read = TRUE]
  BY DEF BInv, Read, CallerRuns, state
<1>2. Innermost \in Frame /\ who \in Listed(consumers) /\ who \in Issued
      /\ broadcast_depth \in DOMAIN stack
  BY <1>1, InnermostFrame, ListedIssued DEF BroadcastTypeOK
<1>3. /\ stack' = [stack EXCEPT ![broadcast_depth] = f]
      /\ f \in Frame /\ f.at = Innermost.at /\ f.running = who /\ f.read = TRUE
  BY <1>1, <1>2 DEF Frame, Innermost
<1>4. copy[who] # Lost => Replayed(copy[who]) = CurrentTable
  BY <1>1, <1>2, CatchesReplayed DEF Follows
<1> HIDE DEF f, who
<1>5. /\ copy' \in Seq({Lost} \cup [Index -> Row]) /\ Len(copy') = next_id - 1
      /\ copy'[who] = IF copy[who] = Lost THEN Lost ELSE CurrentTable
      /\ \A i \in Issued \ {who} : copy'[i] = copy[i]
  <2>1. /\ DOMAIN copy = Issued /\ copy \in Seq({Lost} \cup [Index -> Row]) /\ Len(copy) = next_id - 1
        /\ CurrentTable \in [Index -> Row]
    BY <1>1, CopyAt, CurrentCatches DEF BroadcastTypeOK
  <2>2. copy' = [copy EXCEPT ![who] = IF copy[who] = Lost THEN Lost ELSE CurrentTable]
    BY <1>1, <1>4
  <2> HIDE DEF CurrentTable
  <2> QED
    BY <1>2, <2>1, <2>2
<1>6. /\ IInv' /\ RemovalOlder' /\ BroadcastTypeOK' /\ OneEntry'
      /\ Issued' = Issued /\ CurrentTable' = CurrentTable /\ ToCome' = Remaining(f)
      /\ \A known : Catches(known)' <=> Catches(known)
  <2>1. \A i \in Issued : copy[i] = Lost => copy'[i] = Lost
    BY <1>2, <1>5
  <2> QED
    BY <1>1, <1>2, <1>3, <1>5, <2>1, InnermostStep
<1>7. ASSUME NEW i \in Issued PROVE Follows(i)'
  <2>1. CASE i = who
    <3>1. copy'[i] # Lost => copy'[i] = CurrentTable
      BY <1>5, <2>1
    <3> QED
      BY <1>1, <1>6, <3>1, CurrentCatches DEF Follows
  <2>2. CASE i # who
    <3>1. i \in ToCome => i \in ToCome'
      BY <1>1, <1>3, <1>6, <2>2 DEF ToCome, Remaining, who
    <3> QED
      BY <1>1, <1>5, <2>2, <3>1, FollowsKept
  <2> QED
    BY <2>1, <2>2
<1> QED
  BY <1>6, <1>7 DEF BInv

LEMMA CallNextBInv ==
    ASSUME BInv, CallNext
    PROVE  BInv'
<1> DEFINE entry == consumers[Innermost.at]
           f == [at |-> Innermost.at + 1, running |-> IF entry.live THEN entry.id ELSE Nobody,
                 read |-> FALSE]
<1>1. /\ BroadcastTypeOK /\ OneEntry /\ \A i \in Issued : Follows(i)
      /\ stack # <<>> /\ UNCHANGED vars /\ UNCHANGED <<consumers, waiting, next_id, copy, ended>>
      /\ Innermost.running = Nobody /\ Innermost.at <= Len(consumers)
  BY DEF BInv, CallNext, CallerRuns, state, history
<1>2. /\ Innermost \in Frame /\ Innermost.at \in Nat \ {0} /\ broadcast_depth \in DOMAIN stack
      /\ Innermost.at \in DOMAIN consumers /\ Len(consumers) \in Nat
      /\ entry \in Entry /\ entry.id \in Listed(consumers) /\ entry.id \in Issued
      /\ entry.live <=> entry.id \notin ended
  <2>1. Innermost \in Frame /\ Innermost.at \in Nat \ {0} /\ broadcast_depth \in DOMAIN stack
    BY <1>1, InnermostFrame DEF Frame
  <2>2. Innermost.at \in DOMAIN consumers /\ Len(consumers) \in Nat /\ entry \in Entry
    BY <1>1, <2>1 DEF BroadcastTypeOK
  <2> QED
    BY <1>1, <2>1, <2>2 DEF Listed, OneEntry, Faithful, Entry
<1>3. stack' = [stack EXCEPT ![broadcast_depth] = f]
  BY <1>2 DEF CallNext, Innermost
<1>4. f \in Frame /\ f.running \in Listed(consumers) \cup {Nobody}
  BY <1>2 DEF Frame
<1>5. /\ f.at = Innermost.at + 1 /\ f.read = FALSE
      /\ f.running = IF entry.live THEN entry.id ELSE Nobody
  OBVIOUS
<1> HIDE DEF f
<1>6. /\ IInv' /\ RemovalOlder' /\ BroadcastTypeOK' /\ OneEntry'
      /\ Issued' = Issued /\ ToCome' = Remaining(f)
  BY <1>1, <1>3, <1>4, InnermostStep DEF BroadcastTypeOK
<1>7. ASSUME NEW i \in Issued PROVE Follows(i)'
  <2>1. i \in ToCome => i \in ToCome' \/ copy[i] = Lost
    <3> SUFFICES ASSUME i \in ToCome PROVE i \in ToCome' \/ copy[i] = Lost
      OBVIOUS
    <3>1. i # Nobody
      BY DEF Issued, Nobody
    <3>2. PICK k \in Innermost.at .. Len(consumers) : consumers[k].id = i
      BY <1>1, <3>1 DEF ToCome
    <3>3. CASE k = Innermost.at
      BY <1>1, <1>2, <1>5, <1>6, <3>2, <3>3 DEF Remaining, OneEntry
    <3>4. CASE k # Innermost.at
      <4>1. k \in f.at .. Len(consumers)
        BY <1>2, <1>5, <3>4
      <4> QED
        BY <1>6, <3>2, <4>1 DEF Remaining
    <3> QED
      BY <3>3, <3>4
  <2> QED
    BY <1>1, <2>1, FollowsKept
<1> QED
  BY <1>6, <1>7 DEF BInv

LEMMA ReturnsBInv ==
    ASSUME BInv, ListenerReturns
    PROVE  BInv'
<1> DEFINE f == [Innermost EXCEPT !.running = Nobody]
<1>1. /\ BroadcastTypeOK /\ \A i \in Issued : Follows(i)
      /\ stack # <<>> /\ UNCHANGED vars /\ UNCHANGED <<consumers, waiting, next_id, copy, ended>>
      /\ Innermost.read
      /\ stack' = [stack EXCEPT ![broadcast_depth].running = Nobody]
  BY DEF BInv, ListenerReturns, state, history
<1>2. Innermost \in Frame /\ broadcast_depth \in DOMAIN stack
  BY <1>1, InnermostFrame
<1>3. /\ stack' = [stack EXCEPT ![broadcast_depth] = f]
      /\ f \in Frame /\ f.at = Innermost.at /\ f.running = Nobody /\ f.read = Innermost.read
  BY <1>1, <1>2 DEF Frame, Innermost
<1> HIDE DEF f
<1>4. /\ IInv' /\ RemovalOlder' /\ BroadcastTypeOK' /\ OneEntry'
      /\ Issued' = Issued /\ ToCome' = Remaining(f)
  BY <1>1, <1>3, InnermostStep DEF BroadcastTypeOK
<1>5. ToCome' = ToCome
  BY <1>1, <1>3, <1>4 DEF Remaining, ToCome
<1>6. ASSUME NEW i \in Issued PROVE Follows(i)'
  BY <1>1, <1>5, FollowsKept
<1> QED
  BY <1>4, <1>6 DEF BInv

-----------------------------------------------------------------------------
(* The end of a broadcast. *)
LEMMA Joined ==
    ASSUME NEW q \in Seq(Entry), NEW r \in Seq(Entry), Faithful(q), Faithful(r),
           Listed(q) \cap Listed(r) = {}, NEW s, s = q \o r
    PROVE  s \in Seq(Entry) /\ Faithful(s) /\ Listed(s) = Listed(q) \cup Listed(r)
<1>1. /\ s \in Seq(Entry) /\ DOMAIN s = 1 .. Len(q) + Len(r) /\ Len(q) \in Nat /\ Len(r) \in Nat
      /\ DOMAIN q = 1 .. Len(q) /\ DOMAIN r = 1 .. Len(r)
      /\ \A k \in 1 .. Len(q) : s[k] = q[k]
      /\ \A k \in 1 .. Len(r) : s[Len(q) + k] = r[k]
  OBVIOUS
<1>2. ASSUME NEW k \in DOMAIN s
      PROVE  \/ k \in DOMAIN q /\ s[k] = q[k]
             \/ k - Len(q) \in DOMAIN r /\ s[k] = r[k - Len(q)]
  <2>1. CASE k <= Len(q)
    BY <1>1, <2>1
  <2>2. CASE ~(k <= Len(q))
    <3>1. k - Len(q) \in 1 .. Len(r) /\ Len(q) + (k - Len(q)) = k
      BY <1>1, <2>2
    <3> QED
      BY <1>1, <3>1
  <2> QED
    BY <2>1, <2>2
<1>3. Listed(s) = Listed(q) \cup Listed(r)
  <2>1. \A k \in DOMAIN s : s[k].id \in Listed(q) \cup Listed(r)
    BY <1>2 DEF Listed
  <2>2. ASSUME NEW k \in DOMAIN q PROVE q[k].id \in Listed(s)
    <3>1. k \in DOMAIN s /\ s[k] = q[k]
      BY <1>1
    <3> QED
      BY <3>1 DEF Listed
  <2>3. ASSUME NEW k \in DOMAIN r PROVE r[k].id \in Listed(s)
    <3>1. Len(q) + k \in DOMAIN s /\ s[Len(q) + k] = r[k]
      BY <1>1
    <3> QED
      BY <3>1 DEF Listed
  <2>4. Listed(s) \subseteq Listed(q) \cup Listed(r)
    BY <2>1 DEF Listed
  <2>5. Listed(q) \subseteq Listed(s) /\ Listed(r) \subseteq Listed(s)
    BY <2>2, <2>3 DEF Listed
  <2> QED
    BY <2>4, <2>5
<1>4. ASSUME NEW j \in DOMAIN s, NEW k \in DOMAIN s
      PROVE  (s[j].id = s[k].id => j = k) /\ (s[j].live <=> s[j].id \notin ended)
  <2>1. \A m \in DOMAIN q, n \in DOMAIN r : q[m].id # r[n].id
    BY DEF Listed
  <2>2. s[j].live <=> s[j].id \notin ended
    BY <1>2 DEF Faithful
  <2>3. s[j].id = s[k].id => j = k
    <3>1. CASE j \in DOMAIN q /\ s[j] = q[j] /\ k \in DOMAIN q /\ s[k] = q[k]
      BY <3>1 DEF Faithful
    <3>2. CASE /\ j - Len(q) \in DOMAIN r /\ s[j] = r[j - Len(q)]
               /\ k - Len(q) \in DOMAIN r /\ s[k] = r[k - Len(q)]
      <4>1. s[j].id = s[k].id => j - Len(q) = k - Len(q)
        BY <3>2 DEF Faithful
      <4> QED
        BY <1>1, <4>1
    <3> QED
      BY <1>2, <2>1, <3>1, <3>2
  <2> QED
    BY <2>2, <2>3
<1> QED
  BY <1>1, <1>3, <1>4 DEF Faithful

LEMMA FinishBInv ==
    ASSUME BInv, stack # <<>>, Finish,
           copy' \in Seq({Lost} \cup [Index -> Row]), Len(copy') = next_id - 1,
           \A id \in Issued : copy'[id] = Lost \/ (copy'[id] = copy[id] /\ copy[id] = CurrentTable)
    PROVE  BInv'
<1>1. /\ IInv /\ BroadcastTypeOK /\ OneEntry /\ RemovalOlder
      /\ stack' = SubSeq(stack, 1, broadcast_depth - 1)
      /\ AcknowledgeAll /\ next_id' = next_id /\ ended' = ended
      /\ consumers \in Seq(Entry) /\ waiting \in Seq(Entry) /\ stack \in Seq(Frame)
      /\ Faithful(consumers) /\ Faithful(waiting)
  BY DEF BInv, Finish, BroadcastTypeOK, OneEntry
<1>2. /\ IInv' /\ RemovalOlder' /\ CurrentTable' = CurrentTable /\ Catches(CurrentTable)'
  BY <1>1, ClearedCatches
<1>3. Issued' = Issued /\ Entry' = Entry /\ Frame' = Frame
  BY <1>1 DEF Issued, Entry, Frame
<1>4. ASSUME NEW id \in Issued PROVE Follows(id)'
  BY <1>2 DEF Follows
<1>5. broadcast_depth = Len(stack) /\ broadcast_depth \in Nat \ {0}
  BY <1>1, InnermostFrame DEF broadcast_depth
<1>6. /\ stack' \in Seq(Frame)
      /\ \A n \in DOMAIN stack' : n \in DOMAIN stack /\ stack'[n] = stack[n]
      /\ broadcast_depth # 1 => stack' # <<>>
      /\ broadcast_depth = 1 => stack' = <<>>
  <2>1. /\ Len(stack') = broadcast_depth - 1 /\ stack' \in Seq(Frame)
        /\ \A n \in 1 .. broadcast_depth - 1 : stack'[n] = stack[n]
    BY <1>1, <1>5
  <2>2. DOMAIN stack' = 1 .. broadcast_depth - 1 /\ DOMAIN stack = 1 .. broadcast_depth
    BY <1>1, <1>5, <2>1
  <2>3. broadcast_depth = 1 => stack' = <<>>
    BY <2>1, SeqEmpty
  <2> QED
    BY <1>5, <2>1, <2>2, <2>3
<1>7. \A id \in ended : copy'[id] = Lost
  BY <1>1 DEF OneEntry, BroadcastTypeOK
<1>8. CASE broadcast_depth = 1
  <2>1. consumers' = Live(consumers) \o Live(waiting) /\ waiting' = <<>> /\ stack' = <<>>
    BY <1>6, <1>8 DEF Finish
  <2>2. Kept(consumers, Live(consumers)) /\ Kept(waiting, Live(waiting))
    BY <1>1, LiveKept
  <2>3. PICK q, r : q = Live(consumers) /\ r = Live(waiting)
    OBVIOUS
  <2>4. /\ q \in Seq(Entry) /\ Faithful(q) /\ Listed(q) = Listed(consumers) \ ended
        /\ r \in Seq(Entry) /\ Faithful(r) /\ Listed(r) = Listed(waiting) \ ended
        /\ Listed(q) \cap Listed(r) = {} /\ consumers' = q \o r
    BY <1>1, <2>1, <2>2, <2>3 DEF Kept, OneEntry
  <2>5. /\ consumers' \in Seq(Entry) /\ Faithful(consumers')
        /\ Listed(consumers') = Listed(q) \cup Listed(r)
    BY <2>4, Joined
  <2>6. /\ Faithful(consumers)' /\ Faithful(waiting)'
        /\ Listed(consumers)' = Listed(q) \cup Listed(r) /\ Listed(waiting)' = {}
    <3>1. Faithful(consumers)'
      BY <1>1, <2>5 DEF Faithful
    <3>2. Faithful(waiting)' /\ Listed(waiting)' = {}
      BY <2>1 DEF Faithful, Listed
    <3>3. Listed(consumers)' = Listed(consumers')
      BY DEF Listed
    <3> QED
      BY <2>5, <3>1, <3>2, <3>3
  <2>7. OneEntry'
    BY <1>1, <1>3, <1>7, <2>1, <2>4, <2>6 DEF OneEntry
  <2>8. BroadcastTypeOK'
    BY <1>1, <1>3, <1>6, <2>1, <2>5 DEF BroadcastTypeOK
  <2> QED
    BY <1>2, <1>3, <1>4, <2>7, <2>8 DEF BInv
<1>9. CASE broadcast_depth # 1
  <2>1. consumers' = consumers /\ waiting' = waiting /\ stack' # <<>>
    BY <1>6, <1>9 DEF Finish
  <2>2. Listed(consumers)' = Listed(consumers)
    BY <2>1 DEF Listed
  <2>3. BroadcastTypeOK'
    BY <1>1, <1>3, <1>6, <2>1, <2>2 DEF BroadcastTypeOK
  <2>4. \A id \in Issued : copy[id] = Lost => copy'[id] = Lost
    OBVIOUS
  <2>5. OneEntry'
    BY <1>1, <2>1, <2>4, EntriesKept
  <2> QED
    BY <1>2, <1>3, <1>4, <2>3, <2>5 DEF BInv
<1> QED
  BY <1>8, <1>9

LEMMA EndBInv ==
    ASSUME BInv, EndBroadcast
    PROVE  BInv'
<1>1. /\ BroadcastTypeOK /\ \A id \in Issued : Follows(id)
      /\ stack # <<>> /\ Finish /\ copy' = copy
      /\ Innermost.running = Nobody /\ Innermost.at > Len(consumers)
  BY DEF BInv, EndBroadcast, CallerRuns
<1>2. Innermost.at \in Nat /\ Len(consumers) \in Nat
  BY <1>1, InnermostFrame DEF BroadcastTypeOK, Frame
<1>3. \A id \in Issued : id \notin ToCome
  <2>1. Innermost.at .. Len(consumers) = {} /\ Nobody \notin Issued
    BY <1>1, <1>2 DEF Issued, Nobody
  <2> QED
    BY <1>1, <2>1 DEF ToCome
<1>4. \A id \in Issued : copy'[id] = Lost \/ (copy'[id] = copy[id] /\ copy[id] = CurrentTable)
  BY <1>1, <1>3 DEF Follows
<1> QED
  BY <1>1, <1>4, FinishBInv DEF BroadcastTypeOK

LEMMA ThrowsBInv ==
    ASSUME BInv, ListenerThrows
    PROVE  BInv'
<1>1. /\ BroadcastTypeOK /\ \A id \in Issued : Follows(id)
      /\ stack # <<>> /\ Finish /\ copy' = Losing(ToCome)
  BY DEF BInv, ListenerThrows
<1>2. /\ copy' \in Seq({Lost} \cup [Index -> Row]) /\ Len(copy') = next_id - 1
      /\ \A id \in Issued : copy'[id] = IF id \in ToCome THEN Lost ELSE copy[id]
  BY <1>1, LosingCopies
<1>3. \A id \in Issued : copy'[id] = Lost \/ (copy'[id] = copy[id] /\ copy[id] = CurrentTable)
  BY <1>1, <1>2 DEF Follows
<1> QED
  BY <1>1, <1>2, <1>3, FinishBInv

-----------------------------------------------------------------------------
(* The invariant holds. *)
LEMMA BStutter ==
    ASSUME BInv, UNCHANGED <<vars, broadcast>>
    PROVE  BInv'
<1>1. /\ UNCHANGED vars /\ UNCHANGED <<consumers, waiting, next_id, stack, copy, ended>>
      /\ BroadcastTypeOK /\ OneEntry /\ IInv /\ RemovalOlder /\ \A id \in Issued : Follows(id)
  BY DEF broadcast, state, history, BInv
<1>2. Issued' = Issued /\ ToCome' = ToCome
  BY <1>1 DEF Issued, ToCome, Innermost, broadcast_depth
<1>3. BroadcastTypeOK'
  BY <1>1, <1>2 DEF BroadcastTypeOK, Listed, Entry, Frame, Row
<1>4. OneEntry'
  BY <1>1, EntriesKept
<1> QED
  BY <1>1, <1>2, <1>3, <1>4, TableKept, FollowsKept DEF BInv

LEMMA BInvHolds == BroadcastSpec => []BInv
<1>1. BInv /\ [BroadcastNext]_<<vars, broadcast>> => BInv'
  <2> SUFFICES ASSUME BInv, [BroadcastNext]_<<vars, broadcast>> PROVE BInv'
    OBVIOUS
  <2>1. ASSUME NEW i \in Index, CreateHere(i) \/ ChangeHere(i) PROVE BInv'
    BY <2>1, CreateHereBInv, ChangeHereBInv
  <2>2. CASE Clear
    BY <2>2, ClearBInv
  <2>3. CASE Subscribe
    BY <2>3, SubscribeBInv
  <2>4. ASSUME NEW id \in Issued, Reset(id) PROVE BInv'
    BY <2>4, ResetBInv
  <2>5. CASE BeginBroadcast
    BY <2>5, BeginBInv
  <2>6. CASE Read
    BY <2>6, ReadBInv
  <2>7. CASE CallNext
    BY <2>7, CallNextBInv
  <2>8. CASE ListenerReturns
    BY <2>8, ReturnsBInv
  <2>9. CASE EndBroadcast
    BY <2>9, EndBInv
  <2>10. CASE ListenerThrows
    BY <2>10, ThrowsBInv
  <2>11. CASE UNCHANGED <<vars, broadcast>>
    BY <2>11, BStutter
  <2> QED
    BY <2>1, <2>2, <2>3, <2>4, <2>5, <2>6, <2>7, <2>8, <2>9, <2>10, <2>11 DEF BroadcastNext
<1> QED
  BY <1>1, BInitHolds, PTL DEF BroadcastSpec

(* A subscriber that reads every report it is called with knows the table  *)
(* up to what it will be told next, however broadcasts nest, listeners     *)
(* come, go, throw and change the registry.                                *)
THEOREM SubscribersMissNothing == BroadcastSpec => []NoneMissed
<1>1. BInv => NoneMissed
  <2> SUFFICES ASSUME BInv, NEW id \in Issued, copy[id] # Lost
               PROVE  Replayed(copy[id]) = [i \in Index |-> Now(i)]
    BY DEF NoneMissed
  <2>1. Catches(copy[id])
    BY DEF BInv, Follows
  <2> QED
    BY <2>1, CatchesReplayed DEF CurrentTable
<1> QED
  BY <1>1, BInvHolds, PTL

(* A subscription is in one of the two lists, once, until it is reset, and *)
(* in none after that.                                                     *)
THEOREM SubscriptionsListed == BroadcastSpec => []ListedWhileSubscribed
<1>1. BInv => ListedWhileSubscribed
  <2> DEFINE entries(q, id) == {k \in DOMAIN q : q[k].id = id /\ q[k].live}
  <2> SUFFICES ASSUME BInv, NEW id \in Issued
               PROVE  Cardinality(entries(consumers, id)) + Cardinality(entries(waiting, id))
                         = IF id \in ended THEN 0 ELSE 1
    BY DEF ListedWhileSubscribed, BInv, OneEntry
  <2>1. ASSUME NEW q, Faithful(q)
        PROVE  Cardinality(entries(q, id)) = IF id \in Listed(q) \ ended THEN 1 ELSE 0
    <3>1. CASE id \in Listed(q) \ ended
      <4>1. PICK k \in DOMAIN q : q[k].id = id
        BY <3>1 DEF Listed
      <4>2. entries(q, id) = {k}
        BY <2>1, <3>1, <4>1 DEF Faithful
      <4> QED
        BY <3>1, <4>2, FS_Singleton
    <3>2. CASE id \notin Listed(q) \ ended
      <4>1. entries(q, id) = {}
        BY <2>1, <3>2 DEF Faithful, Listed
      <4> QED
        BY <3>2, <4>1, FS_EmptySet
    <3> QED
      BY <3>1, <3>2
  <2> HIDE DEF entries
  <2> QED
    BY <2>1 DEF BInv, OneEntry
<1> QED
  BY <1>1, BInvHolds, PTL
=============================================================================
