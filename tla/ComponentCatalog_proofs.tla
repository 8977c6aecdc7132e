----------------------- MODULE ComponentCatalog_proofs -----------------------
(***************************************************************************)
(* ComponentCatalog's invariants, for any tokens, names and setups.  The   *)
(* free list and what a restore brings back hold for every setup; catalog, *)
(* bindings and views agree where programs use names in an Orderly way.    *)
(***************************************************************************)
EXTENDS ComponentCatalog, SequenceTheorems, FiniteSetTheorems, FunctionTheorems,
        NaturalsInduction, WellFoundedInduction, TLAPS

(***************************************************************************)
(* The invariant.  Its parts are operators of what they relate, so that    *)
(* they can be said of the registry and of a snapshot, and of bindings     *)
(* while they are built.                                                   *)
(***************************************************************************)
SlotRecord == [link : Index \cup {InvalidIndex}, version : Version]

Entity == [index : Index, version : Version]

ObjectId == Nat \X Nat

(* The slots, and the free list threaded through them.                     *)
StoreOK ==
    /\ slots \in Seq(SlotRecord) /\ Len(slots) <= InvalidIndex
    /\ free_head \in Index \cup {InvalidIndex}
    /\ freed \in Seq(Index)
    /\ FreeListIsStack

JobsOK == \A j \in jobs : j \in Entity /\ Alive(j)

StoragesOK ==
    /\ stamp \in Nat /\ DOMAIN storages \subseteq Index
    /\ storages \in [DOMAIN storages -> [object : ObjectId, entities : SUBSET Index]]
    /\ \A i \in DOMAIN storages : storages[i].entities \subseteq Holding

(* Slots whose links and versions are of their types.                      *)
CellsOK(cells) == cells \in Seq(SlotRecord) /\ Len(cells) <= InvalidIndex

SavedSlotsOK ==
    saved # None =>
        /\ CellsOK(saved.slots)
        /\ DOMAIN saved.entities \subseteq Index
        /\ saved.entities \in [DOMAIN saved.entities -> SUBSET Index]
        /\ \A i \in DOMAIN saved.entities : saved.entities[i] \subseteq AliveIn(saved.slots)

SInv == StoreOK /\ JobsOK /\ StoragesOK /\ SavedSlotsOK

(* Records and names of a registry or a snapshot.                          *)
RecordType(u) ==
    [entity : Entity, name : Name \cup RuntimeNames(u), key : TypeKey \cup {None},
     info : {InfoOf(k) : k \in TypeKey} \cup {pair[2] : pair \in u.runtime}]

RecordOK(r, u) ==
    IF r.key = None THEN r.name \in RuntimeNames(u)
    ELSE r.name \in KnownAs(u, r.key) /\ r.info = InfoOf(r.key)

RecordsOK(rs, ns, u) ==
    /\ DOMAIN rs \subseteq Index /\ rs \in [DOMAIN rs -> RecordType(u)]
    /\ ns \in [DOMAIN ns -> DOMAIN rs]
    /\ \A n \in DOMAIN ns : rs[ns[n]].name = n
    /\ \A i \in DOMAIN rs : /\ rs[i].name \in DOMAIN ns /\ ns[rs[i].name] = i
                            /\ rs[i].entity.index = i
                            /\ RecordOK(rs[i], u)
    /\ \A i, j \in DOMAIN rs : rs[i].key = rs[j].key /\ rs[i].key # None => i = j

KeysOK(rs, tk) ==
    /\ DOMAIN tk \subseteq TypeKey /\ tk \in [DOMAIN tk -> DOMAIN rs]
    /\ \A k \in DOMAIN tk : rs[tk[k]].key = k
    /\ \A i \in DOMAIN rs : rs[i].key # None => rs[i].key \in DOMAIN tk

CatOK(c, u) ==
    /\ c = [records |-> c.records, names |-> c.names, type_keys |-> c.type_keys]
    /\ RecordsOK(c.records, c.names, u)
    /\ KeysOK(c.records, c.type_keys)

(* The record could be that of the type with key k: it is found by one of  *)
(* its names.                                                              *)
Belongs(r, k, u) == r.key \in {None, k} /\ r.name \in KnownAs(u, k) /\ r.info = InfoOf(k)

(* A component's entity is alive, unless a job took its index.             *)
Seated(rs, cells, js) ==
    \A i \in DOMAIN rs : /\ i \in AliveIn(cells)
                         /\ \/ cells[i + 1].version = rs[i].entity.version
                            \/ \E j \in js : j.index = i

ObjectOf(ss, i) == IF i \in DOMAIN ss THEN ss[i].object ELSE None

Binding == [token : Token \cup {None}, key : TypeKey \cup {None},
            component : Entity \cup {None}, storage : ObjectId \cup {None}]

(* A binding that was not reset is the one its key leads to, and that of a *)
(* record which belongs to the type, with the storage that is there.       *)
BindingOK(b, n, rs, ss, u) ==
    LET e == b.list[n]
        i == e.component.index
    IN /\ e.component \in Entity /\ e.key \in DOMAIN b.keys /\ b.keys[e.key] = n
       /\ i \in DOMAIN rs /\ rs[i].entity = e.component
       /\ Belongs(rs[i], e.key, u)
       /\ e.storage = ObjectOf(ss, i)

BindOK(b, rs, ss, u) ==
    /\ b = [list |-> b.list, tokens |-> b.tokens, keys |-> b.keys]
    /\ b.list \in Seq(Binding)
    /\ DOMAIN b.tokens \subseteq Token /\ b.tokens \in [DOMAIN b.tokens -> DOMAIN b.list]
    /\ DOMAIN b.keys \subseteq TypeKey /\ b.keys \in [DOMAIN b.keys -> DOMAIN b.list]
    /\ \A t \in DOMAIN b.tokens : b.list[b.tokens[t]].component # None
                                    => b.list[b.tokens[t]].key = KeyOf(t)
    /\ \A k \in DOMAIN b.keys : /\ b.list[b.keys[k]].key = k
                                /\ b.list[b.keys[k]].component # None
    /\ \A n \in DOMAIN b.list : b.list[n].component # None => BindingOK(b, n, rs, ss, u)

(* What the process remembers of a type has one of its names.              *)
RecordedOK(rec, u) ==
    /\ rec \in Seq([token : Token, name : Name])
    /\ \A n \in DOMAIN rec : rec[n].name \in KnownAs(u, KeyOf(rec[n].token))

(* A storage is a component's, and unless a restore threw half way, so is  *)
(* every index of a group.                                                 *)
OwnersOK(ss, gs, rs, bad) ==
    /\ DOMAIN ss \subseteq DOMAIN rs
    /\ bad \/ \A g \in gs : g \subseteq DOMAIN rs

SavedOK ==
    saved # None =>
        /\ RecordsOK(saved.records, saved.names, setup)
        /\ Seated(saved.records, saved.slots, jobs)
        /\ OwnersOK(saved.entities, saved.groups, saved.records, failed)

RInv ==
    /\ SInv
    /\ setup \in Setups
    /\ CatOK(catalog, setup)
    /\ Seated(catalog.records, slots, jobs)
    /\ BindOK(bindings, catalog.records, storages, setup)
    /\ RecordedOK(recorded, setup)
    /\ OwnersOK(storages, groups, catalog.records, failed)
    /\ SavedOK

ViewTypes == view # None => view.types = setup.types

(* The view.  A type's home is where its component is or would be found by *)
(* its name; what the view remembers of a type is about that.              *)
Home(rs, k, u) == {i \in DOMAIN rs : Belongs(rs[i], k, u)}

Homes(rs, ts, u) == {i \in DOMAIN rs : \E n \in DOMAIN ts : i \in Home(rs, KeyOf(ts[n]), u)}

(* The storage found for a type with that home; only those of components   *)
(* that are gone may be others.                                            *)
Remembered(object, home, ss, lost) ==
    /\ home = {} => object \in lost \cup {None}
    /\ \A i \in home : object \in lost \cup {ObjectOf(ss, i)}

(* A type nobody looked up or registered has no storage.                   *)
Unused(t) ==
    Resolve(bindings, t) = None
        => \A i \in Home(catalog.records, KeyOf(t), setup) : i \notin DOMAIN storages

ViewFresh ==
    /\ \A n \in DOMAIN view.types :
          /\ Remembered(view.storages[n],
                        Home(catalog.records, KeyOf(view.types[n]), setup),
                        storages, gone.storages)
          /\ Unused(view.types[n])
    /\ view.group \in Best(Homes(catalog.records, view.types, setup)) \cup gone.groups

ViewOK ==
    /\ topology \in Nat
    /\ view # None =>
          /\ view.token \in Nat /\ view.token <= topology
          /\ view.token = topology /\ ~failed => ViewFresh
-----------------------------------------------------------------------------
(* Sequences and numbers. *)

LEMMA AppendElements ==
    ASSUME NEW S, NEW q \in Seq(S), NEW x \in S
    PROVE  /\ Append(q, x) \in Seq(S)
           /\ Len(Append(q, x)) = Len(q) + 1
           /\ \A k \in 1 .. Len(q) : Append(q, x)[k] = q[k]
           /\ Append(q, x)[Len(q) + 1] = x
OBVIOUS

LEMMA PopElements ==
    ASSUME NEW S, NEW q \in Seq(S), Len(q) > 0
    PROVE  /\ SubSeq(q, 1, Len(q) - 1) \in Seq(S)
           /\ Len(SubSeq(q, 1, Len(q) - 1)) = Len(q) - 1
           /\ \A k \in 1 .. Len(q) - 1 : SubSeq(q, 1, Len(q) - 1)[k] = q[k]
<1>1. /\ Len(q) \in Nat
      /\ \A k \in 1 .. Len(q) - 1 : q[k] \in S
  OBVIOUS
<1>2. /\ SubSeq(q, 1, Len(q) - 1) \in Seq(S)
      /\ Len(SubSeq(q, 1, Len(q) - 1))
           = IF 1 <= Len(q) - 1 THEN Len(q) - 1 - 1 + 1 ELSE 0
      /\ \A k \in 1 .. Len(q) - 1 - 1 + 1 :
            SubSeq(q, 1, Len(q) - 1)[k] = q[1 + k - 1]
  BY <1>1, SubSeqProperties
<1> DEFINE p == SubSeq(q, 1, Len(q) - 1)
<1> DEFINE n == Len(q)
<1>3. n - 1 - 1 + 1 = n - 1 /\ Len(p) = n - 1
  <2> n \in Nat /\ n > 0
    BY <1>1
  <2> Len(p) = IF 1 <= n - 1 THEN n - 1 - 1 + 1 ELSE 0
    BY <1>2
  <2> HIDE DEF n, p
  <2> QED
    OBVIOUS
<1>4. ASSUME NEW k \in 1 .. Len(q) - 1 PROVE p[k] = q[k]
  <2>1. p[k] = q[1 + k - 1] /\ 1 + k - 1 = k
    BY <1>2, <1>3
  <2> QED
    BY <2>1
<1> QED
  BY <1>2, <1>3, <1>4

LEMMA ExceptElements ==
    ASSUME NEW S, NEW q \in Seq(S), NEW i \in 0 .. Len(q) - 1, NEW x \in S
    PROVE  /\ [q EXCEPT ![i + 1] = x] \in Seq(S)
           /\ Len([q EXCEPT ![i + 1] = x]) = Len(q)
           /\ [q EXCEPT ![i + 1] = x][i + 1] = x
           /\ \A k \in 0 .. Len(q) - 1 :
                  k # i => [q EXCEPT ![i + 1] = x][k + 1] = q[k + 1]
OBVIOUS

LEMMA LeastNat ==
    ASSUME NEW T \in SUBSET Nat, T # {}
    PROVE  \E n \in T : \A m \in T : n <= m
<1> DEFINE R == {ss \in Nat \X Nat : ss[1] < ss[2]}
<1>1. IsWellFoundedOn(R, Nat)
  BY NatLessThanWellFounded, Zenon DEF OpToRel
<1> HIDE DEF R
<1>2. PICK n \in T : \A m \in T : ~(<<m, n>> \in R)
  BY <1>1, WFMin
<1>3. ASSUME NEW m \in T PROVE n <= m
  <2>1. <<m, n>> \in Nat \X Nat /\ <<m, n>>[1] = m /\ <<m, n>>[2] = n
    OBVIOUS
  <2>2. m < n => <<m, n>> \in R
    BY <2>1 DEF R
  <2> QED
    BY <1>2, <2>2
<1> QED
  BY <1>2, <1>3

(* A set of naturals with a bound has a greatest element.                  *)
LEMMA GreatestNat ==
    ASSUME NEW T \in SUBSET Nat, T # {}, NEW b \in Nat, \A n \in T : n <= b
    PROVE  \E n \in T : \A m \in T : m <= n
<1> DEFINE Up == {k \in Nat : \A n \in T : n <= k}
<1>1. PICK k \in Up : \A l \in Up : k <= l
  <2>1. b \in Up
    OBVIOUS
  <2> HIDE DEF Up
  <2> QED
    BY <2>1, LeastNat DEF Up
<1>2. k \in T
  <2> SUFFICES ASSUME k \notin T PROVE FALSE
    OBVIOUS
  <2>1. PICK n \in T : TRUE
    OBVIOUS
  <2>2. k # 0 /\ \A x \in T : x <= k - 1
    BY <1>1, <2>1
  <2>3. k - 1 \in Up
    BY <1>1, <2>2
  <2> QED
    BY <1>1, <2>3
<1> QED
  BY <1>1, <1>2

LEMMA LeastIs ==
    ASSUME NEW T \in SUBSET Nat, T # {}
    PROVE  Least(T) \in T /\ \A j \in T : Least(T) <= j
BY LeastNat DEF Least
-----------------------------------------------------------------------------
(* create() and the end of destroy(), on the slots and the free list. *)

(* What create() does to them: h is alive on an index that was free.       *)
Made(h) ==
    /\ h \in Entity /\ h.index \notin Holding
    /\ h.index \in Holding' /\ slots'[h.index + 1].version = h.version
    /\ Holding' = Holding \cup {h.index}
    /\ \A i \in Holding : slots'[i + 1] = slots[i + 1]

LEMMA HoldingFacts ==
    ASSUME StoreOK
    PROVE  /\ Len(slots) \in Nat /\ slots \in Seq(SlotRecord)
           /\ Indices \subseteq Index /\ Holding \subseteq Indices
           /\ \A i \in Indices : slots[i + 1] \in SlotRecord
           /\ \A i \in Holding : slots[i + 1].link = i /\ slots[i + 1].version \in Version
<1>1. /\ Len(slots) \in Nat /\ slots \in Seq(SlotRecord) /\ Len(slots) <= InvalidIndex
      /\ InvalidIndex \in Nat
  BY IndexAssumption DEF StoreOK
<1>2. Indices \subseteq Index
  BY <1>1 DEF Indices, Index
<1>3. \A i \in Indices : slots[i + 1] \in SlotRecord
  BY <1>1 DEF Indices
<1> QED
  BY <1>1, <1>2, <1>3 DEF Holding, Holds, Slot, SlotRecord

(* Free indices, least recently freed first.                               *)
LEMMA FreeFacts ==
    ASSUME StoreOK
    PROVE  /\ freed \in Seq(Index) /\ Len(freed) \in Nat
           /\ \A k \in 1 .. Len(freed) : freed[k] \in Indices /\ Slot(freed[k]).link = Below(k)
           /\ \A j, k \in 1 .. Len(freed) : freed[j] = freed[k] => j = k
           /\ \A m \in Indices : Holds(m) <=> (\A k \in 1 .. Len(freed) : freed[k] # m)
           /\ free_head = Below(Len(freed) + 1)
           /\ free_head \in Index \cup {InvalidIndex}
BY DEF StoreOK, FreeListIsStack

LEMMA RecycleStore ==
    ASSUME StoreOK, Recycle
    PROVE  StoreOK' /\ Made(NextHandle)
<1> USE IndexAssumption, VersionAssumption
<1> DEFINE n == Len(freed)
<1> PICK i : i = free_head
  OBVIOUS
<1>1. /\ slots \in Seq(SlotRecord) /\ Len(slots) \in Nat /\ Len(slots) <= InvalidIndex
      /\ freed \in Seq(Index) /\ n \in Nat
  BY HoldingFacts, FreeFacts DEF StoreOK
<1>f. /\ \A k \in 1 .. n : freed[k] \in Indices /\ Slot(freed[k]).link = Below(k)
      /\ \A j, k \in 1 .. n : freed[j] = freed[k] => j = k
      /\ \A m \in Indices : Holds(m) <=> (\A k \in 1 .. n : freed[k] # m)
      /\ i = IF n + 1 = 1 THEN InvalidIndex ELSE freed[n + 1 - 1]
      /\ i # InvalidIndex
  BY FreeFacts DEF Recycle, Below
<1>2. n > 0 /\ i = freed[n] /\ i \in Indices /\ Slot(i).link = Below(n) /\ n \in 1 .. n
  <2>1. n > 0
    BY <1>1, <1>f
  <2>2. n + 1 - 1 = n /\ n + 1 # 1 /\ n \in 1 .. n
    BY <1>1, <2>1
  <2> QED
    BY <1>f, <2>1, <2>2
<1>3. i + 1 \in 1 .. Len(slots) /\ i \in Index /\ slots[i + 1] \in SlotRecord
  BY <1>1, <1>2, HoldingFacts DEF Indices, Index
<1> DEFINE new == [slots[i + 1] EXCEPT !.link = i]
<1>4. /\ new \in SlotRecord /\ new.link = i /\ new.version = Slot(i).version
      /\ Slot(i).version \in Version
  BY <1>3 DEF SlotRecord, Slot
<1>5. slots' = [slots EXCEPT ![i + 1] = new]
  BY DEF Recycle
<1> HIDE DEF new
<1>6. /\ slots' \in Seq(SlotRecord) /\ Len(slots') = Len(slots) /\ Indices' = Indices
      /\ slots'[i + 1] = new
      /\ \A m \in Indices : m # i => slots'[m + 1] = slots[m + 1]
  BY <1>1, <1>2, <1>4, <1>5, ExceptElements DEF Indices
<1>7. /\ freed' \in Seq(Index) /\ Len(freed') = n - 1
      /\ \A k \in 1 .. n - 1 : freed'[k] = freed[k]
  BY <1>1, <1>2, PopElements DEF Recycle
<1>8. free_head' = Below(n) /\ free_head' \in Index \cup {InvalidIndex}
  BY <1>2, <1>3 DEF Recycle, SlotRecord, Slot
<1>9. \A k \in 1 .. n - 1 : k \in 1 .. n /\ freed[k] # i
  BY <1>1, <1>2, <1>f
<1> HIDE DEF n
<1>10. FreeListIsStack'
  <2> USE DEF Slot, Holds
  <2>1. ASSUME NEW k \in 1 .. Len(freed')
        PROVE  (freed[k] \in Indices /\ Slot(freed[k]).link = Below(k))'
    <3>1. k \in 1 .. n - 1 /\ freed'[k] = freed[k] /\ freed[k] # i /\ k \in 1 .. n
      BY <1>7, <1>9
    <3>2. freed[k] \in Indices /\ slots'[freed[k] + 1] = slots[freed[k] + 1]
      BY <3>1, <1>6, <1>f
    <3>3. Below(k)' = Below(k)
      BY <3>1, <1>1, <1>7 DEF Below
    <3> QED
      BY <3>1, <3>2, <3>3, <1>6, <1>f
  <2>2. ASSUME NEW j \in 1 .. Len(freed'), NEW k \in 1 .. Len(freed'), freed'[j] = freed'[k]
        PROVE  j = k
    BY <2>2, <1>7, <1>9, <1>f
  <2>3. ASSUME NEW m \in Indices
        PROVE  Holds(m)' <=> \A k \in 1 .. Len(freed') : freed'[k] # m
    <3>1. CASE m = i
      BY <3>1, <1>4, <1>6, <1>7, <1>9
    <3>2. CASE m # i
      <4>1. slots'[m + 1] = slots[m + 1]
        BY <3>2, <1>6
      <4>2. (\A k \in 1 .. n : freed[k] # m) <=> (\A k \in 1 .. n - 1 : freed[k] # m)
        BY <3>2, <1>1, <1>2
      <4> QED
        BY <4>1, <4>2, <1>f, <1>7
    <3> QED
      BY <3>1, <3>2
  <2>4. free_head' = Below(Len(freed) + 1)'
    BY <1>1, <1>2, <1>7, <1>8 DEF Below
  <2> QED
    BY <1>6, <2>1, <2>2, <2>3, <2>4 DEF FreeListIsStack
<1>11. StoreOK'
  BY <1>1, <1>6, <1>7, <1>8, <1>10 DEF StoreOK
<1>12. NextHandle = [index |-> i, version |-> Slot(i).version] /\ NextHandle \in Entity
  BY <1>3, <1>4 DEF NextHandle, Handle, Recycle, Entity
<1>13. i \notin Holding
  BY <1>2, <1>f DEF Holding
<1>14. ASSUME NEW m \in Indices, m # i PROVE m \in Holding' <=> m \in Holding
  BY <1>14, <1>6 DEF Holding, Holds, Slot
<1>15. i \in Holding'
  BY <1>2, <1>4, <1>6 DEF Holding, Holds, Slot
<1>16. Holding' = Holding \cup {i}
  BY <1>2, <1>6, <1>14, <1>15 DEF Holding
<1>17. \A m \in Holding : slots'[m + 1] = slots[m + 1]
  BY <1>6, <1>13 DEF Holding
<1> QED
  BY <1>4, <1>6, <1>11, <1>12, <1>13, <1>16, <1>17 DEF Made

LEMMA GrowStore ==
    ASSUME StoreOK, Grow
    PROVE  StoreOK' /\ Made(NextHandle)
<1> USE IndexAssumption, VersionAssumption
<1> DEFINE new == [link |-> Len(slots), version |-> 1]
<1> PICK i : i = Len(slots)
  OBVIOUS
<1>1. /\ slots \in Seq(SlotRecord) /\ i \in Nat /\ i < InvalidIndex
      /\ freed \in Seq(Index) /\ Len(freed) \in Nat
  BY HoldingFacts, FreeFacts DEF Grow
<1>f. /\ \A k \in 1 .. Len(freed) : freed[k] \in Indices
      /\ \A m \in Indices : Holds(m) <=> (\A k \in 1 .. Len(freed) : freed[k] # m)
      /\ InvalidIndex = IF Len(freed) + 1 = 1 THEN InvalidIndex ELSE freed[Len(freed) + 1 - 1]
  BY FreeFacts DEF Grow, Below
<1>2. Len(freed) = 0
  <2> SUFFICES ASSUME Len(freed) > 0 PROVE FALSE
    BY <1>1
  <2>1. Len(freed) + 1 - 1 = Len(freed) /\ Len(freed) + 1 # 1 /\ Len(freed) \in 1 .. Len(freed)
    BY <1>1
  <2>2. InvalidIndex \in Indices
    BY <2>1, <1>f
  <2> QED
    BY <2>2, <1>1 DEF Indices
<1>3. new \in SlotRecord /\ i \in Index /\ new.link = i /\ new.version = 1
  BY <1>1 DEF SlotRecord, Index, Version
<1>4. slots' = Append(slots, new)
  BY DEF Grow
<1> HIDE DEF new
<1>5. /\ slots' \in Seq(SlotRecord) /\ Len(slots') = i + 1
      /\ slots'[i + 1] = new /\ \A k \in 1 .. i : slots'[k] = slots[k]
  BY <1>1, <1>3, <1>4, AppendElements
<1>6. /\ \A m \in Indices : slots'[m + 1] = slots[m + 1] /\ m # i
      /\ Indices' = Indices \cup {i}
  BY <1>1, <1>5 DEF Indices
<1>7. /\ freed' = freed /\ free_head' = InvalidIndex
  BY DEF Grow
<1>8. Holding' = Holding \cup {i}
  BY <1>3, <1>5, <1>6 DEF Holding, Holds, Slot
<1>9. FreeListIsStack'
  <2>1. \A m \in Indices' : Holds(m)'
    BY <1>2, <1>3, <1>5, <1>6, <1>f DEF Holds, Slot
  <2> QED
    BY <2>1, <1>2, <1>7 DEF FreeListIsStack, Below
<1>10. StoreOK'
  BY <1>1, <1>5, <1>7, <1>9 DEF StoreOK
<1>11. NextHandle = [index |-> i, version |-> 1] /\ NextHandle \in Entity
  BY <1>3 DEF NextHandle, Grow, Entity, Version
<1>12. i \notin Holding
  BY <1>6 DEF Holding
<1> QED
  BY <1>3, <1>5, <1>6, <1>8, <1>10, <1>11, <1>12 DEF Made, Holding

LEMMA CreateStore ==
    ASSUME StoreOK, Create
    PROVE  StoreOK' /\ Made(NextHandle)
BY RecycleStore, GrowStore DEF Create

LEMMA RetireStore ==
    ASSUME StoreOK, NEW h, Alive(h), Retire(h)
    PROVE  /\ StoreOK' /\ h.index \in Holding /\ Holding' = Holding \ {h.index}
           /\ \A i \in Holding : i # h.index => slots'[i + 1] = slots[i + 1]
<1> USE IndexAssumption, VersionAssumption
<1> DEFINE n == Len(freed)
           new == [link |-> free_head, version |-> NextVersion(h.version)]
<1> PICK i : i = h.index
  OBVIOUS
<1>1. /\ slots \in Seq(SlotRecord) /\ Len(slots) \in Nat /\ Len(slots) <= InvalidIndex
      /\ freed \in Seq(Index) /\ n \in Nat
      /\ free_head \in Index \cup {InvalidIndex}
  BY HoldingFacts, FreeFacts DEF StoreOK
<1>f. /\ \A k \in 1 .. n : freed[k] \in Indices /\ Slot(freed[k]).link = Below(k)
      /\ \A j, k \in 1 .. n : freed[j] = freed[k] => j = k
      /\ \A m \in Indices : Holds(m) <=> (\A k \in 1 .. n : freed[k] # m)
      /\ free_head = Below(n + 1)
  BY FreeFacts
<1>2. /\ i \in Indices /\ Holds(i) /\ i \in Index /\ i \in Holding
      /\ h.version \in Version
  BY HoldingFacts DEF Alive, Holding, Slot
<1>3. \A k \in 1 .. n : freed[k] # i
  BY <1>2, <1>f
<1>4. new \in SlotRecord /\ new.link = free_head
  BY <1>1, <1>2 DEF NextVersion, Version, SlotRecord
<1>5. slots' = [slots EXCEPT ![i + 1] = new]
  BY DEF Retire
<1> HIDE DEF new
<1>6. /\ slots' \in Seq(SlotRecord) /\ Len(slots') = Len(slots) /\ Indices' = Indices
      /\ slots'[i + 1] = new
      /\ \A m \in Indices : m # i => slots'[m + 1] = slots[m + 1]
  BY <1>1, <1>2, <1>4, <1>5, ExceptElements DEF Indices
<1>7. /\ freed' \in Seq(Index) /\ Len(freed') = n + 1
      /\ \A k \in 1 .. n : freed'[k] = freed[k]
      /\ freed'[n + 1] = i /\ free_head' = i
  BY <1>1, <1>2, AppendElements DEF Retire
<1> HIDE DEF n
<1>8. free_head # i
  <2>1. CASE n = 0
    BY <2>1, <1>f, <1>2 DEF Below, Index
  <2>2. CASE n # 0
    <3>1. free_head = freed[n] /\ n \in 1 .. n
      BY <2>2, <1>f, <1>1 DEF Below
    <3> QED
      BY <3>1, <1>3
  <2> QED
    BY <2>1, <2>2
<1>9. \A k \in 1 .. n + 1 : k = n + 1 \/ k \in 1 .. n
  BY <1>1
<1>10. FreeListIsStack'
  <2> USE DEF Slot, Holds
  <2>1. ASSUME NEW k \in 1 .. Len(freed')
        PROVE  (freed[k] \in Indices /\ Slot(freed[k]).link = Below(k))'
    <3>1. Below(k)' = Below(k)
      BY <1>1, <1>7 DEF Below
    <3>2. CASE k = n + 1
      BY <3>1, <3>2, <1>2, <1>4, <1>6, <1>7, <1>f
    <3>3. CASE k \in 1 .. n
      <4>1. freed[k] \in Indices /\ freed[k] # i /\ freed'[k] = freed[k]
        BY <3>3, <1>3, <1>7, <1>f
      <4> QED
        BY <3>1, <3>3, <4>1, <1>6, <1>f
    <3> QED
      BY <3>2, <3>3, <1>7, <1>9
  <2>2. ASSUME NEW j \in 1 .. Len(freed'), NEW k \in 1 .. Len(freed'), freed'[j] = freed'[k]
        PROVE  j = k
    <3>1. \A l \in 1 .. n + 1 : freed'[l] = i => l = n + 1
      BY <1>3, <1>7, <1>9
    <3>2. CASE j \in 1 .. n /\ k \in 1 .. n
      BY <3>2, <2>2, <1>7, <1>f
    <3> QED
      BY <3>1, <3>2, <2>2, <1>7, <1>9
  <2>3. ASSUME NEW m \in Indices
        PROVE  Holds(m)' <=> \A k \in 1 .. Len(freed') : freed'[k] # m
    <3>1. CASE m = i
      <4>1. ~Holds(m)'
        BY <3>1, <1>4, <1>6, <1>8
      <4>2. n + 1 \in 1 .. Len(freed') /\ freed'[n + 1] = m
        BY <3>1, <1>1, <1>7
      <4> QED
        BY <4>1, <4>2
    <3>2. CASE m # i
      <4>1. slots'[m + 1] = slots[m + 1]
        BY <3>2, <1>6
      <4>2. (\A k \in 1 .. n : freed[k] # m) <=> (\A k \in 1 .. n + 1 : freed'[k] # m)
        BY <3>2, <1>1, <1>7
      <4> QED
        BY <4>1, <4>2, <1>f, <1>7
    <3> QED
      BY <3>1, <3>2
  <2>4. free_head' = Below(Len(freed) + 1)'
    BY <1>1, <1>7 DEF Below
  <2> QED
    BY <1>6, <2>1, <2>2, <2>3, <2>4 DEF FreeListIsStack
<1>11. StoreOK'
  BY <1>1, <1>2, <1>6, <1>7, <1>10 DEF StoreOK
<1>12. Holding' = Holding \ {i}
  BY <1>2, <1>4, <1>6, <1>8 DEF Holding, Holds, Slot
<1> QED
  BY <1>2, <1>6, <1>11, <1>12 DEF Holding
-----------------------------------------------------------------------------
(* The free list of a restored registry. *)

Above(D, i) == {j \in D : j > i}

LEMMA AboveFacts ==
    ASSUME NEW D \in SUBSET Nat, IsFiniteSet(D), NEW i \in D
    PROVE  /\ Cardinality(Above(D, i)) \in 0 .. Cardinality(D) - 1
           /\ \A j \in D : i < j => Cardinality(Above(D, j)) < Cardinality(Above(D, i))
<1> USE DEF Above
<1>1. ASSUME NEW S \in SUBSET D, NEW T \in SUBSET S, NEW x \in S, x \notin T
      PROVE  Cardinality(T) < Cardinality(S) /\ Cardinality(S) \in Nat /\ Cardinality(T) \in Nat
  <2>1. IsFiniteSet(S) /\ IsFiniteSet(T)
    BY FS_Subset
  <2>2. Cardinality(T) <= Cardinality(S) /\ Cardinality(S) # Cardinality(T)
    BY <1>1, <2>1, FS_Subset
  <2>3. Cardinality(S) \in Nat /\ Cardinality(T) \in Nat
    BY <2>1, FS_CardinalityType
  <2> QED
    BY <2>2, <2>3
<1>2. Above(D, i) \in SUBSET D /\ i \notin Above(D, i)
  OBVIOUS
<1>3. /\ Cardinality(Above(D, i)) < Cardinality(D) /\ Cardinality(D) \in Nat
      /\ Cardinality(Above(D, i)) \in Nat
  <2>1. D \in SUBSET D
    OBVIOUS
  <2> QED
    BY <1>1, <1>2, <2>1
<1>4. ASSUME NEW j \in D, i < j
      PROVE  Cardinality(Above(D, j)) < Cardinality(Above(D, i))
  <2>1. \A x \in D : x \in Nat /\ (x > j => x > i)
    BY <1>4
  <2>2. /\ Above(D, i) \in SUBSET D /\ Above(D, j) \in SUBSET Above(D, i)
        /\ j \in Above(D, i) /\ j \notin Above(D, j)
    <3>1. ~(j > j)
      BY <2>1
    <3>2. \A x \in Above(D, j) : x \in Above(D, i)
      BY <2>1
    <3>3. j \in Above(D, i)
      BY <1>4
    <3> QED
      BY <3>1, <3>2, <3>3
  <2> QED
    BY <1>1, <2>2
<1> QED
  BY <1>3, <1>4

(* It is the set in descending order.                                      *)
LEMMA DescendingFacts ==
    ASSUME NEW D \in SUBSET Nat, IsFiniteSet(D)
    PROVE  /\ Descending(D) \in Seq(D) /\ Len(Descending(D)) = Cardinality(D)
           /\ Cardinality(D) \in Nat
           /\ \A k \in 1 .. Cardinality(D) :
                 /\ Descending(D)[k] \in D
                 /\ Cardinality(Above(D, Descending(D)[k])) = k - 1
           /\ \A i \in D : \E k \in 1 .. Cardinality(D) : Descending(D)[k] = i
           /\ \A j, k \in 1 .. Cardinality(D) : Descending(D)[j] = Descending(D)[k] => j = k
<1> DEFINE c == Cardinality(D)
           f == [i \in D |-> Cardinality(Above(D, i))]
           q == Descending(D)
<1>1. c \in Nat
  BY FS_CardinalityType
<1>2. f \in [D -> 0 .. c - 1] /\ \A i, j \in D : f[i] = f[j] => i = j
  <2>1. \A i \in D : Cardinality(Above(D, i)) \in 0 .. c - 1
    BY AboveFacts
  <2>2. ASSUME NEW i \in D, NEW j \in D, i < j
        PROVE  f[j] < f[i]
    BY <2>2, AboveFacts
  <2>3. ASSUME NEW i \in D, NEW j \in D, f[i] = f[j] PROVE i = j
    <3>1. f[i] \in Nat /\ f[j] \in Nat
      BY <2>1
    <3>2. ~(i < j) /\ ~(j < i)
      BY <2>2, <2>3, <3>1
    <3> QED
      BY <3>2
  <2> QED
    BY <2>1, <2>3
<1>3. \A k \in 0 .. c - 1 : \E i \in D : f[i] = k
  <2>1. f \in Injection(D, 0 .. c - 1)
    BY <1>2 DEF Injection, IsInjective
  <2>2. IsFiniteSet(0 .. c - 1) /\ Cardinality(0 .. c - 1) = c
    <3>1. 0 \in Int /\ c - 1 \in Int
      BY <1>1
    <3> HIDE DEF c
    <3>2. IsFiniteSet(0 .. c - 1) /\ Cardinality(0 .. c - 1) = IF 0 > c - 1 THEN 0 ELSE c - 1 - 0 + 1
      BY <3>1, FS_Interval
    <3> QED
      BY <3>2, <1>1
  <2>3. f \in Surjection(D, 0 .. c - 1)
    BY <2>1, <2>2, FS_Injection
  <2> QED
    BY <2>3 DEF Surjection
<1>4. q = [k \in 1 .. c |-> CHOOSE i \in D : Cardinality(Above(D, i)) = k - 1]
  BY DEF Descending, Above
<1>5. ASSUME NEW k \in 1 .. c PROVE q[k] \in D /\ Cardinality(Above(D, q[k])) = k - 1
  <2>1. k - 1 \in 0 .. c - 1
    BY <1>1
  <2>2. \E i \in D : Cardinality(Above(D, i)) = k - 1
    BY <2>1, <1>3
  <2> QED
    BY <2>2, <1>4
<1>6. q \in Seq(D) /\ Len(q) = c
  <2>1. DOMAIN q = 1 .. c /\ q \in [1 .. c -> D]
    BY <1>4, <1>5
  <2>2. q \in Seq(D)
    BY <2>1, <1>1
  <2> QED
    BY <2>1, <2>2, <1>1
<1>7. ASSUME NEW i \in D PROVE \E k \in 1 .. c : q[k] = i
  <2> DEFINE k == f[i] + 1
  <2>1. k \in 1 .. c /\ k - 1 = f[i]
    BY <1>1, <1>2
  <2>2. q[k] \in D /\ f[q[k]] = f[i]
    BY <2>1, <1>5
  <2> QED
    BY <2>1, <2>2, <1>2
<1>8. ASSUME NEW j \in 1 .. c, NEW k \in 1 .. c, q[j] = q[k] PROVE j = k
  <2>1. j - 1 = k - 1
    BY <1>5, <1>8
  <2> QED
    BY <2>1, <1>1
<1> QED
  BY <1>1, <1>5, <1>6, <1>7, <1>8

(* Where a link leads that names the next greater index.                   *)
LEMMA DescendingLinks ==
    ASSUME NEW D \in SUBSET Nat, IsFiniteSet(D)
    PROVE  /\ \A k \in 1 .. Cardinality(D) :
                 Least(Above(D, Descending(D)[k]))
                   = IF k = 1 THEN InvalidIndex ELSE Descending(D)[k - 1]
           /\ Least(D) = IF Cardinality(D) = 0 THEN InvalidIndex
                         ELSE Descending(D)[Cardinality(D)]
<1> DEFINE c == Cardinality(D)
           q == Descending(D)
<1>1. /\ c \in Nat
      /\ \A k \in 1 .. c : q[k] \in D /\ Cardinality(Above(D, q[k])) = k - 1
      /\ \A i \in D : \E k \in 1 .. c : q[k] = i
  BY DescendingFacts
<1>2. \A k, l \in 1 .. c : q[k] < q[l] => l < k
  <2> SUFFICES ASSUME NEW k \in 1 .. c, NEW l \in 1 .. c, q[k] < q[l] PROVE l < k
    OBVIOUS
  <2>1. l - 1 < k - 1
    BY <1>1, AboveFacts
  <2> QED
    BY <2>1, <1>1
<1>3. \A k, l \in 1 .. c : l < k => q[k] < q[l]
  <2> SUFFICES ASSUME NEW k \in 1 .. c, NEW l \in 1 .. c, l < k PROVE q[k] < q[l]
    OBVIOUS
  <2>1. q[k] \in Nat /\ q[l] \in Nat /\ q[k] # q[l]
    <3>1. k - 1 # l - 1
      BY <1>1
    <3> QED
      BY <1>1, <3>1
  <2>2. ~(q[l] < q[k])
    BY <1>1, <1>2
  <2> QED
    BY <2>1, <2>2
<1> HIDE DEF c, q
<1>4. ASSUME NEW k \in 1 .. c
      PROVE  Least(Above(D, q[k])) = IF k = 1 THEN InvalidIndex ELSE q[k - 1]
  <2>1. CASE k = 1
    <3>1. Above(D, q[k]) = {}
      <4> SUFFICES ASSUME NEW j \in D, j > q[k] PROVE FALSE
        BY DEF Above
      <4>1. PICK l \in 1 .. c : q[l] = j
        BY <1>1
      <4> QED
        BY <4>1, <1>1, <1>2, <2>1
    <3> QED
      BY <2>1, <3>1 DEF Least
  <2>2. CASE k # 1
    <3>1. k - 1 \in 1 .. c /\ k - 1 < k
      BY <2>2, <1>1
    <3>2. q[k - 1] \in Above(D, q[k]) /\ q[k] \in Nat /\ q[k - 1] \in Nat
      BY <3>1, <1>1, <1>3 DEF Above
    <3>3. ASSUME NEW j \in Above(D, q[k]) PROVE q[k - 1] <= j
      <4>1. j \in D /\ j > q[k]
        BY DEF Above
      <4>2. PICK l \in 1 .. c : q[l] = j
        BY <4>1, <1>1
      <4>3. l < k
        BY <4>1, <4>2, <1>2
      <4>4. l = k - 1 \/ l < k - 1
        BY <4>3, <1>1
      <4> QED
        BY <4>1, <4>2, <4>4, <3>1, <3>2, <1>3
    <3>4. Above(D, q[k]) \in SUBSET Nat /\ Above(D, q[k]) # {}
      BY <3>2 DEF Above
    <3>5. /\ Least(Above(D, q[k])) \in Above(D, q[k])
          /\ \A j \in Above(D, q[k]) : Least(Above(D, q[k])) <= j
      BY <3>4, LeastIs
    <3> QED
      BY <2>2, <3>2, <3>3, <3>4, <3>5
  <2> QED
    BY <2>1, <2>2
<1>5. Least(D) = IF c = 0 THEN InvalidIndex ELSE q[c]
  <2>1. CASE c = 0
    <3>1. D = {}
      BY <2>1, FS_EmptySet DEF c
    <3> QED
      BY <2>1, <3>1 DEF Least
  <2>2. CASE c # 0
    <3>1. c \in 1 .. c
      BY <2>2, <1>1
    <3>2. q[c] \in D /\ q[c] \in Nat
      BY <3>1, <1>1
    <3>3. ASSUME NEW j \in D PROVE q[c] <= j
      <4>1. PICK l \in 1 .. c : q[l] = j
        BY <1>1
      <4>2. l = c \/ l < c
        BY <1>1
      <4> QED
        BY <4>1, <4>2, <3>1, <3>2, <1>3
    <3>4. Least(D) \in D /\ \A j \in D : Least(D) <= j
      BY <3>2, LeastIs
    <3>5. Least(D) <= q[c] /\ q[c] <= Least(D) /\ Least(D) \in Nat
      BY <3>2, <3>3, <3>4
    <3> QED
      BY <2>2, <3>2, <3>5
  <2> QED
    BY <2>1, <2>2
<1> QED
  BY <1>4, <1>5 DEF c, q
-----------------------------------------------------------------------------
(* Slots as they are while a snapshot is made or restored: a blank one has *)
(* version 0.                                                              *)
LooseRecord == [link : Index \cup {InvalidIndex}, version : Version \cup {0}]

LEMMA RelinkedFacts ==
    ASSUME NEW cells \in Seq(LooseRecord), Len(cells) <= InvalidIndex
    PROVE  /\ CellsOK(Relinked(cells))
           /\ Len(Relinked(cells)) = Len(cells) /\ Dead(Relinked(cells)) = Dead(cells)
           /\ AliveIn(Relinked(cells)) = AliveIn(cells)
           /\ \A i \in AliveIn(cells) : Relinked(cells)[i + 1] = cells[i + 1]
           /\ \A i \in Dead(cells) : Relinked(cells)[i + 1].link = Least(Above(Dead(cells), i))
<1> USE IndexAssumption, VersionAssumption
<1> DEFINE n == Len(cells)
           D == Dead(cells)
           r == Relinked(cells)
           Link(i) == [link |-> Least(Above(D, i)),
                       version |-> IF cells[i + 1].version = 0 THEN 1 ELSE cells[i + 1].version]
<1>1. n \in Nat /\ n <= InvalidIndex /\ \A p \in 1 .. n : cells[p] \in LooseRecord
  OBVIOUS
<1>2. D \in SUBSET Nat /\ D = {i \in 0 .. n - 1 : ~Held(cells, i)} /\ D \subseteq Index
  BY <1>1 DEF Dead, Index
<1>3. ASSUME NEW i \in 0 .. n - 1
      PROVE  /\ i + 1 \in 1 .. n /\ i + 1 - 1 = i /\ i \in Index
             /\ r[i + 1] = IF Held(cells, i) THEN cells[i + 1] ELSE Link(i)
  <2>1. i + 1 \in 1 .. n /\ i + 1 - 1 = i /\ i \in Index
    BY <1>1 DEF Index
  <2>2. {j \in Dead(cells) : j >= i + 1} = Above(D, i)
    BY <1>2, <1>1 DEF Above
  <2>3. i + 1 \in DOMAIN cells
    BY <2>1
  <2>4. r[i + 1] = IF Held(cells, i + 1 - 1) THEN cells[i + 1]
                   ELSE [link |-> Least({j \in Dead(cells) : j >= i + 1}),
                         version |-> IF cells[i + 1].version = 0 THEN 1
                                     ELSE cells[i + 1].version]
    BY <2>3 DEF Relinked
  <2> HIDE DEF D, n, r
  <2> QED
    BY <2>1, <2>2, <2>4
<1>4. ASSUME NEW i \in D
      PROVE  Link(i) \in SlotRecord /\ Link(i).link # i
  <2>1. Least(Above(D, i)) \in Index \cup {InvalidIndex} /\ Least(Above(D, i)) # i
    <3>1. CASE Above(D, i) = {}
      BY <3>1, <1>2 DEF Least, Index
    <3>2. CASE Above(D, i) # {}
      <4>1. Above(D, i) \in SUBSET Nat
        BY <1>2 DEF Above
      <4>2. Least(Above(D, i)) \in Above(D, i)
        BY <3>2, <4>1, LeastIs
      <4> QED
        BY <4>2, <1>2 DEF Above
    <3> QED
      BY <3>1, <3>2
  <2>2. cells[i + 1].version \in Version \cup {0} /\ 1 \in Version
    BY <1>1, <1>2, <1>3 DEF LooseRecord, Version
  <2> QED
    BY <2>1, <2>2 DEF SlotRecord
<1>5. ASSUME NEW i \in 0 .. n - 1
      PROVE  r[i + 1] \in SlotRecord /\ (Held(r, i) <=> Held(cells, i))
  <2>1. CASE Held(cells, i)
    <3>1. r[i + 1] = cells[i + 1] /\ cells[i + 1] \in LooseRecord
      BY <1>1, <1>3, <2>1
    <3> QED
      BY <2>1, <3>1 DEF Held, LooseRecord, SlotRecord
  <2>2. CASE ~Held(cells, i)
    <3>1. i \in D /\ r[i + 1] = Link(i)
      BY <1>2, <1>3, <2>2
    <3>2. Link(i) \in SlotRecord /\ Link(i).link # i
      BY <3>1, <1>4
    <3> HIDE DEF Link, r, D
    <3> QED
      BY <2>2, <3>1, <3>2 DEF Held
  <2> QED
    BY <2>1, <2>2
<1>6. r \in Seq(SlotRecord) /\ Len(r) = n
  <2>1. DOMAIN r = 1 .. n
    BY DEF Relinked
  <2>2. ASSUME NEW p \in 1 .. n PROVE r[p] \in SlotRecord
    <3>1. p - 1 \in 0 .. n - 1 /\ p - 1 + 1 = p
      BY <1>1
    <3> HIDE DEF r, n
    <3>2. r[p - 1 + 1] \in SlotRecord
      BY <3>1, <1>5
    <3> QED
      BY <3>1, <3>2
  <2>3. r \in [1 .. n -> SlotRecord]
    BY <2>1, <2>2 DEF Relinked
  <2> HIDE DEF r, n
  <2> QED
    BY <2>1, <2>3, <1>1
<1> HIDE DEF n, r, D, Link
<1>7. Dead(r) = D
  BY <1>2, <1>5, <1>6 DEF Dead
<1>8. AliveIn(r) = AliveIn(cells)
  BY <1>6, <1>7 DEF AliveIn, D, n
<1>9. ASSUME NEW i \in AliveIn(cells) PROVE r[i + 1] = cells[i + 1]
  <2>1. i \in 0 .. n - 1 /\ Held(cells, i)
    BY <1>2 DEF AliveIn, n, D
  <2> QED
    BY <2>1, <1>3
<1>10. ASSUME NEW i \in D PROVE r[i + 1].link = Least(Above(D, i))
  <2>1. i \in 0 .. n - 1 /\ ~Held(cells, i)
    BY <1>2
  <2>2. r[i + 1] = Link(i)
    BY <2>1, <1>3
  <2> QED
    BY <2>2 DEF Link
<1>11. CellsOK(r) /\ Len(r) = Len(cells)
  BY <1>1, <1>6 DEF CellsOK, n
<1> QED
  BY <1>7, <1>8, <1>9, <1>10, <1>11 DEF r, D

(* Slots and free list right after a restore.                              *)
LEMMA RebuiltStore ==
    ASSUME NEW cells \in Seq(LooseRecord), Len(cells) <= InvalidIndex,
           slots' = Relinked(cells), free_head' = Least(Dead(slots')),
           freed' = Descending(Dead(slots'))
    PROVE  StoreOK' /\ Holding' = AliveIn(cells)
<1> USE IndexAssumption, VersionAssumption
<1> DEFINE D == Dead(cells)
           c == Cardinality(D)
           q == Descending(D)
           n == Len(cells)
<1>1. /\ slots' \in Seq(SlotRecord) /\ Len(slots') <= InvalidIndex
      /\ Len(slots') = n /\ n \in Nat /\ InvalidIndex \in Nat
      /\ Dead(slots') = D /\ AliveIn(slots') = AliveIn(cells)
      /\ \A i \in D : slots'[i + 1].link = Least(Above(D, i))
  BY RelinkedFacts DEF CellsOK
<1>2. D \in SUBSET Nat /\ D \subseteq 0 .. n - 1 /\ D \subseteq Index /\ IsFiniteSet(D)
  <2>1. D \in SUBSET (0 .. n - 1)
    BY DEF Dead
  <2>2. IsFiniteSet(0 .. n - 1)
    <3>1. 0 \in Int /\ n - 1 \in Int
      BY <1>1
    <3> HIDE DEF n
    <3> QED
      BY <3>1, FS_Interval
  <2> HIDE DEF D, n
  <2>3. IsFiniteSet(D)
    BY <2>1, <2>2, FS_Subset
  <2>4. 0 .. n - 1 \subseteq Index
    BY <1>1 DEF Index
  <2> QED
    BY <2>1, <2>3, <2>4, <1>1
<1>3. /\ q \in Seq(D) /\ Len(q) = c /\ c \in Nat
      /\ \A k \in 1 .. c : q[k] \in D
      /\ \A i \in D : \E k \in 1 .. c : q[k] = i
      /\ \A j, k \in 1 .. c : q[j] = q[k] => j = k
  BY <1>2, DescendingFacts
<1>4. /\ \A k \in 1 .. c : Least(Above(D, q[k])) = IF k = 1 THEN InvalidIndex ELSE q[k - 1]
      /\ Least(D) = IF c = 0 THEN InvalidIndex ELSE q[c]
  BY <1>2, DescendingLinks
<1>5. freed' = q /\ free_head' = Least(D)
  BY <1>1
<1> HIDE DEF D, c, q, n
<1>6. ASSUME NEW i \in Indices'
      PROVE  Holds(i)' <=> i \notin D
  <2>1. /\ slots'[i + 1] \in SlotRecord /\ i \in 0 .. Len(slots') - 1
        /\ slots'[i + 1].version # 0
    <3>1. i \in 0 .. Len(slots') - 1
      BY DEF Indices
    <3>2. i + 1 \in 1 .. Len(slots')
      BY <3>1, <1>1
    <3>3. slots'[i + 1] \in SlotRecord
      BY <3>2, <1>1
    <3> QED
      BY <3>1, <3>3 DEF SlotRecord, Version
  <2>2. Held(slots', i) <=> i \notin D
    BY <1>1, <2>1 DEF Dead
  <2> QED
    BY <2>1, <2>2 DEF Holds, Slot, Held
<1>7. FreeListIsStack'
  <2>1. ASSUME NEW k \in 1 .. Len(freed')
        PROVE  (freed[k] \in Indices /\ Slot(freed[k]).link = Below(k))'
    <3>1. k \in 1 .. c /\ freed'[k] = q[k] /\ q[k] \in D
      BY <1>3, <1>5
    <3>2. q[k] \in Indices'
      BY <3>1, <1>1, <1>2 DEF Indices
    <3>3. slots'[q[k] + 1].link = IF k = 1 THEN InvalidIndex ELSE q[k - 1]
      BY <3>1, <1>1, <1>4
    <3> QED
      BY <3>1, <3>2, <3>3, <1>5 DEF Slot, Below
  <2>2. \A j, k \in 1 .. Len(freed') : freed'[j] = freed'[k] => j = k
    BY <1>3, <1>5
  <2>3. ASSUME NEW i \in Indices'
        PROVE  Holds(i)' <=> \A k \in 1 .. Len(freed') : freed'[k] # i
    BY <1>3, <1>5, <1>6
  <2>4. free_head' = Below(Len(freed) + 1)'
    BY <1>3, <1>4, <1>5 DEF Below
  <2> QED
    BY <2>1, <2>2, <2>3, <2>4 DEF FreeListIsStack
<1>8. StoreOK'
  <2>1. freed' \in Seq(Index)
    <3>1. q \in Seq(D) /\ D \subseteq Index
      BY <1>2, <1>3
    <3>2. q \in Seq(Index)
      BY <3>1
    <3> QED
      BY <3>2, <1>5
  <2>2. free_head' \in Index \cup {InvalidIndex}
    <3>1. CASE c = 0
      BY <3>1, <1>4, <1>5
    <3>2. CASE c # 0
      <4>1. c \in 1 .. c
        BY <3>2, <1>3
      <4>2. q[c] \in D /\ D \subseteq Index /\ free_head' = q[c]
        BY <3>2, <4>1, <1>2, <1>3, <1>4, <1>5
      <4> QED
        BY <4>2
    <3> QED
      BY <3>1, <3>2
  <2> QED
    BY <2>1, <2>2, <1>1, <1>7 DEF StoreOK
<1>9. Holding' = AliveIn(cells)
  BY <1>1, <1>6 DEF Holding, AliveIn, Indices
<1> QED
  BY <1>8, <1>9
(* The slots of a snapshot: those of the registry without excluded ones.   *)
LEMMA SnapshotSlots ==
    ASSUME StoreOK, NEW out \in SUBSET Index, NEW cells,
           cells = [p \in DOMAIN slots |-> IF p - 1 \in out THEN Blank ELSE slots[p]]
    PROVE  /\ cells \in Seq(LooseRecord) /\ Len(cells) <= InvalidIndex
           /\ AliveIn(cells) = Holding \ out
           /\ \A i \in AliveIn(cells) : cells[i + 1] = slots[i + 1]
<1> USE IndexAssumption, VersionAssumption
<1> DEFINE n == Len(slots)
<1>1. /\ n \in Nat /\ n <= InvalidIndex /\ DOMAIN slots = 1 .. n
      /\ \A p \in 1 .. n : slots[p] \in SlotRecord
  BY HoldingFacts DEF StoreOK
<1>2. Blank \in LooseRecord /\ Blank.version = 0
  BY DEF Blank, LooseRecord, Index
<1>3. \A r \in SlotRecord : r \in LooseRecord /\ r.version # 0
  BY DEF SlotRecord, LooseRecord, Version
<1> HIDE DEF n
<1>4. cells \in [1 .. n -> LooseRecord]
  BY <1>1, <1>2, <1>3
<1>5. cells \in Seq(LooseRecord) /\ Len(cells) = n
  BY <1>1, <1>4
<1>6. ASSUME NEW i \in 0 .. n - 1
      PROVE  /\ i \in out => cells[i + 1] = Blank
             /\ i \notin out => cells[i + 1] = slots[i + 1]
             /\ Held(cells, i) <=> i \notin out /\ Holds(i)
  <2>1. i + 1 \in 1 .. n /\ i + 1 - 1 = i
    BY <1>1
  <2>2. cells[i + 1] = IF i \in out THEN Blank ELSE slots[i + 1]
    BY <2>1, <1>1
  <2>3. slots[i + 1].version # 0
    BY <2>1, <1>1, <1>3
  <2> QED
    BY <2>2, <2>3, <1>2 DEF Held, Holds, Slot
<1>7. AliveIn(cells) = {i \in 0 .. n - 1 : Held(cells, i)}
  BY <1>5 DEF AliveIn, Dead
<1>8. Holding = {i \in 0 .. n - 1 : Holds(i)}
  BY DEF Holding, Indices, n
<1> QED
  BY <1>1, <1>5, <1>6, <1>7, <1>8

(* Those a restore puts back: a job keeps its index and its slot.          *)
LEMMA MergedSlots ==
    ASSUME StoreOK, JobsOK, NEW cells, CellsOK(cells)
    PROVE  /\ Merged(cells) \in Seq(LooseRecord) /\ Len(Merged(cells)) <= InvalidIndex
           /\ \A i : i \in AliveIn(Merged(cells)) <=> TakenByJob(i) \/ i \in AliveIn(cells)
           /\ \A i : TakenByJob(i) => Merged(cells)[i + 1] = slots[i + 1]
           /\ \A i \in AliveIn(cells) : ~TakenByJob(i) => Merged(cells)[i + 1] = cells[i + 1]
<1> USE IndexAssumption, VersionAssumption
<1> DEFINE kept == {j \in jobs : Alive(j)}
           most == {h.index + 1 : h \in kept} \cup {Len(cells)}
           top == CHOOSE m \in most : \A x \in most : x <= m
           n == Len(cells)
           g == Merged(cells)
<1>1. /\ n \in Nat /\ n <= InvalidIndex /\ cells \in Seq(SlotRecord)
      /\ \A p \in 1 .. n : cells[p] \in SlotRecord
  BY DEF CellsOK
<1>2. ASSUME NEW j \in jobs
      PROVE  /\ j \in kept /\ j.index \in Holding /\ j.index \in Index
             /\ slots[j.index + 1] \in SlotRecord /\ slots[j.index + 1].link = j.index
  BY HoldingFacts DEF JobsOK, Alive, Holding, Indices, Holds, Slot
<1>3. \A i : TakenByJob(i) <=> \E h \in kept : h.index = i
  BY <1>2 DEF TakenByJob
<1>4. top \in most /\ \A x \in most : x <= top
  <2>1. most \in SUBSET Nat /\ n \in most /\ \A x \in most : x <= InvalidIndex
    BY <1>1, <1>2 DEF Index
  <2>2. \E m \in most : \A x \in most : x <= m
    <3> HIDE DEF most, n
    <3> QED
      BY <2>1, GreatestNat
  <2> HIDE DEF most
  <2> QED
    BY <2>2
<1>5. /\ top \in Nat /\ top <= InvalidIndex /\ n <= top
      /\ \A j \in jobs : j.index + 1 <= top
  <2>1. \A x \in most : x \in Nat /\ x <= InvalidIndex
    BY <1>1, <1>2 DEF Index
  <2>2. n \in most /\ \A j \in jobs : j.index + 1 \in most
    BY <1>2
  <2> HIDE DEF most, top
  <2> QED
    BY <2>1, <2>2, <1>4
<1>6. g = [p \in 1 .. top |-> IF \E h \in kept : h.index = p - 1 THEN slots[p]
                              ELSE IF p <= n THEN cells[p] ELSE Blank]
  BY DEF Merged
<1> HIDE DEF top, n, g, most
<1>7. ASSUME NEW i \in 0 .. top - 1
      PROVE  g[i + 1] = IF TakenByJob(i) THEN slots[i + 1]
                        ELSE IF i + 1 <= n THEN cells[i + 1] ELSE Blank
  <2>1. i + 1 \in 1 .. top /\ i + 1 - 1 = i
    BY <1>5
  <2>2. (\E h \in kept : h.index = i + 1 - 1) <=> TakenByJob(i)
    BY <2>1, <1>3
  <2> HIDE DEF kept
  <2> QED
    BY <2>1, <2>2, <1>6
<1>8. Blank \in LooseRecord /\ Blank.version = 0
  BY DEF Blank, LooseRecord, Index
<1>9. \A r \in SlotRecord : r \in LooseRecord /\ r.version # 0
  BY DEF SlotRecord, LooseRecord, Version
<1>10. \A i : TakenByJob(i) => /\ i \in 0 .. top - 1 /\ slots[i + 1] \in SlotRecord
                               /\ slots[i + 1].link = i
  <2> SUFFICES ASSUME NEW j \in jobs
               PROVE  /\ j.index \in 0 .. top - 1 /\ slots[j.index + 1] \in SlotRecord
                      /\ slots[j.index + 1].link = j.index
    BY DEF TakenByJob
  <2> QED
    BY <1>2, <1>5 DEF Index
<1>11. g \in Seq(LooseRecord) /\ Len(g) = top
  <2>1. ASSUME NEW p \in 1 .. top PROVE g[p] \in LooseRecord
    <3>1. p - 1 \in 0 .. top - 1 /\ p - 1 + 1 = p
      BY <1>5
    <3>2. g[p] = IF TakenByJob(p - 1) THEN slots[p] ELSE IF p <= n THEN cells[p] ELSE Blank
      BY <3>1, <1>7
    <3>3. TakenByJob(p - 1) => slots[p] \in LooseRecord
      BY <3>1, <1>9, <1>10
    <3>4. p <= n => cells[p] \in LooseRecord
      BY <1>1, <1>9
    <3> QED
      BY <3>2, <3>3, <3>4, <1>8
  <2>2. g \in [1 .. top -> LooseRecord]
    BY <2>1, <1>6
  <2> QED
    BY <2>2, <1>5
<1>12. /\ AliveIn(g) = {i \in 0 .. top - 1 : Held(g, i)}
       /\ AliveIn(cells) = {i \in 0 .. n - 1 : Held(cells, i)}
  BY <1>11 DEF AliveIn, Dead, n
<1>13. ASSUME NEW i \in 0 .. top - 1
       PROVE  Held(g, i) <=> TakenByJob(i) \/ (i \in 0 .. n - 1 /\ Held(cells, i))
  <2>1. CASE TakenByJob(i)
    BY <2>1, <1>7, <1>9, <1>10 DEF Held
  <2>2. CASE ~TakenByJob(i) /\ i + 1 <= n
    BY <2>2, <1>1, <1>7 DEF Held
  <2>3. CASE ~TakenByJob(i) /\ ~(i + 1 <= n)
    BY <2>3, <1>1, <1>7, <1>8 DEF Held
  <2> QED
    BY <2>1, <2>2, <2>3
<1>14. \A i : i \in 0 .. n - 1 => i \in 0 .. top - 1 /\ i + 1 <= n
  BY <1>1, <1>5
<1>15. \A i : i \in AliveIn(g) <=> TakenByJob(i) \/ i \in AliveIn(cells)
  BY <1>10, <1>12, <1>13, <1>14
<1>16. \A i : TakenByJob(i) => g[i + 1] = slots[i + 1]
  BY <1>7, <1>10
<1>17. \A i \in AliveIn(cells) : ~TakenByJob(i) => g[i + 1] = cells[i + 1]
  BY <1>7, <1>12, <1>14
<1> QED
  BY <1>5, <1>11, <1>15, <1>16, <1>17 DEF g
-----------------------------------------------------------------------------
(* SInv: handles, jobs and what is on the entities. *)

LEMMA AliveMeans ==
    ASSUME NEW h
    PROVE  Alive(h) <=> /\ h.version # 0 /\ h.index \in Holding
                        /\ slots[h.index + 1].version = h.version
BY DEF Alive, Holding, Slot

LEMMA AliveMeansNext ==
    ASSUME NEW h
    PROVE  Alive(h)' <=> /\ h.version # 0 /\ h.index \in Holding'
                         /\ slots'[h.index + 1].version = h.version
BY DEF Alive, Holding, Slot

LEMMA LiveEntities ==
    ASSUME StoreOK, NEW h \in LiveHandles
    PROVE  h \in Entity /\ Alive(h)
<1>1. PICK i \in Holding : h = [index |-> i, version |-> Slot(i).version]
  BY DEF LiveHandles
<1>2. i \in Index /\ slots[i + 1].version \in Version /\ h.index = i
      /\ h.version = slots[i + 1].version
  BY <1>1, HoldingFacts DEF Slot
<1>3. h.version # 0
  BY <1>2, VersionAssumption DEF Version
<1> QED
  BY <1>1, <1>2, <1>3, AliveMeans DEF Entity, Slot

LEMMA SInvInit == CatalogInit => SInv
<1> SUFFICES ASSUME CatalogInit PROVE SInv
  OBVIOUS
<1> USE IndexAssumption DEF CatalogInit, Init
<1>1. StoreOK
  BY DEF StoreOK, FreeListIsStack, Indices, Below
<1>2. JobsOK /\ SavedSlotsOK
  BY DEF JobsOK, SavedSlotsOK
<1>3. StoragesOK
  <2>1. DOMAIN storages = {}
    OBVIOUS
  <2>2. storages \in [DOMAIN storages -> [object : ObjectId, entities : SUBSET Index]]
    OBVIOUS
  <2> QED
    BY <2>1, <2>2 DEF StoragesOK
<1> QED
  BY <1>1, <1>2, <1>3 DEF SInv

(* Slots and jobs stay.                                                    *)
LEMMA SInvSlotsStay ==
    ASSUME SInv, UNCHANGED <<storeVars, jobs, saved>>, StoragesOK'
    PROVE  SInv'
<1> USE DEF storeVars, vars
<1>1. StoreOK'
  BY DEF SInv, StoreOK, FreeListIsStack, Indices, Slot, Holds, Below
<1>2. JobsOK' /\ SavedSlotsOK'
  BY DEF SInv, JobsOK, SavedSlotsOK, Alive, Indices, Holds, Slot
<1> QED
  BY <1>1, <1>2 DEF SInv

LEMMA SInvSame ==
    ASSUME SInv, UNCHANGED <<storeVars, jobs, saved, storages, stamp>>
    PROVE  SInv'
<1>1. StoragesOK'
  BY DEF SInv, StoragesOK, Holding, Indices, Holds, Slot, storeVars, vars
<1> QED
  BY <1>1, SInvSlotsStay

LEMMA SInvCreate ==
    ASSUME SInv, Create, jobs' = jobs \/ jobs' = jobs \cup {NextHandle},
           UNCHANGED <<storages, stamp, saved>>
    PROVE  SInv'
<1>1. StoreOK' /\ Made(NextHandle)
  BY CreateStore DEF SInv
<1>2. ASSUME NEW j \in jobs' PROVE (j \in Entity /\ Alive(j))'
  <2>1. CASE j \in jobs
    <3>1. j \in Entity /\ Alive(j)
      BY <2>1 DEF SInv, JobsOK
    <3> QED
      BY <3>1, <1>1, AliveMeans, AliveMeansNext DEF Made
  <2>2. CASE j = NextHandle
    BY <2>2, <1>1, AliveMeansNext DEF Made, Entity, Version
  <2> QED
    BY <1>2, <2>1, <2>2
<1>3. StoragesOK' /\ SavedSlotsOK'
  BY <1>1 DEF SInv, StoragesOK, SavedSlotsOK, Made
<1> QED
  BY <1>1, <1>2, <1>3 DEF SInv, JobsOK

LEMMA SInvRetire ==
    ASSUME SInv, NEW h \in LiveHandles, h \notin jobs, Retire(h), UNCHANGED <<jobs, stamp, saved>>,
           DOMAIN storages' \subseteq DOMAIN storages,
           storages' = [i \in DOMAIN storages' |->
                           [storages[i] EXCEPT !.entities = @ \ {h.index}]]
    PROVE  SInv'
<1>1. h \in Entity /\ Alive(h)
  BY LiveEntities DEF SInv
<1>2. /\ StoreOK' /\ h.index \in Holding /\ Holding' = Holding \ {h.index}
      /\ \A i \in Holding : i # h.index => slots'[i + 1] = slots[i + 1]
  BY <1>1, RetireStore DEF SInv
<1>3. ASSUME NEW j \in jobs' PROVE (j \in Entity /\ Alive(j))'
  <2>1. j \in Entity /\ Alive(j)
    BY DEF SInv, JobsOK
  <2>2. j.index # h.index
    <3>1. j # h
      OBVIOUS
    <3> QED
      BY <3>1, <2>1, <1>1, AliveMeans DEF Entity
  <2> QED
    BY <2>1, <2>2, <1>2, AliveMeans, AliveMeansNext
<1>4. StoragesOK'
  <2>1. ASSUME NEW i \in DOMAIN storages'
        PROVE  /\ storages'[i] \in [object : ObjectId, entities : SUBSET Index]
               /\ storages'[i].entities \subseteq Holding'
    <3>1. /\ storages[i] \in [object : ObjectId, entities : SUBSET Index]
          /\ storages[i].entities \subseteq Holding
      BY DEF SInv, StoragesOK
    <3>2. storages'[i] = [storages[i] EXCEPT !.entities = @ \ {h.index}]
      BY Zenon
    <3> QED
      BY <3>1, <3>2, <1>2
  <2> QED
    BY <2>1 DEF SInv, StoragesOK
<1> QED
  BY <1>2, <1>3, <1>4 DEF SInv, JobsOK, SavedSlotsOK

(* Storages are made for some components, and others keep theirs.          *)
LEMMA WithStoragesOK ==
    ASSUME StoragesOK, NEW S, \A c \in S : c.index \in Index
    PROVE  /\ DOMAIN WithStorages(S) = DOMAIN storages \cup {c.index : c \in S}
           /\ DOMAIN WithStorages(S) \subseteq Index
           /\ WithStorages(S) \in [DOMAIN WithStorages(S) ->
                                      [object : ObjectId, entities : SUBSET Index]]
           /\ \A i \in DOMAIN WithStorages(S) : WithStorages(S)[i].entities \subseteq Holding
<1> DEFINE w == WithStorages(S)
<1>1. DOMAIN w = DOMAIN storages \cup {c.index : c \in S}
  BY DEF WithStorages
<1>2. ASSUME NEW i \in DOMAIN w
      PROVE  /\ i \in Index /\ w[i] \in [object : ObjectId, entities : SUBSET Index]
             /\ w[i].entities \subseteq Holding
  <2>1. CASE i \in DOMAIN storages
    BY <2>1 DEF WithStorages, StoragesOK
  <2>2. CASE i \notin DOMAIN storages
    <3>1. i \in Index
      BY <1>1, <2>2
    <3>2. w[i] = [object |-> <<stamp + 1, i>>, entities |-> {}]
      BY <2>2 DEF WithStorages
    <3>3. stamp + 1 \in Nat /\ i \in Nat
      BY <3>1 DEF StoragesOK, Index
    <3> QED
      BY <3>1, <3>2, <3>3 DEF ObjectId
  <2> QED
    BY <2>1, <2>2
<1>3. w = [i \in DOMAIN w |-> w[i]]
  BY DEF WithStorages
<1> HIDE DEF w
<1> QED
  BY <1>1, <1>2, <1>3 DEF w

LEMMA RegisteredIndex ==
    ASSUME StoreOK, NEW c, Registered(c)
    PROVE  /\ c.index \in Index /\ c.index \in Holding
           /\ c.index \in DOMAIN catalog.records /\ catalog.records[c.index].entity = c
BY HoldingFacts, AliveMeans DEF Registered

LEMMA SInvAdd ==
    ASSUME SInv, NEW t, NEW h, Add(t, h)
    PROVE  SInv'
<1> DEFINE c == Resolve(bindings, t)
           made == New({c})
<1>1. CASE ~Registered(c)
  <2>1. UNCHANGED <<storeVars, jobs, saved, storages, stamp>>
    BY <1>1 DEF Add
  <2> QED
    BY <2>1, SInvSame
<1>2. CASE Registered(c)
  <2>1. /\ storages' = [WithStorages(made) EXCEPT ![c.index].entities = @ \cup {h.index}]
        /\ stamp' = stamp + Cardinality(made)
        /\ UNCHANGED <<storeVars, jobs, saved>> /\ Alive(h)
    BY <1>2 DEF Add
  <2> HIDE DEF made, c
  <2>2. c.index \in Index /\ made \subseteq {c} /\ h.index \in Holding /\ Holding \subseteq Index
    BY <1>2, <2>1, RegisteredIndex, HoldingFacts, AliveMeans DEF New, made, SInv
  <2> DEFINE w == WithStorages(made)
  <2>3. /\ DOMAIN w \subseteq Index
        /\ w \in [DOMAIN w -> [object : ObjectId, entities : SUBSET Index]]
        /\ \A i \in DOMAIN w : w[i].entities \subseteq Holding
    <3>1. \A x \in made : x.index \in Index
      BY <2>2
    <3> QED
      BY <3>1, WithStoragesOK DEF SInv
  <2>4. stamp' \in Nat
    <3>1. IsFiniteSet({c}) /\ made \in SUBSET {c}
      BY <2>2, FS_Singleton
    <3>2. Cardinality(made) \in Nat
      BY <3>1, FS_Subset, FS_CardinalityType
    <3> QED
      BY <3>2, <2>1 DEF SInv, StoragesOK
  <2> HIDE DEF w
  <2>5. storages' = [w EXCEPT ![c.index].entities = @ \cup {h.index}]
    BY <2>1 DEF w
  <2>6. DOMAIN storages' = DOMAIN w
    BY <2>5
  <2>7. ASSUME NEW i \in DOMAIN w
        PROVE  /\ storages'[i] \in [object : ObjectId, entities : SUBSET Index]
               /\ storages'[i].entities \subseteq Holding
    BY <2>2, <2>3, <2>5
  <2>8. Holding' = Holding
    BY <2>1 DEF Holding, Indices, Holds, Slot, storeVars, vars
  <2>9. storages' = [i \in DOMAIN storages' |-> storages'[i]]
    BY <2>3, <2>5
  <2>10. StoragesOK'
    BY <2>3, <2>4, <2>6, <2>7, <2>8, <2>9 DEF StoragesOK
  <2> QED
    BY <2>1, <2>10, SInvSlotsStay
<1> QED
  BY <1>1, <1>2

LEMMA SInvDeclareGroup ==
    ASSUME SInv, NEW ts, DeclareGroup(ts)
    PROVE  SInv'
<1> DEFINE some == {Resolve(bindings, Reached(ts)[n]) : n \in DOMAIN Reached(ts)} \ {None}
           made == New({c \in some : Registered(c)})
<1>1. /\ storages' = WithStorages(made)
      /\ stamp' = IF made = {} THEN stamp ELSE stamp + 1
  BY DEF DeclareGroup
<1> HIDE DEF some
<1>6. \A c \in made : Registered(c)
  BY DEF New
<1> HIDE DEF made
<1>2. UNCHANGED <<storeVars, jobs, saved>>
  BY DEF DeclareGroup
<1>3. \A c \in made : c.index \in Index
  BY <1>6, RegisteredIndex DEF SInv
<1>4. Holding' = Holding
  BY <1>2 DEF Holding, Indices, Holds, Slot, storeVars, vars
<1>5. StoragesOK'
  <2>1. stamp' \in Nat
    BY <1>1 DEF SInv, StoragesOK
  <2>2. StoragesOK
    BY DEF SInv
  <2> QED
    BY <1>1, <1>3, <1>4, <2>1, <2>2, WithStoragesOK DEF StoragesOK
<1> QED
  BY <1>2, <1>5, SInvSlotsStay

LEMMA SInvSnapshot ==
    ASSUME SInv, Snapshot
    PROVE  SInv'
<1> DEFINE cells == [p \in DOMAIN slots |-> IF p - 1 \in Excluded THEN Blank ELSE slots[p]]
<1>1. Excluded \in SUBSET Index
  BY HoldingFacts, AliveMeans DEF Excluded, SInv
<1>2. /\ cells \in Seq(LooseRecord) /\ Len(cells) <= InvalidIndex
      /\ AliveIn(cells) = Holding \ Excluded
  BY <1>1, SnapshotSlots DEF SInv
<1>3. CellsOK(Relinked(cells)) /\ AliveIn(Relinked(cells)) = Holding \ Excluded
  BY <1>2, RelinkedFacts
<1>4. /\ saved'.slots = Relinked(cells)
      /\ saved'.entities = [c \in DOMAIN storages |-> storages[c].entities \ Excluded]
      /\ UNCHANGED <<storeVars, jobs, storages, stamp>>
  BY DEF Snapshot
<1> HIDE DEF cells
<1>5. /\ DOMAIN saved'.entities \subseteq Index
      /\ saved'.entities \in [DOMAIN saved'.entities -> SUBSET Index]
      /\ \A i \in DOMAIN saved'.entities : saved'.entities[i] \subseteq Holding \ Excluded
  BY <1>4 DEF SInv, StoragesOK
<1>6. SavedSlotsOK'
  BY <1>3, <1>4, <1>5 DEF SavedSlotsOK
<1>7. StoreOK' /\ JobsOK' /\ StoragesOK'
  BY <1>4 DEF SInv, StoreOK, FreeListIsStack, Below, JobsOK, StoragesOK, Alive, Holding,
              Indices, Holds, Slot, storeVars, vars
<1> QED
  BY <1>6, <1>7 DEF SInv

(* What a restore makes of the slots.                                      *)
LEMMA RestoredSlots ==
    ASSUME SInv, Restore
    PROVE  /\ StoreOK' /\ Holding' = AliveIn(slots')
           /\ \A i : i \in AliveIn(slots') <=> TakenByJob(i) \/ i \in AliveIn(saved.slots)
           /\ \A i : TakenByJob(i) => slots'[i + 1] = slots[i + 1]
           /\ \A i \in AliveIn(saved.slots) : ~TakenByJob(i) => slots'[i + 1] = saved.slots[i + 1]
<1> DEFINE cells == Merged(saved.slots)
<1>1. CellsOK(saved.slots) /\ StoreOK /\ JobsOK
  BY DEF SInv, SavedSlotsOK, Restore
<1>2. /\ cells \in Seq(LooseRecord) /\ Len(cells) <= InvalidIndex
      /\ \A i : i \in AliveIn(cells) <=> TakenByJob(i) \/ i \in AliveIn(saved.slots)
      /\ \A i : TakenByJob(i) => cells[i + 1] = slots[i + 1]
      /\ \A i \in AliveIn(saved.slots) : ~TakenByJob(i) => cells[i + 1] = saved.slots[i + 1]
  BY <1>1, MergedSlots
<1>3. /\ slots' = Relinked(cells) /\ free_head' = Least(Dead(slots'))
      /\ freed' = Descending(Dead(slots'))
  BY DEF Restore
<1> HIDE DEF cells
<1>4. StoreOK' /\ Holding' = AliveIn(cells)
  BY <1>2, <1>3, RebuiltStore
<1>5. /\ AliveIn(slots') = AliveIn(cells)
      /\ \A i \in AliveIn(cells) : slots'[i + 1] = cells[i + 1]
  BY <1>2, <1>3, RelinkedFacts
<1> QED
  BY <1>2, <1>4, <1>5

LEMMA SInvRestore ==
    ASSUME SInv, Restore
    PROVE  SInv'
<1>1. /\ StoreOK' /\ Holding' = AliveIn(slots')
      /\ \A i : i \in AliveIn(slots') <=> TakenByJob(i) \/ i \in AliveIn(saved.slots)
      /\ \A i : TakenByJob(i) => slots'[i + 1] = slots[i + 1]
  BY RestoredSlots
<1>2. /\ UNCHANGED <<jobs, saved>> /\ stamp' = stamp + 1 /\ saved # None
      /\ storages' = [i \in DOMAIN saved.entities |->
                         [object |-> <<stamp + 1, i>>, entities |-> saved.entities[i]]]
  BY DEF Restore
<1>3. ASSUME NEW j \in jobs' PROVE (j \in Entity /\ Alive(j))'
  <2>1. j \in Entity /\ Alive(j) /\ TakenByJob(j.index)
    BY <1>2 DEF SInv, JobsOK, TakenByJob
  <2> QED
    BY <2>1, <1>1, AliveMeans, AliveMeansNext
<1>4. StoragesOK'
  <2>1. /\ DOMAIN saved.entities \subseteq Index /\ stamp \in Nat
        /\ saved.entities \in [DOMAIN saved.entities -> SUBSET Index]
        /\ \A i \in DOMAIN saved.entities : saved.entities[i] \subseteq AliveIn(saved.slots)
    BY <1>2 DEF SInv, SavedSlotsOK, StoragesOK
  <2>2. ASSUME NEW i \in DOMAIN saved.entities
        PROVE  /\ [object |-> <<stamp + 1, i>>, entities |-> saved.entities[i]]
                     \in [object : ObjectId, entities : SUBSET Index]
               /\ saved.entities[i] \subseteq Holding'
    <3>1. i \in Nat /\ stamp + 1 \in Nat
      BY <2>1 DEF Index
    <3> QED
      BY <2>1, <3>1, <1>1 DEF ObjectId
  <2> QED
    BY <2>1, <2>2, <1>2 DEF StoragesOK
<1> QED
  BY <1>1, <1>2, <1>3, <1>4 DEF SInv, JobsOK, SavedSlotsOK
LEMMA SInvNext == SInv /\ [CatalogNext]_allVars => SInv'
<1> SUFFICES ASSUME SInv, [CatalogNext]_allVars PROVE SInv'
  OBVIOUS
<1> USE DEF Elsewhere
<1>1. ASSUME NEW t \in Token, Lookup(t) PROVE SInv'
  BY <1>1, SInvSame DEF Lookup
<1>2. ASSUME NEW t \in Token, NEW n, Register(t, n) PROVE SInv'
  <2>1. CASE RegisterAgain(t)
    BY <2>1, SInvSame DEF RegisterAgain, allVars, catalogVars
  <2>2. CASE RegisterNamed(t, n)
    BY <2>2, SInvSame DEF RegisterNamed
  <2>3. CASE RegisterKeyed(t, n)
    BY <2>3, SInvSame DEF RegisterKeyed
  <2>4. CASE RegisterNew(t, n)
    BY <2>4, SInvCreate DEF RegisterNew
  <2> QED
    BY <1>2, <2>1, <2>2, <2>3, <2>4 DEF Register
<1>3. ASSUME NEW n, NEW info, RegisterRuntime(n, info) PROVE SInv'
  BY <1>3, SInvCreate DEF RegisterRuntime
<1>4. ASSUME NEW t, NEW n, RegisterElsewhere(t, n) PROVE SInv'
  BY <1>4, SInvSame DEF RegisterElsewhere
<1>5. CASE CreateUser
  BY <1>5, SInvCreate DEF CreateUser
<1>6. CASE AddJob
  BY <1>6, SInvCreate DEF AddJob
<1>7. ASSUME NEW h \in LiveHandles, NEW t, Add(t, h) PROVE SInv'
  BY <1>7, SInvAdd
<1>8. ASSUME NEW h \in LiveHandles, h \notin jobs, DestroyUser(h) PROVE SInv'
  <2>1. storages' = [i \in DOMAIN storages' |-> [storages[i] EXCEPT !.entities = @ \ {h.index}]]
    BY <1>8 DEF DestroyUser
  <2>2. DOMAIN storages' \subseteq DOMAIN storages
    BY <1>8 DEF DestroyUser
  <2> QED
    BY <1>8, <2>1, <2>2, SInvRetire DEF DestroyUser
<1>9. ASSUME NEW h \in LiveHandles, h \notin jobs, DestroyComponent(h) PROVE SInv'
  <2>1. storages' = [i \in DOMAIN storages' |-> [storages[i] EXCEPT !.entities = @ \ {h.index}]]
    BY <1>9 DEF DestroyComponent
  <2>2. DOMAIN storages' \subseteq DOMAIN storages
    BY <1>9 DEF DestroyComponent
  <2> QED
    BY <1>9, <2>1, <2>2, SInvRetire DEF DestroyComponent
<1>10. ASSUME NEW ts, DeclareGroup(ts) PROVE SInv'
  BY <1>10, SInvDeclareGroup
<1>11. CASE Defer
  BY <1>11, SInvSame DEF Defer
<1>12. ASSUME NEW ts, MakeView(ts) PROVE SInv'
  BY <1>12, SInvSame DEF MakeView
<1>13. CASE UseView
  BY <1>13, SInvSame DEF UseView
<1>14. CASE Snapshot
  BY <1>14, SInvSnapshot
<1>15. CASE Restore
  BY <1>15, SInvRestore
<1>16. CASE UNCHANGED allVars
  BY <1>16, SInvSame DEF allVars, catalogVars
<1> QED
  BY <1>1, <1>2, <1>3, <1>4, <1>5, <1>6, <1>7, <1>8, <1>9, <1>10, <1>11, <1>12, <1>13,
     <1>14, <1>15, <1>16 DEF CatalogNext

LEMMA SInvHolds == CatalogSpec => []SInv
BY SInvInit, SInvNext, PTL DEF CatalogSpec

(* The free list create() and destroy() use, and the one rebuild_free_list *)
(* makes of a snapshot's slots and the jobs' (merge_current_system_        *)
(* entities), is at all times that of the free indices, and no job loses   *)
(* its entity.                                                             *)
THEOREM JobsKept == CatalogSpec => []JobsKeepTheirEntity
<1>1. SInv => JobsKeepTheirEntity
  BY DEF SInv, StoreOK, JobsOK, JobsKeepTheirEntity
<1> QED
  BY <1>1, SInvHolds, PTL

(* What restore_snapshot makes alive, and on what it leaves components.    *)
THEOREM RestoreIsSnapshot == CatalogSpec => RestoreReturnsSnapshot
<1> DEFINE A == (Restore /\ ~failed') =>
          /\ \A i \in AliveIn(saved.slots) :
                \/ i \in AliveIn(slots') /\ slots'[i + 1] = saved.slots[i + 1]
                \/ TakenByJob(i)
          /\ \A i \in AliveIn(slots') : i \in AliveIn(saved.slots) \/ TakenByJob(i)
          /\ \A c \in DOMAIN storages' : storages'[c].entities \subseteq AliveIn(slots')
<1>1. SInv => A
  <2> SUFFICES ASSUME SInv, Restore PROVE A
    OBVIOUS
  <2>1. /\ Holding' = AliveIn(slots')
        /\ \A i : i \in AliveIn(slots') <=> TakenByJob(i) \/ i \in AliveIn(saved.slots)
        /\ \A i \in AliveIn(saved.slots) : ~TakenByJob(i) => slots'[i + 1] = saved.slots[i + 1]
    BY RestoredSlots
  <2>2. \A c \in DOMAIN storages' : storages'[c].entities \subseteq Holding'
    BY SInvRestore DEF SInv, StoragesOK
  <2> QED
    BY <2>1, <2>2
<1>2. SInv => [A]_allVars
  BY <1>1
<1> HIDE DEF A
<1>3. CatalogSpec => [][A]_allVars
  BY <1>2, SInvHolds, PTL
<1> QED
  BY <1>3 DEF A, RestoreReturnsSnapshot
-----------------------------------------------------------------------------
(* Names.  Where they are used in an orderly way, at most one record could *)
(* be that of a type, and it could be that of no other type.               *)

LEMMA KeyIsNoNone == \A k \in TypeKey : k # None
BY NoneAssumption DEF TypeKey

LEMMA OneRecord ==
    ASSUME NEW u, Orderly(u), NEW rs, NEW ns, RecordsOK(rs, ns, u), NEW k \in TypeKey,
           NEW i \in DOMAIN rs, NEW j \in DOMAIN rs,
           Belongs(rs[i], k, u), Belongs(rs[j], k, u)
    PROVE  i = j
<1>1. rs[i].name \in KnownAs(u, k) /\ rs[j].name \in KnownAs(u, k)
  BY DEF Belongs
<1>2. CASE rs[i].name = rs[j].name
  <2>1. ns[rs[i].name] = i /\ ns[rs[j].name] = j
    BY DEF RecordsOK
  <2> QED
    BY <1>2, <2>1
<1>3. CASE rs[i].name # rs[j].name
  <2>1. rs[i].name \notin RuntimeNames(u) /\ rs[j].name \notin RuntimeNames(u)
    BY <1>1, <1>3 DEF Orderly
  <2>2. rs[i].key # None /\ rs[j].key # None
    BY <2>1 DEF RecordsOK, RecordOK
  <2>3. rs[i].key = k /\ rs[j].key = k
    BY <2>2 DEF Belongs
  <2> QED
    BY <2>2, <2>3 DEF RecordsOK
<1> QED
  BY <1>2, <1>3

LEMMA OneOwner ==
    ASSUME NEW u, Orderly(u), NEW r, NEW k \in TypeKey, NEW l \in TypeKey,
           Belongs(r, k, u), Belongs(r, l, u)
    PROVE  k = l
<1>1. InfoOf(k) = InfoOf(l) /\ r.name \in KnownAs(u, k) \cap KnownAs(u, l)
  BY DEF Belongs
<1> QED
  BY <1>1 DEF Orderly

LEMMA KeyedBelongs ==
    ASSUME NEW u, NEW c, CatOK(c, u), NEW k \in DOMAIN c.type_keys
    PROVE  /\ k \in TypeKey /\ c.type_keys[k] \in DOMAIN c.records
           /\ Belongs(c.records[c.type_keys[k]], k, u)
<1>1. k \in TypeKey /\ c.type_keys[k] \in DOMAIN c.records /\ c.records[c.type_keys[k]].key = k
  BY DEF CatOK, KeysOK
<1>2. RecordOK(c.records[c.type_keys[k]], u) /\ k # None
  BY <1>1, KeyIsNoNone DEF CatOK, RecordsOK
<1> QED
  BY <1>1, <1>2 DEF RecordOK, Belongs

(* The type with key k takes a record that could be its own.               *)
LEMMA AdoptedOK ==
    ASSUME NEW u, Orderly(u), CatOK(catalog, u), NEW k \in TypeKey,
           NEW i \in DOMAIN catalog.records, Belongs(catalog.records[i], k, u),
           NEW c, c = Adopted(i, k)
    PROVE  /\ CatOK(c, u) /\ DOMAIN c.records = DOMAIN catalog.records
           /\ c.type_keys = With(catalog.type_keys, k, i)
           /\ \A j \in DOMAIN c.records :
                 /\ c.records[j].entity = catalog.records[j].entity
                 /\ \A l \in TypeKey : Belongs(c.records[j], l, u)
                                          <=> Belongs(catalog.records[j], l, u)
<1> DEFINE rs == catalog.records
           ns == catalog.names
           tk == catalog.type_keys
           new == [rs[i] EXCEPT !.key = k]
           rt == [rs EXCEPT ![i] = new]
<1>1. /\ catalog = [records |-> rs, names |-> ns, type_keys |-> tk]
      /\ RecordsOK(rs, ns, u) /\ KeysOK(rs, tk)
  BY DEF CatOK
<1>2. k # None /\ rs[i] \in RecordType(u) /\ rs \in [DOMAIN rs -> RecordType(u)]
  BY <1>1, KeyIsNoNone DEF RecordsOK
<1>3. /\ new \in RecordType(u) /\ new.key = k /\ new.name = rs[i].name
      /\ new.entity = rs[i].entity /\ new.info = rs[i].info
  BY <1>2 DEF RecordType
<1>4. c = [records |-> rt, names |-> ns, type_keys |-> With(tk, k, i)]
  BY <1>1 DEF Adopted
<1> HIDE DEF rs, ns, tk, new
<1>5. /\ DOMAIN rt = DOMAIN rs /\ rt[i] = new
      /\ \A j \in DOMAIN rs : j # i => rt[j] = rs[j]
      /\ rt \in [DOMAIN rt -> RecordType(u)]
  BY <1>2, <1>3 DEF rs
<1> HIDE DEF rt
<1>6. rs[i].key \in {None, k} /\ rs[i].name \in KnownAs(u, k) /\ rs[i].info = InfoOf(k)
  BY DEF Belongs, rs
<1>7. ASSUME NEW j \in DOMAIN rs, rs[j].key = k PROVE j = i
  <2>1. Belongs(rs[j], k, u)
    BY <1>1, <1>2, <1>7 DEF RecordsOK, RecordOK, Belongs
  <2> QED
    BY <2>1, <1>1, OneRecord DEF rs
<1>8. RecordsOK(rt, ns, u)
  <2>1. \A n \in DOMAIN ns : ns[n] \in DOMAIN rs /\ rt[ns[n]].name = n
    BY <1>1, <1>3, <1>5 DEF RecordsOK
  <2>2. ASSUME NEW j \in DOMAIN rs
        PROVE  /\ rt[j].name \in DOMAIN ns /\ ns[rt[j].name] = j
               /\ rt[j].entity.index = j /\ RecordOK(rt[j], u)
    <3>1. /\ rs[j].name \in DOMAIN ns /\ ns[rs[j].name] = j
          /\ rs[j].entity.index = j /\ RecordOK(rs[j], u)
      BY <1>1 DEF RecordsOK
    <3>2. CASE j = i
      BY <3>1, <3>2, <1>2, <1>3, <1>5, <1>6 DEF RecordOK
    <3>3. CASE j # i
      BY <3>1, <3>3, <1>5
    <3> QED
      BY <3>2, <3>3
  <2>3. ASSUME NEW j \in DOMAIN rs, NEW l \in DOMAIN rs, rt[j].key = rt[l].key, rt[j].key # None
        PROVE  j = l
    <3>1. CASE j # i /\ l # i
      <4>1. rs[j].key = rs[l].key /\ rs[j].key # None
        BY <2>3, <3>1, <1>5
      <4> QED
        BY <4>1, <1>1 DEF RecordsOK
    <3>2. CASE j = i
      BY <3>2, <2>3, <1>3, <1>5, <1>7
    <3>3. CASE l = i
      BY <3>3, <2>3, <1>3, <1>5, <1>7
    <3> QED
      BY <3>1, <3>2, <3>3
  <2>4. DOMAIN rs \subseteq Index /\ ns \in [DOMAIN ns -> DOMAIN rs]
    BY <1>1 DEF RecordsOK
  <2> QED
    BY <2>1, <2>2, <2>3, <2>4, <1>5 DEF RecordsOK
<1>9. KeysOK(rt, With(tk, k, i))
  <2>1. /\ DOMAIN tk \subseteq TypeKey /\ tk \in [DOMAIN tk -> DOMAIN rs]
        /\ \A l \in DOMAIN tk : rs[tk[l]].key = l
        /\ \A j \in DOMAIN rs : rs[j].key # None => rs[j].key \in DOMAIN tk
    BY <1>1 DEF KeysOK
  <2>2. /\ DOMAIN With(tk, k, i) = DOMAIN tk \cup {k}
        /\ \A l \in DOMAIN With(tk, k, i) : With(tk, k, i)[l] = IF l = k THEN i ELSE tk[l]
        /\ With(tk, k, i) \in [DOMAIN With(tk, k, i) -> DOMAIN rt]
    BY <2>1, <1>5 DEF With, rs
  <2>3. ASSUME NEW l \in DOMAIN With(tk, k, i) PROVE rt[With(tk, k, i)[l]].key = l
    <3>1. CASE l = k
      BY <3>1, <2>2, <1>3, <1>5
    <3>2. CASE l # k
      <4>1. rs[tk[l]].key = l /\ tk[l] \in DOMAIN rs
        BY <3>2, <2>1, <2>2
      <4>2. tk[l] # i
        BY <4>1, <3>2, <1>6, <2>1, <2>2, KeyIsNoNone
      <4> QED
        BY <4>1, <4>2, <3>2, <2>2, <1>5
    <3> QED
      BY <3>1, <3>2
  <2>4. ASSUME NEW j \in DOMAIN rt, rt[j].key # None PROVE rt[j].key \in DOMAIN tk \cup {k}
    BY <2>4, <2>1, <1>3, <1>5
  <2> QED
    BY <2>1, <2>2, <2>3, <2>4 DEF KeysOK
<1>10. ASSUME NEW j \in DOMAIN rs
       PROVE  /\ rt[j].entity = rs[j].entity
              /\ \A l \in TypeKey : Belongs(rt[j], l, u) <=> Belongs(rs[j], l, u)
  <2>1. CASE j # i
    BY <2>1, <1>5
  <2>2. CASE j = i
    <3>1. ASSUME NEW l \in TypeKey PROVE Belongs(new, l, u) <=> Belongs(rs[i], l, u)
      <4>1. CASE l = k
        BY <4>1, <1>3, <1>6 DEF Belongs
      <4>2. CASE l # k
        <5>1. ~Belongs(new, l, u)
          BY <4>2, <1>2, <1>3 DEF Belongs
        <5>2. ~Belongs(rs[i], l, u)
          BY <4>2, OneOwner DEF rs
        <5> QED
          BY <5>1, <5>2
      <4> QED
        BY <4>1, <4>2
    <3> QED
      BY <2>2, <3>1, <1>3, <1>5
  <2> QED
    BY <2>1, <2>2
<1>11. c.records = rt /\ c.names = ns /\ c.type_keys = With(tk, k, i)
  BY <1>4
<1>12. CatOK(c, u)
  BY <1>4, <1>8, <1>9, <1>11 DEF CatOK
<1> QED
  BY <1>5, <1>10, <1>11, <1>12 DEF rs, tk

(* A new component.                                                        *)
LEMMA WithRecordOK ==
    ASSUME NEW u, CatOK(catalog, u), NEW n, NEW k, NEW info,
           NextHandle \in Entity, NextHandle.index \notin DOMAIN catalog.records,
           n \notin DOMAIN catalog.names,
           \/ /\ k = None /\ n \in RuntimeNames(u)
              /\ info \in {pair[2] : pair \in u.runtime}
           \/ /\ k \in TypeKey /\ k \notin DOMAIN catalog.type_keys
              /\ n \in KnownAs(u, k) /\ info = InfoOf(k),
           NEW c, c = WithRecord(n, k, info)
    PROVE  /\ CatOK(c, u)
           /\ DOMAIN c.records = DOMAIN catalog.records \cup {NextHandle.index}
           /\ \A j \in DOMAIN catalog.records : c.records[j] = catalog.records[j]
           /\ c.records[NextHandle.index].entity = NextHandle
           /\ k # None => Belongs(c.records[NextHandle.index], k, u)
           /\ c.type_keys = IF k = None THEN catalog.type_keys
                            ELSE With(catalog.type_keys, k, NextHandle.index)
<1> DEFINE rs == catalog.records
           ns == catalog.names
           tk == catalog.type_keys
           h == NextHandle
           i == h.index
           new == [entity |-> h, name |-> n, key |-> k, info |-> info]
           rt == With(rs, i, new)
           nt == With(ns, n, i)
           kt == IF k = None THEN tk ELSE With(tk, k, i)
<1>1. RecordsOK(rs, ns, u) /\ KeysOK(rs, tk)
  BY DEF CatOK
<1>2. c = [records |-> rt, names |-> nt, type_keys |-> kt]
  BY DEF WithRecord
<1>3. /\ DOMAIN rs \subseteq Index /\ rs \in [DOMAIN rs -> RecordType(u)]
      /\ ns \in [DOMAIN ns -> DOMAIN rs]
      /\ \A x \in DOMAIN ns : rs[ns[x]].name = x
      /\ \A j \in DOMAIN rs : /\ rs[j].name \in DOMAIN ns /\ ns[rs[j].name] = j
                              /\ rs[j].entity.index = j /\ RecordOK(rs[j], u)
      /\ \A j, l \in DOMAIN rs : rs[j].key = rs[l].key /\ rs[j].key # None => j = l
  BY <1>1 DEF RecordsOK
<1>4. /\ DOMAIN tk \subseteq TypeKey /\ tk \in [DOMAIN tk -> DOMAIN rs]
      /\ \A l \in DOMAIN tk : rs[tk[l]].key = l
      /\ \A j \in DOMAIN rs : rs[j].key # None => rs[j].key \in DOMAIN tk
  BY <1>1 DEF KeysOK
<1>5. i \in Index /\ h \in Entity /\ i \notin DOMAIN rs /\ n \notin DOMAIN ns
  BY DEF Entity
<1>6. k = None \/ (k \in TypeKey /\ k # None /\ k \notin DOMAIN tk)
  BY KeyIsNoNone
<1> HIDE DEF rs, ns, tk, i, h
<1>7. /\ new \in RecordType(u) /\ RecordOK(new, u)
      /\ new.entity = h /\ new.name = n /\ new.key = k
  <2>1. n \in Name \cup RuntimeNames(u) /\ k \in TypeKey \cup {None}
        /\ info \in {InfoOf(l) : l \in TypeKey} \cup {pair[2] : pair \in u.runtime}
    BY DEF KnownAs
  <2>2. /\ k = None => n \in RuntimeNames(u)
        /\ k # None => n \in KnownAs(u, k) /\ info = InfoOf(k)
    BY KeyIsNoNone
  <2>3. new \in RecordType(u)
    BY <2>1, <1>5 DEF RecordType
  <2>4. new.entity = h /\ new.name = n /\ new.key = k /\ new.info = info
    OBVIOUS
  <2> HIDE DEF new
  <2> QED
    BY <2>2, <2>3, <2>4 DEF RecordOK
<1>8. k # None => Belongs(new, k, u)
  BY <1>6 DEF Belongs
<1> HIDE DEF new
<1>9. /\ DOMAIN rt = DOMAIN rs \cup {i} /\ rt[i] = new
      /\ \A j \in DOMAIN rs : rt[j] = rs[j] /\ j # i
      /\ rt \in [DOMAIN rt -> RecordType(u)]
  BY <1>3, <1>5, <1>7 DEF With
<1>10. /\ DOMAIN nt = DOMAIN ns \cup {n} /\ nt[n] = i
       /\ \A x \in DOMAIN ns : nt[x] = ns[x] /\ x # n
       /\ nt \in [DOMAIN nt -> DOMAIN rt]
  BY <1>3, <1>5, <1>9 DEF With
<1>11. /\ DOMAIN kt = IF k = None THEN DOMAIN tk ELSE DOMAIN tk \cup {k}
       /\ k # None => kt[k] = i
       /\ \A l \in DOMAIN tk : kt[l] = tk[l]
       /\ kt \in [DOMAIN kt -> DOMAIN rt]
  BY <1>4, <1>6, <1>9 DEF With
<1> HIDE DEF rt, nt, kt
<1>12. RecordsOK(rt, nt, u)
  <2>1. \A x \in DOMAIN nt : rt[nt[x]].name = x
    BY <1>3, <1>7, <1>9, <1>10
  <2>2. \A j \in DOMAIN rt : /\ rt[j].name \in DOMAIN nt /\ nt[rt[j].name] = j
                             /\ rt[j].entity.index = j /\ RecordOK(rt[j], u)
    BY <1>3, <1>7, <1>9, <1>10 DEF i
  <2>3. \A j \in DOMAIN rs : rs[j].key = k => k = None
    BY <1>4, <1>6
  <2>4. \A j, l \in DOMAIN rt : rt[j].key = rt[l].key /\ rt[j].key # None => j = l
    BY <1>3, <1>7, <1>9, <2>3
  <2>5. DOMAIN rt \subseteq Index
    BY <1>3, <1>5, <1>9
  <2> QED
    BY <2>1, <2>2, <2>4, <2>5, <1>9, <1>10 DEF RecordsOK
<1>13. KeysOK(rt, kt)
  <2>1. DOMAIN kt \subseteq TypeKey
    BY <1>4, <1>6, <1>11
  <2>2. \A l \in DOMAIN kt : rt[kt[l]].key = l
    BY <1>4, <1>7, <1>9, <1>11
  <2>3. \A j \in DOMAIN rt : rt[j].key # None => rt[j].key \in DOMAIN kt
    BY <1>4, <1>7, <1>9, <1>11
  <2> QED
    BY <2>1, <2>2, <2>3, <1>11 DEF KeysOK
<1>14. c.records = rt /\ c.names = nt /\ c.type_keys = kt
  BY <1>2
<1>15. CatOK(c, u)
  BY <1>2, <1>12, <1>13, <1>14 DEF CatOK
<1> QED
  BY <1>7, <1>8, <1>9, <1>14, <1>15 DEF rs, i, h, kt, tk
(* The record of a component that is unregistered goes, with its name and  *)
(* its key.                                                                *)
LEMMA WithoutRecordOK ==
    ASSUME NEW u, CatOK(catalog, u), NEW i \in DOMAIN catalog.records, NEW c,
           c = [records |-> Without(catalog.records, {i}),
                names |-> Without(catalog.names, {catalog.records[i].name}),
                type_keys |-> Without(catalog.type_keys, {catalog.records[i].key})]
    PROVE  /\ CatOK(c, u) /\ DOMAIN c.records = DOMAIN catalog.records \ {i}
           /\ \A j \in DOMAIN c.records : c.records[j] = catalog.records[j]
           /\ DOMAIN c.type_keys = DOMAIN catalog.type_keys \ {catalog.records[i].key}
           /\ \A k \in DOMAIN c.type_keys : c.type_keys[k] = catalog.type_keys[k]
<1> DEFINE rs == catalog.records
           ns == catalog.names
           tk == catalog.type_keys
           rt == Without(rs, {i})
           nt == Without(ns, {rs[i].name})
           kt == Without(tk, {rs[i].key})
<1>1. RecordsOK(rs, ns, u) /\ KeysOK(rs, tk)
  BY DEF CatOK
<1>3. /\ DOMAIN rs \subseteq Index /\ rs \in [DOMAIN rs -> RecordType(u)]
      /\ ns \in [DOMAIN ns -> DOMAIN rs]
      /\ \A x \in DOMAIN ns : rs[ns[x]].name = x
      /\ \A j \in DOMAIN rs : /\ rs[j].name \in DOMAIN ns /\ ns[rs[j].name] = j
                              /\ rs[j].entity.index = j /\ RecordOK(rs[j], u)
      /\ \A j, l \in DOMAIN rs : rs[j].key = rs[l].key /\ rs[j].key # None => j = l
  BY <1>1 DEF RecordsOK
<1>4. /\ DOMAIN tk \subseteq TypeKey /\ tk \in [DOMAIN tk -> DOMAIN rs]
      /\ \A l \in DOMAIN tk : rs[tk[l]].key = l
      /\ \A j \in DOMAIN rs : rs[j].key # None => rs[j].key \in DOMAIN tk
  BY <1>1 DEF KeysOK
<1>5. c.records = rt /\ c.names = nt /\ c.type_keys = kt
      /\ c = [records |-> rt, names |-> nt, type_keys |-> kt]
  OBVIOUS
<1>6. i \in DOMAIN rs
  OBVIOUS
<1> HIDE DEF rs, ns, tk
<1>7. /\ DOMAIN rt = DOMAIN rs \ {i} /\ \A j \in DOMAIN rt : rt[j] = rs[j]
      /\ rt = [j \in DOMAIN rt |-> rt[j]]
  BY DEF Without
<1>8. /\ DOMAIN nt = DOMAIN ns \ {rs[i].name} /\ \A x \in DOMAIN nt : nt[x] = ns[x]
      /\ nt = [x \in DOMAIN nt |-> nt[x]]
  BY DEF Without
<1>9. /\ DOMAIN kt = DOMAIN tk \ {rs[i].key} /\ \A k \in DOMAIN kt : kt[k] = tk[k]
      /\ kt = [k \in DOMAIN kt |-> kt[k]]
  BY DEF Without
<1> HIDE DEF rt, nt, kt
<1>10. RecordsOK(rt, nt, u)
  <2>1. ASSUME NEW x \in DOMAIN nt PROVE nt[x] \in DOMAIN rt /\ rt[nt[x]].name = x
    <3>1. x \in DOMAIN ns /\ x # rs[i].name /\ nt[x] = ns[x] /\ rs[ns[x]].name = x
          /\ ns[x] \in DOMAIN rs
      BY <1>3, <1>8
    <3> QED
      BY <3>1, <1>7
  <2>2. ASSUME NEW j \in DOMAIN rt
        PROVE  /\ rt[j].name \in DOMAIN nt /\ nt[rt[j].name] = j
               /\ rt[j].entity.index = j /\ RecordOK(rt[j], u)
    <3>1. j \in DOMAIN rs /\ j # i /\ rt[j] = rs[j]
      BY <1>7
    <3>2. ns[rs[j].name] = j /\ ns[rs[i].name] = i /\ rs[j].name \in DOMAIN ns
      BY <3>1, <1>3, <1>6
    <3> QED
      BY <3>1, <3>2, <1>3, <1>8
  <2>3. \A j, l \in DOMAIN rt : rt[j].key = rt[l].key /\ rt[j].key # None => j = l
    BY <1>3, <1>7
  <2>4. rt \in [DOMAIN rt -> RecordType(u)]
    BY <1>3, <1>7
  <2>5. nt \in [DOMAIN nt -> DOMAIN rt]
    BY <2>1, <1>8
  <2>6. DOMAIN rt \subseteq Index
    BY <1>3, <1>7
  <2> QED
    BY <2>1, <2>2, <2>3, <2>4, <2>5, <2>6 DEF RecordsOK
<1>11. KeysOK(rt, kt)
  <2>1. ASSUME NEW k \in DOMAIN kt PROVE k \in TypeKey /\ kt[k] \in DOMAIN rt /\ rt[kt[k]].key = k
    <3>1. k \in DOMAIN tk /\ k # rs[i].key /\ kt[k] = tk[k] /\ tk[k] \in DOMAIN rs
          /\ rs[tk[k]].key = k /\ k \in TypeKey
      BY <1>4, <1>9
    <3> QED
      BY <3>1, <1>7
  <2>2. ASSUME NEW j \in DOMAIN rt, rt[j].key # None PROVE rt[j].key \in DOMAIN kt
    <3>1. j \in DOMAIN rs /\ j # i /\ rt[j] = rs[j]
      BY <1>7
    <3>2. rs[j].key # rs[i].key
      BY <2>2, <3>1, <1>3, <1>6
    <3> QED
      BY <2>2, <3>1, <3>2, <1>4, <1>9
  <2>3. kt \in [DOMAIN kt -> DOMAIN rt]
    BY <2>1, <1>9
  <2> QED
    BY <2>1, <2>2, <2>3 DEF KeysOK
<1>12. CatOK(c, u)
  BY <1>5, <1>10, <1>11 DEF CatOK
<1> QED
  BY <1>5, <1>7, <1>9, <1>12 DEF rs, tk

-----------------------------------------------------------------------------
(* Bindings. *)

(* What a token is bound to, where bindings are in order, depends on its   *)
(* key alone.                                                              *)
KnownComponent(b, k) ==
    IF k \in DOMAIN b.keys THEN b.list[b.keys[k]].component
    ELSE IF k \in DOMAIN catalog.type_keys
         THEN catalog.records[catalog.type_keys[k]].entity
    ELSE None

LEMMA BoundEntry ==
    ASSUME NEW u, NEW rs, NEW ss, NEW b, BindOK(b, rs, ss, u), NEW k \in DOMAIN b.keys
    PROVE  /\ b.keys[k] \in DOMAIN b.list /\ k \in TypeKey
           /\ b.list[b.keys[k]].key = k /\ b.list[b.keys[k]].component \in Entity
           /\ b.list[b.keys[k]].component.index \in DOMAIN rs
           /\ rs[b.list[b.keys[k]].component.index].entity = b.list[b.keys[k]].component
           /\ Belongs(rs[b.list[b.keys[k]].component.index], k, u)
           /\ b.list[b.keys[k]].storage = ObjectOf(ss, b.list[b.keys[k]].component.index)
<1>1. /\ b.keys[k] \in DOMAIN b.list /\ b.list[b.keys[k]].key = k /\ k \in TypeKey
      /\ b.list[b.keys[k]].component # None
  BY DEF BindOK
<1>2. BindingOK(b, b.keys[k], rs, ss, u)
  BY <1>1 DEF BindOK
<1> QED
  BY <1>1, <1>2 DEF BindingOK

LEMMA BoundToMeans ==
    ASSUME NEW u, NEW rs, NEW ss, NEW b, BindOK(b, rs, ss, u), NEW t \in Token,
           BoundTo(b, t) # None
    PROVE  /\ KeyOf(t) \in DOMAIN b.keys
           /\ BoundTo(b, t) = b.list[b.keys[KeyOf(t)]].component
<1>1. t \in DOMAIN b.tokens /\ BoundTo(b, t) = b.list[b.tokens[t]].component
  BY DEF BoundTo
<1>2. b.tokens[t] \in DOMAIN b.list /\ b.list[b.tokens[t]].key = KeyOf(t)
  BY <1>1 DEF BindOK
<1>3. BindingOK(b, b.tokens[t], rs, ss, u)
  BY <1>1, <1>2 DEF BindOK
<1> QED
  BY <1>1, <1>2, <1>3 DEF BindingOK

LEMMA ResolveIs ==
    ASSUME NEW u, NEW rs, NEW ss, NEW b, BindOK(b, rs, ss, u), NEW t \in Token
    PROVE  Resolve(b, t) = KnownComponent(b, KeyOf(t))
<1>1. CASE BoundTo(b, t) # None
  BY <1>1, BoundToMeans DEF Resolve, KnownComponent
<1>2. CASE BoundTo(b, t) = None
  BY <1>2 DEF Resolve, KnownComponent
<1> QED
  BY <1>1, <1>2

(* Lookup finds the one record that could be the type's.                   *)
LEMMA ResolveBelongs ==
    ASSUME NEW u, NEW ss, CatOK(catalog, u), NEW b, BindOK(b, catalog.records, ss, u),
           NEW t \in Token, Resolve(b, t) # None
    PROVE  /\ Resolve(b, t) \in Entity /\ Resolve(b, t).index \in DOMAIN catalog.records
           /\ catalog.records[Resolve(b, t).index].entity = Resolve(b, t)
           /\ Belongs(catalog.records[Resolve(b, t).index], KeyOf(t), u)
           /\ KeyOf(t) \in TypeKey
<1> DEFINE k == KeyOf(t)
<1>1. Resolve(b, t) = KnownComponent(b, k)
  BY ResolveIs
<1> HIDE DEF k
<1>2. CASE k \in DOMAIN b.keys
  <2> DEFINE rs == catalog.records
  <2>1. Resolve(b, t) = b.list[b.keys[k]].component
    BY <1>1, <1>2 DEF KnownComponent
  <2>2. BindOK(b, rs, ss, u)
    OBVIOUS
  <2> HIDE DEF rs
  <2>3. /\ k \in TypeKey /\ b.list[b.keys[k]].component \in Entity
        /\ b.list[b.keys[k]].component.index \in DOMAIN rs
        /\ rs[b.list[b.keys[k]].component.index].entity = b.list[b.keys[k]].component
        /\ Belongs(rs[b.list[b.keys[k]].component.index], k, u)
    BY <1>2, <2>2, BoundEntry
  <2> QED
    BY <2>1, <2>3 DEF rs, k
<1>3. CASE k \notin DOMAIN b.keys
  <2>1. /\ k \in DOMAIN catalog.type_keys
        /\ Resolve(b, t) = catalog.records[catalog.type_keys[k]].entity
    BY <1>1, <1>3 DEF KnownComponent
  <2>2. /\ k \in TypeKey /\ catalog.type_keys[k] \in DOMAIN catalog.records
        /\ Belongs(catalog.records[catalog.type_keys[k]], k, u)
    BY <2>1, KeyedBelongs
  <2>3. /\ catalog.records[catalog.type_keys[k]].entity.index = catalog.type_keys[k]
        /\ catalog.records[catalog.type_keys[k]] \in RecordType(u)
    BY <2>2 DEF CatOK, RecordsOK
  <2> QED
    BY <2>1, <2>2, <2>3 DEF RecordType, k
<1> QED
  BY <1>2, <1>3

(* Binding a type to the record that could be its own.                     *)
LEMMA BoundOK ==
    ASSUME NEW u, NEW rs, NEW ss, NEW b, BindOK(b, rs, ss, u), NEW t \in Token,
           NEW c \in Entity, c.index \in DOMAIN rs, rs[c.index].entity = c,
           Belongs(rs[c.index], KeyOf(t), u),
           NEW object \in ObjectId \cup {None}, object = ObjectOf(ss, c.index)
    PROVE  /\ BindOK(Bound(b, t, KeyOf(t), c, object), rs, ss, u)
           /\ DOMAIN Bound(b, t, KeyOf(t), c, object).keys = DOMAIN b.keys \cup {KeyOf(t)}
           /\ \A k \in DOMAIN b.keys :
                 Bound(b, t, KeyOf(t), c, object).list[
                    Bound(b, t, KeyOf(t), c, object).keys[k]].component
                 = b.list[b.keys[k]].component
           /\ KeyOf(t) \notin DOMAIN b.keys =>
                 Bound(b, t, KeyOf(t), c, object).list[
                    Bound(b, t, KeyOf(t), c, object).keys[KeyOf(t)]].component = c
<1> DEFINE k == KeyOf(t)
           r == Bound(b, t, k, c, object)
           m == Len(b.list) + 1
           e == [token |-> t, key |-> k, component |-> c, storage |-> object]
<1>0. k \in TypeKey /\ k # None
  BY KeyIsNoNone DEF TypeKey
<1>1. /\ b = [list |-> b.list, tokens |-> b.tokens, keys |-> b.keys]
      /\ b.list \in Seq(Binding) /\ Len(b.list) \in Nat /\ DOMAIN b.list = 1 .. Len(b.list)
      /\ DOMAIN b.tokens \subseteq Token /\ b.tokens \in [DOMAIN b.tokens -> DOMAIN b.list]
      /\ DOMAIN b.keys \subseteq TypeKey /\ b.keys \in [DOMAIN b.keys -> DOMAIN b.list]
      /\ \A x \in DOMAIN b.tokens : b.list[b.tokens[x]].component # None
                                      => b.list[b.tokens[x]].key = KeyOf(x)
      /\ \A x \in DOMAIN b.keys : /\ b.list[b.keys[x]].key = x
                                  /\ b.list[b.keys[x]].component # None
      /\ \A n \in DOMAIN b.list : b.list[n].component # None => BindingOK(b, n, rs, ss, u)
  BY DEF BindOK
<1>2. CASE k \in DOMAIN b.keys
  <2>1. r = [list |-> b.list, tokens |-> With(b.tokens, t, b.keys[k]), keys |-> b.keys]
    BY <1>1, <1>2 DEF Bound
  <2>2. r.list = b.list /\ r.keys = b.keys /\ r.tokens = With(b.tokens, t, b.keys[k])
    BY <2>1
  <2> HIDE DEF r, k
  <2>3. /\ DOMAIN r.tokens = DOMAIN b.tokens \cup {t} /\ r.tokens[t] = b.keys[k]
        /\ \A x \in DOMAIN b.tokens : x # t => r.tokens[x] = b.tokens[x]
        /\ r.tokens \in [DOMAIN r.tokens -> DOMAIN b.list]
    BY <1>1, <1>2, <2>2 DEF With
  <2>4. \A n \in DOMAIN b.list : b.list[n].component # None => BindingOK(r, n, rs, ss, u)
    BY <1>1, <2>2 DEF BindingOK
  <2>5. \A x \in DOMAIN r.tokens : r.list[r.tokens[x]].component # None
                                     => r.list[r.tokens[x]].key = KeyOf(x)
    BY <1>1, <1>2, <2>2, <2>3 DEF k
  <2>6. DOMAIN r.tokens \subseteq Token
    BY <1>1, <2>3
  <2>7. BindOK(r, rs, ss, u)
    BY <1>1, <2>1, <2>2, <2>3, <2>4, <2>5, <2>6 DEF BindOK
  <2> QED
    BY <1>2, <2>2, <2>7 DEF r, k
<1>3. CASE k \notin DOMAIN b.keys
  <2>1. r = [list |-> Append(b.list, e), tokens |-> With(b.tokens, t, m),
             keys |-> With(b.keys, k, m)]
    BY <1>3 DEF Bound
  <2>2. /\ r.list = Append(b.list, e) /\ r.keys = With(b.keys, k, m)
        /\ r.tokens = With(b.tokens, t, m)
    BY <2>1
  <2>3. e \in Binding /\ e.component = c /\ e.key = k /\ e.storage = object
    BY <1>0 DEF Binding
  <2>4. c # None
    BY NoneAssumption DEF Entity
  <2> HIDE DEF r, k, e
  <2>5. /\ r.list \in Seq(Binding) /\ Len(r.list) = m /\ m \in Nat
        /\ DOMAIN r.list = DOMAIN b.list \cup {m} /\ m \notin DOMAIN b.list
        /\ r.list[m] = e /\ \A n \in DOMAIN b.list : r.list[n] = b.list[n]
    <3>1. /\ r.list \in Seq(Binding) /\ Len(r.list) = m
          /\ r.list[m] = e /\ \A n \in 1 .. Len(b.list) : r.list[n] = b.list[n]
      BY <1>1, <2>2, <2>3, AppendElements
    <3>2. m \in Nat /\ 1 .. m = 1 .. Len(b.list) \cup {m} /\ m \notin 1 .. Len(b.list)
      BY <1>1
    <3>3. DOMAIN r.list = 1 .. m
      BY <3>1
    <3> QED
      BY <3>1, <3>2, <3>3, <1>1
  <2> HIDE DEF m
  <2>6. /\ DOMAIN r.tokens = DOMAIN b.tokens \cup {t} /\ r.tokens[t] = m
        /\ \A x \in DOMAIN b.tokens : x # t => r.tokens[x] = b.tokens[x]
        /\ r.tokens \in [DOMAIN r.tokens -> DOMAIN r.list]
    BY <1>1, <2>2, <2>5 DEF With
  <2>7. /\ DOMAIN r.keys = DOMAIN b.keys \cup {k} /\ r.keys[k] = m
        /\ \A x \in DOMAIN b.keys : r.keys[x] = b.keys[x] /\ x # k
        /\ r.keys \in [DOMAIN r.keys -> DOMAIN r.list]
    BY <1>1, <1>3, <2>2, <2>5 DEF With
  <2>8. \A x \in DOMAIN r.tokens : r.list[r.tokens[x]].component # None
                                     => r.list[r.tokens[x]].key = KeyOf(x)
    BY <1>1, <2>3, <2>5, <2>6 DEF k
  <2>9. \A x \in DOMAIN r.keys : /\ r.list[r.keys[x]].key = x
                                 /\ r.list[r.keys[x]].component # None
    BY <1>1, <2>3, <2>4, <2>5, <2>7
  <2>10. ASSUME NEW n \in DOMAIN r.list, r.list[n].component # None
         PROVE  BindingOK(r, n, rs, ss, u)
    <3>1. CASE n \in DOMAIN b.list
      <4>1. BindingOK(b, n, rs, ss, u) /\ r.list[n] = b.list[n]
        BY <2>10, <3>1, <1>1, <2>5
      <4> QED
        BY <4>1, <2>7 DEF BindingOK
    <3>2. CASE n = m
      BY <3>2, <2>3, <2>5, <2>7 DEF BindingOK, k
    <3> QED
      BY <3>1, <3>2, <2>5
  <2>11. DOMAIN r.tokens \subseteq Token /\ DOMAIN r.keys \subseteq TypeKey
    BY <1>0, <1>1, <2>6, <2>7 DEF k
  <2>12. r = [list |-> r.list, tokens |-> r.tokens, keys |-> r.keys]
    BY <2>1, <2>2
  <2>13. BindOK(r, rs, ss, u)
    BY <2>5, <2>6, <2>7, <2>8, <2>9, <2>10, <2>11, <2>12 DEF BindOK
  <2>14. \A x \in DOMAIN b.keys : r.list[r.keys[x]].component = b.list[b.keys[x]].component
    BY <1>1, <2>5, <2>7
  <2> QED
    BY <2>3, <2>5, <2>7, <2>13, <2>14 DEF r, k
<1> QED
  BY <1>2, <1>3

(* registered_component<T> binds what it finds, and finds it again.        *)
LEMMA CachedOK ==
    ASSUME NEW u, CatOK(catalog, u), StoragesOK, NEW t \in Token,
           NEW b, BindOK(b, catalog.records, storages, u)
    PROVE  /\ BindOK(Cached(b, t), catalog.records, storages, u)
           /\ \A k : KnownComponent(Cached(b, t), k) = KnownComponent(b, k)
           /\ Resolve(b, t) # None => KeyOf(t) \in DOMAIN Cached(b, t).keys
<1> DEFINE c == Resolve(b, t)
           object == Object(c.index)
           r == Bound(b, t, KeyOf(t), c, object)
<1>1. CASE BoundTo(b, t) # None
  BY <1>1, BoundToMeans DEF Cached
<1>2. CASE Resolve(b, t) = None
  BY <1>2 DEF Cached
<1>3. CASE BoundTo(b, t) = None /\ Resolve(b, t) # None
  <2>1. Cached(b, t) = r
    BY <1>3 DEF Cached
  <2>2. /\ c \in Entity /\ c.index \in DOMAIN catalog.records
        /\ catalog.records[c.index].entity = c
        /\ Belongs(catalog.records[c.index], KeyOf(t), u)
        /\ c = KnownComponent(b, KeyOf(t))
    BY <1>3, ResolveBelongs, ResolveIs
  <2>3. object = ObjectOf(storages, c.index) /\ object \in ObjectId \cup {None}
    BY DEF Object, ObjectOf, StoragesOK
  <2> HIDE DEF c, object
  <2>4. /\ BindOK(r, catalog.records, storages, u)
        /\ DOMAIN r.keys = DOMAIN b.keys \cup {KeyOf(t)}
        /\ \A k \in DOMAIN b.keys : r.list[r.keys[k]].component = b.list[b.keys[k]].component
        /\ KeyOf(t) \notin DOMAIN b.keys => r.list[r.keys[KeyOf(t)]].component = c
    BY <2>2, <2>3, BoundOK
  <2> HIDE DEF r
  <2>5. ASSUME NEW k PROVE KnownComponent(r, k) = KnownComponent(b, k)
    <3>1. CASE k \in DOMAIN b.keys
      BY <3>1, <2>4 DEF KnownComponent
    <3>2. CASE k \notin DOMAIN b.keys /\ k # KeyOf(t)
      BY <3>2, <2>4 DEF KnownComponent
    <3>3. CASE k \notin DOMAIN b.keys /\ k = KeyOf(t)
      <4>1. KnownComponent(r, k) = c
        BY <3>3, <2>4 DEF KnownComponent
      <4> QED
        BY <4>1, <3>3, <2>2
    <3> QED
      BY <3>1, <3>2, <3>3
  <2> QED
    BY <2>1, <2>4, <2>5
<1> QED
  BY <1>1, <1>2, <1>3

LEMMA CachedAllUnfolds ==
    ASSUME NEW ts \in Seq(Token)
    PROVE  \E c : /\ CachedAll(ts) = c[Len(ts)] /\ c[0] = bindings
                  /\ \A n \in 1 .. Len(ts) : c[n] = c[n - 1] \/ c[n] = Cached(c[n - 1], ts[n])
<1> DEFINE N == Len(ts)
           Step(x, n) == IF \E m \in 1 .. n : Resolve(bindings, ts[m]) = None THEN x
                         ELSE Cached(x, ts[n])
           Is(f, m) == f = [n \in 0 .. m |-> IF n = 0 THEN bindings ELSE Step(f[n - 1], n)]
           bad == {m \in 0 .. N : ~\E f : Is(f, m)}
<1>1. N \in Nat
  OBVIOUS
<1>2. CachedAll(ts) = (CHOOSE f : Is(f, N))[N]
  BY DEF CachedAll
<1> HIDE DEF Step
<1>3. bad = {}
  <2> SUFFICES ASSUME bad # {} PROVE FALSE
    OBVIOUS
  <2>1. bad \subseteq Nat
    BY <1>1
  <2>2. PICK m \in bad : \A x \in bad : m <= x
    BY <2>1, LeastNat
  <2>3. m \in 0 .. N /\ ~\E f : Is(f, m)
    OBVIOUS
  <2> HIDE DEF bad
  <2>4. CASE m = 0
    <3> DEFINE g == [n \in 0 .. 0 |-> bindings]
    <3>1. g = [n \in 0 .. 0 |-> IF n = 0 THEN bindings ELSE Step(g[n - 1], n)]
      OBVIOUS
    <3>2. Is(g, m)
      BY <3>1, <2>4
    <3> QED
      BY <3>2, <2>3
  <2>5. CASE m # 0
    <3>1. m - 1 \in 0 .. N /\ m \in Nat /\ ~(m <= m - 1)
      BY <1>1, <2>3, <2>5
    <3>2. m - 1 \notin bad
      BY <3>1, <2>2
    <3>3. PICK f : Is(f, m - 1)
      BY <3>1, <3>2 DEF bad
    <3> DEFINE g == [n \in 0 .. m |-> IF n = m THEN Step(f[m - 1], m) ELSE f[n]]
    <3>4. ASSUME NEW n \in 0 .. m
          PROVE  g[n] = IF n = 0 THEN bindings ELSE Step(g[n - 1], n)
      <4>1. CASE n = m
        <5>1. n # 0 /\ m - 1 \in 0 .. m /\ m - 1 # m
          BY <4>1, <2>5, <3>1
        <5> QED
          BY <4>1, <5>1
      <4>2. CASE n # m
        <5>1. n \in 0 .. m - 1 /\ (n # 0 => n - 1 \in 0 .. m /\ n - 1 # m)
          BY <4>2, <3>1
        <5>2. f[n] = IF n = 0 THEN bindings ELSE Step(f[n - 1], n)
          BY <5>1, <3>3
        <5>3. g[n] = f[n] /\ (n # 0 => g[n - 1] = f[n - 1])
          BY <4>2, <5>1
        <5> QED
          BY <5>2, <5>3
      <4> QED
        BY <4>1, <4>2
    <3>5. g = [n \in 0 .. m |-> g[n]]
      OBVIOUS
    <3> HIDE DEF g
    <3>6. Is(g, m)
      BY <3>4, <3>5
    <3> QED
      BY <3>6, <2>3
  <2> QED
    BY <2>4, <2>5
<1>4. \E f : Is(f, N)
  BY <1>1, <1>3
<1> DEFINE c == CHOOSE f : Is(f, N)
<1>5. Is(c, N)
  BY <1>4
<1>6. CachedAll(ts) = c[N]
  BY <1>2
<1> HIDE DEF c
<1>7. ASSUME NEW n \in 0 .. N PROVE c[n] = IF n = 0 THEN bindings ELSE Step(c[n - 1], n)
  BY <1>5
<1>8. c[0] = bindings
  BY <1>1, <1>7
<1>9. ASSUME NEW n \in 1 .. N PROVE c[n] = c[n - 1] \/ c[n] = Cached(c[n - 1], ts[n])
  BY <1>1, <1>7 DEF Step
<1> QED
  BY <1>6, <1>8, <1>9

LEMMA CachedAllOK ==
    ASSUME NEW u, CatOK(catalog, u), StoragesOK, NEW ts \in Seq(Token),
           BindOK(bindings, catalog.records, storages, u)
    PROVE  /\ BindOK(CachedAll(ts), catalog.records, storages, u)
           /\ \A k : KnownComponent(CachedAll(ts), k) = KnownComponent(bindings, k)
<1> DEFINE N == Len(ts)
           Good(b) == /\ BindOK(b, catalog.records, storages, u)
                      /\ \A k : KnownComponent(b, k) = KnownComponent(bindings, k)
<1>1. PICK c : /\ CachedAll(ts) = c[N] /\ c[0] = bindings
               /\ \A n \in 1 .. N : c[n] = c[n - 1] \/ c[n] = Cached(c[n - 1], ts[n])
  BY CachedAllUnfolds
<1> DEFINE bad == {n \in 0 .. N : ~Good(c[n])}
<1>2. N \in Nat /\ \A n \in 1 .. N : ts[n] \in Token
  OBVIOUS
<1>3. bad = {}
  <2> SUFFICES ASSUME bad # {} PROVE FALSE
    OBVIOUS
  <2>1. bad \subseteq Nat
    BY <1>2
  <2>2. PICK m \in bad : \A x \in bad : m <= x
    BY <2>1, LeastNat
  <2>3. m \in 0 .. N /\ ~Good(c[m])
    OBVIOUS
  <2>4. m # 0
    BY <2>3, <1>1
  <2>5. m - 1 \in 0 .. N /\ m \in 1 .. N /\ ~(m <= m - 1)
    BY <1>2, <2>3, <2>4
  <2>6. Good(c[m - 1])
    BY <2>2, <2>5
  <2>7. Good(Cached(c[m - 1], ts[m]))
    BY <2>6, <2>5, <1>2, CachedOK
  <2> QED
    BY <1>1, <2>3, <2>5, <2>6, <2>7
<1>4. Good(c[N])
  BY <1>2, <1>3
<1> QED
  BY <1>1, <1>4

LEMMA NoBindingsOK == \A u, rs, ss : BindOK(NoBindings, rs, ss, u)
<1>1. /\ NoBindings.list = <<>> /\ NoBindings.tokens = <<>> /\ NoBindings.keys = <<>>
      /\ NoBindings = [list |-> NoBindings.list, tokens |-> NoBindings.tokens,
                       keys |-> NoBindings.keys]
  BY DEF NoBindings
<1>2. DOMAIN <<>> = {} /\ <<>> \in Seq(Binding) /\ <<>> \in [{} -> {}]
  OBVIOUS
<1> QED
  BY <1>1, <1>2 DEF BindOK

-----------------------------------------------------------------------------
(* rebind_typed_components_by_registered_names. *)

LEMMA RebindingUnfolds ==
    ASSUME NEW c, NEW objects, Len(recorded) \in Nat
    PROVE  \E b : /\ Rebinding(c, objects) = b[Len(recorded)] /\ b[0] = NoBindings
                  /\ \A n \in 1 .. Len(recorded) :
                        \/ b[n] = b[n - 1]
                        \/ /\ ~Mismatch(recorded[n], c) /\ Found(recorded[n], c) # None
                           /\ b[n] = LET i == Found(recorded[n], c)
                                     IN Bound(b[n - 1], recorded[n].token,
                                              KeyOf(recorded[n].token), c.records[i].entity,
                                              IF i \in DOMAIN objects
                                              THEN objects[i].object ELSE None)
<1> DEFINE N == Len(recorded)
           Step(x, n) ==
              IF \/ \E m \in 1 .. n : Mismatch(recorded[m], c)
                 \/ Found(recorded[n], c) = None
              THEN x
              ELSE LET i == Found(recorded[n], c)
                   IN Bound(x, recorded[n].token, KeyOf(recorded[n].token),
                            c.records[i].entity,
                            IF i \in DOMAIN objects THEN objects[i].object ELSE None)
           Is(f, m) == f = [n \in 0 .. m |-> IF n = 0 THEN NoBindings ELSE Step(f[n - 1], n)]
           bad == {m \in 0 .. N : ~\E f : Is(f, m)}
<1>1. N \in Nat
  OBVIOUS
<1>2. Rebinding(c, objects) = (CHOOSE f : Is(f, N))[N]
  BY DEF Rebinding
<1> HIDE DEF Step
<1>3. bad = {}
  <2> SUFFICES ASSUME bad # {} PROVE FALSE
    OBVIOUS
  <2>1. bad \subseteq Nat
    BY <1>1
  <2>2. PICK m \in bad : \A x \in bad : m <= x
    BY <2>1, LeastNat
  <2>3. m \in 0 .. N /\ ~\E f : Is(f, m)
    OBVIOUS
  <2> HIDE DEF bad
  <2>4. CASE m = 0
    <3> DEFINE g == [n \in 0 .. 0 |-> NoBindings]
    <3>1. g = [n \in 0 .. 0 |-> IF n = 0 THEN NoBindings ELSE Step(g[n - 1], n)]
      OBVIOUS
    <3>2. Is(g, m)
      BY <3>1, <2>4
    <3> QED
      BY <3>2, <2>3
  <2>5. CASE m # 0
    <3>1. m - 1 \in 0 .. N /\ m \in Nat /\ ~(m <= m - 1)
      BY <1>1, <2>3, <2>5
    <3>2. m - 1 \notin bad
      BY <3>1, <2>2
    <3>3. PICK f : Is(f, m - 1)
      BY <3>1, <3>2 DEF bad
    <3> DEFINE g == [n \in 0 .. m |-> IF n = m THEN Step(f[m - 1], m) ELSE f[n]]
    <3>4. ASSUME NEW n \in 0 .. m
          PROVE  g[n] = IF n = 0 THEN NoBindings ELSE Step(g[n - 1], n)
      <4>1. CASE n = m
        <5>1. n # 0 /\ m - 1 \in 0 .. m /\ m - 1 # m
          BY <4>1, <2>5, <3>1
        <5> QED
          BY <4>1, <5>1
      <4>2. CASE n # m
        <5>1. n \in 0 .. m - 1 /\ (n # 0 => n - 1 \in 0 .. m /\ n - 1 # m)
          BY <4>2, <3>1
        <5>2. f[n] = IF n = 0 THEN NoBindings ELSE Step(f[n - 1], n)
          BY <5>1, <3>3
        <5>3. g[n] = f[n] /\ (n # 0 => g[n - 1] = f[n - 1])
          BY <4>2, <5>1
        <5> QED
          BY <5>2, <5>3
      <4> QED
        BY <4>1, <4>2
    <3>5. g = [n \in 0 .. m |-> g[n]]
      OBVIOUS
    <3> HIDE DEF g
    <3>6. Is(g, m)
      BY <3>4, <3>5
    <3> QED
      BY <3>6, <2>3
  <2> QED
    BY <2>4, <2>5
<1>4. \E f : Is(f, N)
  BY <1>1, <1>3
<1> DEFINE b == CHOOSE f : Is(f, N)
<1>5. Is(b, N)
  BY <1>4
<1>6. Rebinding(c, objects) = b[N]
  BY <1>2
<1> HIDE DEF b
<1>7. ASSUME NEW n \in 0 .. N PROVE b[n] = IF n = 0 THEN NoBindings ELSE Step(b[n - 1], n)
  BY <1>5
<1>8. b[0] = NoBindings
  BY <1>1, <1>7
<1>9. ASSUME NEW n \in 1 .. N
      PROVE  \/ b[n] = b[n - 1]
             \/ /\ ~Mismatch(recorded[n], c) /\ Found(recorded[n], c) # None
                /\ b[n] = LET i == Found(recorded[n], c)
                          IN Bound(b[n - 1], recorded[n].token,
                                   KeyOf(recorded[n].token), c.records[i].entity,
                                   IF i \in DOMAIN objects
                                   THEN objects[i].object ELSE None)
  <2>1. b[n] = Step(b[n - 1], n)
    BY <1>1, <1>7
  <2>2. n \in 1 .. n
    BY <1>1
  <2>3. CASE \/ \E m \in 1 .. n : Mismatch(recorded[m], c)
             \/ Found(recorded[n], c) = None
    BY <2>1, <2>3 DEF Step
  <2>4. CASE ~(\/ \E m \in 1 .. n : Mismatch(recorded[m], c)
               \/ Found(recorded[n], c) = None)
    BY <2>1, <2>2, <2>4 DEF Step
  <2> QED
    BY <2>3, <2>4
<1> QED
  BY <1>6, <1>8, <1>9

(* A remembered type finds a record that could be its own: by its key, or  *)
(* by a name no other type of that metadata has.                           *)
LEMMA FoundBelongs ==
    ASSUME NEW u, Orderly(u), NEW c, CatOK(c, u),
           NEW entry \in [token : Token, name : Name],
           entry.name \in KnownAs(u, KeyOf(entry.token)),
           ~Mismatch(entry, c), Found(entry, c) # None
    PROVE  /\ Found(entry, c) \in DOMAIN c.records
           /\ Belongs(c.records[Found(entry, c)], KeyOf(entry.token), u)
<1> DEFINE k == KeyOf(entry.token)
           i == Found(entry, c)
<1>1. k \in TypeKey /\ k # None
  BY KeyIsNoNone DEF TypeKey
<1>2. CASE k \in DOMAIN c.type_keys
  BY <1>2, KeyedBelongs DEF Found
<1>3. CASE k \notin DOMAIN c.type_keys
  <2>1. entry.name \in DOMAIN c.names /\ i = c.names[entry.name]
    BY <1>3 DEF Found
  <2>2. /\ i \in DOMAIN c.records /\ c.records[i].name = entry.name
        /\ RecordOK(c.records[i], u) /\ c.records[i] \in RecordType(u)
    BY <2>1 DEF CatOK, RecordsOK
  <2>3. c.records[i].info = InfoOf(k)
    BY DEF Mismatch
  <2> HIDE DEF k, i
  <2>4. ASSUME c.records[i].key # None PROVE c.records[i].key = k
    <3>1. /\ c.records[i].key \in TypeKey /\ entry.name \in KnownAs(u, c.records[i].key)
          /\ InfoOf(c.records[i].key) = InfoOf(k)
      BY <2>2, <2>3, <2>4 DEF RecordOK, RecordType
    <3>2. entry.name \in KnownAs(u, k)
      BY DEF k
    <3> QED
      BY <3>1, <3>2, <1>1 DEF Orderly
  <2> QED
    BY <2>2, <2>3, <2>4 DEF Belongs, k, i
<1> QED
  BY <1>2, <1>3

LEMMA RebindingOK ==
    ASSUME NEW u, Orderly(u), NEW c, CatOK(c, u), RecordedOK(recorded, u),
           NEW objects, \A i \in DOMAIN objects : objects[i].object \in ObjectId
    PROVE  BindOK(Rebinding(c, objects), c.records, objects, u)
<1> DEFINE N == Len(recorded)
<1>1. /\ N \in Nat
      /\ \A n \in 1 .. N : /\ recorded[n] \in [token : Token, name : Name]
                           /\ recorded[n].name \in KnownAs(u, KeyOf(recorded[n].token))
  <2> DEFINE E == [token : Token, name : Name]
  <2>1. /\ recorded \in Seq(E)
        /\ \A n \in DOMAIN recorded : recorded[n].name \in KnownAs(u, KeyOf(recorded[n].token))
    BY DEF RecordedOK
  <2> HIDE DEF E
  <2>2. N \in Nat /\ DOMAIN recorded = 1 .. N /\ \A n \in 1 .. N : recorded[n] \in E
    BY <2>1
  <2> QED
    BY <2>1, <2>2 DEF E
<1>2. PICK b : /\ Rebinding(c, objects) = b[N] /\ b[0] = NoBindings
               /\ \A n \in 1 .. N :
                        \/ b[n] = b[n - 1]
                        \/ /\ ~Mismatch(recorded[n], c) /\ Found(recorded[n], c) # None
                           /\ b[n] = LET i == Found(recorded[n], c)
                                     IN Bound(b[n - 1], recorded[n].token,
                                              KeyOf(recorded[n].token), c.records[i].entity,
                                              IF i \in DOMAIN objects
                                              THEN objects[i].object ELSE None)
  BY <1>1, RebindingUnfolds
<1> DEFINE Good(x) == BindOK(x, c.records, objects, u)
           bad == {n \in 0 .. N : ~Good(b[n])}
<1> HIDE DEF Good
<1>3. bad = {}
  <2> SUFFICES ASSUME bad # {} PROVE FALSE
    OBVIOUS
  <2>1. bad \subseteq Nat
    BY <1>1
  <2>2. PICK m \in bad : \A x \in bad : m <= x
    BY <2>1, LeastNat
  <2>3. m \in 0 .. N /\ ~Good(b[m])
    OBVIOUS
  <2>4. m # 0
    BY <2>3, <1>2, NoBindingsOK DEF Good
  <2>5. m - 1 \in 0 .. N /\ m \in 1 .. N /\ ~(m <= m - 1)
    BY <1>1, <2>3, <2>4
  <2>6. Good(b[m - 1])
    BY <2>2, <2>5
  <2> DEFINE t == recorded[m].token
             i == Found(recorded[m], c)
             e == c.records[i].entity
             object == IF i \in DOMAIN objects THEN objects[i].object ELSE None
  <2>7. /\ ~Mismatch(recorded[m], c) /\ i # None
        /\ b[m] = Bound(b[m - 1], t, KeyOf(t), e, object)
    BY <1>2, <2>3, <2>5, <2>6
  <2>8. i \in DOMAIN c.records /\ Belongs(c.records[i], KeyOf(t), u)
    BY <2>5, <2>7, <1>1, FoundBelongs
  <2>9. e \in Entity /\ e.index = i /\ t \in Token
    BY <2>5, <2>8, <1>1 DEF CatOK, RecordsOK, RecordType
  <2>10. object = ObjectOf(objects, i) /\ object \in ObjectId \cup {None}
    BY DEF ObjectOf
  <2> HIDE DEF t, i, object
  <2>11. c.records[e.index].entity = e
    BY <2>9
  <2>12. /\ e.index \in DOMAIN c.records /\ Belongs(c.records[e.index], KeyOf(t), u)
         /\ object = ObjectOf(objects, e.index)
    BY <2>8, <2>9, <2>10
  <2> HIDE DEF e
  <2>13. BindOK(Bound(b[m - 1], t, KeyOf(t), e, object), c.records, objects, u)
    BY <2>6, <2>9, <2>10, <2>11, <2>12, BoundOK DEF Good
  <2> QED
    BY <2>3, <2>7, <2>13 DEF Good
<1>4. Good(b[N])
  BY <1>1, <1>3
<1> QED
  BY <1>2, <1>4 DEF Good

(* record_typed_component_binding *)
LEMMA RecordedKept ==
    ASSUME NEW u, RecordedOK(recorded, u), NEW t \in Token, NEW n \in KnownAs(u, KeyOf(t))
    PROVE  RecordedOK(Recorded(t, n), u)
<1> DEFINE E == [token : Token, name : Name]
           entry == [token |-> t, name |-> n]
           same == {p \in DOMAIN recorded : KeyOf(recorded[p].token) = KeyOf(t)}
           r == Recorded(t, n)
<1>1. /\ recorded \in Seq(E) /\ entry \in E /\ entry.token = t /\ entry.name = n
      /\ Len(recorded) \in Nat
      /\ \A p \in DOMAIN recorded : recorded[p].name \in KnownAs(u, KeyOf(recorded[p].token))
  BY DEF RecordedOK, KnownAs
<1>2. CASE same = {}
  <2>1. r = Append(recorded, entry)
    BY <1>2 DEF Recorded
  <2> HIDE DEF entry, E, r, same
  <2>2. r \in Seq(E) /\ DOMAIN r = 1 .. Len(recorded) + 1 /\ r[Len(recorded) + 1] = entry
        /\ \A p \in 1 .. Len(recorded) : r[p] = recorded[p]
    BY <1>1, <2>1, AppendElements
  <2>3. \A p \in DOMAIN r : r[p].name \in KnownAs(u, KeyOf(r[p].token))
    BY <1>1, <2>2
  <2> QED
    BY <2>2, <2>3 DEF RecordedOK, E, r
<1>3. CASE same # {}
  <2>1. r = [p \in DOMAIN recorded |-> IF p \in same THEN entry ELSE recorded[p]]
    BY <1>3 DEF Recorded
  <2> HIDE DEF entry, E, r, same
  <2>2. \A p \in DOMAIN recorded : r[p] \in E /\ (r[p] = entry \/ r[p] = recorded[p])
    BY <1>1, <2>1
  <2>3. r \in Seq(E) /\ DOMAIN r = DOMAIN recorded
    BY <1>1, <2>1, <2>2
  <2>4. \A p \in DOMAIN r : r[p].name \in KnownAs(u, KeyOf(r[p].token))
    BY <1>1, <2>2, <2>3
  <2> QED
    BY <2>3, <2>4 DEF RecordedOK, E, r
<1> QED
  BY <1>2, <1>3

-----------------------------------------------------------------------------
(* Bindings when records and storages change. *)

LEMMA SeqElements ==
    ASSUME NEW S, NEW m \in Nat, NEW f, f = [n \in 1 .. m |-> f[n]],
           \A n \in 1 .. m : f[n] \in S
    PROVE  f \in Seq(S)
OBVIOUS

LEMMA BindingsStay ==
    ASSUME NEW u, NEW rs, NEW ss, NEW b, BindOK(b, rs, ss, u), NEW rt, NEW st,
           \A j \in DOMAIN rs : /\ j \in DOMAIN rt /\ rt[j].entity = rs[j].entity
                                /\ \A l \in TypeKey : Belongs(rs[j], l, u) => Belongs(rt[j], l, u)
                                /\ ObjectOf(st, j) = ObjectOf(ss, j)
    PROVE  BindOK(b, rt, st, u)
<1>1. ASSUME NEW n \in DOMAIN b.list, b.list[n].component # None
      PROVE  BindingOK(b, n, rt, st, u)
  <2>1. BindingOK(b, n, rs, ss, u)
    BY <1>1 DEF BindOK
  <2>2. b.list[n].key \in TypeKey
    BY <2>1 DEF BindingOK, BindOK
  <2> QED
    BY <2>1, <2>2 DEF BindingOK
<1> QED
  BY <1>1 DEF BindOK

(* storage_for and refresh_typed_storage_bindings.                         *)
LEMMA ReboundOK ==
    ASSUME NEW u, NEW rs, NEW b, BindOK(b, rs, storages, u), NEW S, stamp \in Nat,
           \A c \in S : /\ c \in Entity /\ c.index \in DOMAIN rs /\ rs[c.index].entity = c
                        /\ c.index \notin DOMAIN storages,
           NEW st, \A i : ObjectOf(st, i) = ObjectOf(WithStorages(S), i)
    PROVE  /\ BindOK(Rebound(b, S), rs, st, u)
           /\ \A k : KnownComponent(Rebound(b, S), k) = KnownComponent(b, k)
<1> DEFINE r == Rebound(b, S)
           list == [n \in DOMAIN b.list |->
                       IF b.list[n].component \in S
                       THEN [b.list[n] EXCEPT !.storage = <<stamp + 1, b.list[n].component.index>>]
                       ELSE b.list[n]]
<1>1. /\ b = [list |-> b.list, tokens |-> b.tokens, keys |-> b.keys]
      /\ b.list \in Seq(Binding) /\ Len(b.list) \in Nat /\ DOMAIN b.list = 1 .. Len(b.list)
      /\ DOMAIN b.tokens \subseteq Token /\ b.tokens \in [DOMAIN b.tokens -> DOMAIN b.list]
      /\ DOMAIN b.keys \subseteq TypeKey /\ b.keys \in [DOMAIN b.keys -> DOMAIN b.list]
      /\ \A x \in DOMAIN b.tokens : b.list[b.tokens[x]].component # None
                                      => b.list[b.tokens[x]].key = KeyOf(x)
      /\ \A x \in DOMAIN b.keys : /\ b.list[b.keys[x]].key = x
                                  /\ b.list[b.keys[x]].component # None
      /\ \A n \in DOMAIN b.list : b.list[n].component # None => BindingOK(b, n, rs, storages, u)
  BY DEF BindOK
<1>2. r = [list |-> list, tokens |-> b.tokens, keys |-> b.keys]
  <2>1. r = [b EXCEPT !.list = list]
    BY DEF Rebound
  <2> HIDE DEF r, list
  <2> QED
    BY <2>1, <1>1
<1>3. r.list = list /\ r.tokens = b.tokens /\ r.keys = b.keys
      /\ r = [list |-> r.list, tokens |-> r.tokens, keys |-> r.keys]
  BY <1>2
<1> HIDE DEF r
<1>4. ASSUME NEW n \in DOMAIN b.list
      PROVE  /\ list[n] \in Binding /\ list[n].component = b.list[n].component
             /\ list[n].key = b.list[n].key
             /\ list[n].storage = IF b.list[n].component \in S
                                  THEN <<stamp + 1, b.list[n].component.index>>
                                  ELSE b.list[n].storage
  <2>1. b.list[n] \in Binding
    BY <1>1
  <2>2. CASE b.list[n].component \in S
    <3>1. <<stamp + 1, b.list[n].component.index>> \in ObjectId
      BY <2>2 DEF ObjectId, Entity, Index
    <3>2. list[n] = [b.list[n] EXCEPT !.storage = <<stamp + 1, b.list[n].component.index>>]
      BY <2>2
    <3> HIDE DEF list
    <3> QED
      BY <2>1, <2>2, <3>1, <3>2 DEF Binding
  <2>3. CASE b.list[n].component \notin S
    BY <2>1, <2>3
  <2> QED
    BY <2>2, <2>3
<1>5. DOMAIN list = 1 .. Len(b.list) /\ list = [n \in 1 .. Len(b.list) |-> list[n]]
  BY <1>1
<1> HIDE DEF list
<1>6. list \in Seq(Binding)
  <2>1. \A n \in 1 .. Len(b.list) : list[n] \in Binding
    BY <1>1, <1>4
  <2> QED
    BY <2>1, <1>1, <1>5, SeqElements
<1>7. ASSUME NEW n \in DOMAIN list, list[n].component # None PROVE BindingOK(r, n, rs, st, u)
  <2>1. n \in DOMAIN b.list /\ BindingOK(b, n, rs, storages, u)
    BY <1>1, <1>4, <1>5, <1>7
  <2> DEFINE c == b.list[n].component
             i == c.index
  <2>2. /\ c \in Entity /\ b.list[n].key \in DOMAIN b.keys /\ b.keys[b.list[n].key] = n
        /\ i \in DOMAIN rs /\ rs[i].entity = c /\ Belongs(rs[i], b.list[n].key, u)
        /\ b.list[n].storage = ObjectOf(storages, i)
    BY <2>1 DEF BindingOK
  <2>3. list[n].storage = ObjectOf(st, i)
    <3>1. CASE c \in S
      <4>1. i \notin DOMAIN storages /\ i \in {x.index : x \in S}
        BY <3>1
      <4>2. ObjectOf(WithStorages(S), i) = <<stamp + 1, i>>
        BY <4>1 DEF WithStorages, ObjectOf
      <4> QED
        BY <4>2, <3>1, <2>1, <1>4
    <3>2. CASE c \notin S
      <4>1. i \notin {x.index : x \in S}
        BY <3>2, <2>2
      <4>2. ObjectOf(WithStorages(S), i) = ObjectOf(storages, i)
        BY <4>1 DEF WithStorages, ObjectOf
      <4> QED
        BY <4>2, <3>2, <2>1, <2>2, <1>4
    <3> QED
      BY <3>1, <3>2
  <2> QED
    BY <2>1, <2>2, <2>3, <1>3, <1>4 DEF BindingOK
<1>8. BindOK(r, rs, st, u)
  <2>1. ASSUME NEW x \in DOMAIN r.tokens, r.list[r.tokens[x]].component # None
        PROVE  r.list[r.tokens[x]].key = KeyOf(x)
    <3>1. x \in DOMAIN b.tokens /\ b.tokens[x] \in DOMAIN b.list
          /\ r.list[r.tokens[x]] = list[b.tokens[x]]
      BY <1>1, <1>3
    <3>2. b.list[b.tokens[x]].component # None => b.list[b.tokens[x]].key = KeyOf(x)
      BY <3>1, <1>1
    <3> QED
      BY <2>1, <3>1, <3>2, <1>4
  <2>2. ASSUME NEW x \in DOMAIN r.keys
        PROVE  r.list[r.keys[x]].key = x /\ r.list[r.keys[x]].component # None
    <3>1. x \in DOMAIN b.keys /\ b.keys[x] \in DOMAIN b.list
          /\ r.list[r.keys[x]] = list[b.keys[x]]
      BY <1>1, <1>3
    <3>2. b.list[b.keys[x]].key = x /\ b.list[b.keys[x]].component # None
      BY <3>1, <1>1
    <3> QED
      BY <3>1, <3>2, <1>4
  <2>3. /\ DOMAIN r.tokens \subseteq Token /\ r.tokens \in [DOMAIN r.tokens -> DOMAIN r.list]
        /\ DOMAIN r.keys \subseteq TypeKey /\ r.keys \in [DOMAIN r.keys -> DOMAIN r.list]
    BY <1>1, <1>3, <1>5
  <2> QED
    BY <1>3, <1>6, <1>7, <2>1, <2>2, <2>3 DEF BindOK
<1>9. \A k : KnownComponent(r, k) = KnownComponent(b, k)
  BY <1>1, <1>3, <1>4 DEF KnownComponent
<1> QED
  BY <1>8, <1>9 DEF r

(* unregister_component_entity *)
LEMMA ReleasedOK ==
    ASSUME NEW u, NEW rs, NEW ss, NEW b, BindOK(b, rs, ss, u),
           NEW c \in Entity, c.index \in DOMAIN rs, rs[c.index].entity = c,
           NEW rt, DOMAIN rt = DOMAIN rs \ {c.index}, \A j \in DOMAIN rt : rt[j] = rs[j],
           NEW st, \A j : j # c.index => ObjectOf(st, j) = ObjectOf(ss, j)
    PROVE  BindOK(Released(b, c), rt, st, u)
<1> DEFINE held == {n \in DOMAIN b.list : b.list[n].component = c}
           r == Released(b, c)
           list == [n \in DOMAIN b.list |-> IF n \in held THEN Unbound ELSE b.list[n]]
           outT == {b.list[n].token : n \in held}
           outK == {b.list[n].key : n \in held}
<1>1. /\ b.list \in Seq(Binding) /\ Len(b.list) \in Nat /\ DOMAIN b.list = 1 .. Len(b.list)
      /\ DOMAIN b.tokens \subseteq Token /\ b.tokens \in [DOMAIN b.tokens -> DOMAIN b.list]
      /\ DOMAIN b.keys \subseteq TypeKey /\ b.keys \in [DOMAIN b.keys -> DOMAIN b.list]
      /\ \A x \in DOMAIN b.tokens : b.list[b.tokens[x]].component # None
                                      => b.list[b.tokens[x]].key = KeyOf(x)
      /\ \A x \in DOMAIN b.keys : /\ b.list[b.keys[x]].key = x
                                  /\ b.list[b.keys[x]].component # None
      /\ \A n \in DOMAIN b.list : b.list[n].component # None => BindingOK(b, n, rs, ss, u)
  BY DEF BindOK
<1>2. r = [list |-> list, tokens |-> Without(b.tokens, outT), keys |-> Without(b.keys, outK)]
  BY DEF Released
<1>3. /\ r.list = list /\ r.tokens = Without(b.tokens, outT) /\ r.keys = Without(b.keys, outK)
      /\ r = [list |-> r.list, tokens |-> r.tokens, keys |-> r.keys]
  BY <1>2
<1>4. Unbound \in Binding /\ Unbound.component = None /\ c # None
  BY NoneAssumption DEF Unbound, Binding, Entity
<1> HIDE DEF r
<1>5. ASSUME NEW n \in DOMAIN b.list
      PROVE  /\ list[n] \in Binding
             /\ n \in held => list[n].component = None
             /\ n \notin held => list[n] = b.list[n]
             /\ n \in held <=> b.list[n].component = c
  BY <1>1, <1>4
<1>6. DOMAIN list = 1 .. Len(b.list) /\ list = [n \in 1 .. Len(b.list) |-> list[n]]
  BY <1>1
<1>7. \A n \in held : n \in DOMAIN b.list /\ b.list[n].key \in outK
  OBVIOUS
<1>8. \A k \in outK : \E n \in held : b.list[n].key = k
  OBVIOUS
<1> HIDE DEF list, held, outT, outK
<1>9. list \in Seq(Binding)
  <2>1. \A n \in 1 .. Len(b.list) : list[n] \in Binding
    BY <1>1, <1>5
  <2> QED
    BY <2>1, <1>1, <1>6, SeqElements
<1>10. /\ DOMAIN r.tokens = DOMAIN b.tokens \ outT
       /\ \A t \in DOMAIN r.tokens : r.tokens[t] = b.tokens[t]
       /\ r.tokens \in [DOMAIN r.tokens -> DOMAIN b.list]
  BY <1>1, <1>3 DEF Without
<1>11. /\ DOMAIN r.keys = DOMAIN b.keys \ outK
       /\ \A k \in DOMAIN r.keys : r.keys[k] = b.keys[k]
       /\ r.keys \in [DOMAIN r.keys -> DOMAIN b.list]
  BY <1>1, <1>3 DEF Without
<1>12. ASSUME NEW k \in outK PROVE k \in DOMAIN b.keys /\ b.list[b.keys[k]].component = c
  <2>1. PICK n \in held : b.list[n].key = k
    BY <1>8
  <2>2. n \in DOMAIN b.list /\ b.list[n].component = c
    BY <2>1, <1>5, <1>7
  <2>3. BindingOK(b, n, rs, ss, u)
    BY <2>2, <1>1, <1>4
  <2> QED
    BY <2>1, <2>2, <2>3 DEF BindingOK
<1>13. ASSUME NEW n \in DOMAIN list, list[n].component # None PROVE BindingOK(r, n, rt, st, u)
  <2>1. n \in DOMAIN b.list /\ n \notin held /\ list[n] = b.list[n] /\ b.list[n].component # c
    BY <1>1, <1>5, <1>6, <1>13
  <2>2. BindingOK(b, n, rs, ss, u)
    BY <2>1, <1>1, <1>13
  <2> DEFINE e == b.list[n]
  <2>3. /\ e.component \in Entity /\ e.key \in DOMAIN b.keys /\ b.keys[e.key] = n
        /\ e.component.index \in DOMAIN rs /\ rs[e.component.index].entity = e.component
        /\ Belongs(rs[e.component.index], e.key, u)
        /\ e.storage = ObjectOf(ss, e.component.index)
    BY <2>2 DEF BindingOK
  <2>4. e.component.index # c.index
    BY <2>1, <2>3
  <2>5. e.key \notin outK
    BY <2>1, <2>3, <1>12
  <2> QED
    BY <2>1, <2>3, <2>4, <2>5, <1>3, <1>11 DEF BindingOK
<1>14. ASSUME NEW k \in DOMAIN r.keys
       PROVE  r.list[r.keys[k]].key = k /\ r.list[r.keys[k]].component # None
  <2>1. k \in DOMAIN b.keys /\ k \notin outK /\ r.keys[k] = b.keys[k]
        /\ b.keys[k] \in DOMAIN b.list /\ b.list[b.keys[k]].key = k
    BY <1>1, <1>11
  <2>2. b.keys[k] \notin held
    BY <2>1, <1>7
  <2> QED
    BY <2>1, <2>2, <1>1, <1>3, <1>5
<1>15. ASSUME NEW t \in DOMAIN r.tokens, r.list[r.tokens[t]].component # None
       PROVE  r.list[r.tokens[t]].key = KeyOf(t)
  <2>1. t \in DOMAIN b.tokens /\ r.tokens[t] = b.tokens[t] /\ b.tokens[t] \in DOMAIN b.list
    BY <1>1, <1>10
  <2>2. b.tokens[t] \notin held
    BY <2>1, <1>3, <1>5, <1>15
  <2>3. r.list[r.tokens[t]] = b.list[b.tokens[t]]
    BY <2>1, <2>2, <1>3, <1>5
  <2> QED
    BY <2>1, <2>3, <1>1, <1>15
<1>16. DOMAIN r.tokens \subseteq Token /\ DOMAIN r.keys \subseteq TypeKey
  BY <1>1, <1>10, <1>11
<1>17. DOMAIN r.list = DOMAIN b.list
  BY <1>1, <1>3, <1>6
<1>18. BindOK(r, rt, st, u)
  BY <1>3, <1>9, <1>10, <1>11, <1>13, <1>14, <1>15, <1>16, <1>17 DEF BindOK
<1> QED
  BY <1>18 DEF r

(* Only that component's keys go.                                          *)
LEMMA ReleasedKeys ==
    ASSUME NEW u, NEW rs, NEW ss, NEW b, BindOK(b, rs, ss, u), NEW c \in Entity,
           NEW k \in DOMAIN b.keys, b.list[b.keys[k]].component # c
    PROVE  k \in DOMAIN Released(b, c).keys
<1> DEFINE held == {n \in DOMAIN b.list : b.list[n].component = c}
           outK == {b.list[n].key : n \in held}
<1>1. Released(b, c).keys = Without(b.keys, outK)
  BY DEF Released
<1>2. ASSUME NEW n \in held PROVE b.list[n].key # k
  <2>1. n \in DOMAIN b.list /\ b.list[n].component = c /\ c # None
    BY NoneAssumption DEF Entity
  <2>2. BindingOK(b, n, rs, ss, u)
    BY <2>1 DEF BindOK
  <2> QED
    BY <2>1, <2>2 DEF BindingOK
<1> HIDE DEF held
<1> QED
  BY <1>1, <1>2 DEF Without

-----------------------------------------------------------------------------
(* Where components sit. *)

LEMMA HoldingIsAlive ==
    ASSUME StoreOK
    PROVE  Holding = AliveIn(slots)
<1>1. Len(slots) \in Nat /\ \A i \in Indices : slots[i + 1].version # 0
  BY HoldingFacts, VersionAssumption DEF SlotRecord, Version
<1> QED
  BY <1>1 DEF Holding, Holds, Slot, Indices, AliveIn, Dead, Held

LEMMA HoldingIsAliveNext ==
    ASSUME StoreOK'
    PROVE  Holding' = AliveIn(slots')
<1>1. /\ Len(slots') \in Nat /\ slots' \in Seq(SlotRecord)
      /\ \A i \in 0 .. Len(slots') - 1 : slots'[i + 1] \in SlotRecord
  BY DEF StoreOK
<1>2. \A i \in 0 .. Len(slots') - 1 : slots'[i + 1].version # 0
  BY <1>1, VersionAssumption DEF SlotRecord, Version
<1> QED
  BY <1>1, <1>2 DEF Holding, Holds, Slot, Indices, AliveIn, Dead, Held

(* create() leaves every component in its seat.                            *)
LEMMA SeatedCreate ==
    ASSUME StoreOK, StoreOK', NEW h, Made(h), NEW rs, NEW rt, NEW js, NEW jt,
           Seated(rs, slots, js), js \subseteq jt,
           DOMAIN rt \subseteq DOMAIN rs \cup {h.index},
           \A i \in DOMAIN rs : rt[i].entity = rs[i].entity,
           h.index \in DOMAIN rt => h.index \in DOMAIN rs \/ rt[h.index].entity = h
    PROVE  Seated(rt, slots', jt)
<1>1. Holding = AliveIn(slots) /\ Holding' = AliveIn(slots')
  BY HoldingIsAlive, HoldingIsAliveNext
<1>2. ASSUME NEW i \in DOMAIN rt
      PROVE  /\ i \in AliveIn(slots')
             /\ \/ slots'[i + 1].version = rt[i].entity.version
                \/ \E j \in jt : j.index = i
  <2>1. CASE i \in DOMAIN rs
    BY <2>1, <1>1 DEF Made, Seated
  <2>2. CASE i \notin DOMAIN rs
    BY <2>2, <1>1 DEF Made
  <2> QED
    BY <2>1, <2>2
<1> QED
  BY <1>2 DEF Seated

(* The end of destroy() leaves the others in theirs.                       *)
LEMMA SeatedRetire ==
    ASSUME StoreOK, NEW h, Alive(h), Retire(h), NEW rs, NEW rt, NEW js,
           Seated(rs, slots, js), DOMAIN rt \subseteq DOMAIN rs \ {h.index},
           \A i \in DOMAIN rt : rt[i] = rs[i]
    PROVE  Seated(rt, slots', js)
<1>1. /\ StoreOK' /\ h.index \in Holding /\ Holding' = Holding \ {h.index}
      /\ \A i \in Holding : i # h.index => slots'[i + 1] = slots[i + 1]
  BY RetireStore
<1>2. Holding = AliveIn(slots) /\ Holding' = AliveIn(slots')
  BY <1>1, HoldingIsAlive, HoldingIsAliveNext
<1> QED
  BY <1>1, <1>2 DEF Seated

LEMMA SameEntity ==
    ASSUME NEW x \in Entity, NEW y \in Entity, x.index = y.index, x.version = y.version
    PROVE  x = y
BY DEF Entity

(* An entity on a component's index is the component's, or a job's.        *)
LEMMA SeatTaken ==
    ASSUME SInv, NEW u, RecordsOK(catalog.records, catalog.names, u),
           Seated(catalog.records, slots, jobs),
           NEW h \in Entity, Alive(h), h.index \in DOMAIN catalog.records
    PROVE  Registered(h) \/ h \in jobs
<1> DEFINE i == h.index
           e == catalog.records[i].entity
<1>1. h.index \in Holding /\ slots[i + 1].version = h.version
  BY AliveMeans
<1>2. e \in Entity /\ e.index = i
  BY DEF RecordsOK, RecordType
<1>3. CASE slots[i + 1].version = e.version
  <2>1. e = h
    BY <1>1, <1>2, <1>3, SameEntity
  <2> QED
    BY <2>1 DEF Registered
<1>4. CASE \E j \in jobs : j.index = i
  <2>1. PICK j \in jobs : j.index = i
    BY <1>4
  <2>2. j \in Entity /\ slots[i + 1].version = j.version
    BY <2>1, AliveMeans DEF SInv, JobsOK
  <2>3. j = h
    BY <1>1, <2>1, <2>2, SameEntity
  <2> QED
    BY <2>3
<1> QED
  BY <1>3, <1>4 DEF Seated

(* create_snapshot leaves no component out.                                *)
LEMMA SeatedSnapshot ==
    ASSUME SInv, NEW cells,
           cells = [p \in DOMAIN slots |-> IF p - 1 \in Excluded THEN Blank ELSE slots[p]],
           Seated(catalog.records, slots, jobs)
    PROVE  Seated(catalog.records, Relinked(cells), jobs)
<1>1. Excluded \in SUBSET Index
  BY HoldingFacts, AliveMeans DEF Excluded, SInv
<1>2. /\ cells \in Seq(LooseRecord) /\ Len(cells) <= InvalidIndex
      /\ AliveIn(cells) = Holding \ Excluded
      /\ \A i \in AliveIn(cells) : cells[i + 1] = slots[i + 1]
  BY <1>1, SnapshotSlots DEF SInv
<1>3. /\ AliveIn(Relinked(cells)) = AliveIn(cells)
      /\ \A i \in AliveIn(cells) : Relinked(cells)[i + 1] = cells[i + 1]
  BY <1>2, RelinkedFacts
<1>4. Holding = AliveIn(slots)
  BY HoldingIsAlive DEF SInv
<1>5. Excluded \cap DOMAIN catalog.records = {}
  BY DEF Excluded
<1>6. ASSUME NEW i \in DOMAIN catalog.records
      PROVE  i \in AliveIn(Relinked(cells)) /\ Relinked(cells)[i + 1] = slots[i + 1]
  BY <1>2, <1>3, <1>4, <1>5 DEF Seated
<1> QED
  BY <1>6 DEF Seated

LEMMA SeatedRestore ==
    ASSUME SInv, Restore, NEW rs, Seated(rs, saved.slots, jobs)
    PROVE  Seated(rs, slots', jobs)
<1>1. /\ \A i : i \in AliveIn(slots') <=> TakenByJob(i) \/ i \in AliveIn(saved.slots)
      /\ \A i \in AliveIn(saved.slots) : ~TakenByJob(i) => slots'[i + 1] = saved.slots[i + 1]
  BY RestoredSlots
<1> QED
  BY <1>1 DEF Seated, TakenByJob

-----------------------------------------------------------------------------
(* register_component *)

(* bind_typed_component does not throw: the key stands for the one record  *)
(* that could be its own.                                                  *)
LEMMA FinishOK ==
    ASSUME NEW u, Orderly(u), NEW rs, NEW ns, RecordsOK(rs, ns, u), StoragesOK,
           BindOK(bindings, rs, storages, u), RecordedOK(recorded, u),
           NEW t \in Token, NEW n \in KnownAs(u, KeyOf(t)), NEW c \in Entity,
           c.index \in DOMAIN rs, rs[c.index].entity = c, Belongs(rs[c.index], KeyOf(t), u),
           Finish(t, c, n)
    PROVE  /\ BindOK(bindings', rs, storages, u) /\ RecordedOK(recorded', u)
           /\ DOMAIN bindings'.keys = DOMAIN bindings.keys \cup {KeyOf(t)}
           /\ \A k \in DOMAIN bindings.keys :
                 bindings'.list[bindings'.keys[k]].component
                 = bindings.list[bindings.keys[k]].component
           /\ KeyOf(t) \notin DOMAIN bindings.keys =>
                 bindings'.list[bindings'.keys[KeyOf(t)]].component = c
<1> DEFINE k == KeyOf(t)
           object == Object(c.index)
<1>1. RecordedOK(recorded', u)
  BY RecordedKept DEF Finish
<1>2. ~Clashes(bindings, k, c)
  <2> SUFFICES ASSUME k \in DOMAIN bindings.keys
               PROVE  bindings.list[bindings.keys[k]].component = c
    BY DEF Clashes
  <2> DEFINE d == bindings.list[bindings.keys[k]].component
  <2>1. /\ k \in TypeKey /\ d.index \in DOMAIN rs /\ rs[d.index].entity = d
        /\ Belongs(rs[d.index], k, u)
    BY BoundEntry
  <2>2. d.index = c.index
    BY <2>1, OneRecord
  <2> QED
    BY <2>1, <2>2
<1>3. bindings' = Bound(bindings, t, k, c, object)
  BY <1>2 DEF Finish
<1>4. object = ObjectOf(storages, c.index) /\ object \in ObjectId \cup {None}
  BY DEF Object, ObjectOf, StoragesOK
<1> HIDE DEF object
<1> QED
  BY <1>1, <1>3, <1>4, BoundOK

LEMMA RInvStay ==
    ASSUME RInv, SInv', UNCHANGED <<slots, jobs, setup, catalog, storages, groups, saved, failed>>,
           BindOK(bindings', catalog.records, storages, setup), RecordedOK(recorded', setup)
    PROVE  RInv'
BY DEF RInv, SavedOK

(* The snapshot stays in order while jobs are only added.                  *)
LEMMA SavedStays ==
    ASSUME SavedOK, UNCHANGED <<setup, saved>>, jobs \subseteq jobs', failed => failed'
    PROVE  SavedOK'
BY DEF SavedOK, Seated, OwnersOK

LEMMA NameKnown ==
    ASSUME NEW u \in Setups, NEW t \in Token, NEW n \in u.names[t]
    PROVE  n \in KnownAs(u, KeyOf(t)) /\ KeyOf(t) \in TypeKey
BY SetupAssumption DEF KnownAs, TypeKey

LEMMA RInvNamed ==
    ASSUME RInv, SInv', Orderly(setup), NEW t \in Token, NEW n \in setup.names[t],
           RegisterNamed(t, n)
    PROVE  RInv'
<1> DEFINE u == setup
           k == KeyOf(t)
           i == catalog.names[n]
           r == catalog.records[i]
<1>1. n \in KnownAs(u, k) /\ k \in TypeKey
  BY NameKnown DEF RInv
<1>2. UNCHANGED <<slots, jobs, setup, storages, groups, saved, failed>>
  BY DEF RegisterNamed, Elsewhere, storeVars, vars
<1>3. CASE r.info # InfoOf(k) \/ r.key \notin {None, k}
  <2>1. UNCHANGED <<catalog, recorded, bindings>>
    BY <1>3 DEF RegisterNamed
  <2> QED
    BY <1>2, <2>1, RInvStay DEF RInv
<1>4. CASE r.info = InfoOf(k) /\ r.key \in {None, k}
  <2>1. catalog' = Adopted(i, k) /\ Finish(t, r.entity, n)
    BY <1>4 DEF RegisterNamed
  <2>2. /\ i \in DOMAIN catalog.records /\ r.name = n /\ r \in RecordType(u)
        /\ r.entity.index = i
    BY DEF RegisterNamed, RInv, CatOK, RecordsOK
  <2>3. Belongs(r, k, u) /\ r.entity \in Entity
    BY <1>1, <1>4, <2>2 DEF Belongs, RecordType
  <2>4. /\ CatOK(catalog', u) /\ DOMAIN catalog'.records = DOMAIN catalog.records
        /\ \A j \in DOMAIN catalog'.records :
              /\ catalog'.records[j].entity = catalog.records[j].entity
              /\ \A l \in TypeKey : Belongs(catalog'.records[j], l, u)
                                       <=> Belongs(catalog.records[j], l, u)
    BY <1>1, <2>1, <2>2, <2>3, AdoptedOK DEF RInv
  <2>5. BindOK(bindings, catalog'.records, storages, u)
    BY <2>4, BindingsStay DEF RInv
  <2>6. RecordsOK(catalog'.records, catalog'.names, u)
    BY <2>4 DEF CatOK
  <2>7. BindOK(bindings', catalog'.records, storages, u) /\ RecordedOK(recorded', u)
    BY <1>1, <2>1, <2>2, <2>3, <2>4, <2>5, <2>6, FinishOK DEF RInv, SInv
  <2>8. Seated(catalog'.records, slots, jobs)
    BY <2>4 DEF RInv, Seated
  <2>9. OwnersOK(storages, groups, catalog'.records, failed)
    BY <2>4 DEF RInv, OwnersOK
  <2>10. SavedOK'
    BY <1>2, SavedStays DEF RInv
  <2> QED
    BY <1>2, <2>4, <2>7, <2>8, <2>9, <2>10 DEF RInv
<1> QED
  BY <1>3, <1>4

LEMMA RInvKeyed ==
    ASSUME RInv, SInv', Orderly(setup), NEW t \in Token, NEW n, RegisterKeyed(t, n)
    PROVE  RInv'
<1> DEFINE u == setup
           k == KeyOf(t)
           i == catalog.type_keys[k]
           r == catalog.records[i]
<1>1. UNCHANGED <<slots, jobs, setup, catalog, storages, groups, saved, failed>>
  BY DEF RegisterKeyed, Elsewhere, storeVars, vars
<1>2. k \in DOMAIN catalog.type_keys /\ Finish(t, r.entity, r.name)
  BY DEF RegisterKeyed
<1>3. i \in DOMAIN catalog.records /\ Belongs(r, k, u)
  BY <1>2, KeyedBelongs DEF RInv
<1>4. r \in RecordType(u) /\ r.entity.index = i
  BY <1>3 DEF RInv, CatOK, RecordsOK
<1>5. r.entity \in Entity /\ r.name \in KnownAs(u, k)
  BY <1>3, <1>4 DEF RecordType, Belongs
<1>6. RecordsOK(catalog.records, catalog.names, u)
  BY DEF RInv, CatOK
<1>7. BindOK(bindings', catalog.records, storages, u) /\ RecordedOK(recorded', u)
  BY <1>2, <1>3, <1>4, <1>5, <1>6, FinishOK DEF RInv, SInv
<1> QED
  BY <1>1, <1>7, RInvStay

(* A component on the index create() hands out.                            *)
LEMMA RInvRecord ==
    ASSUME RInv, Create, NEW n, NEW k, NEW info, catalog' = WithRecord(n, k, info),
           n \notin DOMAIN catalog.names,
           \/ /\ k = None /\ n \in RuntimeNames(setup)
              /\ info \in {pair[2] : pair \in setup.runtime}
           \/ /\ k \in TypeKey /\ k \notin DOMAIN catalog.type_keys
              /\ n \in KnownAs(setup, k) /\ info = InfoOf(k)
    PROVE  /\ NextHandle \in Entity /\ NextHandle.index \notin DOMAIN catalog.records
           /\ CatOK(catalog', setup)
           /\ DOMAIN catalog'.records = DOMAIN catalog.records \cup {NextHandle.index}
           /\ \A j \in DOMAIN catalog.records : catalog'.records[j] = catalog.records[j]
           /\ catalog'.records[NextHandle.index].entity = NextHandle
           /\ k # None => Belongs(catalog'.records[NextHandle.index], k, setup)
           /\ BindOK(bindings, catalog'.records, storages, setup)
           /\ Seated(catalog'.records, slots', jobs)
           /\ OwnersOK(storages, groups, catalog'.records, failed)
<1> DEFINE h == NextHandle
<1>1. StoreOK' /\ Made(h) /\ StoreOK
  BY CreateStore DEF RInv, SInv
<1>2. h \in Entity /\ h.index \notin DOMAIN catalog.records
  <2>1. \A i \in DOMAIN catalog.records : i \in Holding
    BY <1>1, HoldingIsAlive DEF RInv, Seated
  <2> QED
    BY <1>1, <2>1 DEF Made
<1>3. /\ CatOK(catalog', setup)
      /\ DOMAIN catalog'.records = DOMAIN catalog.records \cup {h.index}
      /\ \A j \in DOMAIN catalog.records : catalog'.records[j] = catalog.records[j]
      /\ catalog'.records[h.index].entity = h
      /\ k # None => Belongs(catalog'.records[h.index], k, setup)
  BY <1>2, WithRecordOK DEF RInv
<1> HIDE DEF h
<1>4. BindOK(bindings, catalog'.records, storages, setup)
  BY <1>3, BindingsStay DEF RInv
<1>5. Seated(catalog'.records, slots', jobs)
  BY <1>1, <1>3, SeatedCreate DEF RInv
<1>6. OwnersOK(storages, groups, catalog'.records, failed)
  BY <1>3 DEF RInv, OwnersOK
<1> QED
  BY <1>2, <1>3, <1>4, <1>5, <1>6 DEF h

LEMMA RInvNew ==
    ASSUME RInv, SInv', Orderly(setup), NEW t \in Token, NEW n \in setup.names[t],
           RegisterNew(t, n)
    PROVE  RInv'
<1> DEFINE u == setup
           k == KeyOf(t)
           h == NextHandle
<1>1. n \in KnownAs(u, k) /\ k \in TypeKey
  BY NameKnown DEF RInv
<1>2. k # None
  BY <1>1, KeyIsNoNone
<1>3. /\ n \notin DOMAIN catalog.names /\ k \notin DOMAIN catalog.type_keys
      /\ Create /\ catalog' = WithRecord(n, k, InfoOf(k)) /\ Finish(t, h, n)
      /\ UNCHANGED <<setup, storages, groups, jobs, saved, failed>>
  BY DEF RegisterNew, Elsewhere
<1>4. /\ h \in Entity /\ CatOK(catalog', u)
      /\ DOMAIN catalog'.records = DOMAIN catalog.records \cup {h.index}
      /\ catalog'.records[h.index].entity = h
      /\ Belongs(catalog'.records[h.index], k, u)
      /\ BindOK(bindings, catalog'.records, storages, u)
      /\ Seated(catalog'.records, slots', jobs)
      /\ OwnersOK(storages, groups, catalog'.records, failed)
  BY <1>1, <1>2, <1>3, RInvRecord
<1> HIDE DEF h, k, u
<1>5. RecordsOK(catalog'.records, catalog'.names, u)
  BY <1>4 DEF CatOK
<1>6. BindOK(bindings', catalog'.records, storages, u) /\ RecordedOK(recorded', u)
  <2>1. StoragesOK /\ RecordedOK(recorded, u) /\ Orderly(u)
    BY DEF RInv, SInv, u
  <2>2. h.index \in DOMAIN catalog'.records
    BY <1>4
  <2> QED
    BY <1>1, <1>3, <1>4, <1>5, <2>1, <2>2, FinishOK DEF k
<1>7. SavedOK'
  BY <1>3, SavedStays DEF RInv
<1> QED
  BY <1>3, <1>4, <1>6, <1>7 DEF RInv, u

LEMMA RInvRuntime ==
    ASSUME RInv, SInv', NEW pair \in setup.runtime, RegisterRuntime(pair[1], pair[2])
    PROVE  RInv'
<1>1. /\ pair[1] \notin DOMAIN catalog.names
      /\ Create /\ catalog' = WithRecord(pair[1], None, pair[2])
      /\ UNCHANGED <<bindings, recorded, setup, storages, groups, jobs, saved, failed>>
  BY DEF RegisterRuntime, Elsewhere
<1>2. pair[1] \in RuntimeNames(setup) /\ pair[2] \in {x[2] : x \in setup.runtime}
  BY DEF RuntimeNames
<1>3. /\ CatOK(catalog', setup)
      /\ BindOK(bindings, catalog'.records, storages, setup)
      /\ Seated(catalog'.records, slots', jobs)
      /\ OwnersOK(storages, groups, catalog'.records, failed)
  BY <1>1, <1>2, RInvRecord
<1>4. SavedOK'
  BY <1>1, SavedStays DEF RInv
<1> QED
  BY <1>1, <1>3, <1>4 DEF RInv

LEMMA RInvCreate ==
    ASSUME RInv, SInv', Create, jobs \subseteq jobs',
           UNCHANGED <<setup, catalog, bindings, recorded, storages, groups, saved, failed>>
    PROVE  RInv'
<1>1. StoreOK' /\ Made(NextHandle) /\ StoreOK
  BY CreateStore DEF RInv, SInv
<1>2. NextHandle.index \notin DOMAIN catalog.records
  BY <1>1, HoldingIsAlive DEF RInv, Seated, Made
<1>3. Seated(catalog.records, slots', jobs')
  BY <1>1, <1>2, SeatedCreate DEF RInv
<1>4. SavedOK'
  BY SavedStays DEF RInv
<1> QED
  BY <1>3, <1>4 DEF RInv

-----------------------------------------------------------------------------
(* destroy, add and declare_owned_group *)

LEMMA RInvDestroyUser ==
    ASSUME RInv, SInv', NEW h \in LiveHandles, h \notin jobs, DestroyUser(h)
    PROVE  RInv'
<1>1. h \in Entity /\ Alive(h) /\ StoreOK
  BY LiveEntities DEF RInv, SInv
<1>2. h.index \notin DOMAIN catalog.records
  BY <1>1, SeatTaken DEF RInv, CatOK, DestroyUser
<1>3. /\ storages' = [c \in DOMAIN storages |-> [storages[c] EXCEPT !.entities = @ \ {h.index}]]
      /\ Retire(h)
      /\ UNCHANGED <<setup, catalog, bindings, recorded, groups, jobs, saved, failed>>
  BY DEF DestroyUser
<1>4. Seated(catalog.records, slots', jobs)
  BY <1>1, <1>2, <1>3, SeatedRetire DEF RInv
<1>5. DOMAIN storages' = DOMAIN storages /\ \A i : ObjectOf(storages', i) = ObjectOf(storages, i)
  <2>1. DOMAIN storages' = DOMAIN storages
    BY <1>3
  <2>2. ASSUME NEW i \in DOMAIN storages PROVE storages'[i].object = storages[i].object
    <3>1. storages[i] \in [object : ObjectId, entities : SUBSET Index]
      BY DEF RInv, SInv, StoragesOK
    <3> QED
      BY <1>3, <3>1
  <2> QED
    BY <2>1, <2>2 DEF ObjectOf
<1>6. BindOK(bindings, catalog.records, storages', setup)
  BY <1>5, BindingsStay DEF RInv
<1>7. OwnersOK(storages', groups, catalog.records, failed)
  BY <1>5 DEF RInv, OwnersOK
<1>8. SavedOK'
  BY <1>3, SavedStays DEF RInv
<1> QED
  BY <1>3, <1>4, <1>6, <1>7, <1>8 DEF RInv

LEMMA RInvDestroyComponent ==
    ASSUME RInv, SInv', NEW c \in LiveHandles, DestroyComponent(c)
    PROVE  /\ RInv' /\ c \in Entity /\ Registered(c)
           /\ DOMAIN catalog'.records = DOMAIN catalog.records \ {c.index}
           /\ \A j \in DOMAIN catalog'.records : catalog'.records[j] = catalog.records[j]
           /\ DOMAIN storages' = DOMAIN storages \ {c.index}
           /\ \A j : j # c.index => ObjectOf(storages', j) = ObjectOf(storages, j)
           /\ \A k : KnownComponent(bindings, k) \notin {None, c}
                        => KnownComponent(bindings, k)' # None
<1> DEFINE r == catalog.records[c.index]
<1>1. /\ c \in Entity /\ Alive(c) /\ StoreOK /\ Registered(c)
      /\ c.index \in DOMAIN catalog.records /\ r.entity = c
  BY LiveEntities DEF RInv, SInv, DestroyComponent, Registered
<1>2. /\ Retire(c)
      /\ catalog' = [records |-> Without(catalog.records, {c.index}),
                     names |-> Without(catalog.names, {r.name}),
                     type_keys |-> Without(catalog.type_keys, {r.key})]
      /\ groups' = {g \in groups : c.index \notin g}
      /\ storages' = [i \in DOMAIN storages \ {c.index} |->
                         [storages[i] EXCEPT !.entities = @ \ {c.index}]]
      /\ bindings' = Released(bindings, c)
      /\ UNCHANGED <<setup, recorded, jobs, saved, failed>>
  BY DEF DestroyComponent
<1>3. /\ CatOK(catalog', setup) /\ DOMAIN catalog'.records = DOMAIN catalog.records \ {c.index}
      /\ \A j \in DOMAIN catalog'.records : catalog'.records[j] = catalog.records[j]
      /\ DOMAIN catalog'.type_keys = DOMAIN catalog.type_keys \ {r.key}
      /\ \A k \in DOMAIN catalog'.type_keys : catalog'.type_keys[k] = catalog.type_keys[k]
  <2>1. CatOK(catalog, setup) /\ c.index \in DOMAIN catalog.records
    BY <1>1 DEF RInv
  <2>2. catalog' = [records |-> Without(catalog.records, {c.index}),
                    names |-> Without(catalog.names, {catalog.records[c.index].name}),
                    type_keys |-> Without(catalog.type_keys, {catalog.records[c.index].key})]
    BY <1>2
  <2> QED
    <3>1. CatOK(catalog', setup)
      BY <2>1, <2>2, WithoutRecordOK
    <3>2. /\ catalog'.records = Without(catalog.records, {c.index})
          /\ catalog'.type_keys = Without(catalog.type_keys, {catalog.records[c.index].key})
      BY <2>2
    <3>3. /\ DOMAIN catalog'.records = DOMAIN catalog.records \ {c.index}
          /\ \A j \in DOMAIN catalog'.records : catalog'.records[j] = catalog.records[j]
      BY <3>2 DEF Without
    <3>4. DOMAIN catalog'.type_keys = DOMAIN catalog.type_keys \ {catalog.records[c.index].key}
      BY <3>2 DEF Without
    <3>5. \A k \in DOMAIN catalog'.type_keys : catalog'.type_keys[k] = catalog.type_keys[k]
      BY <3>2 DEF Without
    <3> QED
      BY <3>1, <3>3, <3>4, <3>5
<1>4. Seated(catalog'.records, slots', jobs)
  BY <1>1, <1>2, <1>3, SeatedRetire DEF RInv
<1>5. /\ DOMAIN storages' = DOMAIN storages \ {c.index}
      /\ \A i : i # c.index => ObjectOf(storages', i) = ObjectOf(storages, i)
  <2>1. DOMAIN storages' = DOMAIN storages \ {c.index}
    BY <1>2
  <2>2. ASSUME NEW i \in DOMAIN storages' PROVE storages'[i].object = storages[i].object
    <3>1. storages[i] \in [object : ObjectId, entities : SUBSET Index]
      BY <2>1 DEF RInv, SInv, StoragesOK
    <3> QED
      BY <1>2, <2>1, <3>1
  <2> QED
    BY <2>1, <2>2 DEF ObjectOf
<1> HIDE DEF r
<1>6. /\ BindOK(bindings', catalog'.records, storages', setup)
      /\ \A k \in DOMAIN bindings.keys :
            bindings.list[bindings.keys[k]].component # c => k \in DOMAIN bindings'.keys
  <2>1. catalog.records[c.index].entity = c
    BY <1>1 DEF r
  <2>2. BindOK(bindings, catalog.records, storages, setup)
    BY DEF RInv
  <2>3. c \in Entity /\ c.index \in DOMAIN catalog.records
    BY <1>1
  <2> PICK rt, st : rt = catalog'.records /\ st = storages'
    OBVIOUS
  <2>4. DOMAIN rt = DOMAIN catalog.records \ {c.index}
        /\ \A j \in DOMAIN rt : rt[j] = catalog.records[j]
    BY <1>3
  <2>5. \A j : j # c.index => ObjectOf(st, j) = ObjectOf(storages, j)
    BY <1>5
  <2>6. BindOK(Released(bindings, c), rt, st, setup)
    BY <2>1, <2>2, <2>3, <2>4, <2>5, ReleasedOK
  <2>7. \A k \in DOMAIN bindings.keys : bindings.list[bindings.keys[k]].component # c
                                             => k \in DOMAIN Released(bindings, c).keys
    BY <2>2, <2>3, ReleasedKeys
  <2> QED
    BY <1>2, <2>6, <2>7
<1>7. OwnersOK(storages', groups', catalog'.records, failed)
  BY <1>2, <1>3, <1>5 DEF RInv, OwnersOK
<1>8. SavedOK'
  BY <1>2, SavedStays DEF RInv
<1>9. RInv'
  BY <1>2, <1>3, <1>4, <1>6, <1>7, <1>8 DEF RInv
<1>10. ASSUME NEW k, KnownComponent(bindings, k) \notin {None, c}
       PROVE  KnownComponent(bindings, k)' # None
  <2>1. \A x \in DOMAIN bindings'.keys : bindings'.list[bindings'.keys[x]].component # None
    BY <1>6 DEF BindOK
  <2>2. CASE k \in DOMAIN bindings.keys
    BY <2>1, <2>2, <1>6, <1>10 DEF KnownComponent
  <2>3. CASE k \in DOMAIN bindings'.keys
    BY <2>1, <2>3 DEF KnownComponent
  <2>4. CASE k \notin DOMAIN bindings.keys /\ k \notin DOMAIN bindings'.keys
    <3> DEFINE i == catalog.type_keys[k]
    <3>1. k \in DOMAIN catalog.type_keys /\ catalog.records[i].entity # c
      BY <2>4, <1>10 DEF KnownComponent
    <3>2. i \in DOMAIN catalog.records /\ catalog.records[i].key = k /\ k # None
      BY <3>1, KeyIsNoNone DEF RInv, CatOK, KeysOK
    <3>3. i # c.index
      BY <3>1, <1>1 DEF r
    <3>4. r.key # k
      BY <3>2, <3>3, <1>1 DEF RInv, CatOK, RecordsOK, r
    <3>5. k \in DOMAIN catalog'.type_keys /\ catalog'.type_keys[k] = i
          /\ catalog'.records[i].entity = catalog.records[i].entity
      BY <3>1, <3>2, <3>3, <3>4, <1>3
    <3>6. catalog.records[i].entity # None
      BY <3>2, NoneAssumption DEF RInv, CatOK, RecordsOK, RecordType, Entity
    <3> QED
      BY <2>4, <3>5, <3>6 DEF KnownComponent
  <2> QED
    BY <2>2, <2>3, <2>4
<1> QED
  BY <1>1, <1>3, <1>5, <1>9, <1>10

LEMMA RegisteredEntity ==
    ASSUME NEW u, CatOK(catalog, u), NEW c, Registered(c)
    PROVE  /\ c \in Entity /\ c.index \in DOMAIN catalog.records
           /\ catalog.records[c.index].entity = c
BY DEF Registered, CatOK, RecordsOK, RecordType

LEMMA RInvStorages ==
    ASSUME RInv, SInv', NEW b, BindOK(b, catalog.records, storages, setup), NEW S,
           \A c \in S : Registered(c) /\ c.index \notin DOMAIN storages,
           bindings' = Rebound(b, S), DOMAIN storages' = DOMAIN WithStorages(S),
           \A i \in DOMAIN storages' : storages'[i].object = WithStorages(S)[i].object,
           failed \/ \A g \in groups' : g \subseteq DOMAIN catalog.records,
           UNCHANGED <<slots, jobs, setup, catalog, recorded, saved, failed>>
    PROVE  /\ RInv' /\ \A k : KnownComponent(bindings, k)' = KnownComponent(b, k)
           /\ DOMAIN storages' = DOMAIN storages \cup {c.index : c \in S}
<1>1. \A c \in S : /\ c \in Entity /\ c.index \in DOMAIN catalog.records
                   /\ catalog.records[c.index].entity = c /\ c.index \notin DOMAIN storages
  BY RegisteredEntity DEF RInv
<1>2. \A i : ObjectOf(storages', i) = ObjectOf(WithStorages(S), i)
  BY DEF ObjectOf
<1>3. stamp \in Nat
  BY DEF RInv, SInv, StoragesOK
<1>4. /\ BindOK(bindings', catalog.records, storages', setup)
      /\ \A k : KnownComponent(Rebound(b, S), k) = KnownComponent(b, k)
  BY <1>1, <1>2, <1>3, ReboundOK
<1>5. DOMAIN storages' = DOMAIN storages \cup {c.index : c \in S}
  BY DEF WithStorages
<1>6. OwnersOK(storages', groups', catalog.records, failed)
  BY <1>1, <1>5 DEF RInv, OwnersOK
<1>7. SavedOK'
  BY SavedStays DEF RInv
<1>8. \A k : KnownComponent(bindings, k)' = KnownComponent(b, k)
  BY <1>4 DEF KnownComponent
<1> QED
  BY <1>4, <1>5, <1>6, <1>7, <1>8 DEF RInv

LEMMA RInvAdd ==
    ASSUME RInv, SInv', NEW t \in Token, NEW h, Add(t, h)
    PROVE  /\ RInv' /\ \A k : KnownComponent(bindings, k)' = KnownComponent(bindings, k)
           /\ DOMAIN storages' \subseteq DOMAIN storages \cup {Resolve(bindings, t).index}
           /\ \A i \in DOMAIN storages : ObjectOf(storages', i) = ObjectOf(storages, i)
<1> DEFINE c == Resolve(bindings, t)
           made == New({c})
           b == Cached(bindings, t)
<1>1. /\ BindOK(b, catalog.records, storages, setup)
      /\ \A k : KnownComponent(b, k) = KnownComponent(bindings, k)
  BY CachedOK DEF RInv, SInv
<1>2. UNCHANGED <<slots, jobs, setup, catalog, recorded, groups, saved, failed>>
  BY DEF Add, storeVars, vars
<1>3. CASE ~Registered(c)
  <2>1. bindings' = b /\ UNCHANGED storages
    BY <1>3 DEF Add
  <2>2. RInv'
    BY <1>1, <1>2, <2>1, RInvStay DEF RInv
  <2> HIDE DEF b
  <2>3. \A k : KnownComponent(bindings, k)' = KnownComponent(bindings, k)
    BY <1>1, <1>2, <2>1 DEF KnownComponent
  <2> QED
    BY <2>1, <2>2, <2>3
<1>4. CASE Registered(c)
  <2>1. /\ bindings' = Rebound(b, made)
        /\ storages' = [WithStorages(made) EXCEPT ![c.index].entities = @ \cup {h.index}]
    BY <1>4 DEF Add
  <2>2. \A x \in made : x = c /\ Registered(x) /\ x.index \notin DOMAIN storages
    BY <1>4 DEF New
  <2>3. /\ DOMAIN WithStorages(made) = DOMAIN storages \cup {x.index : x \in made}
        /\ WithStorages(made) \in [DOMAIN WithStorages(made) ->
                                      [object : ObjectId, entities : SUBSET Index]]
        /\ \A i \in DOMAIN storages : WithStorages(made)[i] = storages[i]
    <3>1. \A x \in made : x.index \in Index
      BY <2>2, RegisteredEntity DEF RInv, Entity
    <3>2. \A i \in DOMAIN storages : WithStorages(made)[i] = storages[i]
      BY DEF WithStorages
    <3> QED
      BY <3>1, <3>2, WithStoragesOK DEF RInv, SInv
  <2> HIDE DEF b, made, c
  <2>4. DOMAIN storages' = DOMAIN WithStorages(made)
    BY <2>1
  <2>5. ASSUME NEW i \in DOMAIN storages'
        PROVE  storages'[i].object = WithStorages(made)[i].object
    <3>1. WithStorages(made)[i] \in [object : ObjectId, entities : SUBSET Index]
      BY <2>3, <2>4
    <3> QED
      BY <2>1, <2>4, <3>1
  <2>6. failed \/ \A g \in groups' : g \subseteq DOMAIN catalog.records
    BY <1>2 DEF RInv, OwnersOK
  <2>7. RInv' /\ \A k : KnownComponent(bindings, k)' = KnownComponent(b, k)
    BY <1>1, <1>2, <2>1, <2>2, <2>4, <2>5, <2>6, RInvStorages
  <2>8. \A i \in DOMAIN storages : ObjectOf(storages', i) = ObjectOf(storages, i)
    BY <2>3, <2>4, <2>5 DEF ObjectOf
  <2>9. DOMAIN storages' \subseteq DOMAIN storages \cup {c.index}
    BY <2>2, <2>3, <2>4
  <2> QED
    BY <1>1, <2>7, <2>8, <2>9 DEF c
<1> QED
  BY <1>3, <1>4

LEMMA ReachedTokens ==
    ASSUME NEW ts \in Seq(Token)
    PROVE  Reached(ts) \in Seq(Token)
<1> DEFINE fails == {n \in DOMAIN ts : \/ Resolve(bindings, ts[n]) = None
                                       \/ ~Registered(Resolve(bindings, ts[n]))}
           T == fails \cup {Len(ts)}
<1>1. Len(ts) \in Nat /\ DOMAIN ts = 1 .. Len(ts)
  OBVIOUS
<1>2. T \in SUBSET Nat /\ T # {} /\ \A n \in T : n <= Len(ts)
  BY <1>1
<1>3. Reached(ts) = SubSeq(ts, 1, Least(T))
  BY DEF Reached
<1> HIDE DEF T
<1>4. Least(T) \in Nat /\ Least(T) <= Len(ts)
  BY <1>2, LeastIs
<1> QED
  BY <1>3, <1>4

LEMMA KeyBelongs ==
    ASSUME RInv, NEW ts \in Seq(Token), Known(ts)
    PROVE  Key(ts) \subseteq DOMAIN catalog.records
<1>1. \A n \in DOMAIN ts : ts[n] \in Token /\ Resolve(bindings, ts[n]) # None
  BY DEF Known
<1> QED
  BY <1>1, ResolveBelongs DEF Key, RInv

LEMMA RInvDeclareGroup ==
    ASSUME RInv, SInv', NEW ts \in Seq(Token), DeclareGroup(ts)
    PROVE  RInv' /\ \A k : KnownComponent(bindings, k)' = KnownComponent(bindings, k)
<1> DEFINE some == {Resolve(bindings, Reached(ts)[n]) : n \in DOMAIN Reached(ts)} \ {None}
           made == New({c \in some : Registered(c)})
           b == CachedAll(Reached(ts))
<1>1. /\ bindings' = Rebound(b, made) /\ storages' = WithStorages(made)
      /\ groups' = groups \/ (Known(ts) /\ groups' = groups \cup {Key(ts)})
      /\ UNCHANGED <<slots, jobs, setup, catalog, recorded, saved, failed>>
  BY DEF DeclareGroup, storeVars, vars
<1>2. \A c \in made : Registered(c) /\ c.index \notin DOMAIN storages
  BY DEF New
<1>3. /\ BindOK(b, catalog.records, storages, setup)
      /\ \A k : KnownComponent(b, k) = KnownComponent(bindings, k)
  BY ReachedTokens, CachedAllOK DEF RInv, SInv
<1>4. failed \/ \A g \in groups' : g \subseteq DOMAIN catalog.records
  BY <1>1, KeyBelongs DEF RInv, OwnersOK
<1> HIDE DEF b, made
<1>5. RInv' /\ \A k : KnownComponent(bindings, k)' = KnownComponent(b, k)
  BY <1>1, <1>2, <1>3, <1>4, RInvStorages
<1> QED
  BY <1>3, <1>5

-----------------------------------------------------------------------------
(* Snapshots. *)

LEMMA RInvSnapshot ==
    ASSUME RInv, SInv', Snapshot
    PROVE  RInv'
<1> DEFINE cells == [p \in DOMAIN slots |-> IF p - 1 \in Excluded THEN Blank ELSE slots[p]]
<1>1. /\ saved'.slots = Relinked(cells) /\ saved'.records = catalog.records
      /\ saved'.names = catalog.names /\ saved'.groups = groups
      /\ DOMAIN saved'.entities = DOMAIN storages
      /\ UNCHANGED <<slots, jobs, setup, catalog, bindings, recorded, storages, groups, failed>>
  BY DEF Snapshot, storeVars, vars
<1>2. Seated(catalog.records, Relinked(cells), jobs)
  BY SeatedSnapshot DEF RInv
<1> HIDE DEF cells
<1>3. SavedOK'
  BY <1>1, <1>2 DEF RInv, CatOK, OwnersOK, SavedOK
<1> QED
  BY <1>1, <1>3 DEF RInv

LEMMA KeyIndexOK ==
    ASSUME NEW u, NEW rs, NEW ns, RecordsOK(rs, ns, u),
           NEW key_index \in [Keys(rs) -> DOMAIN rs],
           \A k \in DOMAIN key_index : rs[key_index[k]].key = k
    PROVE  KeysOK(rs, key_index)
<1>1. \A i \in DOMAIN rs : rs[i].key \in TypeKey \cup {None}
  BY DEF RecordsOK, RecordType
<1> QED
  BY <1>1 DEF KeysOK, Keys

LEMMA RInvRestore ==
    ASSUME RInv, SInv', Orderly(setup), Restore
    PROVE  RInv'
<1>1. /\ saved # None /\ ~failed /\ UNCHANGED <<setup, recorded, jobs, saved>>
      /\ failed' \/ groups' = saved.groups
      /\ bindings' = Rebinding(catalog', storages')
      /\ storages' = [i \in DOMAIN saved.entities |->
                         [object |-> <<stamp + 1, i>>, entities |-> saved.entities[i]]]
  <2>1. failed' \/ groups' = saved.groups
    BY DEF Restore
  <2> QED
    BY <2>1 DEF Restore
<1>2. /\ RecordsOK(saved.records, saved.names, setup)
      /\ Seated(saved.records, saved.slots, jobs)
      /\ OwnersOK(saved.entities, saved.groups, saved.records, failed)
      /\ DOMAIN saved.entities \subseteq Index /\ stamp \in Nat
  BY <1>1 DEF RInv, SavedOK, SInv, SavedSlotsOK, StoragesOK
<1>3. CatOK(catalog', setup) /\ catalog'.records = saved.records
  <2>1. PICK key_index \in [Keys(saved.records) -> DOMAIN saved.records] :
           /\ \A k \in DOMAIN key_index : saved.records[key_index[k]].key = k
           /\ catalog' = [records |-> saved.records, names |-> saved.names,
                          type_keys |-> key_index]
    BY DEF Restore
  <2>2. KeysOK(saved.records, key_index)
    BY <1>2, <2>1, KeyIndexOK
  <2>3. /\ catalog'.records = saved.records /\ catalog'.names = saved.names
        /\ catalog'.type_keys = key_index
        /\ catalog' = [records |-> catalog'.records, names |-> catalog'.names,
                       type_keys |-> catalog'.type_keys]
    BY <2>1
  <2> QED
    BY <1>2, <2>2, <2>3 DEF CatOK
<1>4. Seated(catalog'.records, slots', jobs)
  BY <1>2, <1>3, SeatedRestore DEF RInv
<1>5. BindOK(bindings', catalog'.records, storages', setup)
  <2>1. \A i \in DOMAIN storages' : storages'[i].object \in ObjectId
    BY <1>1, <1>2 DEF ObjectId, Index
  <2> QED
    BY <1>1, <1>3, <2>1, RebindingOK DEF RInv
<1>6. OwnersOK(storages', groups', catalog'.records, failed')
  BY <1>1, <1>2, <1>3 DEF OwnersOK
<1>7. SavedOK'
  BY <1>1, SavedStays DEF RInv
<1> QED
  BY <1>1, <1>3, <1>4, <1>5, <1>6, <1>7 DEF RInv

-----------------------------------------------------------------------------
LEMMA ViewTypesNext == ViewTypes /\ [CatalogNext]_allVars => ViewTypes'
<1> SUFFICES ASSUME ViewTypes, [CatalogNext]_allVars PROVE ViewTypes'
  OBVIOUS
<1> USE DEF ViewTypes
<1>1. CASE UNCHANGED <<setup, view>>
  BY <1>1
<1>2. CASE MakeView(setup.types)
  BY <1>2 DEF MakeView, Resolved
<1>3. CASE UseView
  BY <1>3 DEF UseView, Resolved
<1>4. CASE CatalogNext /\ ~MakeView(setup.types) /\ ~UseView
  <2> USE DEF Elsewhere, allVars, catalogVars
  <2>1. ASSUME NEW t, NEW n, Register(t, n) PROVE UNCHANGED <<setup, view>>
    BY <2>1 DEF Register, RegisterAgain, RegisterNamed, RegisterKeyed, RegisterNew
  <2>2. ASSUME NEW h, NEW t, Add(t, h) PROVE UNCHANGED <<setup, view>>
    BY <2>2 DEF Add
  <2>3. ASSUME NEW h, DestroyUser(h) \/ DestroyComponent(h) PROVE UNCHANGED <<setup, view>>
    BY <2>3 DEF DestroyUser, DestroyComponent
  <2>4. ASSUME NEW ts, DeclareGroup(ts) PROVE UNCHANGED <<setup, view>>
    BY <2>4 DEF DeclareGroup
  <2>5. CASE Snapshot
    BY <2>5, <1>1 DEF Snapshot
  <2>6. CASE Restore
    BY <2>6, <1>1 DEF Restore
  <2>7. ASSUME NEW t, NEW n, RegisterRuntime(t, n) \/ RegisterElsewhere(t, n) \/ Lookup(t)
        PROVE  UNCHANGED <<setup, view>>
    BY <2>7 DEF RegisterRuntime, RegisterElsewhere, Lookup
  <2>8. CASE CreateUser \/ AddJob \/ Defer
    BY <2>8, <1>1 DEF CreateUser, AddJob, Defer
  <2> QED
    BY <1>1, <1>4, <2>1, <2>2, <2>3, <2>4, <2>5, <2>6, <2>7, <2>8 DEF CatalogNext
<1> QED
  BY <1>1, <1>2, <1>3, <1>4 DEF allVars, catalogVars

LEMMA RInvInit == CatalogInit => RInv /\ ViewTypes
<1> SUFFICES ASSUME CatalogInit PROVE RInv /\ ViewTypes
  OBVIOUS
<1>1. DOMAIN <<>> = {} /\ \A S : <<>> \in [{} -> S] /\ <<>> \in Seq(S)
  OBVIOUS
<1>2. CatOK(catalog, setup)
  BY <1>1 DEF CatalogInit, CatOK, RecordsOK, KeysOK
<1>3. Seated(catalog.records, slots, jobs)
  BY <1>1 DEF CatalogInit, Seated
<1>4. BindOK(bindings, catalog.records, storages, setup)
  BY NoBindingsOK DEF CatalogInit
<1>5. RecordedOK(recorded, setup)
  BY <1>1 DEF CatalogInit, RecordedOK
<1>6. OwnersOK(storages, groups, catalog.records, failed) /\ SavedOK
  BY <1>1 DEF CatalogInit, OwnersOK, SavedOK
<1> QED
  BY <1>2, <1>3, <1>4, <1>5, <1>6, SInvInit DEF RInv, CatalogInit, ViewTypes

LEMMA RInvNext ==
    ASSUME \A u \in Setups : Orderly(u)
    PROVE  RInv /\ ViewTypes /\ [CatalogNext]_allVars => RInv'
<1> SUFFICES ASSUME RInv, ViewTypes, [CatalogNext]_allVars PROVE RInv'
  OBVIOUS
<1>0. SInv' /\ Orderly(setup) /\ setup \in Setups
  BY SInvNext DEF RInv
<1> USE DEF Elsewhere, storeVars, vars
<1>1. ASSUME NEW t \in Token, Lookup(t) PROVE RInv'
  <2>1. BindOK(bindings', catalog.records, storages, setup)
    BY <1>1, CachedOK DEF Lookup, RInv, SInv
  <2> QED
    BY <1>0, <1>1, <2>1, RInvStay DEF Lookup, RInv
<1>2. ASSUME NEW t \in Token, NEW n \in setup.names[t], Register(t, n) PROVE RInv'
  <2>1. CASE RegisterAgain(t)
    BY <1>0, <2>1, RInvStay DEF RegisterAgain, RInv, allVars, catalogVars
  <2>2. CASE RegisterNamed(t, n)
    BY <1>0, <2>2, RInvNamed
  <2>3. CASE RegisterKeyed(t, n)
    BY <1>0, <2>3, RInvKeyed
  <2>4. CASE RegisterNew(t, n)
    BY <1>0, <2>4, RInvNew
  <2> QED
    BY <1>2, <2>1, <2>2, <2>3, <2>4 DEF Register
<1>3. ASSUME NEW pair \in setup.runtime, RegisterRuntime(pair[1], pair[2]) PROVE RInv'
  BY <1>0, <1>3, RInvRuntime
<1>4. ASSUME NEW pair \in setup.elsewhere, RegisterElsewhere(pair[1], pair[2]) PROVE RInv'
  <2>1. pair[1] \in Token /\ pair[2] \in KnownAs(setup, KeyOf(pair[1]))
    BY <1>0, SetupAssumption DEF KnownAs
  <2>2. RecordedOK(recorded', setup)
    BY <1>4, <2>1, RecordedKept DEF RegisterElsewhere, RInv
  <2> QED
    BY <1>0, <1>4, <2>2, RInvStay DEF RegisterElsewhere, RInv
<1>5. CASE CreateUser
  BY <1>0, <1>5, RInvCreate DEF CreateUser
<1>6. CASE AddJob
  BY <1>0, <1>6, RInvCreate DEF AddJob
<1>7. ASSUME NEW h, NEW t \in Token, Add(t, h) PROVE RInv'
  BY <1>0, <1>7, RInvAdd
<1>8. ASSUME NEW h \in LiveHandles, h \notin jobs, DestroyUser(h) PROVE RInv'
  BY <1>0, <1>8, RInvDestroyUser
<1>9. ASSUME NEW h \in LiveHandles, DestroyComponent(h) PROVE RInv'
  BY <1>0, <1>9, RInvDestroyComponent
<1>10. ASSUME NEW ts \in setup.owned, DeclareGroup(ts) PROVE RInv'
  <2>1. ts \in Seq(Token)
    BY <1>0, SetupAssumption
  <2> QED
    BY <1>0, <1>10, <2>1, RInvDeclareGroup
<1>11. CASE Defer
  BY <1>0, <1>11, RInvStay DEF Defer, RInv
<1>12. CASE MakeView(setup.types)
  <2>1. setup.types \in Seq(Token)
    BY <1>0, SetupAssumption
  <2>2. BindOK(bindings', catalog.records, storages, setup)
    BY <1>12, <2>1, CachedAllOK DEF MakeView, RInv, SInv
  <2> QED
    BY <1>0, <1>12, <2>2, RInvStay DEF MakeView, RInv
<1>13. CASE UseView
  <2>1. CASE view.token = topology
    BY <1>0, <1>13, <2>1, RInvStay DEF UseView, RInv
  <2>2. CASE view.token # topology
    <3>1. bindings' = CachedAll(view.types)
      BY <1>13, <2>2 DEF UseView
    <3>2. view.types \in Seq(Token)
      BY <1>0, <1>13, SetupAssumption DEF UseView, ViewTypes
    <3>3. BindOK(bindings', catalog.records, storages, setup)
      BY <3>1, <3>2, CachedAllOK DEF RInv, SInv
    <3> QED
      BY <1>0, <1>13, <3>3, RInvStay DEF UseView, RInv
  <2> QED
    BY <2>1, <2>2
<1>14. CASE Snapshot
  BY <1>0, <1>14, RInvSnapshot
<1>15. CASE Restore
  BY <1>0, <1>15, RInvRestore
<1>16. CASE UNCHANGED allVars
  BY <1>0, <1>16, RInvStay DEF allVars, catalogVars, RInv
<1> QED
  BY <1>1, <1>2, <1>3, <1>4, <1>5, <1>6, <1>7, <1>8, <1>9, <1>10, <1>11, <1>12, <1>13,
     <1>14, <1>15, <1>16 DEF CatalogNext

LEMMA RInvHolds ==
    ASSUME \A u \in Setups : Orderly(u)
    PROVE  CatalogSpec => [](RInv /\ ViewTypes)
<1>1. RInv /\ ViewTypes /\ [CatalogNext]_allVars => (RInv /\ ViewTypes)'
  BY RInvNext, ViewTypesNext
<1> QED
  BY <1>1, RInvInit, PTL DEF CatalogSpec

(* Names, keys and records agree, and a component's entity is alive where  *)
(* its record is.                                                          *)
THEOREM CatalogsAgree ==
    ASSUME \A u \in Setups : Orderly(u)
    PROVE  CatalogSpec => []CatalogAgrees
<1>1. RInv => CatalogAgrees
  <2> SUFFICES ASSUME RInv PROVE CatalogAgrees
    OBVIOUS
  <2> DEFINE rs == catalog.records
  <2>1. /\ \A n \in DOMAIN catalog.names : /\ catalog.names[n] \in DOMAIN rs
                                           /\ rs[catalog.names[n]].name = n
        /\ \A k \in DOMAIN catalog.type_keys : /\ catalog.type_keys[k] \in DOMAIN rs
                                               /\ rs[catalog.type_keys[k]].key = k
        /\ \A i \in DOMAIN rs : rs[i].key # None => rs[i].key \in DOMAIN catalog.type_keys
    BY DEF RInv, CatOK, RecordsOK, KeysOK
  <2>2. ASSUME NEW i \in DOMAIN rs
        PROVE  /\ rs[i].name \in DOMAIN catalog.names /\ rs[i].entity.index = i
               /\ Alive(rs[i].entity) \/ TakenByJob(i)
    <3>1. /\ rs[i].name \in DOMAIN catalog.names /\ rs[i].entity.index = i
          /\ rs[i] \in RecordType(setup)
      BY DEF RInv, CatOK, RecordsOK
    <3>2. rs[i].entity.version # 0
      BY <3>1, VersionAssumption DEF RecordType, Entity, Version
    <3>3. i \in Holding /\ (slots[i + 1].version = rs[i].entity.version \/ TakenByJob(i))
      BY HoldingIsAlive DEF RInv, SInv, Seated, TakenByJob
    <3> QED
      BY <3>1, <3>2, <3>3, AliveMeans
  <2> QED
    BY <2>1, <2>2 DEF CatalogAgrees
<1> QED
  BY <1>1, RInvHolds, PTL

(* A bound type reaches its own component and the storage that is there.   *)
THEOREM BindingsReachComponents ==
    ASSUME \A u \in Setups : Orderly(u)
    PROVE  CatalogSpec => []BindingsAgree
<1>1. RInv => BindingsAgree
  <2> SUFFICES ASSUME RInv, NEW n \in DOMAIN bindings.list, bindings.list[n].component # None
               PROVE  LET b == bindings.list[n]
                      IN /\ b.component.index \in DOMAIN catalog.records
                         /\ catalog.records[b.component.index].entity = b.component
                         /\ catalog.records[b.component.index].key \in {None, b.key}
                         /\ b.key \in DOMAIN catalog.type_keys
                               => catalog.type_keys[b.key] = b.component.index
                         /\ b.storage = Object(b.component.index)
                         /\ b.key \in DOMAIN bindings.keys /\ bindings.keys[b.key] = n
    BY DEF BindingsAgree
  <2> DEFINE b == bindings.list[n]
             i == b.component.index
  <2>1. /\ b.key \in DOMAIN bindings.keys /\ bindings.keys[b.key] = n
        /\ i \in DOMAIN catalog.records /\ catalog.records[i].entity = b.component
        /\ Belongs(catalog.records[i], b.key, setup)
        /\ b.storage = ObjectOf(storages, i)
    BY DEF RInv, BindOK, BindingOK
  <2>2. ASSUME b.key \in DOMAIN catalog.type_keys PROVE catalog.type_keys[b.key] = i
    <3>1. /\ b.key \in TypeKey /\ catalog.type_keys[b.key] \in DOMAIN catalog.records
          /\ Belongs(catalog.records[catalog.type_keys[b.key]], b.key, setup)
      BY <2>2, KeyedBelongs DEF RInv
    <3> QED
      BY <2>1, <3>1, OneRecord DEF RInv, CatOK
  <2>3. b.storage = Object(i) /\ catalog.records[i].key \in {None, b.key}
    BY <2>1 DEF Object, ObjectOf, Belongs
  <2> HIDE DEF i
  <2> QED
    BY <2>1, <2>2, <2>3 DEF i
<1> QED
  BY <1>1, RInvHolds, PTL

-----------------------------------------------------------------------------
(* Views. *)

(* The token has moved on, or a restore has failed.                        *)
LEMMA ViewStale ==
    ASSUME ViewOK, UNCHANGED view, topology' \in Nat,
           topology' > topology \/ (topology' = topology /\ failed')
    PROVE  ViewOK'
BY DEF ViewOK

LEMMA ResolveIsNext ==
    ASSUME RInv', NEW t \in Token
    PROVE  Resolve(bindings, t)' = KnownComponent(bindings, KeyOf(t))'
<1>1. BoundTo(bindings', t) # None =>
         /\ KeyOf(t) \in DOMAIN bindings'.keys
         /\ BoundTo(bindings', t) = bindings'.list[bindings'.keys[KeyOf(t)]].component
  BY BoundToMeans DEF RInv
<1>2. CASE BoundTo(bindings', t) # None
  BY <1>1, <1>2 DEF Resolve, KnownComponent
<1>3. CASE BoundTo(bindings', t) = None
  BY <1>3 DEF Resolve, KnownComponent
<1> QED
  BY <1>2, <1>3

LEMMA ViewTokens ==
    ASSUME RInv, ViewTypes, view # None
    PROVE  /\ view.types \in Seq(Token)
           /\ \A n \in DOMAIN view.types : view.types[n] \in Token
                                           /\ KeyOf(view.types[n]) \in TypeKey
<1>1. view.types \in Seq(Token)
  BY SetupAssumption DEF RInv, ViewTypes
<1> QED
  BY <1>1 DEF TypeKey

(* The home of a type that is known.                                       *)
LEMMA KnownHome ==
    ASSUME RInv, Orderly(setup), NEW t \in Token, Resolve(bindings, t) # None
    PROVE  Home(catalog.records, KeyOf(t), setup) = {Resolve(bindings, t).index}
<1>1. /\ Resolve(bindings, t).index \in DOMAIN catalog.records /\ KeyOf(t) \in TypeKey
      /\ Belongs(catalog.records[Resolve(bindings, t).index], KeyOf(t), setup)
  BY ResolveBelongs DEF RInv
<1>2. RecordsOK(catalog.records, catalog.names, setup)
  BY DEF RInv, CatOK
<1> QED
  BY <1>1, <1>2, OneRecord DEF Home

LEMMA KnownHomes ==
    ASSUME RInv, Orderly(setup), NEW ts \in Seq(Token), Known(ts)
    PROVE  Homes(catalog.records, ts, setup) = Key(ts)
<1>1. \A n \in DOMAIN ts : Home(catalog.records, KeyOf(ts[n]), setup)
                              = {Resolve(bindings, ts[n]).index}
  BY KnownHome DEF Known
<1>2. \A n \in DOMAIN ts : Home(catalog.records, KeyOf(ts[n]), setup) \subseteq DOMAIN catalog.records
  BY DEF Home
<1> QED
  BY <1>1, <1>2 DEF Homes, Key

(* Nothing happens that the view would notice: at most a record is added.  *)
LEMMA ViewSteady ==
    ASSUME RInv, RInv', Orderly(setup), ViewTypes, ViewOK,
           UNCHANGED <<setup, view, topology, groups, deferring, failed, gone>>,
           \A j \in DOMAIN catalog.records :
              /\ j \in DOMAIN catalog'.records
              /\ \A l \in TypeKey : Belongs(catalog'.records[j], l, setup)
                                       <=> Belongs(catalog.records[j], l, setup),
           DOMAIN storages' = DOMAIN storages,
           \A i : ObjectOf(storages', i) = ObjectOf(storages, i),
           \A k : KnownComponent(bindings, k) # None => KnownComponent(bindings, k)' # None
    PROVE  ViewOK'
<1> SUFFICES ASSUME view # None, view.token = topology, ~failed, ViewFresh PROVE ViewFresh'
  BY DEF ViewOK
<1> DEFINE rs == catalog.records
           rt == catalog'.records
           u == setup
           H(k) == Home(rs, k, u)
           G(k) == Home(rt, k, u)
<1>1. \A n \in DOMAIN view.types : view.types[n] \in Token /\ KeyOf(view.types[n]) \in TypeKey
  BY ViewTokens
<1>2. DOMAIN storages \subseteq DOMAIN rs /\ \A g \in groups : g \subseteq DOMAIN rs
  BY DEF RInv, OwnersOK
<1>3. ASSUME NEW k \in TypeKey
      PROVE  H(k) \subseteq G(k) /\ G(k) \cap DOMAIN rs \subseteq H(k) /\ (H(k) # {} => G(k) = H(k))
  <2>1. H(k) \subseteq G(k) /\ G(k) \cap DOMAIN rs \subseteq H(k)
    BY DEF Home
  <2>2. RecordsOK(rt, catalog'.names, u)
    BY DEF RInv, CatOK
  <2>3. \A i, j \in G(k) : i = j
    BY <2>2, OneRecord DEF Home
  <2> QED
    BY <2>1, <2>3
<1>4. ASSUME NEW n \in DOMAIN view.types
      PROVE  /\ Remembered(view.storages[n], G(KeyOf(view.types[n])), storages', gone.storages)
             /\ Unused(view.types[n])'
  <2> PICK t, k, o : t = view.types[n] /\ k = KeyOf(t) /\ o = view.storages[n]
    OBVIOUS
  <2>1. Remembered(o, H(k), storages, gone.storages) /\ Unused(t) /\ t \in Token /\ k \in TypeKey
    BY <1>1 DEF ViewFresh
  <2>2. \A i \in G(k) : i \notin DOMAIN rs => i \notin DOMAIN storages
    BY <1>2
  <2>3. Remembered(o, G(k), storages', gone.storages)
    <3>1. CASE H(k) # {}
      <4>1. G(k) = H(k)
        BY <2>1, <3>1, <1>3
      <4> QED
        BY <4>1, <2>1 DEF Remembered
    <3>2. CASE H(k) = {}
      <4>1. o \in gone.storages \cup {None}
        BY <2>1, <3>2 DEF Remembered
      <4>2. \A i \in G(k) : i \notin DOMAIN storages
        BY <2>1, <2>2, <3>2, <1>3
      <4>3. \A i \in G(k) : ObjectOf(storages', i) = None
        BY <4>2 DEF ObjectOf
      <4> QED
        BY <4>1, <4>3 DEF Remembered
    <3> QED
      BY <3>1, <3>2
  <2>4. ASSUME Resolve(bindings, t)' = None, NEW i \in G(k) PROVE i \notin DOMAIN storages
    <3>1. Resolve(bindings, t)' = KnownComponent(bindings, k)'
      BY <2>1, ResolveIsNext
    <3>2. Resolve(bindings, t) = KnownComponent(bindings, k)
      BY <2>1, ResolveIs DEF RInv
    <3>3. Resolve(bindings, t) = None
      BY <3>1, <3>2, <2>4
    <3>4. \A j \in H(k) : j \notin DOMAIN storages
      BY <2>1, <3>3 DEF Unused
    <3> QED
      BY <3>4, <2>1, <2>2, <1>3
  <2>5. Unused(t)'
    BY <2>1, <2>4 DEF Unused
  <2> QED
    BY <2>3, <2>5
<1>5. view.group \in Best(Homes(catalog.records, view.types, setup))' \cup gone.groups
  <2> DEFINE M == Homes(rs, view.types, u)
             N == Homes(rt, view.types, u)
  <2>1. view.group \in Best(M) \cup gone.groups
    BY DEF ViewFresh
  <2>2. ASSUME NEW g \in groups PROVE g \subseteq M <=> g \subseteq N
    <3>1. \A i \in DOMAIN rs : i \in M <=> i \in N
      BY <1>1, <1>3 DEF Homes
    <3> QED
      BY <3>1, <1>2 DEF Homes
  <2>3. Homes(catalog.records, view.types, setup)' = N
    OBVIOUS
  <2> HIDE DEF M, N
  <2>4. {g \in groups : g \subseteq M} = {g \in groups : g \subseteq N}
    BY <2>2
  <2>5. Best(Homes(catalog.records, view.types, setup))' = Best(M)
    BY <2>3, <2>4 DEF Best
  <2> QED
    BY <2>1, <2>5
<1> QED
  BY <1>4, <1>5 DEF ViewFresh

(* A component goes; its storage and its groups are remembered as gone.    *)
LEMMA ViewDestroyComponent ==
    ASSUME RInv, SInv', Orderly(setup), ViewTypes, ViewOK,
           NEW c \in LiveHandles, DestroyComponent(c)
    PROVE  ViewOK'
<1>1. UNCHANGED <<setup, view, topology, deferring, failed>>
  BY DEF DestroyComponent
<1> SUFFICES ASSUME view # None, view.token = topology, ~failed, ViewFresh PROVE ViewFresh'
  BY <1>1 DEF ViewOK
<1> DEFINE rs == catalog.records
           rt == catalog'.records
           u == setup
           H(k) == Home(rs, k, u)
           G(k) == Home(rt, k, u)
           left == {g \in groups : c.index \notin g}
<1>2. /\ RInv' /\ c \in Entity /\ Registered(c)
      /\ DOMAIN rt = DOMAIN rs \ {c.index} /\ \A j \in DOMAIN rt : rt[j] = rs[j]
      /\ DOMAIN storages' = DOMAIN storages \ {c.index}
      /\ \A j : j # c.index => ObjectOf(storages', j) = ObjectOf(storages, j)
      /\ \A k : KnownComponent(bindings, k) \notin {None, c}
                   => KnownComponent(bindings, k)' # None
  BY RInvDestroyComponent
<1>3. /\ groups' = left
      /\ gone'.storages = gone.storages \cup ({ObjectOf(storages, c.index)} \ {None})
      /\ gone'.groups = gone.groups \cup (groups \ left)
  BY DEF DestroyComponent, Object, ObjectOf
<1>4. \A n \in DOMAIN view.types : view.types[n] \in Token /\ KeyOf(view.types[n]) \in TypeKey
  BY ViewTokens
<1>5. \A k \in TypeKey : G(k) = H(k) \ {c.index}
  BY <1>2 DEF Home
<1>6. ASSUME NEW n \in DOMAIN view.types
      PROVE  /\ Remembered(view.storages[n], G(KeyOf(view.types[n])), storages', gone'.storages)
             /\ Unused(view.types[n])'
  <2> PICK t, k, o : t = view.types[n] /\ k = KeyOf(t) /\ o = view.storages[n]
    OBVIOUS
  <2>1. Remembered(o, H(k), storages, gone.storages) /\ Unused(t) /\ t \in Token /\ k \in TypeKey
    BY <1>4 DEF ViewFresh
  <2>2. G(k) = H(k) \ {c.index}
    BY <2>1, <1>5
  <2>3. Remembered(o, G(k), storages', gone'.storages)
    <3>1. ASSUME G(k) = {} PROVE o \in gone'.storages \cup {None}
      <4>1. CASE H(k) = {}
        BY <4>1, <2>1, <1>3 DEF Remembered
      <4>2. CASE c.index \in H(k)
        <5>1. o \in gone.storages \cup {ObjectOf(storages, c.index)}
          BY <4>2, <2>1 DEF Remembered
        <5> QED
          BY <5>1, <1>3
      <4> QED
        BY <3>1, <4>1, <4>2, <2>2
    <3>2. ASSUME NEW i \in G(k) PROVE o \in gone'.storages \cup {ObjectOf(storages', i)}
      <4>1. i \in H(k) /\ i # c.index
        BY <2>2
      <4>2. o \in gone.storages \cup {ObjectOf(storages, i)}
        BY <4>1, <2>1 DEF Remembered
      <4> QED
        BY <4>1, <4>2, <1>2, <1>3
    <3> QED
      BY <3>1, <3>2 DEF Remembered
  <2>4. ASSUME Resolve(bindings, t)' = None, NEW i \in G(k) PROVE i \notin DOMAIN storages'
    <3>1. Resolve(bindings, t)' = KnownComponent(bindings, k)'
      BY <2>1, <1>2, ResolveIsNext
    <3>2. Resolve(bindings, t) = KnownComponent(bindings, k)
      BY <2>1, ResolveIs DEF RInv
    <3>3. Resolve(bindings, t) \in {None, c}
      BY <3>1, <3>2, <2>4, <1>2
    <3>4. CASE Resolve(bindings, t) = None
      BY <3>4, <2>1, <2>2, <1>2 DEF Unused
    <3>5. CASE Resolve(bindings, t) = c /\ c # None
      <4>1. H(k) = {c.index}
        BY <3>5, <2>1, KnownHome
      <4> QED
        BY <4>1, <2>2
    <3> QED
      BY <3>3, <3>4, <3>5
  <2>5. Unused(t)'
    BY <2>1, <2>4, <1>1 DEF Unused
  <2> QED
    BY <2>3, <2>5, <1>1
<1>7. view.group \in Best(Homes(catalog.records, view.types, setup))' \cup gone'.groups
  <2> DEFINE M == Homes(rs, view.types, u)
             N == Homes(rt, view.types, u)
             g == view.group
  <2>1. g \in Best(M) \cup gone.groups
    BY DEF ViewFresh
  <2>2. N = M \ {c.index}
    <3>1. \A i \in DOMAIN rt : i \in N <=> i \in M
      BY <1>2, <1>4, <1>5 DEF Homes
    <3>2. c.index \notin N /\ \A i \in M : i \in DOMAIN rs
      BY <1>2 DEF Homes
    <3> QED
      BY <3>1, <3>2, <1>2 DEF Homes
  <2>3. Homes(catalog.records, view.types, setup)' = N
    BY <1>1
  <2> HIDE DEF M, N, left
  <2>4. CASE g \in gone.groups
    BY <2>4, <1>3
  <2>5. CASE g \in Best(M)
    <3> DEFINE fits == {f \in groups : f \subseteq M}
               rest == {f \in left : f \subseteq N}
    <3>1. rest = {f \in fits : c.index \notin f}
      BY <2>2 DEF left
    <3> HIDE DEF g
    <3>2. Best(Homes(catalog.records, view.types, setup))'
             = IF deferring \/ rest = {} THEN {None}
               ELSE {f \in rest : \A e \in rest : Cardinality(e) <= Cardinality(f)}
      BY <1>1, <1>3, <2>3 DEF Best
    <3>3. CASE deferring \/ fits = {}
      <4>1. g = None
        BY <2>5, <3>3 DEF Best
      <4>2. deferring \/ rest = {}
        BY <3>1, <3>3
      <4> QED
        BY <4>1, <4>2, <3>2 DEF g
    <3>4. CASE ~deferring /\ fits # {}
      <4>1. g \in fits /\ \A e \in fits : Cardinality(e) <= Cardinality(g)
        BY <2>5, <3>4 DEF Best
      <4>2. CASE c.index \in g
        <5>1. g \in groups \ left
          BY <4>1, <4>2 DEF left
        <5> QED
          BY <5>1, <1>3 DEF g
      <4>3. CASE c.index \notin g
        <5>1. g \in rest /\ rest # {} /\ \A e \in rest : Cardinality(e) <= Cardinality(g)
          BY <4>1, <4>3, <3>1
        <5> HIDE DEF rest, fits
        <5> QED
          BY <5>1, <3>2, <3>4 DEF g
      <4> QED
        BY <4>2, <4>3
    <3> QED
      BY <3>3, <3>4
  <2> QED
    BY <2>1, <2>4, <2>5
<1> QED
  BY <1>1, <1>2, <1>6, <1>7 DEF ViewFresh

(* What a view finds is what it would find.                                *)
LEMMA ViewResolved ==
    ASSUME RInv, RInv', Orderly(setup), NEW ts \in Seq(Token), Known(ts),
           view' \in Resolved(ts), topology \in Nat,
           \A k : KnownComponent(bindings, k)' = KnownComponent(bindings, k),
           UNCHANGED <<setup, catalog, storages, topology, groups, deferring, gone>>
    PROVE  ViewOK'
<1> DEFINE objects == [n \in DOMAIN ts |-> Object(Resolve(bindings, ts[n]).index)]
<1>1. /\ view'.types = ts /\ view'.token = topology /\ view'.storages = objects
      /\ view'.group \in Best(Key(ts))
  BY DEF Resolved
<1>2. \A n \in DOMAIN ts : ts[n] \in Token /\ Resolve(bindings, ts[n]) # None
  BY DEF Known
<1>3. ASSUME NEW n \in DOMAIN ts
      PROVE  /\ Remembered(objects[n], Home(catalog.records, KeyOf(ts[n]), setup),
                           storages, gone.storages)
             /\ Resolve(bindings, ts[n])' # None
  <2> PICK t : t = ts[n]
    OBVIOUS
  <2>1. /\ t \in Token /\ Resolve(bindings, t) # None
        /\ objects[n] = ObjectOf(storages, Resolve(bindings, t).index)
    BY <1>2 DEF Object, ObjectOf
  <2>2. Home(catalog.records, KeyOf(t), setup) = {Resolve(bindings, t).index}
    BY <2>1, KnownHome
  <2>3. Resolve(bindings, t) = KnownComponent(bindings, KeyOf(t))
    BY <2>1, ResolveIs DEF RInv
  <2>4. Resolve(bindings, t)' = KnownComponent(bindings, KeyOf(t))'
    BY <2>1, ResolveIsNext
  <2> QED
    BY <2>1, <2>2, <2>3, <2>4 DEF Remembered
<1> HIDE DEF objects
<1>4. \A n \in DOMAIN ts : Unused(ts[n])'
  BY <1>3 DEF Unused
<1>5. view'.group \in Best(Homes(catalog.records, view.types, setup))'
  <2>1. Homes(catalog.records, view.types, setup)' = Key(ts)
    BY <1>1, KnownHomes
  <2> QED
    BY <1>1, <2>1 DEF Best
<1>6. ViewFresh'
  BY <1>1, <1>3, <1>4, <1>5 DEF ViewFresh
<1> QED
  BY <1>1, <1>6 DEF ViewOK

LEMMA ViewSought ==
    ASSUME RInv, RInv', Orderly(setup), ViewTypes, ViewOK, NEW ts \in Seq(Token),
           bindings' = CachedAll(ts),
           IF Known(ts) THEN view' \in Resolved(ts) ELSE UNCHANGED view,
           UNCHANGED <<setup, catalog, storages, topology, groups, deferring, gone, failed>>
    PROVE  ViewOK'
<1>1. \A k : KnownComponent(CachedAll(ts), k) = KnownComponent(bindings, k)
  BY CachedAllOK DEF RInv, SInv
<1>2. \A k : KnownComponent(bindings, k)' = KnownComponent(bindings, k)
  BY <1>1 DEF KnownComponent
<1>3. CASE Known(ts)
  BY <1>2, <1>3, ViewResolved DEF ViewOK
<1>4. CASE ~Known(ts)
  BY <1>2, <1>4, ViewSteady
<1> QED
  BY <1>3, <1>4

LEMMA ViewAdd ==
    ASSUME RInv, RInv', SInv', Orderly(setup), ViewTypes, ViewOK,
           NEW t \in Token, NEW h, Add(t, h)
    PROVE  ViewOK'
<1> DEFINE c == Resolve(bindings, t)
           made == New({c})
<1>1. /\ \A k : KnownComponent(bindings, k)' = KnownComponent(bindings, k)
      /\ \A i \in DOMAIN storages : ObjectOf(storages', i) = ObjectOf(storages, i)
  BY RInvAdd
<1>2. UNCHANGED <<setup, view, groups, deferring, failed, gone, catalog>>
  BY DEF Add
<1>3. CASE UNCHANGED <<storages, topology>>
  BY <1>1, <1>2, <1>3, ViewSteady
<1>4. CASE /\ storages' = [WithStorages(made) EXCEPT ![c.index].entities = @ \cup {h.index}]
           /\ topology' = topology + Cardinality(made)
  <2>1. made = {} \/ made = {c}
    BY DEF New
  <2> HIDE DEF c, made
  <2>2. CASE made = {}
    <3>1. topology' = topology
      BY <1>4, <2>2, FS_EmptySet DEF ViewOK
    <3>2. DOMAIN storages' = DOMAIN storages
      BY <1>4, <2>2 DEF WithStorages
    <3>3. \A i : ObjectOf(storages', i) = ObjectOf(storages, i)
      BY <1>1, <3>2 DEF ObjectOf
    <3> QED
      BY <1>1, <1>2, <3>1, <3>2, <3>3, ViewSteady
  <2>3. CASE made = {c}
    <3>1. topology' = topology + 1 /\ topology \in Nat
      BY <1>4, <2>3, FS_Singleton DEF ViewOK
    <3>2. topology' \in Nat /\ topology' > topology
      BY <3>1
    <3> QED
      BY <1>2, <3>2, ViewStale
  <2> QED
    BY <2>1, <2>2, <2>3
<1> QED
  BY <1>3, <1>4 DEF Add, StorageTopology

LEMMA ViewDeclareGroup ==
    ASSUME RInv, RInv', SInv', Orderly(setup), ViewTypes, ViewOK,
           NEW ts \in Seq(Token), DeclareGroup(ts)
    PROVE  ViewOK'
<1> DEFINE some == {Resolve(bindings, Reached(ts)[n]) : n \in DOMAIN Reached(ts)} \ {None}
           made == New({c \in some : Registered(c)})
<1>1. \A k : KnownComponent(bindings, k)' = KnownComponent(bindings, k)
  BY RInvDeclareGroup
<1>2. UNCHANGED <<setup, view, deferring, failed, gone, catalog>>
  BY DEF DeclareGroup
<1>3. /\ storages' = WithStorages(made)
      /\ \/ topology' = topology + Cardinality(made) + 1
         \/ topology' = topology + Cardinality(made) /\ UNCHANGED groups
  BY DEF DeclareGroup, StorageTopology
<1>4. IsFiniteSet(made)
  <2>1. Reached(ts) \in Seq(Token)
    BY ReachedTokens
  <2>2. IsFiniteSet(DOMAIN Reached(ts))
    <3>1. Len(Reached(ts)) \in Nat /\ DOMAIN Reached(ts) = 1 .. Len(Reached(ts))
      BY <2>1
    <3> QED
      BY <3>1, FS_Interval
  <2> DEFINE f == [n \in DOMAIN Reached(ts) |-> Resolve(bindings, Reached(ts)[n])]
             all == {f[n] : n \in DOMAIN Reached(ts)}
  <2>3. IsFiniteSet(all)
    <3>1. f \in Surjection(DOMAIN Reached(ts), all)
      <4>1. f \in [DOMAIN Reached(ts) -> all] /\ \A x \in all : \E n \in DOMAIN Reached(ts) : f[n] = x
        OBVIOUS
      <4> HIDE DEF f, all
      <4> QED
        BY <4>1, Fun_IsSurj
    <3> HIDE DEF f, all
    <3> QED
      BY <2>2, <3>1, FS_Surjection
  <2>4. made \subseteq all
    BY DEF New
  <2> HIDE DEF all, made
  <2> QED
    BY <2>3, <2>4, FS_Subset
<1> HIDE DEF made
<1>5. Cardinality(made) \in Nat /\ topology \in Nat /\ (Cardinality(made) = 0 <=> made = {})
  BY <1>4, FS_CardinalityType, FS_EmptySet DEF ViewOK
<1>6. CASE made = {} /\ topology' = topology + Cardinality(made) /\ UNCHANGED groups
  <2>1. topology' = topology
    BY <1>5, <1>6
  <2>2. DOMAIN storages' = DOMAIN storages /\ \A i \in DOMAIN storages : storages'[i] = storages[i]
    BY <1>3, <1>6 DEF WithStorages
  <2>3. \A i : ObjectOf(storages', i) = ObjectOf(storages, i)
    BY <2>2 DEF ObjectOf
  <2> QED
    BY <1>1, <1>2, <1>6, <2>1, <2>2, <2>3, ViewSteady
<1>7. CASE topology' > topology /\ topology' \in Nat
  BY <1>2, <1>7, ViewStale
<1> QED
  BY <1>3, <1>5, <1>6, <1>7

(* Nothing but entities.                                                   *)
LEMMA ViewSame ==
    ASSUME RInv, RInv', Orderly(setup), ViewTypes, ViewOK,
           UNCHANGED <<setup, catalog, bindings, view, topology, groups, deferring, failed, gone>>,
           DOMAIN storages' = DOMAIN storages,
           \A i : ObjectOf(storages', i) = ObjectOf(storages, i)
    PROVE  ViewOK'
<1>1. \A k : KnownComponent(bindings, k)' = KnownComponent(bindings, k)
  BY DEF KnownComponent
<1> QED
  BY <1>1, ViewSteady

(* A type that was known stays so.                                         *)
LEMMA KnownStays ==
    ASSUME RInv', DOMAIN bindings.keys \subseteq DOMAIN bindings'.keys,
           DOMAIN catalog.type_keys \subseteq DOMAIN catalog'.type_keys, NEW k,
           KnownComponent(bindings, k) # None
    PROVE  KnownComponent(bindings, k)' # None
<1>1. CASE k \in DOMAIN bindings'.keys
  <2>1. bindings'.list[bindings'.keys[k]].component # None
    BY <1>1 DEF RInv, BindOK
  <2> QED
    BY <1>1, <2>1 DEF KnownComponent
<1>2. CASE k \notin DOMAIN bindings'.keys
  <2>1. k \notin DOMAIN bindings.keys /\ k \in DOMAIN catalog.type_keys
    BY <1>2 DEF KnownComponent
  <2> DEFINE r == catalog'.records[catalog'.type_keys[k]]
  <2>2. k \in DOMAIN catalog'.type_keys /\ r \in RecordType(setup')
    BY <2>1 DEF RInv, CatOK, KeysOK, RecordsOK
  <2>3. r.entity # None
    BY <2>2, NoneAssumption DEF RecordType, Entity
  <2> QED
    BY <1>2, <2>2, <2>3 DEF KnownComponent
<1> QED
  BY <1>1, <1>2

LEMMA FinishKeys ==
    ASSUME RInv, NEW t, NEW c, NEW n, Finish(t, c, n)
    PROVE  DOMAIN bindings.keys \subseteq DOMAIN bindings'.keys
<1>1. bindings = [list |-> bindings.list, tokens |-> bindings.tokens, keys |-> bindings.keys]
  BY DEF RInv, BindOK
<1>2. CASE bindings' = bindings
  BY <1>2
<1>3. CASE bindings' = Bound(bindings, t, KeyOf(t), c, Object(c.index))
  <2>1. CASE KeyOf(t) \in DOMAIN bindings.keys
    BY <1>1, <1>3, <2>1 DEF Bound
  <2>2. CASE KeyOf(t) \notin DOMAIN bindings.keys
    BY <1>3, <2>2 DEF Bound, With
  <2> QED
    BY <2>1, <2>2
<1> QED
  BY <1>2, <1>3 DEF Finish

LEMMA ViewNamed ==
    ASSUME RInv, RInv', Orderly(setup), ViewTypes, ViewOK,
           NEW t \in Token, NEW n \in setup.names[t], RegisterNamed(t, n)
    PROVE  ViewOK'
<1> DEFINE u == setup
           k == KeyOf(t)
           i == catalog.names[n]
           r == catalog.records[i]
<1>1. UNCHANGED <<setup, view, topology, groups, deferring, failed, gone, storages>>
  BY DEF RegisterNamed, Elsewhere
<1>2. CASE UNCHANGED <<catalog, bindings>>
  BY <1>1, <1>2, ViewSame
<1>3. CASE /\ catalog' = Adopted(i, k) /\ Finish(t, r.entity, n)
           /\ r.info = InfoOf(k) /\ r.key \in {None, k}
  <2>1. n \in KnownAs(u, k) /\ k \in TypeKey
    BY NameKnown DEF RInv
  <2>2. i \in DOMAIN catalog.records /\ r.name = n
    BY DEF RegisterNamed, RInv, CatOK, RecordsOK
  <2>3. Belongs(r, k, u)
    BY <1>3, <2>1, <2>2 DEF Belongs
  <2>4. /\ DOMAIN catalog'.records = DOMAIN catalog.records
        /\ \A j \in DOMAIN catalog'.records : \A l \in TypeKey :
              Belongs(catalog'.records[j], l, u) <=> Belongs(catalog.records[j], l, u)
        /\ catalog'.type_keys = With(catalog.type_keys, k, i)
    BY <1>3, <2>1, <2>2, <2>3, AdoptedOK DEF RInv
  <2>5. DOMAIN catalog.type_keys \subseteq DOMAIN catalog'.type_keys
    BY <2>4 DEF With
  <2>6. \A x : KnownComponent(bindings, x) # None => KnownComponent(bindings, x)' # None
    BY <1>3, <2>5, FinishKeys, KnownStays
  <2> QED
    BY <1>1, <2>4, <2>6, ViewSteady
<1> QED
  BY <1>2, <1>3 DEF RegisterNamed

LEMMA ViewKeyed ==
    ASSUME RInv, RInv', Orderly(setup), ViewTypes, ViewOK,
           NEW t \in Token, NEW n, RegisterKeyed(t, n)
    PROVE  ViewOK'
<1>1. UNCHANGED <<setup, view, topology, groups, deferring, failed, gone, storages, catalog>>
  BY DEF RegisterKeyed, Elsewhere
<1>2. \E c, x : Finish(t, c, x)
  BY DEF RegisterKeyed
<1>3. \A x : KnownComponent(bindings, x) # None => KnownComponent(bindings, x)' # None
  BY <1>1, <1>2, FinishKeys, KnownStays
<1> QED
  BY <1>1, <1>3, ViewSteady

LEMMA ViewRecord ==
    ASSUME RInv, RInv', Orderly(setup), ViewTypes, ViewOK, Create,
           NEW n, NEW k, NEW info, catalog' = WithRecord(n, k, info),
           n \notin DOMAIN catalog.names,
           \/ /\ k = None /\ n \in RuntimeNames(setup)
              /\ info \in {pair[2] : pair \in setup.runtime}
           \/ /\ k \in TypeKey /\ k \notin DOMAIN catalog.type_keys
              /\ n \in KnownAs(setup, k) /\ info = InfoOf(k),
           DOMAIN bindings.keys \subseteq DOMAIN bindings'.keys,
           UNCHANGED <<setup, view, topology, groups, deferring, failed, gone, storages>>
    PROVE  ViewOK'
<1>1. /\ DOMAIN catalog'.records = DOMAIN catalog.records \cup {NextHandle.index}
      /\ \A j \in DOMAIN catalog.records : catalog'.records[j] = catalog.records[j]
  BY RInvRecord
<1>2. DOMAIN catalog.type_keys \subseteq DOMAIN catalog'.type_keys
  BY DEF WithRecord, With
<1>3. \A x : KnownComponent(bindings, x) # None => KnownComponent(bindings, x)' # None
  BY <1>2, KnownStays
<1> QED
  BY <1>1, <1>3, ViewSteady

LEMMA ViewRestore ==
    ASSUME ViewOK, Restore
    PROVE  ViewOK'
<1>1. UNCHANGED view /\ ((failed' /\ topology' = topology) \/ topology' = topology + 1)
  BY DEF Restore
<1> QED
  BY <1>1, ViewStale DEF ViewOK

LEMMA ViewDefer ==
    ASSUME RInv, RInv', Orderly(setup), ViewTypes, ViewOK, Defer
    PROVE  ViewOK'
<1>1. CASE groups # {}
  BY <1>1, ViewStale DEF Defer, ViewOK
<1>2. CASE groups = {}
  <2>1. UNCHANGED <<view, topology, failed, setup, catalog, storages, bindings, gone, groups>>
    BY <1>2 DEF Defer
  <2>2. \A key : Best(key)' = Best(key)
    BY <1>2, <2>1 DEF Best
  <2> QED
    BY <2>1, <2>2 DEF ViewOK, ViewFresh, Remembered, Unused, Resolve
<1> QED
  BY <1>1, <1>2

LEMMA ViewInit == CatalogInit => ViewOK
BY DEF CatalogInit, ViewOK

LEMMA ViewNext ==
    ASSUME \A u \in Setups : Orderly(u)
    PROVE  RInv /\ ViewTypes /\ ViewOK /\ [CatalogNext]_allVars => ViewOK'
<1> SUFFICES ASSUME RInv, ViewTypes, ViewOK, [CatalogNext]_allVars PROVE ViewOK'
  OBVIOUS
<1>0. SInv' /\ RInv' /\ Orderly(setup) /\ setup \in Setups
  BY RInvNext DEF RInv
<1> USE DEF Elsewhere
<1>1. ASSUME NEW t \in Token, Lookup(t) PROVE ViewOK'
  <2>1. UNCHANGED <<setup, view, topology, groups, deferring, failed, gone, storages, catalog>>
    BY <1>1 DEF Lookup
  <2>2. \A k : KnownComponent(Cached(bindings, t), k) = KnownComponent(bindings, k)
    BY CachedOK DEF RInv, SInv
  <2>3. \A k : KnownComponent(bindings, k)' = KnownComponent(bindings, k)
    BY <1>1, <2>1, <2>2 DEF Lookup, KnownComponent
  <2> QED
    BY <1>0, <2>1, <2>3, ViewSteady
<1>2. ASSUME NEW t \in Token, NEW n \in setup.names[t], Register(t, n) PROVE ViewOK'
  <2>1. CASE RegisterAgain(t)
    BY <1>0, <2>1, ViewSame DEF RegisterAgain, allVars, catalogVars
  <2>2. CASE RegisterNamed(t, n)
    BY <1>0, <2>2, ViewNamed
  <2>3. CASE RegisterKeyed(t, n)
    BY <1>0, <2>3, ViewKeyed
  <2>4. CASE RegisterNew(t, n)
    <3>1. DOMAIN bindings.keys \subseteq DOMAIN bindings'.keys
      BY <2>4, FinishKeys DEF RegisterNew
    <3>2. n \in KnownAs(setup, KeyOf(t)) /\ KeyOf(t) \in TypeKey
      BY <1>0, NameKnown
    <3> QED
      BY <1>0, <2>4, <3>1, <3>2, ViewRecord DEF RegisterNew
  <2> QED
    BY <1>2, <2>1, <2>2, <2>3, <2>4 DEF Register
<1>3. ASSUME NEW pair \in setup.runtime, RegisterRuntime(pair[1], pair[2]) PROVE ViewOK'
  BY <1>0, <1>3, ViewRecord DEF RegisterRuntime, RuntimeNames
<1>4. ASSUME NEW t, NEW n, RegisterElsewhere(t, n) PROVE ViewOK'
  BY <1>0, <1>4, ViewSame DEF RegisterElsewhere
<1>5. CASE CreateUser
  BY <1>0, <1>5, ViewSame DEF CreateUser
<1>6. CASE AddJob
  BY <1>0, <1>6, ViewSame DEF AddJob
<1>7. ASSUME NEW h, NEW t \in Token, Add(t, h) PROVE ViewOK'
  BY <1>0, <1>7, ViewAdd
<1>8. ASSUME NEW h, DestroyUser(h) PROVE ViewOK'
  <2>1. storages' = [c \in DOMAIN storages |-> [storages[c] EXCEPT !.entities = @ \ {h.index}]]
    BY <1>8 DEF DestroyUser
  <2>2. \A i : ObjectOf(storages', i) = ObjectOf(storages, i)
    <3>1. ASSUME NEW i \in DOMAIN storages PROVE storages'[i].object = storages[i].object
      <4>1. storages[i] \in [object : ObjectId, entities : SUBSET Index]
        BY DEF RInv, SInv, StoragesOK
      <4> QED
        BY <2>1, <4>1
    <3> QED
      BY <2>1, <3>1 DEF ObjectOf
  <2> QED
    BY <1>0, <1>8, <2>1, <2>2, ViewSame DEF DestroyUser
<1>9. ASSUME NEW h \in LiveHandles, DestroyComponent(h) PROVE ViewOK'
  BY <1>0, <1>9, ViewDestroyComponent
<1>10. ASSUME NEW ts \in setup.owned, DeclareGroup(ts) PROVE ViewOK'
  <2>1. ts \in Seq(Token)
    BY <1>0, SetupAssumption
  <2> QED
    BY <1>0, <1>10, <2>1, ViewDeclareGroup
<1>11. CASE Defer
  BY <1>0, <1>11, ViewDefer
<1>12. CASE MakeView(setup.types)
  <2>1. setup.types \in Seq(Token)
    BY <1>0, SetupAssumption
  <2> QED
    BY <1>0, <1>12, <2>1, ViewSought DEF MakeView
<1>13. CASE UseView
  <2>1. CASE view.token = topology
    BY <1>0, <1>13, <2>1, ViewSame DEF UseView
  <2>2. CASE view.token # topology
    <3>1. view.types \in Seq(Token)
      BY <1>13, ViewTokens DEF UseView
    <3> QED
      BY <1>0, <1>13, <2>2, <3>1, ViewSought DEF UseView
  <2> QED
    BY <2>1, <2>2
<1>14. CASE Snapshot
  BY <1>0, <1>14, ViewSame DEF Snapshot
<1>15. CASE Restore
  BY <1>15, ViewRestore
<1>16. CASE UNCHANGED allVars
  BY <1>0, <1>16, ViewSame DEF allVars, catalogVars
<1> QED
  BY <1>1, <1>2, <1>3, <1>4, <1>5, <1>6, <1>7, <1>8, <1>9, <1>10, <1>11, <1>12, <1>13,
     <1>14, <1>15, <1>16 DEF CatalogNext

(* Storages and group of a view are those it would find, while the token   *)
(* it has seen is the registry's.                                          *)
THEOREM ViewsAreCurrent ==
    ASSUME \A u \in Setups : Orderly(u)
    PROVE  CatalogSpec => []ViewIsCurrent
<1>1. RInv /\ ViewTypes /\ ViewOK => ViewIsCurrent
  <2> SUFFICES ASSUME RInv, ViewTypes, ViewOK, view # None, ~failed, view.token = topology
               PROVE  /\ \A n \in DOMAIN view.types :
                            LET c == Resolve(bindings, view.types[n])
                            IN \/ view.storages[n] \in gone.storages
                               \/ view.storages[n] = IF c = None THEN None ELSE Object(c.index)
                      /\ deferring => view.group \in {None} \cup gone.groups
                      /\ Known(view.types)
                            => view.group \in Best(Key(view.types)) \cup gone.groups
    BY DEF ViewIsCurrent
  <2>1. ViewFresh /\ Orderly(setup)
    BY DEF ViewOK, RInv
  <2>2. ASSUME NEW n \in DOMAIN view.types
        PROVE  LET c == Resolve(bindings, view.types[n])
               IN \/ view.storages[n] \in gone.storages
                  \/ view.storages[n] = IF c = None THEN None ELSE Object(c.index)
    <3> PICK t, o : t = view.types[n] /\ o = view.storages[n]
      OBVIOUS
    <3> DEFINE home == Home(catalog.records, KeyOf(t), setup)
               c == Resolve(bindings, t)
    <3>1. Remembered(o, home, storages, gone.storages) /\ Unused(t) /\ t \in Token
      BY <2>1, ViewTokens DEF ViewFresh
    <3>2. CASE c = None
      <4>1. \A i \in home : ObjectOf(storages, i) = None
        BY <3>1, <3>2 DEF Unused, ObjectOf
      <4>2. o \in gone.storages \cup {None}
        BY <3>1, <4>1 DEF Remembered
      <4> QED
        BY <3>2, <4>2
    <3>3. CASE c # None
      <4>1. home = {c.index}
        BY <2>1, <3>1, <3>3, KnownHome
      <4>2. o \in gone.storages \cup {ObjectOf(storages, c.index)}
        BY <3>1, <4>1 DEF Remembered
      <4> QED
        BY <3>3, <4>2 DEF Object, ObjectOf
    <3> QED
      BY <3>2, <3>3
  <2>3. deferring => view.group \in {None} \cup gone.groups
    BY <2>1 DEF ViewFresh, Best
  <2>4. ASSUME Known(view.types) PROVE view.group \in Best(Key(view.types)) \cup gone.groups
    <3>1. Homes(catalog.records, view.types, setup) = Key(view.types)
      BY <2>1, <2>4, ViewTokens, KnownHomes
    <3> QED
      BY <2>1, <3>1 DEF ViewFresh
  <2> QED
    BY <2>2, <2>3, <2>4
<1>2. /\ RInv /\ ViewTypes /\ ViewOK /\ [CatalogNext]_allVars
            => (RInv /\ ViewTypes /\ ViewOK)'
  BY RInvNext, ViewTypesNext, ViewNext
<1> QED
  BY <1>1, <1>2, RInvInit, ViewInit, PTL DEF CatalogSpec
=============================================================================
