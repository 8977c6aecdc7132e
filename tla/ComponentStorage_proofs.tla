---------------------- MODULE ComponentStorage_proofs ----------------------
(***************************************************************************)
(* The sparse set with its tombstone list and counters is, for any number  *)
(* of entities and any operations, the table of components and its change  *)
(* report.                                                                 *)
(***************************************************************************)
EXTENDS ComponentStorage, FiniteSetTheorems, TLAPS

-----------------------------------------------------------------------------
(* A dense array d and the positions s of its indices.                     *)
Found(d, s) ==
    /\ d \in Seq(Entry) /\ s \in [Index -> Nat]
    /\ \A p \in DOMAIN d : s[d[p].index] = p
    /\ \A i \in Index : s[i] # npos => s[i] \in DOMAIN d /\ d[s[i]].index = i

(* Index j is stored alike in both. *)
Same(d, s, e, t, j) ==
    /\ s[j] = npos <=> t[j] = npos
    /\ s[j] # npos => e[t[j]] = d[s[j]]

LEMMA EntryAt ==
    ASSUME NEW d, NEW s, Found(d, s), NEW p \in DOMAIN d
    PROVE  /\ d[p] \in Entry /\ d[p].index \in Index /\ s[d[p].index] = p
           /\ p \in 1 .. Len(d) /\ Len(d) \in Nat /\ p # npos
<1>1. d[p] \in Entry /\ p \in 1 .. Len(d) /\ Len(d) \in Nat
  BY DEF Found
<1> QED
  BY <1>1 DEF Found, Entry, npos

(* Only the element at p changes, and keeps its index. *)
LEMMA ChangedFound ==
    ASSUME NEW d, NEW s, Found(d, s), NEW p \in DOMAIN d,
           NEW r \in Entry, r.index = d[p].index, NEW e, e = [d EXCEPT ![p] = r]
    PROVE  /\ Found(e, s) /\ e[p] = r
           /\ \A j \in Index \ {r.index} : Same(d, s, e, s, j)
<1>1. /\ d \in Seq(Entry) /\ s \in [Index -> Nat]
      /\ e \in Seq(Entry) /\ DOMAIN e = DOMAIN d /\ e[p] = r
      /\ \A q \in DOMAIN d \ {p} : e[q] = d[q]
  BY DEF Found
<1>2. \A q \in DOMAIN d : e[q].index = d[q].index
  BY <1>1
<1>3. Found(e, s)
  BY <1>1, <1>2 DEF Found
<1>4. ASSUME NEW j \in Index \ {r.index} PROVE Same(d, s, e, s, j)
  BY <1>1, EntryAt DEF Same, Found
<1> QED
  BY <1>1, <1>3, <1>4

(* emplace_or_replace at the end. *)
Appends(d, s, i, r, e, t) == e = Append(d, r) /\ t = [s EXCEPT ![i] = Len(d) + 1]

LEMMA AppendedFound ==
    ASSUME NEW d, NEW s, Found(d, s), NEW i \in Index, s[i] = npos,
           NEW r \in Entry, r.index = i,
           NEW e, NEW t, Appends(d, s, i, r, e, t)
    PROVE  /\ Found(e, t) /\ t[i] # npos /\ e[t[i]] = r
           /\ \A j \in Index \ {i} : Same(d, s, e, t, j)
<1>1. /\ d \in Seq(Entry) /\ s \in [Index -> Nat] /\ Len(d) \in Nat
      /\ DOMAIN d = 1 .. Len(d) /\ DOMAIN e = 1 .. Len(d) + 1
      /\ e \in Seq(Entry) /\ e[Len(d) + 1] = r /\ t \in [Index -> Nat]
      /\ \A p \in DOMAIN d : e[p] = d[p]
      /\ t[i] = Len(d) + 1 /\ \A j \in Index \ {i} : t[j] = s[j]
  BY DEF Found, Appends
<1>2. \A p \in DOMAIN d : d[p].index # i /\ d[p].index \in Index
  BY EntryAt
<1>3. ASSUME NEW p \in DOMAIN e PROVE t[e[p].index] = p
  BY <1>1, <1>2 DEF Found
<1>4. ASSUME NEW j \in Index, t[j] # npos PROVE t[j] \in DOMAIN e /\ e[t[j]].index = j
  BY <1>1, <1>4 DEF Found
<1>5. Found(e, t)
  BY <1>1, <1>3, <1>4 DEF Found
<1>6. \A j \in Index \ {i} : Same(d, s, e, t, j)
  BY <1>1 DEF Same, Found
<1>7. t[i] # npos /\ e[t[i]] = r
  BY <1>1 DEF npos
<1> QED
  BY <1>5, <1>6, <1>7

LEMMA FrontOf ==
    ASSUME NEW S, NEW m \in Seq(S), NEW n \in Nat, Len(m) = n, n # 0
    PROVE  /\ Front(m) \in Seq(S) /\ DOMAIN Front(m) = 1 .. n - 1
           /\ \A q \in 1 .. n - 1 : Front(m)[q] = m[q]
<1> DEFINE e == SubSeq(m, 1, n - 1)
<1>0. Front(m) = e
  BY DEF Front
<1>1. n - 1 \in Nat /\ n - 1 <= Len(m)
  OBVIOUS
<1>2. e \in Seq(S) /\ Len(e) = n - 1
  BY <1>1
<1>3. DOMAIN e = 1 .. n - 1
  BY <1>2
<1>4. \A q \in 1 .. n - 1 : e[q] = m[q]
  BY <1>1
<1> QED
  BY <1>0, <1>2, <1>3, <1>4

(* erase_at: the last element takes the place of the one that goes. *)
LEMMA ErasedFound ==
    ASSUME NEW d, NEW s, Found(d, s), NEW p \in DOMAIN d,
           NEW e, e = Front([d EXCEPT ![p] = Last(d)]),
           NEW t, t = [[s EXCEPT ![Last(d).index] = p] EXCEPT ![d[p].index] = npos]
    PROVE  /\ Found(e, t) /\ t[d[p].index] = npos
           /\ \A j \in Index \ {d[p].index} : Same(d, s, e, t, j)
<1> DEFINE n == Len(d)
           i == d[p].index
           l == d[n].index
<1>1. /\ n \in Nat /\ DOMAIN d = 1 .. n /\ n \in DOMAIN d /\ p \in 1 .. n
      /\ d \in Seq(Entry) /\ Len(d) = n /\ s \in [Index -> Nat] /\ i \in Index /\ l \in Index
      /\ \A q \in DOMAIN d : d[q].index \in Index /\ s[d[q].index] = q
  <2>1. n \in Nat /\ DOMAIN d = 1 .. n /\ d \in Seq(Entry) /\ s \in [Index -> Nat]
    BY DEF Found
  <2>2. n \in DOMAIN d
    BY <2>1
  <2>3. \A q \in DOMAIN d : d[q].index \in Index /\ s[d[q].index] = q
    BY EntryAt
  <2> QED
    BY <2>1, <2>2, <2>3
<1>2. /\ e = Front([d EXCEPT ![p] = d[n]])
      /\ t = [[s EXCEPT ![l] = p] EXCEPT ![i] = npos]
  BY <1>1 DEF Last
<1> HIDE DEF n, i, l
<1>3. /\ e \in Seq(Entry) /\ DOMAIN e = 1 .. n - 1
      /\ \A q \in 1 .. n - 1 : e[q] = IF q = p THEN d[n] ELSE d[q]
  <2> DEFINE m == [d EXCEPT ![p] = d[n]]
  <2>1. m \in Seq(Entry) /\ Len(m) = n /\ \A q \in 1 .. n : m[q] = IF q = p THEN d[n] ELSE d[q]
    BY <1>1
  <2>2. e = Front(m)
    BY <1>2
  <2> HIDE DEF m
  <2>3. e \in Seq(Entry) /\ DOMAIN e = 1 .. n - 1 /\ \A q \in 1 .. n - 1 : e[q] = m[q]
    <3>1. n # 0 /\ n \in Nat
      BY <1>1
    <3>2. Len(m) = n /\ m \in Seq(Entry)
      BY <2>1
    <3> QED
      BY <2>2, <3>1, <3>2, FrontOf
  <2>4. \A q \in 1 .. n - 1 : q \in 1 .. n
    BY <1>1
  <2> QED
    BY <2>1, <2>3, <2>4
<1>4. /\ t \in [Index -> Nat] /\ t[i] = npos
      /\ \A j \in Index \ {i} : t[j] = IF j = l THEN p ELSE s[j]
  <2>1. p \in Nat /\ npos \in Nat
    BY <1>1 DEF npos
  <2> QED
    BY <1>1, <1>2, <2>1
<1>5. i = d[p].index /\ l = d[n].index
  BY DEF i, l
<1>6. l = i <=> p = n
  BY <1>1, <1>5
<1>7. ASSUME NEW q \in DOMAIN e PROVE t[e[q].index] = q
  <2>1. q \in DOMAIN d /\ q # n
    BY <1>1, <1>3
  <2>2. CASE q = p
    BY <1>1, <1>3, <1>4, <1>5, <1>6, <2>1, <2>2
  <2>3. CASE q # p
    <3>1. e[q] = d[q] /\ s[d[q].index] = q /\ d[q].index \in Index
      BY <1>1, <1>3, <2>1, <2>3
    <3>2. d[q].index # i /\ d[q].index # l
      BY <1>1, <1>5, <2>1, <2>3, <3>1
    <3> QED
      BY <1>4, <3>1, <3>2
  <2> QED
    BY <2>2, <2>3
<1>8. ASSUME NEW j \in Index, j # i
      PROVE  /\ s[j] = npos <=> t[j] = npos
             /\ s[j] # npos => t[j] \in DOMAIN e /\ e[t[j]] = d[s[j]] /\ d[s[j]].index = j
  <2>1. s[j] # npos => s[j] \in DOMAIN d /\ d[s[j]].index = j
    BY DEF Found
  <2>2. CASE j = l
    <3>1. t[j] = p /\ s[j] = n /\ p # n /\ p \in 1 .. n - 1
      BY <1>1, <1>4, <1>5, <1>6, <1>8, <2>2
    <3>2. e[t[j]] = d[n]
      BY <1>3, <3>1
    <3> QED
      BY <1>1, <1>3, <1>5, <2>2, <3>1, <3>2 DEF npos
  <2>3. CASE j # l
    <3>1. t[j] = s[j]
      BY <1>4, <1>8, <2>3
    <3>2. s[j] # npos => s[j] # n /\ s[j] # p
      BY <1>5, <1>8, <2>1, <2>3
    <3>3. ASSUME s[j] # npos PROVE s[j] \in 1 .. n - 1 /\ e[s[j]] = d[s[j]]
      <4>1. s[j] \in 1 .. n /\ s[j] # n /\ s[j] # p
        BY <1>1, <2>1, <3>2, <3>3
      <4>2. s[j] \in 1 .. n - 1
        BY <1>1, <4>1
      <4> QED
        BY <1>3, <4>1, <4>2
    <3> QED
      BY <1>3, <2>1, <3>1, <3>3
  <2> QED
    BY <2>2, <2>3
<1>9. Found(e, t)
  BY <1>3, <1>4, <1>7, <1>8 DEF Found
<1> QED
  BY <1>4, <1>5, <1>8, <1>9 DEF Same
(* swap_dense: two elements change places. *)
LEMMA SwappedFound ==
    ASSUME NEW d, NEW s, Found(d, s), NEW i \in Index, s[i] # npos,
           NEW p \in DOMAIN d, p # s[i],
           NEW e, e = [d EXCEPT ![s[i]] = d[p], ![p] = d[s[i]]],
           NEW t, t = [s EXCEPT ![i] = p, ![d[p].index] = s[i]]
    PROVE  Found(e, t) /\ \A k \in Index : Same(d, s, e, t, k)
<1> DEFINE h == s[i]
           j == d[p].index
<1>1. /\ h \in DOMAIN d /\ d[h].index = i /\ s[j] = p /\ j \in Index /\ h # p /\ j # i
      /\ h # npos /\ p # npos /\ h \in Nat /\ p \in Nat
  <2>1. h \in DOMAIN d /\ d[h].index = i /\ h # npos /\ h \in Nat
    BY DEF Found
  <2>2. s[j] = p /\ j \in Index /\ p # npos /\ p \in Nat
    BY EntryAt
  <2> QED
    BY <2>1, <2>2
<1>2. /\ e \in Seq(Entry) /\ DOMAIN e = DOMAIN d /\ e[h] = d[p] /\ e[p] = d[h]
      /\ \A q \in DOMAIN d \ {h, p} : e[q] = d[q]
  <2>1. d \in Seq(Entry) /\ d[p] \in Entry /\ d[h] \in Entry
    BY <1>1, EntryAt DEF Found
  <2> QED
    BY <1>1, <2>1
<1>3. /\ t \in [Index -> Nat] /\ t[i] = p /\ t[j] = h
      /\ \A k \in Index \ {i, j} : t[k] = s[k]
  BY <1>1 DEF Found
<1> HIDE DEF h, j
<1>4. j = d[p].index
  BY DEF j
<1>5. ASSUME NEW q \in DOMAIN d PROVE t[e[q].index] = q
  <2>1. CASE q = h
    BY <1>2, <1>3, <1>4, <2>1
  <2>2. CASE q = p
    BY <1>1, <1>2, <1>3, <2>2
  <2>3. CASE q # h /\ q # p
    <3>1. e[q] = d[q] /\ s[d[q].index] = q /\ d[q].index \in Index
      BY <1>2, <2>3, EntryAt
    <3>2. s[i] = h
      BY DEF h
    <3>3. d[q].index # i /\ d[q].index # j
      BY <1>1, <2>3, <3>1, <3>2
    <3> QED
      BY <1>3, <3>1, <3>3
  <2> QED
    BY <2>1, <2>2, <2>3
<1>6. ASSUME NEW k \in Index
      PROVE  /\ s[k] = npos <=> t[k] = npos
             /\ s[k] # npos => t[k] \in DOMAIN d /\ e[t[k]] = d[s[k]] /\ d[s[k]].index = k
  <2>0. s[i] = h /\ (s[k] # npos => s[k] \in DOMAIN d /\ d[s[k]].index = k)
    BY DEF h, Found
  <2>1. CASE k = i
    BY <1>1, <1>2, <1>3, <2>0, <2>1
  <2>2. CASE k = j
    BY <1>1, <1>2, <1>3, <1>4, <2>2
  <2>3. CASE k # i /\ k # j
    <3>1. t[k] = s[k]
      BY <1>3, <2>3
    <3>2. s[k] # npos => s[k] # h /\ s[k] # p
      BY <1>1, <1>4, <2>0, <2>3
    <3> QED
      BY <1>2, <2>0, <3>1, <3>2
  <2> QED
    BY <2>1, <2>2, <2>3
<1>7. ASSUME NEW k \in Index, t[k] # npos PROVE t[k] \in DOMAIN e /\ e[t[k]].index = k
  <2>1. t[k] \in DOMAIN d /\ e[t[k]] = d[s[k]] /\ d[s[k]].index = k
    BY <1>6, <1>7
  <2> QED
    BY <1>2, <2>1
<1>8. \A q \in DOMAIN e : t[e[q].index] = q
  BY <1>2, <1>5
<1>9. Found(e, t)
  BY <1>2, <1>3, <1>7, <1>8 DEF Found
<1> QED
  BY <1>6, <1>9 DEF Same

-----------------------------------------------------------------------------
(* What each_dirty, each_added and get() find in a dense array.            *)
DirtyOf(d)     == {d[p].index : p \in {q \in DOMAIN d : d[q].dirty}}
AddedOf(d)     == {d[p].index : p \in {q \in DOMAIN d : d[q].added}}
ValuesOf(d, s) == [i \in Index |-> IF s[i] # npos THEN d[s[i]].value ELSE Missing]

LEMMA Visited ==
    ASSUME NEW d, NEW s, Found(d, s)
    PROVE  /\ DirtyOf(d) \subseteq Index /\ AddedOf(d) \subseteq Index
           /\ \A j \in Index : j \in DirtyOf(d) <=> s[j] # npos /\ d[s[j]].dirty
           /\ \A j \in Index : j \in AddedOf(d) <=> s[j] # npos /\ d[s[j]].added
<1>1. \A p \in DOMAIN d : d[p].index \in Index /\ s[d[p].index] = p /\ p # npos
  BY EntryAt
<1>2. \A j \in Index : s[j] # npos => s[j] \in DOMAIN d /\ d[s[j]].index = j
  BY DEF Found
<1>3. DirtyOf(d) \subseteq Index /\ AddedOf(d) \subseteq Index
  BY <1>1 DEF DirtyOf, AddedOf
<1>4. ASSUME NEW j \in Index PROVE j \in DirtyOf(d) <=> s[j] # npos /\ d[s[j]].dirty
  BY <1>1, <1>2 DEF DirtyOf
<1>5. ASSUME NEW j \in Index PROVE j \in AddedOf(d) <=> s[j] # npos /\ d[s[j]].added
  BY <1>1, <1>2 DEF AddedOf
<1> QED
  BY <1>3, <1>4, <1>5

(* As many positions are marked as indices: no index is stored twice. *)
LEMMA PositionsCounted ==
    ASSUME NEW d, NEW s, Found(d, s), NEW P \in SUBSET DOMAIN d
    PROVE  /\ IsFiniteSet({d[p].index : p \in P})
           /\ Cardinality({d[p].index : p \in P}) = Cardinality(P)
<1> DEFINE Q == {d[p].index : p \in P}
           f == [p \in P |-> d[p].index]
<1>1. \A p \in P : s[d[p].index] = p
  BY EntryAt
<1>2. IsFiniteSet(P)
  <2>1. Len(d) \in Nat /\ DOMAIN d = 1 .. Len(d)
    BY DEF Found
  <2>2. IsFiniteSet(1 .. Len(d))
    BY <2>1, FS_Interval
  <2> QED
    BY <2>1, <2>2, FS_Subset
<1>3. f \in Bijection(P, Q)
  <2>1. f \in [P -> Q]
    OBVIOUS
  <2>2. \A a, b \in P : f[a] = f[b] => a = b
    BY <1>1
  <2>3. \A q \in Q : \E a \in P : f[a] = q
    OBVIOUS
  <2> QED
    BY <2>1, <2>2, <2>3 DEF Bijection, Injection, IsInjective, Surjection
<1> HIDE DEF Q, f
<1>4. IsFiniteSet(Q) /\ Cardinality(Q) = Cardinality(P)
  BY <1>2, <1>3, FS_Bijection DEF ExistsBijection
<1> QED
  BY <1>4 DEF Q

LEMMA MarksCounted ==
    ASSUME NEW d, NEW s, Found(d, s)
    PROVE  /\ IsFiniteSet(DirtyOf(d)) /\ IsFiniteSet(AddedOf(d))
           /\ Cardinality(DirtyOf(d)) = Cardinality({p \in DOMAIN d : d[p].dirty})
           /\ Cardinality(AddedOf(d)) = Cardinality({p \in DOMAIN d : d[p].added})
<1>1. /\ {p \in DOMAIN d : d[p].dirty} \in SUBSET DOMAIN d
      /\ {p \in DOMAIN d : d[p].added} \in SUBSET DOMAIN d
  OBVIOUS
<1> QED
  BY <1>1, PositionsCounted DEF DirtyOf, AddedOf

LEMMA Shifted ==
    ASSUME NEW A, NEW B, NEW i, IsFiniteSet(A), IsFiniteSet(B), A \ {i} = B \ {i}
    PROVE  Cardinality(B) = Cardinality(A) + One(i \in B) - One(i \in A)
<1>0. Cardinality(A) \in Nat /\ Cardinality(B) \in Nat
  BY FS_CardinalityType
<1>1. CASE i \in A /\ i \notin B
  <2>1. B = A \ {i} /\ Cardinality(A \ {i}) = Cardinality(A) - 1
    BY <1>1, FS_RemoveElement
  <2> QED
    BY <1>0, <1>1, <2>1 DEF One
<1>2. CASE i \notin A /\ i \in B
  <2>1. A = B \ {i} /\ Cardinality(B \ {i}) = Cardinality(B) - 1
    BY <1>2, FS_RemoveElement
  <2> QED
    BY <1>0, <1>2, <2>1 DEF One
<1>3. CASE i \in A <=> i \in B
  <2>1. A = B
    BY <1>3
  <2> QED
    BY <1>0, <2>1 DEF One
<1> QED
  BY <1>1, <1>2, <1>3

(* The dense array with its lookup array and its two counters. *)
Dense(d, s, dc, ac) ==
    /\ Found(d, s)
    /\ dc = Cardinality(DirtyOf(d)) /\ ac = Cardinality(AddedOf(d))

(* An operation on index i leaves the others what they were. *)
LEMMA OthersKeep ==
    ASSUME NEW d, NEW s, Found(d, s), NEW e, NEW t, Found(e, t), NEW i \in Index,
           \A j \in Index \ {i} : Same(d, s, e, t, j)
    PROVE  /\ DirtyOf(d) \ {i} = DirtyOf(e) \ {i}
           /\ AddedOf(d) \ {i} = AddedOf(e) \ {i}
           /\ \A j \in Index \ {i} : ValuesOf(e, t)[j] = ValuesOf(d, s)[j]
<1>1. /\ DirtyOf(d) \subseteq Index /\ AddedOf(d) \subseteq Index
      /\ DirtyOf(e) \subseteq Index /\ AddedOf(e) \subseteq Index
  BY Visited
<1>2. ASSUME NEW j \in Index \ {i}
      PROVE  /\ j \in DirtyOf(d) <=> j \in DirtyOf(e)
             /\ j \in AddedOf(d) <=> j \in AddedOf(e)
             /\ ValuesOf(e, t)[j] = ValuesOf(d, s)[j]
  <2>1. /\ j \in DirtyOf(d) <=> s[j] # npos /\ d[s[j]].dirty
        /\ j \in AddedOf(d) <=> s[j] # npos /\ d[s[j]].added
        /\ j \in DirtyOf(e) <=> t[j] # npos /\ e[t[j]].dirty
        /\ j \in AddedOf(e) <=> t[j] # npos /\ e[t[j]].added
    BY Visited
  <2> QED
    BY <2>1 DEF Same, ValuesOf
<1> QED
  BY <1>1, <1>2

LEMMA Recounted ==
    ASSUME NEW d, NEW s, NEW dc, NEW ac, Dense(d, s, dc, ac),
           NEW e, NEW t, Found(e, t), NEW i \in Index,
           \A j \in Index \ {i} : Same(d, s, e, t, j),
           NEW dirty, dirty = dc + One(i \in DirtyOf(e)) - One(i \in DirtyOf(d)),
           NEW added, added = ac + One(i \in AddedOf(e)) - One(i \in AddedOf(d))
    PROVE  Dense(e, t, dirty, added)
<1>1. /\ IsFiniteSet(DirtyOf(d)) /\ IsFiniteSet(AddedOf(d))
      /\ IsFiniteSet(DirtyOf(e)) /\ IsFiniteSet(AddedOf(e))
  BY MarksCounted DEF Dense
<1>2. DirtyOf(d) \ {i} = DirtyOf(e) \ {i} /\ AddedOf(d) \ {i} = AddedOf(e) \ {i}
  BY OthersKeep DEF Dense
<1> QED
  BY <1>1, <1>2, Shifted DEF Dense
(* The step d, s -> e, t concerns index i only. *)
Changes(d, s, e, t, i) == Found(e, t) /\ \A j \in Index \ {i} : Same(d, s, e, t, j)

Stored(d, s, i, r) == s[i] # npos /\ d[s[i]] = r

LEMMA ReportChanges ==
    ASSUME NEW d, NEW s, Found(d, s), NEW e, NEW t, NEW i \in Index, Changes(d, s, e, t, i)
    PROVE  /\ DirtyOf(e) = IF t[i] # npos /\ e[t[i]].dirty
                           THEN DirtyOf(d) \cup {i} ELSE DirtyOf(d) \ {i}
           /\ AddedOf(e) = IF t[i] # npos /\ e[t[i]].added
                           THEN AddedOf(d) \cup {i} ELSE AddedOf(d) \ {i}
           /\ ValuesOf(e, t) = [ValuesOf(d, s) EXCEPT ![i] =
                                   IF t[i] # npos THEN e[t[i]].value ELSE Missing]
<1>1. Found(e, t)
  BY DEF Changes
<1>2. /\ DirtyOf(d) \ {i} = DirtyOf(e) \ {i}
      /\ AddedOf(d) \ {i} = AddedOf(e) \ {i}
      /\ \A j \in Index \ {i} : ValuesOf(e, t)[j] = ValuesOf(d, s)[j]
  BY OthersKeep DEF Changes
<1>3. /\ i \in DirtyOf(e) <=> t[i] # npos /\ e[t[i]].dirty
      /\ i \in AddedOf(e) <=> t[i] # npos /\ e[t[i]].added
  BY <1>1, Visited
<1>4. DirtyOf(e) = IF t[i] # npos /\ e[t[i]].dirty
                   THEN DirtyOf(d) \cup {i} ELSE DirtyOf(d) \ {i}
  BY <1>2, <1>3
<1>5. AddedOf(e) = IF t[i] # npos /\ e[t[i]].added
                   THEN AddedOf(d) \cup {i} ELSE AddedOf(d) \ {i}
  BY <1>2, <1>3
<1>6. ValuesOf(e, t)[i] = IF t[i] # npos THEN e[t[i]].value ELSE Missing
  BY DEF ValuesOf
<1>7. /\ ValuesOf(e, t) = [j \in Index |-> ValuesOf(e, t)[j]]
      /\ ValuesOf(d, s) = [j \in Index |-> ValuesOf(d, s)[j]]
  BY DEF ValuesOf
<1>8. ValuesOf(e, t) = [ValuesOf(d, s) EXCEPT ![i] =
                           IF t[i] # npos THEN e[t[i]].value ELSE Missing]
  BY <1>2, <1>6, <1>7
<1> QED
  BY <1>4, <1>5, <1>8

LEMMA MappedSeq ==
    ASSUME NEW S, NEW d \in Seq(S), NEW e, e = [p \in DOMAIN d |-> e[p]],
           \A p \in DOMAIN d : e[p] \in S
    PROVE  e \in Seq(S)
<1>1. Len(d) \in Nat /\ DOMAIN d = 1 .. Len(d)
  OBVIOUS
<1>2. e \in [1 .. Len(d) -> S]
  BY <1>1
<1> QED
  BY <1>1, <1>2

(* clear_all_dirty: every bit is cleared, nothing else. *)
LEMMA BitsCleared ==
    ASSUME NEW d, NEW s, Found(d, s),
           NEW e, e = [p \in DOMAIN d |-> [d[p] EXCEPT !.dirty = FALSE, !.added = FALSE]]
    PROVE  Dense(e, s, 0, 0) /\ DirtyOf(e) = {} /\ AddedOf(e) = {}
           /\ ValuesOf(e, s) = ValuesOf(d, s)
<1>1. \A p \in DOMAIN d : d[p] \in Entry
  BY EntryAt
<1>2. /\ DOMAIN e = DOMAIN d
      /\ \A p \in DOMAIN d : /\ e[p] \in Entry /\ ~e[p].dirty /\ ~e[p].added
                             /\ e[p].index = d[p].index /\ e[p].value = d[p].value
  BY <1>1 DEF Entry
<1>3. e \in Seq(Entry)
  <2>1. d \in Seq(Entry)
    BY DEF Found
  <2>2. e = [p \in DOMAIN d |-> e[p]]
    OBVIOUS
  <2> QED
    BY <1>2, <2>1, <2>2, MappedSeq
<1>4. Found(e, s)
  BY <1>2, <1>3 DEF Found
<1>5. DirtyOf(e) = {} /\ AddedOf(e) = {}
  BY <1>2 DEF DirtyOf, AddedOf
<1>6. ValuesOf(e, s) = ValuesOf(d, s)
  <2>1. \A i \in Index : s[i] # npos => s[i] \in DOMAIN d
    BY DEF Found
  <2>2. \A i \in Index : s[i] # npos => e[s[i]].value = d[s[i]].value
    BY <1>2, <2>1
  <2> QED
    BY <2>2 DEF ValuesOf
<1>7. Cardinality({}) = 0
  BY FS_EmptySet
<1> QED
  BY <1>4, <1>5, <1>6, <1>7 DEF Dense

-----------------------------------------------------------------------------
(* The tombstones T, their list L, the positions q in it, and their number.*)
Tombstone == {NoTombstone} \cup [kind : {"removed", "destroyed"}, gen : Nat]

Indexed(T, L, q, c) ==
    /\ T \in [Index -> Tombstone] /\ L \in Seq(Index) /\ q \in [Index -> Nat] /\ c = Len(L)
    /\ \A k \in DOMAIN L : q[L[k]] = k /\ T[L[k]].kind # "none"
    /\ \A i \in Index : q[i] # npos \/ T[i].kind # "none" =>
                           q[i] \in DOMAIN L /\ L[q[i]] = i

LEMMA TombstoneAt ==
    ASSUME NEW t \in Tombstone, t.kind = "none"
    PROVE  t = NoTombstone
BY DEF Tombstone, NoTombstone

LEMMA EmptyListing == Indexed([i \in Index |-> NoTombstone], <<>>, [i \in Index |-> npos], 0)
BY DEF Indexed, Tombstone, NoTombstone, npos

(* mark_tombstone on an index that has none. *)
LEMMA ListedTombstone ==
    ASSUME NEW T, NEW L, NEW q, NEW c, Indexed(T, L, q, c),
           NEW i \in Index, T[i].kind = "none",
           NEW r \in Tombstone, r.kind # "none",
           NEW U, U = [T EXCEPT ![i] = r], NEW M, M = Append(L, i),
           NEW m, m = [q EXCEPT ![i] = Len(L) + 1], NEW b, b = c + 1
    PROVE  Indexed(U, M, m, b)
<1>1. /\ T \in [Index -> Tombstone] /\ L \in Seq(Index) /\ q \in [Index -> Nat]
      /\ c = Len(L) /\ Len(L) \in Nat /\ DOMAIN L = 1 .. Len(L)
      /\ U \in [Index -> Tombstone] /\ m \in [Index -> Nat] /\ M \in Seq(Index)
      /\ DOMAIN M = 1 .. Len(L) + 1 /\ Len(M) = Len(L) + 1 /\ M[Len(L) + 1] = i
      /\ \A k \in DOMAIN L : M[k] = L[k] /\ L[k] \in Index
      /\ U[i] = r /\ m[i] = Len(L) + 1
      /\ \A j \in Index \ {i} : U[j] = T[j] /\ m[j] = q[j]
  BY DEF Indexed
<1>2. \A k \in DOMAIN L : L[k] # i
  BY DEF Indexed
<1>3. ASSUME NEW k \in DOMAIN M PROVE m[M[k]] = k /\ U[M[k]].kind # "none"
  BY <1>1, <1>2 DEF Indexed
<1>4. ASSUME NEW j \in Index, m[j] # npos \/ U[j].kind # "none"
      PROVE  m[j] \in DOMAIN M /\ M[m[j]] = j
  BY <1>1, <1>4 DEF Indexed
<1> QED
  BY <1>1, <1>3, <1>4 DEF Indexed

(* An index that has one keeps its place in the list. *)
LEMMA ReplacedTombstone ==
    ASSUME NEW T, NEW L, NEW q, NEW c, Indexed(T, L, q, c),
           NEW i \in Index, T[i].kind # "none",
           NEW r \in Tombstone, r.kind # "none",
           NEW U, U = [T EXCEPT ![i] = r]
    PROVE  Indexed(U, L, q, c)
<1>1. /\ T \in [Index -> Tombstone] /\ U \in [Index -> Tombstone] /\ U[i] = r
      /\ \A j \in Index \ {i} : U[j] = T[j]
      /\ \A k \in DOMAIN L : L[k] \in Index
  BY DEF Indexed
<1>2. \A j \in Index : U[j].kind # "none" <=> T[j].kind # "none"
  BY <1>1
<1> QED
  BY <1>1, <1>2 DEF Indexed

(* clear_tombstone with erase_tombstone_index. *)
LEMMA UnlistedTombstone ==
    ASSUME NEW T, NEW L, NEW q, NEW c, Indexed(T, L, q, c),
           NEW i \in Index, T[i].kind # "none",
           NEW U, U = [T EXCEPT ![i] = NoTombstone],
           NEW M, M = Front([L EXCEPT ![q[i]] = Last(L)]),
           NEW m, m = [[q EXCEPT ![Last(L)] = q[i]] EXCEPT ![i] = npos]
    PROVE  Indexed(U, M, m, c - 1)
<1> DEFINE n == Len(L)
           p == q[i]
           l == L[n]
<1>1. /\ n \in Nat /\ DOMAIN L = 1 .. n /\ L \in Seq(Index) /\ Len(L) = n
      /\ T \in [Index -> Tombstone] /\ q \in [Index -> Nat] /\ c = n
      /\ p \in 1 .. n /\ L[p] = i /\ n \in 1 .. n /\ l \in Index
      /\ \A k \in 1 .. n : L[k] \in Index /\ q[L[k]] = k /\ T[L[k]].kind # "none"
  <2>1. /\ n \in Nat /\ DOMAIN L = 1 .. n /\ L \in Seq(Index) /\ Len(L) = n
        /\ T \in [Index -> Tombstone] /\ q \in [Index -> Nat] /\ c = n
    BY DEF Indexed
  <2>2. p \in DOMAIN L /\ L[p] = i
    BY DEF Indexed
  <2>3. \A k \in DOMAIN L : L[k] \in Index /\ q[L[k]] = k /\ T[L[k]].kind # "none"
    BY <2>1 DEF Indexed
  <2>4. n \in 1 .. n
    BY <2>1, <2>2
  <2> QED
    BY <2>1, <2>2, <2>3, <2>4
<1>2. M = Front([L EXCEPT ![p] = l]) /\ m = [[q EXCEPT ![l] = p] EXCEPT ![i] = npos]
  BY DEF Last
<1> HIDE DEF n, p, l
<1>3. /\ M \in Seq(Index) /\ DOMAIN M = 1 .. n - 1
      /\ \A k \in 1 .. n - 1 : M[k] = IF k = p THEN l ELSE L[k]
  <2> DEFINE r == [L EXCEPT ![p] = l]
  <2>1. r \in Seq(Index) /\ Len(r) = n /\ \A k \in 1 .. n : r[k] = IF k = p THEN l ELSE L[k]
    BY <1>1
  <2>2. M = Front(r)
    BY <1>2
  <2> HIDE DEF r
  <2>3. M \in Seq(Index) /\ DOMAIN M = 1 .. n - 1 /\ \A k \in 1 .. n - 1 : M[k] = r[k]
    <3>1. n # 0 /\ n \in Nat
      BY <1>1
    <3>2. Len(r) = n /\ r \in Seq(Index)
      BY <2>1
    <3> QED
      BY <2>2, <3>1, <3>2, FrontOf
  <2>4. \A k \in 1 .. n - 1 : k \in 1 .. n
    BY <1>1
  <2> QED
    BY <2>1, <2>3, <2>4
<1>4. Len(M) = n - 1
  BY <1>1, <1>3
<1>5. /\ m \in [Index -> Nat] /\ m[i] = npos
      /\ \A j \in Index \ {i} : m[j] = IF j = l THEN p ELSE q[j]
  <2>1. p \in Nat /\ npos \in Nat
    BY <1>1 DEF npos
  <2> QED
    BY <1>1, <1>2, <2>1
<1>6. /\ U \in [Index -> Tombstone] /\ U[i].kind = "none"
      /\ \A j \in Index \ {i} : U[j] = T[j]
  BY <1>1 DEF Tombstone, NoTombstone
<1>7. l = L[n] /\ p = q[i]
  BY DEF l, p
<1>8. ASSUME NEW k \in DOMAIN M PROVE m[M[k]] = k /\ U[M[k]].kind # "none"
  <2>1. k \in 1 .. n /\ k # n
    BY <1>1, <1>3
  <2>2. CASE k = p
    <3>1. M[k] = l /\ l # i
      BY <1>1, <1>3, <1>7, <2>1, <2>2
    <3> QED
      BY <1>1, <1>5, <1>6, <1>7, <2>2, <3>1
  <2>3. CASE k # p
    <3>1. M[k] = L[k] /\ q[L[k]] = k /\ L[k] \in Index /\ T[L[k]].kind # "none"
      BY <1>1, <1>3, <2>1, <2>3
    <3>2. L[k] # i /\ L[k] # l
      BY <1>1, <1>7, <2>1, <2>3, <3>1
    <3> QED
      BY <1>5, <1>6, <3>1, <3>2
  <2> QED
    BY <2>2, <2>3
<1>9. ASSUME NEW j \in Index, m[j] # npos \/ U[j].kind # "none"
      PROVE  m[j] \in DOMAIN M /\ M[m[j]] = j
  <2>1. j # i
    BY <1>5, <1>6, <1>9
  <2>2. CASE j = l
    <3>1. m[j] = p /\ p # n
      BY <1>1, <1>5, <1>7, <2>1, <2>2
    <3>2. p \in 1 .. n - 1
      BY <1>1, <3>1
    <3> QED
      BY <1>3, <2>2, <3>1, <3>2
  <2>3. CASE j # l
    <3>1. m[j] = q[j] /\ U[j] = T[j]
      BY <1>5, <1>6, <2>1, <2>3
    <3>2. q[j] \in DOMAIN L /\ L[q[j]] = j
      BY <1>9, <3>1 DEF Indexed
    <3>3. q[j] \in 1 .. n /\ q[j] # n /\ q[j] # p
      BY <1>1, <1>7, <2>1, <2>3, <3>2
    <3>4. q[j] \in 1 .. n - 1
      BY <1>1, <3>3
    <3> QED
      BY <1>3, <3>1, <3>2, <3>3, <3>4
  <2> QED
    BY <2>2, <2>3
<1>10. c - 1 = Len(M)
  BY <1>1, <1>4
<1> QED
  BY <1>3, <1>5, <1>6, <1>8, <1>9, <1>10 DEF Indexed
-----------------------------------------------------------------------------
(* The inductive invariant, by the two halves of the storage. *)
Array   == Dense(dense, sparse, dirty_count, added_count)
Listing == Indexed(tombstones, tombstone_indices, tombstone_positions, tombstone_count)
AInv    == alive \subseteq Index /\ gen \in [Index -> Nat] /\ Array /\ Listing

(* The counters count positions, and so they count indices. *)
LEMMA ArraysAreConsistent == AInv => TypeOK /\ ArraysConsistent
<1> SUFFICES ASSUME AInv PROVE TypeOK /\ ArraysConsistent
  OBVIOUS
<1>1. Found(dense, sparse)
  BY DEF AInv, Array, Dense
<1>2. /\ dirty_count = Cardinality({p \in DOMAIN dense : dense[p].dirty})
      /\ added_count = Cardinality({p \in DOMAIN dense : dense[p].added})
      /\ dirty_count \in Nat /\ added_count \in Nat
  BY <1>1, MarksCounted, FS_CardinalityType DEF AInv, Array, Dense
<1>3. tombstone_count = Len(tombstone_indices) /\ tombstone_count \in Nat
  BY DEF AInv, Listing, Indexed
<1>4. TypeOK
  BY <1>1, <1>2, <1>3 DEF TypeOK, AInv, Listing, Indexed, Found, Tombstone
<1>5. LookupConsistent
  <2>1. \A p \in DOMAIN dense : p \in 1 .. Len(dense)
    BY <1>1, EntryAt
  <2>2. \A i \in Index : sparse[i] # npos => sparse[i] \in DOMAIN dense /\ dense[sparse[i]].index = i
    BY <1>1 DEF Found
  <2>3. Len(dense) \in Nat
    BY <1>1 DEF Found
  <2>4. \A i \in Index : sparse[i] # npos => Contains(i)
    BY <2>1, <2>2, <2>3 DEF Contains
  <2> QED
    BY <1>1, <2>4 DEF Found, LookupConsistent
<1>6. TombstonesIndexed
  BY DEF AInv, Listing, Indexed, TombstonesIndexed, HasTombstone
<1> QED
  BY <1>2, <1>3, <1>4, <1>5, <1>6 DEF ArraysConsistent, CountersExact

LEMMA InitArrays == Init => AInv
<1> SUFFICES ASSUME Init PROVE AInv
  OBVIOUS
<1>1. dense \in Seq(Entry) /\ DOMAIN dense = {} /\ sparse \in [Index -> Nat]
  BY DEF Init, npos
<1>2. Found(dense, sparse)
  BY <1>1 DEF Found, Init
<1>3. DirtyOf(dense) = {} /\ AddedOf(dense) = {}
  BY <1>1 DEF DirtyOf, AddedOf
<1>4. Array
  BY <1>2, <1>3, FS_EmptySet DEF Array, Dense, Init
<1>5. Listing
  BY EmptyListing DEF Listing, Init
<1> QED
  BY <1>4, <1>5 DEF AInv, Init

LEMMA FoundIfIndexed ==
    ASSUME AInv, NEW i \in Index
    PROVE  /\ Found(dense, sparse) /\ dense \in Seq(Entry) /\ sparse \in [Index -> Nat]
           /\ Contains(i) <=> sparse[i] # npos
           /\ sparse[i] # npos => /\ sparse[i] \in DOMAIN dense
                                  /\ dense[sparse[i]].index = i /\ dense[sparse[i]] \in Entry
<1>1. Found(dense, sparse)
  BY DEF AInv, Array, Dense
<1>2. dense \in Seq(Entry) /\ sparse \in [Index -> Nat] /\ LookupConsistent
  BY <1>1, ArraysAreConsistent DEF Found, ArraysConsistent
<1>3. sparse[i] # npos => sparse[i] \in DOMAIN dense /\ dense[sparse[i]].index = i
  BY <1>1 DEF Found
<1>4. sparse[i] # npos => dense[sparse[i]] \in Entry
  BY <1>1, <1>3, EntryAt
<1>5. Contains(i) <=> sparse[i] # npos
  BY <1>2 DEF Contains, LookupConsistent
<1> QED
  BY <1>1, <1>2, <1>3, <1>4, <1>5

(* clear_tombstone, whether or not there is one. *)
LEMMA ClearedTombstone ==
    ASSUME AInv, NEW i \in Index, ClearTombstone(i)
    PROVE  Listing' /\ tombstones' = [tombstones EXCEPT ![i] = NoTombstone]
<1>0. Indexed(tombstones, tombstone_indices, tombstone_positions, tombstone_count)
  BY DEF AInv, Listing
<1>1. CASE HasTombstone(i)
  BY <1>0, <1>1, UnlistedTombstone DEF ClearTombstone, HasTombstone, Listing
<1>2. CASE ~HasTombstone(i)
  <2>1. tombstones \in [Index -> Tombstone] /\ tombstones[i] = NoTombstone
    BY <1>0, <1>2, TombstoneAt DEF Indexed, HasTombstone
  <2>2. tombstones' = [tombstones EXCEPT ![i] = NoTombstone]
    BY <1>2, <2>1 DEF ClearTombstone
  <2> QED
    BY <1>0, <1>2, <2>2 DEF ClearTombstone, Listing
<1> QED
  BY <1>1, <1>2

LEMMA MarkedTombstone ==
    ASSUME AInv, NEW i \in Index, NEW kind \in {"removed", "destroyed"}, MarkTombstone(i, kind)
    PROVE  /\ Listing'
           /\ tombstones' = [tombstones EXCEPT ![i] = [kind |-> kind, gen |-> gen[i]]]
<1> DEFINE r == [kind |-> kind, gen |-> gen[i]]
<1>0. Indexed(tombstones, tombstone_indices, tombstone_positions, tombstone_count)
  BY DEF AInv, Listing
<1>1. r \in Tombstone /\ r.kind # "none"
  BY DEF AInv, Tombstone
<1>2. tombstones' = [tombstones EXCEPT ![i] = r]
  BY DEF MarkTombstone
<1>3. CASE HasTombstone(i)
  BY <1>0, <1>1, <1>2, <1>3, ReplacedTombstone DEF MarkTombstone, HasTombstone, Listing
<1>4. CASE ~HasTombstone(i)
  <2>1. /\ tombstones[i].kind = "none" /\ tombstone_count' = tombstone_count + 1
        /\ tombstone_indices' = Append(tombstone_indices, i)
        /\ tombstone_positions' = [tombstone_positions EXCEPT ![i] = Len(tombstone_indices) + 1]
    BY <1>4 DEF MarkTombstone, HasTombstone
  <2> HIDE DEF r
  <2>2. Indexed(tombstones', tombstone_indices', tombstone_positions', tombstone_count')
    BY <1>0, <1>1, <1>2, <2>1, ListedTombstone
  <2> QED
    BY <1>2, <2>2 DEF Listing, r
<1> QED
  BY <1>2, <1>3, <1>4

(* The counters of a step that concerns index i only. *)
LEMMA CountedStep ==
    ASSUME AInv, NEW i \in Index, Changes(dense, sparse, dense', sparse', i),
           dirty_count' = dirty_count
               + One(sparse'[i] # npos /\ dense'[sparse'[i]].dirty)
               - One(sparse[i] # npos /\ dense[sparse[i]].dirty),
           added_count' = added_count
               + One(sparse'[i] # npos /\ dense'[sparse'[i]].added)
               - One(sparse[i] # npos /\ dense[sparse[i]].added)
    PROVE  Array'
<1>1. Dense(dense, sparse, dirty_count, added_count) /\ Found(dense, sparse)
  BY DEF AInv, Array, Dense
<1>2. Found(dense', sparse') /\ \A j \in Index \ {i} : Same(dense, sparse, dense', sparse', j)
  BY DEF Changes
<1>3. /\ i \in DirtyOf(dense) <=> sparse[i] # npos /\ dense[sparse[i]].dirty
      /\ i \in AddedOf(dense) <=> sparse[i] # npos /\ dense[sparse[i]].added
      /\ i \in DirtyOf(dense') <=> sparse'[i] # npos /\ dense'[sparse'[i]].dirty
      /\ i \in AddedOf(dense') <=> sparse'[i] # npos /\ dense'[sparse'[i]].added
  BY <1>1, <1>2, Visited
<1>4. /\ dirty_count' = dirty_count + One(i \in DirtyOf(dense')) - One(i \in DirtyOf(dense))
      /\ added_count' = added_count + One(i \in AddedOf(dense')) - One(i \in AddedOf(dense))
  BY <1>3 DEF One
<1>5. Dense(dense', sparse', dirty_count', added_count')
  BY <1>1, <1>2, <1>4, Recounted
<1> QED
  BY <1>5 DEF Array
-----------------------------------------------------------------------------
(* What each operation does to the dense array. *)
LEMMA ReplaceStep ==
    ASSUME AInv, NEW i \in Index, NEW v \in Value, Replace(i, v)
    PROVE  /\ Array' /\ Changes(dense, sparse, dense', sparse', i)
           /\ Stored(dense', sparse', i, [dense[sparse[i]] EXCEPT !.value = v, !.dirty = TRUE])
<1> DEFINE p == sparse[i]
           r == [dense[p] EXCEPT !.value = v, !.dirty = TRUE]
<1>1. /\ p # npos /\ p \in DOMAIN dense /\ dense[p] \in Entry /\ dense[p].index = i
      /\ Found(dense, sparse) /\ dense \in Seq(Entry)
  BY FoundIfIndexed DEF Replace
<1>2. /\ r \in Entry /\ r.index = i /\ r.dirty /\ r.added = dense[p].added
  BY <1>1 DEF Entry
<1>3. dense' = [dense EXCEPT ![p] = r] /\ sparse' = sparse
  BY <1>1 DEF Replace
<1>4. /\ dirty_count' = dirty_count + One(~dense[p].dirty) /\ added_count' = added_count
  BY DEF Replace
<1> HIDE DEF r
<1>5. Changes(dense, sparse, dense', sparse', i) /\ dense'[p] = r
  <2>1. /\ Found(dense', sparse) /\ dense'[p] = r
        /\ \A j \in Index \ {i} : Same(dense, sparse, dense', sparse, j)
    BY <1>1, <1>2, <1>3, ChangedFound
  <2> QED
    BY <1>3, <2>1 DEF Changes
<1>6. sparse'[i] = p
  BY <1>3
<1>7. dirty_count \in Nat /\ added_count \in Nat /\ dense[p].dirty \in BOOLEAN
  BY <1>1, ArraysAreConsistent DEF TypeOK, Entry
<1>8. /\ dirty_count' = dirty_count + One(sparse'[i] # npos /\ dense'[sparse'[i]].dirty)
                                    - One(sparse[i] # npos /\ dense[sparse[i]].dirty)
      /\ added_count' = added_count + One(sparse'[i] # npos /\ dense'[sparse'[i]].added)
                                    - One(sparse[i] # npos /\ dense[sparse[i]].added)
  BY <1>1, <1>2, <1>4, <1>5, <1>6, <1>7 DEF One
<1>9. Array'
  BY <1>5, <1>8, CountedStep
<1> QED
  BY <1>1, <1>5, <1>6, <1>9 DEF Stored, r

LEMMA InsertStep ==
    ASSUME AInv, NEW i \in Index, NEW v \in Value, Insert(i, v)
    PROVE  /\ Array' /\ Changes(dense, sparse, dense', sparse', i)
           /\ Stored(dense', sparse', i, [index |-> i, value |-> v, dirty |-> TRUE, added |-> TRUE])
<1> DEFINE r == [index |-> i, value |-> v, dirty |-> TRUE, added |-> TRUE]
<1>1. sparse[i] = npos /\ Found(dense, sparse)
  BY FoundIfIndexed DEF Insert
<1>2. r \in Entry /\ r.index = i /\ r.dirty /\ r.added
  BY DEF Entry
<1>3. /\ dense' = Append(dense, r) /\ sparse' = [sparse EXCEPT ![i] = Len(dense) + 1]
      /\ dirty_count' = dirty_count + 1 /\ added_count' = added_count + 1
  BY DEF Insert
<1> HIDE DEF r
<1>4. /\ Changes(dense, sparse, dense', sparse', i)
      /\ sparse'[i] # npos /\ dense'[sparse'[i]] = r
  <2>1. /\ Found(dense', sparse') /\ sparse'[i] # npos /\ dense'[sparse'[i]] = r
        /\ \A j \in Index \ {i} : Same(dense, sparse, dense', sparse', j)
    <3>1. Appends(dense, sparse, i, r, dense', sparse')
      BY <1>3 DEF Appends
    <3> QED
      BY <1>1, <1>2, <3>1, AppendedFound
  <2> QED
    BY <2>1 DEF Changes
<1>5. dirty_count \in Nat /\ added_count \in Nat
  BY ArraysAreConsistent DEF TypeOK
<1>6. /\ dirty_count' = dirty_count + One(sparse'[i] # npos /\ dense'[sparse'[i]].dirty)
                                    - One(sparse[i] # npos /\ dense[sparse[i]].dirty)
      /\ added_count' = added_count + One(sparse'[i] # npos /\ dense'[sparse'[i]].added)
                                    - One(sparse[i] # npos /\ dense[sparse[i]].added)
  BY <1>1, <1>2, <1>3, <1>4, <1>5 DEF One
<1>7. Array'
  BY <1>4, <1>6, CountedStep
<1> QED
  BY <1>4, <1>7 DEF Stored, r

LEMMA EraseStep ==
    ASSUME AInv, NEW i \in Index, Contains(i), EraseAt(sparse[i])
    PROVE  /\ Array' /\ Changes(dense, sparse, dense', sparse', i) /\ sparse'[i] = npos
<1> DEFINE p == sparse[i]
<1>1. /\ p # npos /\ p \in DOMAIN dense /\ dense[p] \in Entry /\ dense[p].index = i
      /\ Found(dense, sparse)
  BY FoundIfIndexed
<1>2. /\ dense' = Front([dense EXCEPT ![p] = Last(dense)])
      /\ sparse' = [[sparse EXCEPT ![Last(dense).index] = p] EXCEPT ![dense[p].index] = npos]
      /\ dirty_count' = dirty_count - One(dense[p].dirty)
      /\ added_count' = added_count - One(dense[p].added)
  BY DEF EraseAt
<1> HIDE DEF p
<1>3. Changes(dense, sparse, dense', sparse', i) /\ sparse'[i] = npos
  <2>1. /\ Found(dense', sparse') /\ sparse'[dense[p].index] = npos
        /\ \A j \in Index \ {dense[p].index} : Same(dense, sparse, dense', sparse', j)
    BY <1>1, <1>2, ErasedFound
  <2> QED
    BY <1>1, <2>1 DEF Changes
<1>4. dirty_count \in Nat /\ added_count \in Nat
  BY ArraysAreConsistent DEF TypeOK
<1>5. /\ dirty_count' = dirty_count + One(sparse'[i] # npos /\ dense'[sparse'[i]].dirty)
                                    - One(sparse[i] # npos /\ dense[sparse[i]].dirty)
      /\ added_count' = added_count + One(sparse'[i] # npos /\ dense'[sparse'[i]].added)
                                    - One(sparse[i] # npos /\ dense[sparse[i]].added)
  BY <1>1, <1>2, <1>3, <1>4 DEF One, p
<1>6. Array'
  BY <1>3, <1>5, CountedStep
<1> QED
  BY <1>3, <1>6

LEMMA ClearDirtyStep ==
    ASSUME AInv, NEW i \in Index, Contains(i), ClearDirty(i)
    PROVE  /\ Array' /\ Changes(dense, sparse, dense', sparse', i)
           /\ Stored(dense', sparse', i, [dense[sparse[i]] EXCEPT !.dirty = FALSE, !.added = FALSE])
<1> DEFINE p == sparse[i]
           r == [dense[p] EXCEPT !.dirty = FALSE, !.added = FALSE]
<1>1. /\ p # npos /\ p \in DOMAIN dense /\ dense[p] \in Entry /\ dense[p].index = i
      /\ Found(dense, sparse) /\ dense \in Seq(Entry)
  BY FoundIfIndexed
<1>2. /\ r \in Entry /\ r.index = i /\ ~r.dirty /\ ~r.added
  BY <1>1 DEF Entry
<1>3. dense' = [dense EXCEPT ![p] = r] /\ sparse' = sparse
  BY <1>1 DEF ClearDirty
<1>4. /\ dirty_count' = dirty_count - One(dense[p].dirty)
      /\ added_count' = added_count - One(dense[p].added)
  BY DEF ClearDirty
<1> HIDE DEF r
<1>5. Changes(dense, sparse, dense', sparse', i) /\ dense'[p] = r
  <2>1. /\ Found(dense', sparse) /\ dense'[p] = r
        /\ \A j \in Index \ {i} : Same(dense, sparse, dense', sparse, j)
    BY <1>1, <1>2, <1>3, ChangedFound
  <2> QED
    BY <1>3, <2>1 DEF Changes
<1>6. sparse'[i] = p
  BY <1>3
<1>7. dirty_count \in Nat /\ added_count \in Nat
  BY ArraysAreConsistent DEF TypeOK
<1>8. /\ dirty_count' = dirty_count + One(sparse'[i] # npos /\ dense'[sparse'[i]].dirty)
                                    - One(sparse[i] # npos /\ dense[sparse[i]].dirty)
      /\ added_count' = added_count + One(sparse'[i] # npos /\ dense'[sparse'[i]].added)
                                    - One(sparse[i] # npos /\ dense[sparse[i]].added)
  BY <1>1, <1>2, <1>4, <1>5, <1>6, <1>7 DEF One
<1>9. Array'
  BY <1>5, <1>8, CountedStep
<1> QED
  BY <1>1, <1>5, <1>6, <1>9 DEF Stored, r

(* A move changes nothing that an accessor reads. *)
LEMMA MoveStep ==
    ASSUME AInv, NEW i \in Index, NEW p \in DOMAIN dense, MoveIndexToDense(i, p)
    PROVE  /\ Array'
           /\ DirtyOf(dense') = DirtyOf(dense) /\ AddedOf(dense') = AddedOf(dense)
           /\ ValuesOf(dense', sparse') = ValuesOf(dense, sparse)
<1>1. sparse[i] # npos /\ p # sparse[i] /\ Found(dense, sparse)
  BY FoundIfIndexed DEF MoveIndexToDense
<1>2. /\ dense' = [dense EXCEPT ![sparse[i]] = dense[p], ![p] = dense[sparse[i]]]
      /\ sparse' = [sparse EXCEPT ![i] = p, ![dense[p].index] = sparse[i]]
      /\ dirty_count' = dirty_count /\ added_count' = added_count
  BY DEF MoveIndexToDense
<1>3. Found(dense', sparse') /\ \A k \in Index : Same(dense, sparse, dense', sparse', k)
  BY <1>1, <1>2, SwappedFound
<1>4. /\ DirtyOf(dense) \ {i} = DirtyOf(dense') \ {i}
      /\ AddedOf(dense) \ {i} = AddedOf(dense') \ {i}
      /\ \A j \in Index \ {i} : ValuesOf(dense', sparse')[j] = ValuesOf(dense, sparse)[j]
  BY <1>1, <1>3, OthersKeep
<1>5. /\ i \in DirtyOf(dense) <=> sparse[i] # npos /\ dense[sparse[i]].dirty
      /\ i \in AddedOf(dense) <=> sparse[i] # npos /\ dense[sparse[i]].added
      /\ i \in DirtyOf(dense') <=> sparse'[i] # npos /\ dense'[sparse'[i]].dirty
      /\ i \in AddedOf(dense') <=> sparse'[i] # npos /\ dense'[sparse'[i]].added
  BY <1>1, <1>3, Visited
<1>6. /\ sparse[i] = npos <=> sparse'[i] = npos
      /\ sparse[i] # npos => dense'[sparse'[i]] = dense[sparse[i]]
  BY <1>3 DEF Same
<1>7. DirtyOf(dense') = DirtyOf(dense) /\ AddedOf(dense') = AddedOf(dense)
  BY <1>4, <1>5, <1>6
<1>8. ValuesOf(dense', sparse') = ValuesOf(dense, sparse)
  BY <1>4, <1>6 DEF ValuesOf
<1>9. Array'
  BY <1>2, <1>3, <1>7 DEF AInv, Array, Dense
<1> QED
  BY <1>7, <1>8, <1>9

(* Restoring a copy rebuilds what was there: nothing changes. *)
LEMMA RestoreStep ==
    ASSUME AInv, CopyAndRestore
    PROVE  UNCHANGED vars
<1> DEFINE listed(i) == {k \in DOMAIN tombstone_indices : tombstone_indices[k] = i}
           at(i)     == {p \in DOMAIN dense : dense[p].index = i}
           the(S)    == IF S = {} THEN npos ELSE CHOOSE k \in S : \A m \in S : m <= k
<1>1. /\ Found(dense, sparse) /\ TypeOK /\ CountersExact
      /\ Indexed(tombstones, tombstone_indices, tombstone_positions, tombstone_count)
  BY ArraysAreConsistent DEF AInv, Array, Dense, Listing, ArraysConsistent
<1>2. /\ sparse' = [i \in Index |-> the(at(i))]
      /\ tombstone_positions' = [i \in Index |-> the(listed(i))]
      /\ tombstones' = [i \in Index |-> IF listed(i) = {} THEN NoTombstone ELSE tombstones[i]]
      /\ tombstone_count' = tombstone_count
      /\ dirty_count' = dirty_count /\ added_count' = added_count
      /\ UNCHANGED <<entities, dense, tombstone_indices>>
  BY <1>1 DEF CopyAndRestore, CountersExact
<1>3. ASSUME NEW k \in Nat PROVE the({k}) = k /\ the({}) = npos
  OBVIOUS
<1>4. ASSUME NEW i \in Index PROVE the(at(i)) = sparse[i]
  <2>1. sparse[i] \in Nat /\ (sparse[i] # npos => sparse[i] \in DOMAIN dense /\ dense[sparse[i]].index = i)
    BY <1>1 DEF Found
  <2>2. \A p \in DOMAIN dense : sparse[dense[p].index] = p /\ p # npos
    BY <1>1, EntryAt
  <2>3. at(i) = IF sparse[i] = npos THEN {} ELSE {sparse[i]}
    BY <2>1, <2>2
  <2> HIDE DEF at, the
  <2> QED
    BY <1>3, <2>1, <2>3
<1>5. ASSUME NEW i \in Index PROVE /\ the(listed(i)) = tombstone_positions[i]
                                   /\ listed(i) = {} => tombstones[i] = NoTombstone
  <2>1. /\ tombstone_positions[i] \in Nat /\ tombstones[i] \in Tombstone
        /\ tombstone_positions[i] # npos \/ tombstones[i].kind # "none" =>
              /\ tombstone_positions[i] \in DOMAIN tombstone_indices
              /\ tombstone_indices[tombstone_positions[i]] = i
    BY <1>1 DEF Indexed
  <2>2. \A k \in DOMAIN tombstone_indices : tombstone_positions[tombstone_indices[k]] = k /\ k # npos
    BY <1>1 DEF Indexed, npos
  <2>3. listed(i) = IF tombstone_positions[i] = npos THEN {} ELSE {tombstone_positions[i]}
    BY <2>1, <2>2
  <2>4. listed(i) = {} => tombstones[i] = NoTombstone
    BY <2>1, TombstoneAt
  <2> HIDE DEF listed, the
  <2> QED
    BY <1>3, <2>1, <2>3, <2>4
<1> HIDE DEF listed, at, the
<1>6. sparse' = sparse /\ tombstone_positions' = tombstone_positions
  BY <1>1, <1>2, <1>4, <1>5 DEF TypeOK
<1>7. tombstones' = tombstones
  BY <1>1, <1>2, <1>5 DEF TypeOK
<1> QED
  BY <1>2, <1>6, <1>7 DEF vars, storage
-----------------------------------------------------------------------------
LEMMA ListingKept ==
    ASSUME AInv, UNCHANGED <<tombstones, tombstone_indices, tombstone_positions, tombstone_count>>
    PROVE  Listing'
BY DEF AInv, Listing

LEMMA ArrayKept ==
    ASSUME AInv, UNCHANGED <<dense, sparse, dirty_count, added_count>>
    PROVE  Array'
BY DEF AInv, Array

(* The tombstone of this entity goes with an insertion, an older one stays. *)
LEMMA InsertTombstones ==
    ASSUME AInv, NEW i \in Index, NEW v \in Value, Insert(i, v)
    PROVE  /\ Listing'
           /\ tombstones' = IF tombstones[i].gen = gen[i]
                            THEN [tombstones EXCEPT ![i] = NoTombstone] ELSE tombstones
<1>1. CASE tombstones[i].gen = gen[i]
  <2>1. ClearTombstone(i)
    BY <1>1 DEF Insert
  <2> QED
    BY <1>1, <2>1, ClearedTombstone
<1>2. CASE tombstones[i].gen # gen[i]
  <2>1. UNCHANGED <<tombstones, tombstone_indices, tombstone_positions, tombstone_count>>
    BY <1>2 DEF Insert
  <2> QED
    BY <1>2, <2>1, ListingKept
<1> QED
  BY <1>1, <1>2

LEMMA ClearAllStep ==
    ASSUME AInv, ClearAllDirty
    PROVE  /\ Array' /\ Listing'
           /\ DirtyOf(dense') = {} /\ AddedOf(dense') = {}
           /\ ValuesOf(dense', sparse') = ValuesOf(dense, sparse)
<1>1. Found(dense, sparse)
  BY DEF AInv, Array, Dense
<1>2. /\ dense' = [p \in DOMAIN dense |-> [dense[p] EXCEPT !.dirty = FALSE, !.added = FALSE]]
      /\ sparse' = sparse /\ dirty_count' = 0 /\ added_count' = 0
  BY DEF ClearAllDirty
<1>3. /\ Dense(dense', sparse, 0, 0) /\ DirtyOf(dense') = {} /\ AddedOf(dense') = {}
      /\ ValuesOf(dense', sparse) = ValuesOf(dense, sparse)
  BY <1>1, <1>2, BitsCleared
<1>4. Array'
  BY <1>2, <1>3 DEF Array
<1>5. Listing'
  <2>1. /\ tombstones' = [i \in Index |-> NoTombstone] /\ tombstone_indices' = <<>>
        /\ tombstone_positions' = [i \in Index |-> npos] /\ tombstone_count' = 0
    BY DEF ClearAllDirty
  <2> QED
    BY <2>1, EmptyListing DEF Listing
<1> QED
  BY <1>2, <1>3, <1>4, <1>5

(* Every step keeps the arrays consistent. *)
LEMMA NextArrays == AInv /\ [Next]_vars => AInv'
<1> SUFFICES ASSUME AInv, [Next]_vars PROVE AInv'
  OBVIOUS
<1>0. alive \subseteq Index /\ gen \in [Index -> Nat]
  BY DEF AInv
<1>1. ASSUME NEW i \in Index, NEW v \in Value, Replace(i, v) PROVE AInv'
  <2>1. entities' = entities /\ Listing'
    BY <1>1, ListingKept DEF Replace
  <2> QED
    BY <1>0, <1>1, <2>1, ReplaceStep DEF AInv, entities
<1>2. ASSUME NEW i \in Index, NEW v \in Value, Insert(i, v) PROVE AInv'
  <2>1. entities' = entities
    BY <1>2 DEF Insert
  <2> QED
    BY <1>0, <1>2, <2>1, InsertStep, InsertTombstones DEF AInv, entities
<1>3. ASSUME NEW i \in Index, Remove(i) PROVE AInv'
  <2>1. Contains(i) /\ EraseAt(sparse[i]) /\ MarkTombstone(i, "removed") /\ entities' = entities
    BY <1>3 DEF Remove
  <2> QED
    BY <1>0, <2>1, EraseStep, MarkedTombstone DEF AInv, entities
<1>4. ASSUME NEW i \in Index, RemoveForDestroy(i) PROVE AInv'
  <2>1. alive' \subseteq Index /\ gen' \in [Index -> Nat]
    BY <1>0, <1>4 DEF RemoveForDestroy
  <2>2. CASE Contains(i)
    <3>1. EraseAt(sparse[i]) /\ MarkTombstone(i, "destroyed")
      BY <1>4, <2>2 DEF RemoveForDestroy
    <3> QED
      BY <2>1, <2>2, <3>1, EraseStep, MarkedTombstone DEF AInv, entities
  <2>3. CASE ~Contains(i)
    <3>1. UNCHANGED storage
      BY <1>4, <2>3 DEF RemoveForDestroy
    <3> QED
      BY <2>1, <3>1, ListingKept, ArrayKept DEF AInv, storage
  <2> QED
    BY <2>2, <2>3
<1>5. ASSUME NEW i \in Index, ClearDirty(i) PROVE AInv'
  <2>1. entities' = entities
    BY <1>5 DEF ClearDirty
  <2>2. CASE Contains(i)
    <3>1. Listing'
      BY <1>5, <2>2, ListingKept DEF ClearDirty
    <3> QED
      BY <1>0, <1>5, <2>1, <2>2, <3>1, ClearDirtyStep DEF AInv, entities
  <2>3. CASE ~Contains(i)
    <3>1. ClearTombstone(i) /\ UNCHANGED <<dense, sparse, dirty_count, added_count>>
      BY <1>5, <2>3 DEF ClearDirty
    <3> QED
      BY <1>0, <2>1, <3>1, ClearedTombstone, ArrayKept DEF AInv, entities
  <2> QED
    BY <2>2, <2>3
<1>6. ASSUME NEW i \in Index, NEW p \in DOMAIN dense, MoveIndexToDense(i, p) PROVE AInv'
  <2>1. entities' = entities /\ Listing'
    BY <1>6, ListingKept DEF MoveIndexToDense
  <2> QED
    BY <1>0, <1>6, <2>1, MoveStep DEF AInv, entities
<1>7. CASE ClearAllDirty
  <2>1. entities' = entities
    BY <1>7 DEF ClearAllDirty
  <2> QED
    BY <1>0, <1>7, <2>1, ClearAllStep DEF AInv, entities
<1>8. CASE UNCHANGED vars
  BY <1>0, <1>8, ListingKept, ArrayKept DEF AInv, vars, entities, storage
<1>9. CASE CopyAndRestore
  BY <1>8, <1>9, RestoreStep
<1>10. ASSUME NEW i \in Index, Create(i) PROVE AInv'
  BY <1>0, <1>10, ListingKept, ArrayKept DEF AInv, Create, storage
<1> QED
  BY <1>0, <1>1, <1>2, <1>3, <1>4, <1>5, <1>6, <1>7, <1>8, <1>9, <1>10 DEF Next

(* The storage stays well typed. *)
THEOREM TypeCorrect == Spec => []TypeOK
<1>1. AInv => TypeOK
  BY ArraysAreConsistent
<1> QED
  BY <1>1, InitArrays, NextArrays, PTL DEF Spec

(* Through swap-erases, group moves, tombstones coming and going and       *)
(* snapshot copies, the lookup arrays stay inverse to the dense ones and   *)
(* the counters stay what they count.                                      *)
THEOREM ArraysCorrect == Spec => []ArraysConsistent
<1>1. AInv => ArraysConsistent
  BY ArraysAreConsistent
<1> QED
  BY <1>1, InitArrays, NextArrays, PTL DEF Spec

-----------------------------------------------------------------------------
(* What the accessors read, in terms of the arrays. *)
Report == /\ Values = ValuesOf(dense, sparse)
          /\ Dirty = DirtyOf(dense) /\ Added = AddedOf(dense)
          /\ Removals = tombstones

LEMMA SeenValues ==
    ASSUME NEW d, NEW s, Found(d, s)
    PROVE  [i \in Index |-> IF s[i] # npos /\ s[i] <= Len(d) /\ d[s[i]].index = i
                            THEN d[s[i]].value ELSE Missing] = ValuesOf(d, s)
<1>1. d \in Seq(Entry) /\ \A i \in Index : s[i] # npos => s[i] \in DOMAIN d /\ d[s[i]].index = i
  BY DEF Found
<1>2. DOMAIN d = 1 .. Len(d) /\ Len(d) \in Nat
  BY <1>1
<1>3. \A i \in Index : (s[i] # npos /\ s[i] <= Len(d) /\ d[s[i]].index = i) <=> s[i] # npos
  BY <1>1, <1>2
<1> QED
  BY <1>3 DEF ValuesOf

LEMMA SeenRemovals ==
    ASSUME NEW T, NEW L, NEW q, NEW c, Indexed(T, L, q, c)
    PROVE  [i \in Index |-> IF \E k \in DOMAIN L : L[k] = i THEN T[i] ELSE NoTombstone] = T
<1>1. T = [i \in Index |-> T[i]]
  BY DEF Indexed
<1>2. ASSUME NEW i \in Index, ~\E k \in DOMAIN L : L[k] = i PROVE T[i] = NoTombstone
  BY <1>2, TombstoneAt DEF Indexed
<1> QED
  BY <1>1, <1>2

LEMMA Seen == AInv => Report
<1> SUFFICES ASSUME AInv PROVE Report
  OBVIOUS
<1>1. Values = ValuesOf(dense, sparse)
  BY SeenValues DEF Values, Contains, AInv, Array, Dense
<1>2. Removals = tombstones
  BY SeenRemovals DEF Removals, AInv, Listing
<1> QED
  BY <1>1, <1>2 DEF Report, Dirty, Added, DirtyOf, AddedOf

LEMMA SeenNext == AInv' => Report'
BY Seen, PTL
(* The step of the table that a step of the storage is.                    *)
LEMMA ReplaceIsPut ==
    ASSUME Missing \notin Value, AInv, AInv', NEW i \in Index, i \in alive,
           NEW v \in Value, Replace(i, v)
    PROVE  Table!Put(i, v)
<1>1. Report /\ Report'
  BY Seen, SeenNext
<1> DEFINE r == [dense[sparse[i]] EXCEPT !.value = v, !.dirty = TRUE]
<1>2. /\ Found(dense, sparse) /\ sparse[i] # npos /\ dense[sparse[i]] \in Entry
      /\ Changes(dense, sparse, dense', sparse', i)
      /\ sparse'[i] # npos /\ dense'[sparse'[i]] = r
  BY FoundIfIndexed, ReplaceStep DEF Replace, Stored
<1>3. r.value = v /\ r.dirty /\ r.added = dense[sparse[i]].added
  BY <1>2 DEF Entry
<1> HIDE DEF r
<1>4. /\ DirtyOf(dense') = DirtyOf(dense) \cup {i}
      /\ AddedOf(dense') = IF dense[sparse[i]].added THEN AddedOf(dense) \cup {i}
                                                     ELSE AddedOf(dense) \ {i}
      /\ ValuesOf(dense', sparse') = [ValuesOf(dense, sparse) EXCEPT ![i] = v]
  BY <1>2, <1>3, ReportChanges
<1>5. AddedOf(dense') = AddedOf(dense)
  <2>1. i \in AddedOf(dense) <=> dense[sparse[i]].added
    BY <1>2, Visited
  <2> QED
    BY <1>4, <2>1
<1>6. Table!Has(i)
  BY <1>1, <1>2 DEF Report, Table!Has, ValuesOf, Entry
<1>7. tombstones' = tombstones /\ entities' = entities
  BY DEF Replace
<1> QED
  BY <1>1, <1>4, <1>5, <1>6, <1>7 DEF Report, Table!Put, entities

LEMMA HasIfIndexed ==
    ASSUME Missing \notin Value, AInv, NEW i \in Index
    PROVE  Table!Has(i) <=> sparse[i] # npos
<1>1. Values[i] = IF sparse[i] # npos THEN dense[sparse[i]].value ELSE Missing
  BY Seen DEF Report, ValuesOf
<1>2. sparse[i] # npos => dense[sparse[i]].value \in Value
  BY FoundIfIndexed DEF Entry
<1> QED
  BY <1>1, <1>2 DEF Table!Has

LEMMA InsertIsPut ==
    ASSUME Missing \notin Value, AInv, AInv', NEW i \in Index, i \in alive,
           NEW v \in Value, Insert(i, v)
    PROVE  Table!Put(i, v)
<1>1. Report /\ Report'
  BY Seen, SeenNext
<1> DEFINE r == [index |-> i, value |-> v, dirty |-> TRUE, added |-> TRUE]
<1>2. /\ Found(dense, sparse) /\ sparse[i] = npos
      /\ Changes(dense, sparse, dense', sparse', i)
      /\ sparse'[i] # npos /\ dense'[sparse'[i]] = r
  BY FoundIfIndexed, InsertStep DEF Insert, Stored
<1>3. r.value = v /\ r.dirty /\ r.added
  OBVIOUS
<1> HIDE DEF r
<1>4. /\ DirtyOf(dense') = DirtyOf(dense) \cup {i}
      /\ AddedOf(dense') = AddedOf(dense) \cup {i}
      /\ ValuesOf(dense', sparse') = [ValuesOf(dense, sparse) EXCEPT ![i] = v]
  BY <1>2, <1>3, ReportChanges
<1>5. ~Table!Has(i)
  BY <1>2, HasIfIndexed
<1>6. /\ tombstones' = IF tombstones[i].gen = gen[i]
                       THEN [tombstones EXCEPT ![i] = NoTombstone] ELSE tombstones
      /\ entities' = entities
  BY InsertTombstones DEF Insert
<1> QED
  BY <1>1, <1>4, <1>5, <1>6 DEF Report, Table!Put, entities, Table!NoRemoval, NoTombstone

LEMMA EraseIsDrop ==
    ASSUME Missing \notin Value, AInv, AInv', NEW i \in Index,
           NEW kind \in {"removed", "destroyed"},
           Contains(i), EraseAt(sparse[i]), MarkTombstone(i, kind)
    PROVE  Table!Has(i) /\ Table!Drop(i, kind)
<1>1. Report /\ Report'
  BY Seen, SeenNext
<1>2. /\ Found(dense, sparse) /\ sparse[i] # npos
      /\ Changes(dense, sparse, dense', sparse', i) /\ sparse'[i] = npos
  BY FoundIfIndexed, EraseStep
<1>3. /\ DirtyOf(dense') = DirtyOf(dense) \ {i}
      /\ AddedOf(dense') = AddedOf(dense) \ {i}
      /\ ValuesOf(dense', sparse') = [ValuesOf(dense, sparse) EXCEPT ![i] = Missing]
  BY <1>2, ReportChanges
<1>4. tombstones' = [tombstones EXCEPT ![i] = [kind |-> kind, gen |-> gen[i]]]
  BY MarkedTombstone
<1>5. Table!Has(i)
  BY <1>2, HasIfIndexed
<1> QED
  BY <1>1, <1>3, <1>4, <1>5 DEF Report, Table!Drop

LEMMA ClearDirtyIsClearDirty ==
    ASSUME Missing \notin Value, AInv, AInv', NEW i \in Index, i \in alive, ClearDirty(i)
    PROVE  Table!ClearDirty(i)
<1>1. Report /\ Report'
  BY Seen, SeenNext
<1>2. entities' = entities
  BY DEF ClearDirty
<1>3. CASE Contains(i)
  <2> DEFINE r == [dense[sparse[i]] EXCEPT !.dirty = FALSE, !.added = FALSE]
  <2>1. /\ Found(dense, sparse) /\ sparse[i] # npos /\ dense[sparse[i]] \in Entry
        /\ Changes(dense, sparse, dense', sparse', i)
        /\ sparse'[i] # npos /\ dense'[sparse'[i]] = r
    BY <1>3, FoundIfIndexed, ClearDirtyStep DEF Stored
  <2>2. r.value = dense[sparse[i]].value /\ ~r.dirty /\ ~r.added
    BY <2>1 DEF Entry
  <2> HIDE DEF r
  <2>3. /\ DirtyOf(dense') = DirtyOf(dense) \ {i}
        /\ AddedOf(dense') = AddedOf(dense) \ {i}
        /\ ValuesOf(dense', sparse') =
              [ValuesOf(dense, sparse) EXCEPT ![i] = dense[sparse[i]].value]
    BY <2>1, <2>2, ReportChanges
  <2>4. ValuesOf(dense', sparse') = ValuesOf(dense, sparse)
    BY <2>1, <2>3 DEF ValuesOf
  <2>5. Table!Has(i)
    BY <2>1, HasIfIndexed
  <2>6. tombstones' = tombstones
    BY <1>3 DEF ClearDirty
  <2> QED
    BY <1>1, <1>2, <2>3, <2>4, <2>5, <2>6 DEF Report, Table!ClearDirty, entities
<1>4. CASE ~Contains(i)
  <2>1. ClearTombstone(i) /\ dense' = dense /\ sparse' = sparse
    BY <1>4 DEF ClearDirty
  <2>2. tombstones' = [tombstones EXCEPT ![i] = NoTombstone]
    BY <2>1, ClearedTombstone
  <2>3. ~Table!Has(i)
    BY <1>4, HasIfIndexed, FoundIfIndexed
  <2> QED
    BY <1>1, <1>2, <2>1, <2>2, <2>3 DEF Report, Table!ClearDirty, entities, Table!NoRemoval, NoTombstone
<1> QED
  BY <1>3, <1>4

(* Nothing an accessor reads has changed. *)
LEMMA SameReport ==
    ASSUME Report, Report', entities' = entities, tombstones' = tombstones,
           ValuesOf(dense', sparse') = ValuesOf(dense, sparse),
           DirtyOf(dense') = DirtyOf(dense), AddedOf(dense') = AddedOf(dense)
    PROVE  UNCHANGED Table!table
BY DEF Report, Table!table, entities

LEMMA TableStep ==
    ASSUME Missing \notin Value, AInv, AInv', [Next]_vars
    PROVE  [Table!Next]_(Table!table)
<1>1. Report /\ Report' /\ alive \subseteq Index
  BY Seen, SeenNext DEF AInv
<1>2. ASSUME NEW i \in alive, NEW v \in Value, Replace(i, v) \/ Insert(i, v) PROVE Table!Next
  BY <1>1, <1>2, ReplaceIsPut, InsertIsPut DEF Table!Next
<1>3. ASSUME NEW i \in alive, Remove(i) PROVE Table!Next
  <2>1. Contains(i) /\ EraseAt(sparse[i]) /\ MarkTombstone(i, "removed") /\ entities' = entities
    BY <1>3 DEF Remove
  <2>2. Table!Remove(i)
    BY <1>1, <2>1, EraseIsDrop DEF Table!Remove, entities
  <2> QED
    BY <1>1, <2>2 DEF Table!Next
<1>4. ASSUME NEW i \in alive, RemoveForDestroy(i) PROVE Table!Next
  <2>1. alive' = alive \ {i} /\ gen' = [gen EXCEPT ![i] = @ + 1]
    BY <1>4 DEF RemoveForDestroy
  <2>2. CASE Contains(i)
    <3>1. EraseAt(sparse[i]) /\ MarkTombstone(i, "destroyed")
      BY <1>4, <2>2 DEF RemoveForDestroy
    <3>2. Table!Has(i) /\ Table!Drop(i, "destroyed")
      BY <1>1, <2>2, <3>1, EraseIsDrop
    <3> QED
      BY <1>1, <2>1, <3>2 DEF Table!Destroy, Table!Next
  <2>3. CASE ~Contains(i)
    <3>1. UNCHANGED storage
      BY <1>4, <2>3 DEF RemoveForDestroy
    <3>2. ~Table!Has(i)
      BY <1>1, <2>3, HasIfIndexed, FoundIfIndexed
    <3>3. UNCHANGED <<Values, Dirty, Added, Removals>>
      BY <1>1, <3>1 DEF Report, storage
    <3> QED
      BY <1>1, <2>1, <3>2, <3>3 DEF Table!Destroy, Table!Next
  <2> QED
    BY <2>2, <2>3
<1>5. ASSUME NEW i \in alive, ClearDirty(i) PROVE Table!Next
  BY <1>1, <1>5, ClearDirtyIsClearDirty DEF Table!Next
<1>6. ASSUME NEW i \in alive, NEW p \in DOMAIN dense, MoveIndexToDense(i, p)
      PROVE  UNCHANGED Table!table
  <2>1. entities' = entities /\ tombstones' = tombstones
    BY <1>6 DEF MoveIndexToDense
  <2> QED
    BY <1>1, <1>6, <2>1, MoveStep, SameReport
<1>7. CASE ClearAllDirty
  <2>1. /\ DirtyOf(dense') = {} /\ AddedOf(dense') = {}
        /\ ValuesOf(dense', sparse') = ValuesOf(dense, sparse)
    BY <1>7, ClearAllStep
  <2>2. entities' = entities /\ tombstones' = [i \in Index |-> NoTombstone]
    BY <1>7 DEF ClearAllDirty
  <2>3. Table!ClearAllDirty
    BY <1>1, <2>1, <2>2 DEF Report, Table!ClearAllDirty, entities, Table!NoRemoval, NoTombstone
  <2> QED
    BY <2>3 DEF Table!Next
<1>8. CASE UNCHANGED vars
  <2>1. entities' = entities /\ dense' = dense /\ sparse' = sparse /\ tombstones' = tombstones
    BY <1>8 DEF vars, storage
  <2> QED
    BY <1>1, <2>1, SameReport
<1>9. CASE CopyAndRestore
  BY <1>8, <1>9, RestoreStep
<1>10. ASSUME NEW i \in Index, Create(i) PROVE Table!Next
  <2>1. UNCHANGED <<gen, Values, Dirty, Added, Removals>>
    BY <1>1, <1>10 DEF Report, Create, storage
  <2>2. Table!Create(i)
    BY <1>10, <2>1 DEF Create, Table!Create
  <2> QED
    BY <2>2 DEF Table!Next
<1> QED
  BY <1>1, <1>2, <1>3, <1>4, <1>5, <1>6, <1>7, <1>8, <1>9, <1>10 DEF Next

LEMMA TableInit ==
    ASSUME Init
    PROVE  Table!Init
<1>1. Report
  BY InitArrays, Seen
<1>2. DOMAIN dense = {} /\ sparse = [i \in Index |-> npos]
  BY DEF Init
<1>3. DirtyOf(dense) = {} /\ AddedOf(dense) = {}
  BY <1>2 DEF DirtyOf, AddedOf
<1>4. ValuesOf(dense, sparse) = [i \in Index |-> Missing]
  BY <1>2 DEF ValuesOf
<1> QED
  BY <1>1, <1>3, <1>4 DEF Init, Report, Table!Init, Table!NoRemoval, NoTombstone

(* The sparse set behaves as the table of components with its change       *)
(* report: every operation is the table's, and a group move or a snapshot  *)
(* copy is no step at all.  A missing component is not a value.            *)
THEOREM StorageImplementsTable ==
    ASSUME Missing \notin Value
    PROVE  Spec => ImplementsTable
<1>1. Init => Table!Init
  BY TableInit
<1>2. AInv /\ AInv' /\ [Next]_vars => [Table!Next]_(Table!table)
  BY TableStep
<1> QED
  BY <1>1, <1>2, InitArrays, NextArrays, PTL DEF Spec, ImplementsTable, Table!Spec
=============================================================================
