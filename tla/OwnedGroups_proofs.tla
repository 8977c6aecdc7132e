------------------------- MODULE OwnedGroups_proofs -------------------------
(***************************************************************************)
(* The owned group is a common prefix of its storages and a structural job *)
(* visits each of its entities once, for any number of entities, components*)
(* and entries put off.                                                    *)
(***************************************************************************)
EXTENDS OwnedGroups, TLAPS

(* The dense arrays d are well formed, and begin with n common entities in *)
(* the storages that are owned.                                            *)
Arrays(d) == d \in [Component -> Seq(EntityIndex)] /\ \A c \in Component : NoRepeats(d[c])

Prefix(d, n) ==
    /\ \A c \in Owned : n <= Len(d[c])
    /\ \A b, c \in Owned, p \in 1..n : d[b][p] = d[c][p]

(* Entity i is among the first n of every owned storage. *)
Among(d, n, i) == \A c \in Owned : \E p \in 1..n : d[c][p] = i

(* What is not in the group although it has all the components. *)
Outside(i) == ContainsAll(indices, Owned, i) /\ ~InGroup(i)

(* build_group has still to come to them: none was swapped to a position   *)
(* that the loop has passed, because the prefix is behind the cursor.      *)
BuildingCatchesUp ==
    run = "building" =>
        /\ driver \in Owned /\ size < cursor
        /\ \A i \in EntityIndex : Outside(i) => \E p \in cursor..Len(indices[driver]) : indices[driver][p] = i

(* Everywhere else they are put off. *)
PutOff ==
    declared /\ run # "building" => \A i \in EntityIndex : Outside(i) => i \in Range(pending)

(* What goes with the loop that is running. *)
Phases ==
    /\ ~declared => size = 0 /\ run # "building" /\ pending = <<>>
    /\ run \in {"idle", "building"} => pending = <<>>
    /\ run # "visiting" => current = None /\ visited = <<>>

(* What a structural job has still to visit matches if it matched when the *)
(* job began; its current entity was visited and is not among them.        *)
Ahead == {indices[driver][p] : p \in 1..cursor}

VisitsAhead ==
    run = "visiting" =>
        /\ \A i \in Ahead : i \in todo <=> ContainsAll(indices, required, i)
        /\ current # None => current \in Range(visited)

IInv == /\ GroupTypeOK /\ Prefix(indices, size) /\ BuildingCatchesUp /\ PutOff /\ Phases
        /\ EachMatchVisitedOnce /\ VisitsAhead

-----------------------------------------------------------------------------
(* Sequences without repetition: swapping two positions, swap-erasing one  *)
(* and appending what is not there.                                        *)
Holds(q, x) == \E p \in DOMAIN q : q[p] = x

LEMMA SwapSeq ==
    ASSUME NEW S, NEW q \in Seq(S), IsInjective(q),
           NEW p \in 1..Len(q), NEW t \in 1..Len(q),
           NEW s, s = [q EXCEPT ![t] = q[p], ![p] = q[t]]
    PROVE  /\ s \in Seq(S) /\ Len(s) = Len(q) /\ IsInjective(s)
           /\ s[t] = q[p] /\ s[p] = q[t]
           /\ \A k \in 1..Len(q) \ {t, p} : s[k] = q[k]
           /\ \A x : Holds(s, x) <=> Holds(q, x)
<1>1. s \in Seq(S) /\ Len(s) = Len(q) /\ DOMAIN s = DOMAIN q /\ DOMAIN q = 1..Len(q)
  OBVIOUS
<1>2. s[t] = q[p] /\ s[p] = q[t] /\ \A k \in 1..Len(q) \ {t, p} : s[k] = q[k]
  OBVIOUS
<1>3. IsInjective(s)
  BY <1>1, <1>2 DEF IsInjective
<1>4. \A x : Holds(s, x) <=> Holds(q, x)
  BY <1>1, <1>2 DEF Holds
<1> QED
  BY <1>1, <1>2, <1>3, <1>4

Erases(q, p, e) ==
    /\ e \in Seq(EntityIndex) /\ Len(e) = Len(q) - 1 /\ IsInjective(e)
    /\ \A k \in 1..p - 1 : e[k] = q[k]
    /\ \A x : Holds(e, x) <=> x # q[p] /\ Holds(q, x)

LEMMA ErasedSeq ==
    ASSUME NEW q \in Seq(EntityIndex), IsInjective(q), NEW p \in 1..Len(q)
    PROVE  Erases(q, p, Erased(q, p))
<1> DEFINE e == Erased(q, p)
<1> DEFINE r == [q EXCEPT ![p] = q[Len(q)]]
<1>0. e = SubSeq(r, 1, Len(q) - 1)
  BY DEF Erased
<1>1. r \in Seq(EntityIndex) /\ Len(r) = Len(q) /\ DOMAIN q = 1..Len(q)
  OBVIOUS
<1>2. /\ e \in Seq(EntityIndex) /\ Len(e) = Len(q) - 1 /\ DOMAIN e = 1..Len(q) - 1
      /\ \A k \in 1..Len(q) - 1 : e[k] = r[k]
  BY <1>0, <1>1
<1> HIDE DEF e
<1>3. \A k \in 1..Len(q) - 1 : e[k] = IF k = p THEN q[Len(q)] ELSE q[k]
  BY <1>1, <1>2
<1>4. IsInjective(e)
  BY <1>1, <1>2, <1>3 DEF IsInjective
<1>5. ASSUME NEW x
      PROVE  Holds(e, x) <=> x # q[p] /\ Holds(q, x)
  <2>1. ASSUME NEW k \in DOMAIN e, e[k] = x PROVE x # q[p] /\ \E n \in DOMAIN q : q[n] = x
    BY <1>1, <1>2, <1>3, <2>1 DEF IsInjective
  <2>2. ASSUME NEW k \in DOMAIN q, q[k] = x, x # q[p] PROVE \E n \in DOMAIN e : e[n] = x
    <3>1. CASE k = Len(q)
      BY <1>1, <1>2, <1>3, <2>2, <3>1
    <3>2. CASE k # Len(q)
      <4>1. k \in DOMAIN e /\ e[k] = x
        BY <1>1, <1>2, <1>3, <2>2, <3>2
      <4> QED
        BY <4>1
    <3> QED
      BY <3>1, <3>2
  <2> QED
    BY <2>1, <2>2 DEF Holds
<1> QED
  BY <1>2, <1>3, <1>4, <1>5 DEF Erases, e

-----------------------------------------------------------------------------
(* Lookup. *)
LEMMA PositionFound ==
    ASSUME NEW d, Arrays(d), NEW c \in Component, NEW i, ContainsIndex(d, c, i)
    PROVE  /\ Position(d, c, i) \in 1..Len(d[c])
           /\ d[c][Position(d, c, i)] = i
           /\ \A p \in 1..Len(d[c]) : d[c][p] = i => p = Position(d, c, i)
<1>1. d[c] \in Seq(EntityIndex) /\ IsInjective(d[c]) /\ DOMAIN d[c] = 1..Len(d[c])
  BY DEF Arrays, NoRepeats
<1>2. \E p \in DOMAIN d[c] : d[c][p] = i
  BY DEF ContainsIndex
<1>3. Position(d, c, i) \in DOMAIN d[c] /\ d[c][Position(d, c, i)] = i
  BY <1>2 DEF Position
<1> QED
  BY <1>1, <1>3 DEF IsInjective

LEMMA InGroupIsAmong ==
    ASSUME Arrays(indices), size \in Nat, Prefix(indices, size), NEW i
    PROVE  InGroup(i) <=> Among(indices, size, i)
<1>1. \A c \in Owned : 1..size \subseteq DOMAIN indices[c]
  BY OwnedAssumption DEF Arrays, Prefix
<1>2. ASSUME NEW c \in Owned, NEW p \in 1..size, indices[c][p] = i PROVE Among(indices, size, i)
  BY <1>2 DEF Among, Prefix
<1> QED
  BY <1>1, <1>2, OwnedAssumption DEF InGroup, Among

LEMMA MovedArrays ==
    ASSUME NEW d, Arrays(d), NEW i \in EntityIndex, NEW t \in Nat \ {0},
           \A c \in Owned : ContainsIndex(d, c, i) /\ t <= Len(d[c])
    PROVE  LET m == MovedTo(d, i, t)
           IN  /\ Arrays(m)
               /\ \A c \in Component \ Owned : m[c] = d[c]
               /\ \A c \in Owned :
                     /\ Len(m[c]) = Len(d[c])
                     /\ m[c][t] = i /\ m[c][Position(d, c, i)] = d[c][t]
                     /\ \A k \in 1..Len(d[c]) \ {t, Position(d, c, i)} : m[c][k] = d[c][k]
               /\ \A c \in Component : \A x : ContainsIndex(m, c, x) <=> ContainsIndex(d, c, x)
<1> DEFINE m == MovedTo(d, i, t)
<1>1. ASSUME NEW c \in Owned
      PROVE  /\ m[c] \in Seq(EntityIndex) /\ Len(m[c]) = Len(d[c]) /\ NoRepeats(m[c])
             /\ m[c][t] = i /\ m[c][Position(d, c, i)] = d[c][t]
             /\ \A k \in 1..Len(d[c]) \ {t, Position(d, c, i)} : m[c][k] = d[c][k]
             /\ \A x : ContainsIndex(m, c, x) <=> ContainsIndex(d, c, x)
  <2> DEFINE p == Position(d, c, i)
  <2>1. c \in Component /\ ContainsIndex(d, c, i) /\ t \in 1..Len(d[c])
    BY OwnedAssumption DEF Arrays
  <2>2. p \in 1..Len(d[c]) /\ d[c][p] = i
    BY <2>1, PositionFound
  <2>3. d[c] \in Seq(EntityIndex) /\ IsInjective(d[c])
    BY <2>1 DEF Arrays, NoRepeats
  <2>4. m[c] = [d[c] EXCEPT ![t] = d[c][p], ![p] = d[c][t]]
    BY <2>1, <2>2 DEF MovedTo
  <2> HIDE DEF m, p
  <2>5. /\ m[c] \in Seq(EntityIndex) /\ Len(m[c]) = Len(d[c]) /\ IsInjective(m[c])
        /\ m[c][t] = d[c][p] /\ m[c][p] = d[c][t]
        /\ \A k \in 1..Len(d[c]) \ {t, p} : m[c][k] = d[c][k]
        /\ \A x : Holds(m[c], x) <=> Holds(d[c], x)
    BY <2>1, <2>2, <2>3, <2>4, SwapSeq
  <2> QED
    BY <2>2, <2>5 DEF NoRepeats, ContainsIndex, Holds, p
<1>2. \A c \in Component \ Owned : m[c] = d[c]
  BY DEF MovedTo
<1>3. DOMAIN m = Component /\ m = [c \in Component |-> m[c]]
  BY DEF MovedTo
<1> HIDE DEF m
<1>4. Arrays(m)
  BY <1>1, <1>2, <1>3 DEF Arrays
<1>5. \A c \in Component : \A x : ContainsIndex(m, c, x) <=> ContainsIndex(d, c, x)
  BY <1>1, <1>2 DEF ContainsIndex
<1> QED
  BY <1>1, <1>2, <1>4, <1>5 DEF m

-----------------------------------------------------------------------------
(* Entering and leaving the group, on arrays that begin with it. *)
LEMMA EnterMoves ==
    ASSUME NEW d, Arrays(d), NEW n \in Nat, Prefix(d, n), NEW i \in EntityIndex,
           ContainsAll(d, Owned, i), ~Among(d, n, i)
    PROVE  LET m == MovedTo(d, i, n + 1)
           IN  /\ Arrays(m) /\ Prefix(m, n + 1)
               /\ \A c \in Component : \A x : ContainsIndex(m, c, x) <=> ContainsIndex(d, c, x)
               /\ \A x : Among(m, n + 1, x) <=> Among(d, n, x) \/ x = i
               /\ \A c \in Owned : /\ Position(d, c, i) > n
                                   /\ Len(m[c]) = Len(d[c])
                                   /\ m[c][n + 1] = i
                                   /\ m[c][Position(d, c, i)] = d[c][n + 1]
                                   /\ \A k \in 1..Len(d[c]) \ {n + 1, Position(d, c, i)} :
                                         m[c][k] = d[c][k]
<1> DEFINE m == MovedTo(d, i, n + 1)
<1>1. ASSUME NEW c \in Owned
      PROVE  /\ Position(d, c, i) \in 1..Len(d[c]) /\ d[c][Position(d, c, i)] = i
             /\ Position(d, c, i) > n /\ Len(d[c]) \in Nat
  <2>1. c \in Component /\ ContainsIndex(d, c, i)
    BY OwnedAssumption DEF ContainsAll
  <2>2. Position(d, c, i) \in 1..Len(d[c]) /\ d[c][Position(d, c, i)] = i
    BY <2>1, PositionFound
  <2>3. ~(Position(d, c, i) \in 1..n)
    BY <2>2 DEF Among, Prefix
  <2>4. Len(d[c]) \in Nat
    BY <2>1 DEF Arrays
  <2> QED
    BY <2>2, <2>3, <2>4
<1>2. \A c \in Owned : ContainsIndex(d, c, i) /\ n + 1 <= Len(d[c])
  BY <1>1 DEF ContainsAll
<1>3. /\ Arrays(m)
      /\ \A c \in Component : \A x : ContainsIndex(m, c, x) <=> ContainsIndex(d, c, x)
      /\ \A c \in Owned : /\ Len(m[c]) = Len(d[c])
                          /\ m[c][n + 1] = i
                          /\ m[c][Position(d, c, i)] = d[c][n + 1]
                          /\ \A k \in 1..Len(d[c]) \ {n + 1, Position(d, c, i)} :
                                m[c][k] = d[c][k]
  BY <1>2, MovedArrays
<1> HIDE DEF m
<1>4. \A c \in Owned : \A k \in 1..n : m[c][k] = d[c][k]
  BY <1>1, <1>3
<1>5. Prefix(m, n + 1)
  <2>1. \A c \in Owned : n + 1 <= Len(m[c])
    BY <1>2, <1>3
  <2>2. ASSUME NEW b \in Owned, NEW c \in Owned, NEW p \in 1..n + 1 PROVE m[b][p] = m[c][p]
    BY <1>3, <1>4 DEF Prefix
  <2> QED
    BY <2>1, <2>2 DEF Prefix
<1>6. ASSUME NEW x PROVE Among(m, n + 1, x) <=> Among(d, n, x) \/ x = i
  <2>1. ASSUME Among(m, n + 1, x), x # i PROVE Among(d, n, x)
    <3> SUFFICES ASSUME NEW c \in Owned PROVE \E p \in 1..n : d[c][p] = x
      BY DEF Among
    <3>1. PICK p \in 1..n + 1 : m[c][p] = x
      BY <2>1 DEF Among
    <3>2. p \in 1..n
      BY <1>3, <2>1, <3>1
    <3> QED
      BY <1>4, <3>1, <3>2
  <2>2. ASSUME Among(d, n, x) PROVE Among(m, n + 1, x)
    BY <1>4, <2>2 DEF Among
  <2>3. ASSUME x = i PROVE Among(m, n + 1, x)
    BY <1>3, <2>3 DEF Among
  <2> QED
    BY <2>1, <2>2, <2>3
<1> QED
  BY <1>1, <1>3, <1>5, <1>6 DEF m

LEMMA EnterStep ==
    ASSUME NEW d, Arrays(d), Prefix(d, size), size \in Nat, NEW i \in EntityIndex,
           ContainsAll(d, Owned, i), InGroup(i) <=> Among(d, size, i), Enter(d, i)
    PROVE  /\ Arrays(indices') /\ size' \in Nat /\ Prefix(indices', size')
           /\ \A c \in Component : \A x : ContainsIndex(indices', c, x) <=> ContainsIndex(d, c, x)
           /\ \A x : Among(indices', size', x) <=> Among(d, size, x) \/ x = i
<1>1. CASE InGroup(i)
  BY <1>1 DEF Enter
<1>2. CASE ~InGroup(i)
  <2>1. indices' = MovedTo(d, i, size + 1) /\ size' = size + 1
    BY <1>2 DEF Enter
  <2> QED
    BY <1>2, <2>1, EnterMoves
<1> QED
  BY <1>1, <1>2

(* Before entity i loses a component, leave_group moves it to the end of   *)
(* the group and shortens the group by it.                                 *)
LEMMA LeaveStep ==
    ASSUME Arrays(indices), size \in Nat, Prefix(indices, size), NEW i \in EntityIndex, Leave(i)
    PROVE  LET l == Left(i)
           IN  /\ Arrays(l) /\ size' \in Nat /\ Prefix(l, size')
               /\ \A c \in Component : \A x : ContainsIndex(l, c, x) <=> ContainsIndex(indices, c, x)
               /\ \A x : Among(l, size', x) <=> Among(indices, size, x) /\ x # i
               /\ \A c \in Component :
                     /\ Len(l[c]) = Len(indices[c])
                     /\ ~ContainsIndex(indices, c, i) => l[c] = indices[c]
                     /\ ContainsIndex(indices, c, i) =>
                           /\ Position(l, c, i) >= Position(indices, c, i)
                           /\ \A k \in 1..Position(indices, c, i) - 1 : l[c][k] = indices[c][k]
                           /\ c \in Owned => Position(l, c, i) > size'
<1>1. CASE ~InGroup(i)
  <2>1. Left(i) = indices /\ size' = size
    BY <1>1 DEF Left, Leave
  <2>2. \A x : Among(indices, size, x) <=> Among(indices, size, x) /\ x # i
    BY <1>1, InGroupIsAmong
  <2>3. ASSUME NEW c \in Component, ContainsIndex(indices, c, i)
        PROVE  /\ Position(indices, c, i) \in Nat
               /\ c \in Owned => Position(indices, c, i) > size
    <3>1. Position(indices, c, i) \in 1..Len(indices[c]) /\ indices[c][Position(indices, c, i)] = i
      BY <2>3, PositionFound
    <3>2. Position(indices, c, i) \in 1..size /\ c \in Owned => Among(indices, size, i)
      BY <3>1 DEF Among, Prefix
    <3>3. Len(indices[c]) \in Nat
      BY DEF Arrays
    <3> QED
      BY <1>1, <3>1, <3>2, <3>3, InGroupIsAmong
  <2> QED
    BY <2>1, <2>2, <2>3
<1>2. CASE InGroup(i)
  <2> DEFINE l == MovedTo(indices, i, size)
  <2>1. l = Left(i) /\ size' = size - 1
    BY <1>2 DEF Left, Leave
  <2>2. Among(indices, size, i)
    BY <1>2, InGroupIsAmong
  <2>3. size \in Nat \ {0}
    BY <2>2, OwnedAssumption DEF Among
  <2>4. ASSUME NEW c \in Owned
        PROVE  /\ ContainsIndex(indices, c, i) /\ size <= Len(indices[c]) /\ Len(indices[c]) \in Nat
               /\ Position(indices, c, i) \in 1..size /\ indices[c][Position(indices, c, i)] = i
    <3>1. PICK p \in 1..size : indices[c][p] = i
      BY <2>2 DEF Among
    <3>2. c \in Component /\ size <= Len(indices[c]) /\ DOMAIN indices[c] = 1..Len(indices[c])
          /\ Len(indices[c]) \in Nat
      BY OwnedAssumption DEF Prefix, Arrays
    <3>3. ContainsIndex(indices, c, i) /\ p \in 1..Len(indices[c])
      BY <3>1, <3>2 DEF ContainsIndex
    <3>4. p = Position(indices, c, i)
      BY <3>1, <3>2, <3>3, PositionFound
    <3> QED
      BY <3>1, <3>2, <3>3, <3>4
  <2>5. /\ Arrays(l)
        /\ \A c \in Component \ Owned : l[c] = indices[c]
        /\ \A c \in Owned :
               /\ Len(l[c]) = Len(indices[c])
               /\ l[c][size] = i /\ l[c][Position(indices, c, i)] = indices[c][size]
               /\ \A k \in 1..Len(indices[c]) \ {size, Position(indices, c, i)} : l[c][k] = indices[c][k]
        /\ \A c \in Component : \A x : ContainsIndex(l, c, x) <=> ContainsIndex(indices, c, x)
    BY <2>3, <2>4, MovedArrays
  <2> HIDE DEF l
  <2>6. \A b, c \in Owned : Position(indices, b, i) = Position(indices, c, i)
    <3> SUFFICES ASSUME NEW b \in Owned, NEW c \in Owned
                 PROVE  Position(indices, b, i) = Position(indices, c, i)
      OBVIOUS
    <3>1. indices[c][Position(indices, b, i)] = i /\ Position(indices, b, i) \in 1..Len(indices[c])
      BY <2>4 DEF Prefix
    <3> QED
      BY <2>4, <3>1, PositionFound, OwnedAssumption
  <2>7. Prefix(l, size)
    BY <2>4, <2>5, <2>6 DEF Prefix
  <2>8. Prefix(l, size - 1) /\ size - 1 \in Nat
    BY <2>3, <2>7 DEF Prefix
  <2>9. ASSUME NEW c \in Owned
        PROVE  /\ Position(l, c, i) = size
               /\ \A p \in 1..size : l[c][p] = i <=> p = size
               /\ \A x : (\E p \in 1..size : l[c][p] = x) <=> (\E p \in 1..size : indices[c][p] = x)
    <3>1. Position(l, c, i) = size
      BY <2>3, <2>4, <2>5, PositionFound, OwnedAssumption
    <3>2. \A p \in 1..size : l[c][p] = i <=> p = size
      BY <2>4, <2>5, <3>1, PositionFound, OwnedAssumption
    <3>3. \A x : (\E p \in 1..size : l[c][p] = x) <=> (\E p \in 1..size : indices[c][p] = x)
      BY <2>3, <2>4, <2>5
    <3> QED
      BY <3>1, <3>2, <3>3
  <2>10. ASSUME NEW x PROVE Among(l, size - 1, x) <=> Among(indices, size, x) /\ x # i
    <3>1. ASSUME Among(l, size - 1, x) PROVE Among(indices, size, x) /\ x # i
      <4>1. ASSUME NEW c \in Owned PROVE (\E p \in 1..size : indices[c][p] = x) /\ x # i
        <5>1. PICK p \in 1..size - 1 : l[c][p] = x
          BY <3>1 DEF Among
        <5>2. p \in 1..size /\ p # size
          BY <2>3
        <5> QED
          BY <2>9, <5>1, <5>2
      <4> QED
        BY <4>1, OwnedAssumption DEF Among
    <3>2. ASSUME Among(indices, size, x), x # i, NEW c \in Owned
          PROVE  \E p \in 1..size - 1 : l[c][p] = x
      <4>1. PICK p \in 1..size : l[c][p] = x
        BY <2>9, <3>2 DEF Among
      <4>2. p # size
        BY <2>9, <3>2, <4>1
      <4> QED
        BY <2>3, <4>1, <4>2
    <3> QED
      BY <3>1, <3>2 DEF Among
  <2>11. \A c \in Component :
           /\ Len(l[c]) = Len(indices[c])
           /\ ~ContainsIndex(indices, c, i) => l[c] = indices[c]
    BY <2>4, <2>5
  <2>12. ASSUME NEW c \in Component, ContainsIndex(indices, c, i)
         PROVE  /\ Position(l, c, i) >= Position(indices, c, i)
                /\ \A k \in 1..Position(indices, c, i) - 1 : l[c][k] = indices[c][k]
                /\ c \in Owned => Position(l, c, i) > size - 1
    <3>1. CASE c \in Owned
      BY <2>3, <2>4, <2>5, <2>9, <3>1
    <3>2. CASE c \notin Owned
      <4>1. l[c] = indices[c]
        BY <2>5, <3>2
      <4>2. Position(l, c, i) = Position(indices, c, i)
        BY <4>1 DEF Position
      <4>3. Position(indices, c, i) \in 1..Len(indices[c]) /\ Len(indices[c]) \in Nat
        BY <2>12, PositionFound DEF Arrays
      <4> QED
        BY <3>2, <4>1, <4>2, <4>3
    <3> QED
      BY <3>1, <3>2
  <2> QED
    BY <2>1, <2>5, <2>8, <2>10, <2>11, <2>12
<1> QED
  BY <1>1, <1>2

-----------------------------------------------------------------------------
(* Entity i gets component c, or loses those in C, outside the first n.    *)
LEMMA PutAtEnd ==
    ASSUME NEW d, Arrays(d), NEW n \in Nat, Prefix(d, n), NEW c \in Component, NEW i \in EntityIndex
    PROVE  LET e == Emplaced(d, c, i)
           IN  /\ Arrays(e) /\ Prefix(e, n)
               /\ \A b \in Component : \A x :
                     ContainsIndex(e, b, x) <=> ContainsIndex(d, b, x) \/ (b = c /\ x = i)
               /\ \A x : Among(e, n, x) <=> Among(d, n, x)
               /\ \A b \in Component : /\ Len(e[b]) >= Len(d[b])
                                       /\ \A k \in 1..Len(d[b]) : e[b][k] = d[b][k]
<1> DEFINE e == Emplaced(d, c, i)
<1>1. CASE ContainsIndex(d, c, i)
  <2>1. e = d /\ \A b \in Component : Len(d[b]) \in Nat
    BY <1>1 DEF Emplaced, Arrays
  <2> QED
    BY <1>1, <2>1
<1>2. CASE ~ContainsIndex(d, c, i)
  <2>1. /\ e = [d EXCEPT ![c] = Append(d[c], i)]
        /\ d \in [Component -> Seq(EntityIndex)] /\ \A b \in Component : NoRepeats(d[b])
    BY <1>2 DEF Emplaced, Arrays
  <2> HIDE DEF e
  <2>2. /\ e[c] = Append(d[c], i) /\ d[c] \in Seq(EntityIndex) /\ DOMAIN d[c] = 1..Len(d[c])
        /\ \A b \in Component \ {c} : e[b] = d[b]
        /\ e \in [Component -> Seq(EntityIndex)]
    BY <2>1
  <2>3. /\ Len(e[c]) = Len(d[c]) + 1 /\ e[c][Len(d[c]) + 1] = i /\ Len(d[c]) \in Nat
        /\ \A k \in 1..Len(d[c]) : e[c][k] = d[c][k]
        /\ DOMAIN e[c] = 1..Len(d[c]) + 1
    BY <2>2
  <2>4. NoRepeats(e[c])
    BY <1>2, <2>1, <2>2, <2>3 DEF NoRepeats, IsInjective, ContainsIndex
  <2>5. Arrays(e)
    BY <2>1, <2>2, <2>4 DEF Arrays
  <2>6. \A b \in Component : \A x : ContainsIndex(e, b, x) <=> ContainsIndex(d, b, x) \/ (b = c /\ x = i)
    <3> SUFFICES ASSUME NEW x PROVE ContainsIndex(e, c, x) <=> ContainsIndex(d, c, x) \/ x = i
      BY <2>2 DEF ContainsIndex
    <3>1. ContainsIndex(d, c, x) => ContainsIndex(e, c, x)
      BY <2>2, <2>3 DEF ContainsIndex
    <3>2. x = i => ContainsIndex(e, c, x)
      BY <2>3 DEF ContainsIndex
    <3>3. ContainsIndex(e, c, x) => ContainsIndex(d, c, x) \/ x = i
      BY <2>2, <2>3 DEF ContainsIndex
    <3> QED
      BY <3>1, <3>2, <3>3
  <2>7. \A b \in Component : /\ Len(e[b]) >= Len(d[b])
                             /\ \A k \in 1..Len(d[b]) : e[b][k] = d[b][k]
    <3> SUFFICES ASSUME NEW b \in Component
                 PROVE  Len(e[b]) >= Len(d[b]) /\ \A k \in 1..Len(d[b]) : e[b][k] = d[b][k]
      OBVIOUS
    <3>1. Len(d[b]) \in Nat
      BY <2>1
    <3>2. CASE b = c
      BY <2>3, <3>2
    <3>3. CASE b # c
      BY <2>2, <3>1, <3>3
    <3> QED
      BY <3>2, <3>3
  <2>8. \A b \in Owned : n <= Len(d[b]) /\ Len(d[b]) \in Nat /\ b \in Component
    BY <2>1, OwnedAssumption DEF Prefix
  <2>9. Prefix(e, n)
    <3>1. \A b \in Owned : n <= Len(e[b])
      BY <2>5, <2>7, <2>8 DEF Arrays
    <3>2. \A b \in Owned, p \in 1..n : e[b][p] = d[b][p]
      BY <2>7, <2>8
    <3> QED
      BY <3>1, <3>2 DEF Prefix
  <2>10. \A x : Among(e, n, x) <=> Among(d, n, x)
    <3>1. \A b \in Owned, p \in 1..n : e[b][p] = d[b][p]
      BY <2>7, <2>8
    <3> QED
      BY <3>1 DEF Among
  <2> QED
    BY <2>5, <2>6, <2>7, <2>9, <2>10 DEF e
<1> QED
  BY <1>1, <1>2

Less(d, C, i) == [c \in Component |-> IF c \in C /\ ContainsIndex(d, c, i)
                                     THEN Erased(d[c], Position(d, c, i)) ELSE d[c]]

LEMMA TakenOut ==
    ASSUME NEW d, Arrays(d), NEW n \in Nat, Prefix(d, n), NEW i, NEW C \in SUBSET Component,
           \A c \in C \cap Owned : ContainsIndex(d, c, i) => Position(d, c, i) > n,
           NEW r, r = Less(d, C, i)
    PROVE  /\ Arrays(r) /\ Prefix(r, n)
           /\ \A c \in Component : \A x :
                 ContainsIndex(r, c, x) <=> ContainsIndex(d, c, x) /\ ~(c \in C /\ x = i)
           /\ \A x : Among(r, n, x) <=> Among(d, n, x)
           /\ \A c \in Component :
                 IF c \in C /\ ContainsIndex(d, c, i)
                 THEN /\ Len(r[c]) >= Position(d, c, i) - 1
                      /\ \A k \in 1..Position(d, c, i) - 1 : r[c][k] = d[c][k]
                 ELSE r[c] = d[c]
<1> DEFINE P(c) == Position(d, c, i)
<1>1. ASSUME NEW c \in Component, c \in C, ContainsIndex(d, c, i)
      PROVE  /\ r[c] \in Seq(EntityIndex) /\ NoRepeats(r[c])
             /\ Len(r[c]) = Len(d[c]) - 1 /\ Len(d[c]) \in Nat /\ P(c) \in 1..Len(d[c])
             /\ \A k \in 1..P(c) - 1 : r[c][k] = d[c][k]
             /\ \A x : ContainsIndex(r, c, x) <=> ContainsIndex(d, c, x) /\ x # i
  <2>1. PICK p \in 1..Len(d[c]) : p = P(c) /\ d[c][p] = i
    BY <1>1, PositionFound
  <2>2. d[c] \in Seq(EntityIndex) /\ IsInjective(d[c]) /\ Len(d[c]) \in Nat /\ r[c] = Erased(d[c], p)
    BY <1>1, <2>1 DEF Arrays, NoRepeats, Less
  <2>3. Erases(d[c], p, r[c])
    BY <2>1, <2>2, ErasedSeq
  <2>4. /\ r[c] \in Seq(EntityIndex) /\ Len(r[c]) = Len(d[c]) - 1 /\ IsInjective(r[c])
        /\ \A k \in 1..p - 1 : r[c][k] = d[c][k]
        /\ \A x : Holds(r[c], x) <=> x # d[c][p] /\ Holds(d[c], x)
    BY <2>1, <2>3 DEF Erases
  <2> QED
    BY <2>1, <2>2, <2>4 DEF NoRepeats, ContainsIndex, Holds
<1>2. \A c \in Component : ~(c \in C /\ ContainsIndex(d, c, i)) => r[c] = d[c] /\ \A x : ContainsIndex(r, c, x) <=> ContainsIndex(d, c, x)
  BY DEF Less, ContainsIndex
<1>3. r = [c \in Component |-> r[c]]
  BY DEF Less
<1>4. Arrays(r)
  BY <1>1, <1>2, <1>3 DEF Arrays
<1>5. \A c \in Component : \A x : ContainsIndex(r, c, x) <=> ContainsIndex(d, c, x) /\ ~(c \in C /\ x = i)
  <2> SUFFICES ASSUME NEW c \in Component, NEW x
               PROVE  ContainsIndex(r, c, x) <=> ContainsIndex(d, c, x) /\ ~(c \in C /\ x = i)
    OBVIOUS
  <2>1. CASE c \in C /\ ContainsIndex(d, c, i)
    BY <1>1, <2>1
  <2>2. CASE ~(c \in C /\ ContainsIndex(d, c, i))
    BY <1>2, <2>2
  <2> QED
    BY <2>1, <2>2
<1>6. ASSUME NEW c \in Owned
      PROVE  n <= Len(r[c]) /\ \A p \in 1..n : r[c][p] = d[c][p]
  <2>1. c \in Component /\ n <= Len(d[c])
    BY OwnedAssumption DEF Prefix
  <2>2. CASE c \in C /\ ContainsIndex(d, c, i)
    <3>1. P(c) > n
      BY <2>2
    <3> QED
      BY <1>1, <2>1, <2>2, <3>1
  <2>3. CASE ~(c \in C /\ ContainsIndex(d, c, i))
    BY <1>2, <2>1, <2>3
  <2> QED
    BY <2>2, <2>3
<1>7. Prefix(r, n)
  BY <1>6 DEF Prefix
<1>8. \A x : Among(r, n, x) <=> Among(d, n, x)
  BY <1>6 DEF Among
<1>9. \A c \in Component :
          IF c \in C /\ ContainsIndex(d, c, i)
          THEN /\ Len(r[c]) >= Position(d, c, i) - 1
               /\ \A k \in 1..Position(d, c, i) - 1 : r[c][k] = d[c][k]
          ELSE r[c] = d[c]
  BY <1>1, <1>2
<1> QED
  BY <1>4, <1>5, <1>7, <1>8, <1>9

-----------------------------------------------------------------------------
(* The invariant, in terms of the arrays. *)
LEMMA InGroupNext ==
    ASSUME Arrays(indices'), size' \in Nat, Prefix(indices', size'), NEW i
    PROVE  InGroup(i)' <=> Among(indices', size', i)
<1>1. \A c \in Owned : 1..size' \subseteq DOMAIN indices'[c]
  BY OwnedAssumption DEF Arrays, Prefix
<1>2. ASSUME NEW c \in Owned, NEW p \in 1..size', indices'[c][p] = i PROVE Among(indices', size', i)
  BY <1>2 DEF Among, Prefix
<1> QED
  BY <1>1, <1>2, OwnedAssumption DEF InGroup, Among

(* What the invariant says of the arrays. *)
LEMMA IInvArrays ==
    ASSUME IInv
    PROVE  /\ Arrays(indices) /\ size \in Nat /\ Prefix(indices, size)
           /\ \A i : InGroup(i) <=> Among(indices, size, i)
           /\ \A i : Outside(i) <=> ContainsAll(indices, Owned, i) /\ ~Among(indices, size, i)
<1>1. Arrays(indices) /\ size \in Nat /\ Prefix(indices, size)
  BY DEF IInv, GroupTypeOK, Arrays
<1>2. \A i : InGroup(i) <=> Among(indices, size, i)
  BY <1>1, InGroupIsAmong
<1> QED
  BY <1>1, <1>2 DEF Outside

LEMMA OutsideNext ==
    ASSUME Arrays(indices'), size' \in Nat, Prefix(indices', size')
    PROVE  \A i : Outside(i)' <=> ContainsAll(indices', Owned, i) /\ ~Among(indices', size', i)
BY InGroupNext DEF Outside

(* A structural job is not disturbed by a step that leaves alone the other *)
(* entities and the positions it has still to visit.                       *)
LEMMA VisitKept ==
    ASSUME IInv, UNCHANGED loop,
           run = "visiting" =>
               /\ cursor <= Len(indices'[driver])
               /\ \A k \in 1..cursor : indices'[driver][k] = indices[driver][k]
               /\ \A c \in Component : \A j : j # current =>
                     (ContainsIndex(indices', c, j) <=> ContainsIndex(indices, c, j))
    PROVE  EachMatchVisitedOnce' /\ VisitsAhead'
<1> SUFFICES ASSUME run = "visiting"
             PROVE  EachMatchVisitedOnce' /\ VisitsAhead'
  BY DEF EachMatchVisitedOnce, VisitsAhead, loop
<1>1. /\ NoRepeats(visited) /\ Range(visited) \subseteq todo
      /\ todo \ Range(visited) \subseteq Ahead /\ Range(visited) \cap Ahead = {}
      /\ \A i \in Ahead : i \in todo <=> ContainsAll(indices, required, i)
      /\ current # None => current \in Range(visited)
      /\ required \subseteq Component /\ None \notin EntityIndex
      /\ Ahead \subseteq EntityIndex
  <2>1. Ahead \subseteq EntityIndex
    BY DEF IInv, GroupTypeOK, Ahead
  <2> QED
    BY <2>1, OwnedAssumption DEF IInv, GroupTypeOK, EachMatchVisitedOnce, VisitsAhead, Ahead
<1>2. UNCHANGED <<run, driver, cursor, required, current, visited, todo>>
  BY DEF loop
<1>3. Ahead' = Ahead
  BY <1>2 DEF Ahead
<1>4. ASSUME NEW i \in Ahead PROVE ContainsAll(indices', required, i) <=> ContainsAll(indices, required, i)
  <2>1. i # current
    BY <1>1
  <2> QED
    BY <1>1, <2>1 DEF ContainsAll
<1>5. EachMatchVisitedOnce'
  BY <1>1, <1>2, <1>3 DEF EachMatchVisitedOnce, Ahead, NoRepeats
<1>6. VisitsAhead'
  BY <1>1, <1>2, <1>3, <1>4 DEF VisitsAhead
<1> QED
  BY <1>5, <1>6

LEMMA InitIInv == GroupInit => IInv
<1> SUFFICES ASSUME GroupInit PROVE IInv
  OBVIOUS
<1> USE OwnedAssumption DEF GroupInit
<1>1. GroupTypeOK
  <2>1. indices \in [Component -> Seq(EntityIndex)] /\ pending \in Seq(EntityIndex) /\ visited \in Seq(EntityIndex)
    OBVIOUS
  <2>2. \A c \in Component : NoRepeats(indices[c])
    BY DEF NoRepeats, IsInjective
  <2> QED
    BY <2>1, <2>2 DEF GroupTypeOK
<1>2. Prefix(indices, size)
  BY DEF Prefix
<1> QED
  BY <1>1, <1>2 DEF IInv, BuildingCatchesUp, PutOff, Phases, EachMatchVisitedOnce, VisitsAhead

LEMMA Listed ==
    ASSUME IInv, NEW i, ContainsAll(indices, Owned, i)
    PROVE  i \in EntityIndex
<1>1. PICK c \in Owned : ContainsIndex(indices, c, i)
  BY OwnedAssumption DEF ContainsAll
<1>2. indices[c] \in Seq(EntityIndex)
  BY OwnedAssumption DEF IInv, GroupTypeOK
<1> QED
  BY <1>1, <1>2 DEF ContainsIndex

LEMMA AddIInv ==
    ASSUME IInv, NEW c \in Component, NEW i \in EntityIndex, Add(c, i)
    PROVE  IInv'
<1> DEFINE e == Emplaced(indices, c, i)
<1>1. /\ Arrays(indices) /\ size \in Nat /\ Prefix(indices, size)
      /\ \A j : InGroup(j) <=> Among(indices, size, j)
      /\ \A j : Outside(j) <=> ContainsAll(indices, Owned, j) /\ ~Among(indices, size, j)
      /\ GroupTypeOK /\ Phases
  BY IInvArrays DEF IInv
<1>2. /\ Arrays(e) /\ Prefix(e, size)
      /\ \A b \in Component : \A x : ContainsIndex(e, b, x) <=> ContainsIndex(indices, b, x) \/ (b = c /\ x = i)
      /\ \A x : Among(e, size, x) <=> Among(indices, size, x)
      /\ \A b \in Component : /\ Len(e[b]) >= Len(indices[b])
                              /\ \A k \in 1..Len(indices[b]) : e[b][k] = indices[b][k]
  BY <1>1, PutAtEnd
<1> HIDE DEF e
<1>3. /\ MayMutate(i) /\ RefreshAfterAdd(e, c, i) /\ declared' = declared /\ UNCHANGED loop
      /\ run \in {"idle", "visiting"}
  BY DEF Add, MayMutate, e
<1>4. ASSUME NEW x, x # i PROVE ContainsAll(e, Owned, x) <=> ContainsAll(indices, Owned, x)
  BY <1>2, <1>4, OwnedAssumption DEF ContainsAll
<1>5. /\ Arrays(indices') /\ size' \in Nat /\ Prefix(indices', size')
      /\ pending' \in Seq(EntityIndex)
      /\ run = "visiting" => indices' = e
      /\ run = "idle" => pending' = pending
      /\ declared' => \A x : Outside(x)' => x \in Range(pending')
      /\ ~declared => size' = size /\ pending' = pending
  <2>1. CASE declared /\ c \in Owned /\ ContainsAll(e, Owned, i) /\ run = "visiting"
    <3>1. indices' = e /\ pending' = Append(pending, i) /\ size' = size
      BY <1>3, <2>1 DEF RefreshAfterAdd
    <3>2. pending \in Seq(EntityIndex)
      BY <1>1 DEF GroupTypeOK
    <3>3. Range(pending') = Range(pending) \cup {i}
      BY <3>1, <3>2 DEF Range
    <3>4. \A x : Outside(x)' <=> ContainsAll(e, Owned, x) /\ ~Among(e, size, x)
      BY <1>1, <1>2, <3>1, OutsideNext
    <3>5. \A x : Outside(x)' /\ x # i => x \in EntityIndex /\ Outside(x)
      <4> SUFFICES ASSUME NEW x, Outside(x)', x # i PROVE x \in EntityIndex /\ Outside(x)
        OBVIOUS
      <4>1. Outside(x)
        BY <1>1, <1>2, <1>4, <3>4
      <4> QED
        BY <1>1, <4>1, Listed
    <3>6. \A x \in EntityIndex : Outside(x) => x \in Range(pending)
      BY <2>1 DEF IInv, PutOff
    <3> QED
      BY <1>1, <1>2, <1>3, <2>1, <3>1, <3>2, <3>3, <3>5, <3>6
  <2>2. CASE declared /\ c \in Owned /\ ContainsAll(e, Owned, i) /\ run = "idle"
    <3>1. Enter(e, i) /\ pending' = pending
      BY <1>3, <2>2 DEF RefreshAfterAdd
    <3>2. /\ Arrays(indices') /\ size' \in Nat /\ Prefix(indices', size')
          /\ \A b \in Component : \A x : ContainsIndex(indices', b, x) <=> ContainsIndex(e, b, x)
          /\ \A x : Among(indices', size', x) <=> Among(e, size, x) \/ x = i
      BY <1>1, <1>2, <2>2, <3>1, EnterStep
    <3>3. \A x : ~Outside(x)'
      <4> SUFFICES ASSUME NEW x, Outside(x)' PROVE FALSE
        OBVIOUS
      <4>1. ContainsAll(indices', Owned, x) /\ ~Among(indices', size', x)
        BY <3>2, OutsideNext
      <4>2. x # i /\ ContainsAll(e, Owned, x) /\ ~Among(indices, size, x)
        BY <1>2, <3>2, <4>1, OwnedAssumption DEF ContainsAll
      <4>3. Outside(x)
        BY <1>1, <1>4, <4>2
      <4>4. x \in EntityIndex
        BY <1>1, <4>3, Listed
      <4>5. x \in Range(pending) /\ pending = <<>>
        BY <2>2, <4>3, <4>4 DEF IInv, PutOff, Phases
      <4> QED
        BY <4>5 DEF Range
    <3> QED
      BY <1>1, <2>2, <3>1, <3>2, <3>3 DEF GroupTypeOK
  <2>3. CASE ~(declared /\ c \in Owned /\ ContainsAll(e, Owned, i))
    <3>1. indices' = e /\ pending' = pending /\ size' = size
      BY <1>3, <2>3 DEF RefreshAfterAdd
    <3>2. \A x : Outside(x)' <=> ContainsAll(e, Owned, x) /\ ~Among(e, size, x)
      BY <1>1, <1>2, <3>1, OutsideNext
    <3>3. ASSUME declared, NEW x, Outside(x)' PROVE x \in Range(pending)
      <4>1. ContainsAll(indices, Owned, x)
        <5>1. CASE x # i
          BY <1>4, <3>2, <3>3, <5>1
        <5>2. CASE c \notin Owned
          BY <1>2, <3>2, <3>3, <5>2, OwnedAssumption DEF ContainsAll
        <5> QED
          BY <2>3, <3>2, <3>3, <5>1, <5>2
      <4>2. Outside(x)
        BY <1>1, <1>2, <3>2, <3>3, <4>1
      <4>3. x \in EntityIndex
        BY <4>1, Listed
      <4> QED
        BY <1>3, <3>3, <4>2, <4>3 DEF IInv, PutOff
    <3> QED
      BY <1>1, <1>2, <1>3, <3>1, <3>3 DEF GroupTypeOK
  <2> QED
    BY <1>3, <2>1, <2>2, <2>3
<1>6. UNCHANGED <<run, driver, cursor, required, current, visited, todo>>
  BY <1>3 DEF loop
<1>7. EachMatchVisitedOnce' /\ VisitsAhead'
  <2>1. ASSUME run = "visiting"
        PROVE  /\ cursor <= Len(indices'[driver])
               /\ \A k \in 1..cursor : indices'[driver][k] = indices[driver][k]
               /\ \A b \in Component : \A j : j # current =>
                     (ContainsIndex(indices', b, j) <=> ContainsIndex(indices, b, j))
    <3>1. driver \in Component /\ cursor \in 0..Len(indices[driver])
      BY <1>1, <2>1 DEF GroupTypeOK
    <3>2. i = current /\ indices' = e
      BY <1>3, <1>5, <2>1 DEF MayMutate
    <3>3. Len(indices[driver]) \in Nat /\ Len(e[driver]) \in Nat
      BY <1>1, <1>2, <3>1 DEF Arrays
    <3> QED
      BY <1>2, <3>1, <3>2, <3>3
  <2> QED
    BY <1>3, <2>1, VisitKept
<1>8. GroupTypeOK'
  <2>1. run = "visiting" => cursor <= Len(indices'[driver]) /\ Len(indices'[driver]) \in Nat
    <3>1. run = "visiting" => driver \in Component /\ cursor \in 0..Len(indices[driver])
      BY <1>1 DEF GroupTypeOK
    <3>2. run = "visiting" => Len(indices[driver]) \in Nat /\ Len(e[driver]) \in Nat
      BY <1>1, <1>2, <3>1 DEF Arrays
    <3> QED
      BY <1>2, <1>5, <3>1, <3>2
  <2> QED
    BY <1>1, <1>3, <1>5, <1>6, <2>1 DEF GroupTypeOK, Arrays
<1>9. BuildingCatchesUp' /\ PutOff' /\ Phases'
  BY <1>1, <1>3, <1>5, <1>6 DEF BuildingCatchesUp, PutOff, Phases
<1> QED
  BY <1>5, <1>7, <1>8, <1>9 DEF IInv

(* Entity i loses the components in C: it has left the group first, or     *)
(* none of them is owned by a group.                                       *)
LEMMA LossIInv ==
    ASSUME IInv, NEW i \in EntityIndex, NEW C \in SUBSET Component, MayMutate(i),
           UNCHANGED <<declared, pending, loop>>,
           NEW l, indices' = Less(l, C, i),
           \/ Leave(i) /\ l = Left(i) /\ C \cap Owned # {}
           \/ size' = size /\ l = indices /\ (C \cap Owned = {} \/ ~declared)
    PROVE  IInv'
<1>1. /\ Arrays(indices) /\ size \in Nat /\ Prefix(indices, size)
      /\ \A j : Outside(j) <=> ContainsAll(indices, Owned, j) /\ ~Among(indices, size, j)
      /\ GroupTypeOK /\ Phases
  BY IInvArrays DEF IInv
<1>2. /\ Arrays(l) /\ size' \in Nat /\ Prefix(l, size')
      /\ \A c \in Component : \A x : ContainsIndex(l, c, x) <=> ContainsIndex(indices, c, x)
      /\ \A c \in Component :
            /\ Len(l[c]) = Len(indices[c])
            /\ ~ContainsIndex(indices, c, i) => l[c] = indices[c]
            /\ ContainsIndex(indices, c, i) =>
                  /\ Position(l, c, i) >= Position(indices, c, i)
                  /\ \A k \in 1..Position(indices, c, i) - 1 : l[c][k] = indices[c][k]
                  /\ c \in C \cap Owned => Position(l, c, i) > size'
      /\ \A x : Among(l, size', x) /\ x # i <=> Among(indices, size, x) /\ x # i
  <2>1. CASE Leave(i) /\ l = Left(i) /\ C \cap Owned # {}
    BY <1>1, <2>1, LeaveStep
  <2>2. CASE size' = size /\ l = indices /\ (C \cap Owned = {} \/ ~declared)
    <3>1. \A c \in Component : ContainsIndex(indices, c, i) =>
              Position(indices, c, i) \in 1..Len(indices[c]) /\ Len(indices[c]) \in Nat
      BY <1>1, PositionFound DEF Arrays
    <3>2. C \cap Owned # {} => size = 0
      BY <1>1, <2>2 DEF Phases
    <3> QED
      BY <1>1, <2>2, <3>1, <3>2
  <2> QED
    BY <2>1, <2>2
<1>3. /\ Arrays(indices') /\ Prefix(indices', size')
      /\ \A c \in Component : \A x :
            ContainsIndex(indices', c, x) <=> ContainsIndex(l, c, x) /\ ~(c \in C /\ x = i)
      /\ \A x : Among(indices', size', x) <=> Among(l, size', x)
      /\ \A c \in Component :
            IF c \in C /\ ContainsIndex(l, c, i)
            THEN /\ Len(indices'[c]) >= Position(l, c, i) - 1
                 /\ \A k \in 1..Position(l, c, i) - 1 : indices'[c][k] = l[c][k]
            ELSE indices'[c] = l[c]
  <2>1. \A c \in C \cap Owned : ContainsIndex(l, c, i) => Position(l, c, i) > size'
    BY <1>2, OwnedAssumption
  <2> QED
    BY <1>2, <2>1, TakenOut
<1>4. \A c \in Component : \A x :
          ContainsIndex(indices', c, x) <=> ContainsIndex(indices, c, x) /\ ~(c \in C /\ x = i)
  BY <1>2, <1>3
<1>5. UNCHANGED <<run, driver, cursor, required, current, visited, todo>>
  BY DEF loop
<1>6. ASSUME run = "visiting"
      PROVE  /\ cursor \in 0..Len(indices'[driver])
             /\ \A k \in 1..cursor : indices'[driver][k] = indices[driver][k]
             /\ \A b \in Component : \A j : j # current =>
                   (ContainsIndex(indices', b, j) <=> ContainsIndex(indices, b, j))
  <2>1. /\ driver \in Component /\ cursor \in 0..Len(indices[driver])
        /\ Len(indices[driver]) \in Nat /\ Len(indices'[driver]) \in Nat /\ i = current
    BY <1>1, <1>3, <1>6 DEF GroupTypeOK, Arrays, MayMutate
  <2>2. CASE ContainsIndex(indices, driver, i)
    <3> DEFINE p == Position(indices, driver, i)
               q == Position(l, driver, i)
    <3>1. p \in 1..Len(indices[driver]) /\ indices[driver][p] = i
      BY <1>1, <2>1, <2>2, PositionFound
    <3>2. q \in 1..Len(l[driver]) /\ Len(l[driver]) = Len(indices[driver])
      BY <1>2, <2>1, <2>2, PositionFound
    <3>3. i \notin Ahead
      BY <1>6, <2>1, OwnedAssumption DEF IInv, EachMatchVisitedOnce, VisitsAhead, Ahead
    <3>4. p > cursor /\ q > cursor
      BY <1>2, <2>1, <2>2, <3>1, <3>2, <3>3 DEF Ahead
    <3>5. \A k \in 1..cursor : l[driver][k] = indices[driver][k]
      BY <1>2, <2>1, <2>2, <3>1, <3>4
    <3>6. cursor \in 0..Len(indices'[driver]) /\ \A k \in 1..cursor : indices'[driver][k] = l[driver][k]
      BY <1>3, <2>1, <3>2, <3>4
    <3> QED
      BY <1>4, <2>1, <3>5, <3>6
  <2>3. CASE ~ContainsIndex(indices, driver, i)
    BY <1>2, <1>3, <1>4, <2>1, <2>3
  <2> QED
    BY <2>2, <2>3
<1>7. EachMatchVisitedOnce' /\ VisitsAhead'
  <2>1. run = "visiting" => cursor <= Len(indices'[driver])
    BY <1>1, <1>3, <1>6 DEF GroupTypeOK, Arrays
  <2> QED
    BY <1>6, <2>1, VisitKept
<1>8. GroupTypeOK'
  <2>1. run \in {"idle", "visiting"}
    BY DEF MayMutate
  <2> QED
    BY <1>1, <1>2, <1>3, <1>5, <1>6, <2>1 DEF GroupTypeOK, Arrays
<1>9. BuildingCatchesUp' /\ Phases'
  <2>1. run # "building" /\ (~declared => size' = size)
    <3>1. ~declared => ~InGroup(i)
      BY <1>1 DEF Phases, InGroup
    <3> QED
      BY <3>1 DEF MayMutate, Leave
  <2> QED
    BY <1>1, <1>5, <2>1 DEF BuildingCatchesUp, Phases
<1>10. PutOff'
  <2> SUFFICES ASSUME declared, NEW x \in EntityIndex, Outside(x)' PROVE x \in Range(pending)
    BY DEF PutOff
  <2>1. ContainsAll(indices', Owned, x) /\ ~Among(indices', size', x)
    BY <1>2, <1>3, OutsideNext
  <2>2. ContainsAll(indices, Owned, x) /\ (x = i => C \cap Owned = {})
    BY <1>4, <2>1, OwnedAssumption DEF ContainsAll
  <2>3. ~Among(indices, size, x)
    BY <1>2, <1>3, <2>1, <2>2
  <2>4. Outside(x) /\ run # "building"
    BY <1>1, <2>2, <2>3 DEF MayMutate
  <2> QED
    BY <2>4 DEF IInv, PutOff
<1> QED
  BY <1>2, <1>3, <1>7, <1>8, <1>9, <1>10 DEF IInv

LEMMA RemoveIInv ==
    ASSUME IInv, NEW c \in Component, NEW i \in EntityIndex, RemoveComponent(c, i)
    PROVE  IInv'
<1>1. MayMutate(i) /\ ContainsIndex(indices, c, i) /\ UNCHANGED <<declared, pending, loop>>
  BY DEF RemoveComponent
<1>2. Arrays(indices) /\ size \in Nat /\ Prefix(indices, size)
  BY IInvArrays
<1>3. CASE declared /\ c \in Owned
  <2>1. Leave(i) /\ indices' = [Left(i) EXCEPT ![c] = Erased(Left(i)[c], Position(Left(i), c, i))]
    BY <1>3 DEF RemoveComponent
  <2>2. Arrays(Left(i)) /\ ContainsIndex(Left(i), c, i)
    BY <1>1, <1>2, <2>1, LeaveStep
  <2>3. indices' = Less(Left(i), {c}, i)
    BY <2>1, <2>2 DEF Less, Arrays
  <2> QED
    BY <1>1, <1>3, <2>1, <2>3, LossIInv
<1>4. CASE ~(declared /\ c \in Owned)
  <2>1. size' = size /\ indices' = [indices EXCEPT ![c] = Erased(indices[c], Position(indices, c, i))]
    BY <1>4 DEF RemoveComponent
  <2>2. indices' = Less(indices, {c}, i)
    BY <1>1, <1>2, <2>1 DEF Less, Arrays
  <2> QED
    BY <1>1, <1>4, <2>1, <2>2, LossIInv
<1> QED
  BY <1>3, <1>4

LEMMA DestroyIInv ==
    ASSUME IInv, NEW i \in EntityIndex, Destroy(i)
    PROVE  IInv'
<1>1. MayMutate(i) /\ Leave(i) /\ UNCHANGED <<declared, pending, loop>>
  BY DEF Destroy, MayMutate
<1>2. Arrays(indices) /\ size \in Nat /\ Prefix(indices, size)
  BY IInvArrays
<1>3. \A c \in Component : /\ ContainsIndex(Left(i), c, i) <=> ContainsIndex(indices, c, i)
                           /\ ~ContainsIndex(indices, c, i) => Left(i)[c] = indices[c]
  BY <1>1, <1>2, LeaveStep
<1>4. indices' = Less(Left(i), Component, i)
  BY <1>3 DEF Destroy, Less
<1> QED
  BY <1>1, <1>4, LossIInv, OwnedAssumption

LEMMA DeclareIInv ==
    ASSUME IInv, Declare
    PROVE  IInv'
<1>1. /\ Arrays(indices) /\ GroupTypeOK /\ Phases /\ run = "idle" /\ size = 0 /\ pending = <<>>
      /\ indices' = indices /\ pending' = pending /\ size' = 0 /\ declared' = TRUE
  BY IInvArrays DEF Declare, IInv, Phases
<1>2. PICK c \in Smallest(Owned) :
          IF indices[c] = <<>>
          THEN UNCHANGED loop
          ELSE /\ run' = "building" /\ driver' = c /\ cursor' = 1
               /\ UNCHANGED <<required, current, visited, todo>>
  BY DEF Declare
<1>3. c \in Owned /\ c \in Component /\ indices[c] \in Seq(EntityIndex) /\ DOMAIN indices[c] = 1..Len(indices[c])
  BY <1>1, OwnedAssumption DEF Smallest, Arrays
<1>4. Prefix(indices', size')
  BY <1>1, OwnedAssumption DEF Prefix, Arrays
<1>5. \A x : Outside(x)' => \E p \in 1..Len(indices[c]) : indices[c][p] = x
  BY <1>1, <1>3 DEF Outside, ContainsAll, ContainsIndex
<1>6. CASE indices[c] = <<>>
  <2>1. UNCHANGED <<run, driver, cursor, required, current, visited, todo>>
    BY <1>2, <1>6 DEF loop
  <2>2. GroupTypeOK'
    BY <1>1, <2>1 DEF GroupTypeOK
  <2>3. PutOff'
    BY <1>5, <1>6 DEF PutOff
  <2> QED
    BY <1>1, <1>4, <2>1, <2>2, <2>3
       DEF IInv, BuildingCatchesUp, Phases, EachMatchVisitedOnce, VisitsAhead
<1>7. CASE indices[c] # <<>>
  <2>1. run' = "building" /\ driver' = c /\ cursor' = 1 /\ UNCHANGED <<required, current, visited, todo>>
    BY <1>2, <1>7
  <2>2. Len(indices[c]) \in Nat \ {0}
    BY <1>3, <1>7
  <2>3. GroupTypeOK'
    BY <1>1, <1>3, <2>1, <2>2 DEF GroupTypeOK
  <2>4. BuildingCatchesUp'
    BY <1>1, <1>3, <1>5, <2>1 DEF BuildingCatchesUp
  <2> QED
    BY <1>1, <1>4, <2>1, <2>3, <2>4
       DEF IInv, PutOff, Phases, EachMatchVisitedOnce, VisitsAhead
<1> QED
  BY <1>6, <1>7

LEMMA BuildNextIInv ==
    ASSUME IInv, BuildNext
    PROVE  IInv'
<1> DEFINE i == indices[driver][cursor]
<1>1. /\ Arrays(indices) /\ size \in Nat /\ Prefix(indices, size) /\ GroupTypeOK /\ Phases
      /\ \A x : InGroup(x) <=> Among(indices, size, x)
      /\ \A x : Outside(x) <=> ContainsAll(indices, Owned, x) /\ ~Among(indices, size, x)
  BY IInvArrays DEF IInv
<1>2. /\ run = "building" /\ declared /\ declared' = declared /\ pending = <<>> /\ pending' = pending
      /\ UNCHANGED <<required, current, visited, todo>>
      /\ driver \in Owned /\ driver \in Component /\ size < cursor
      /\ \A x \in EntityIndex : Outside(x) => \E p \in cursor..Len(indices[driver]) : indices[driver][p] = x
  BY <1>1, OwnedAssumption DEF BuildNext, IInv, BuildingCatchesUp, Phases
<1>3. /\ indices[driver] \in Seq(EntityIndex) /\ Len(indices[driver]) \in Nat
      /\ DOMAIN indices[driver] = 1..Len(indices[driver])
      /\ cursor \in 1..Len(indices[driver]) /\ cursor \in Nat /\ i \in EntityIndex
  BY <1>1, <1>2 DEF GroupTypeOK
<1> HIDE DEF i
<1>4. /\ Arrays(indices') /\ size' \in Nat /\ Prefix(indices', size') /\ size' < cursor + 1
      /\ Len(indices'[driver]) = Len(indices[driver])
      /\ \A x \in EntityIndex : Outside(x)' =>
            \E p \in cursor + 1..Len(indices[driver]) : indices'[driver][p] = x
  <2>1. CASE Outside(i)
    <3>1. indices' = MovedTo(indices, i, size + 1) /\ size' = size + 1
      BY <2>1 DEF BuildNext, Enter, Outside, i
    <3>2. ContainsAll(indices, Owned, i) /\ ~Among(indices, size, i) /\ ContainsIndex(indices, driver, i)
      BY <1>1, <1>2, <2>1 DEF ContainsAll
    <3>3. /\ Arrays(indices') /\ Prefix(indices', size + 1)
          /\ \A c \in Component : \A x : ContainsIndex(indices', c, x) <=> ContainsIndex(indices, c, x)
          /\ \A x : Among(indices', size + 1, x) <=> Among(indices, size, x) \/ x = i
          /\ Len(indices'[driver]) = Len(indices[driver])
          /\ \A k \in 1..Len(indices[driver]) \ {size + 1, Position(indices, driver, i)} :
                indices'[driver][k] = indices[driver][k]
      BY <1>1, <1>2, <1>3, <3>1, <3>2, EnterMoves
    <3>4. Position(indices, driver, i) = cursor
      BY <1>1, <1>2, <1>3, <3>2, PositionFound DEF i
    <3>5. ASSUME NEW x \in EntityIndex, Outside(x)'
          PROVE  \E p \in cursor + 1..Len(indices[driver]) : indices'[driver][p] = x
      <4>1. ContainsAll(indices', Owned, x) /\ ~Among(indices', size', x)
        BY <1>1, <3>1, <3>3, <3>5, OutsideNext
      <4>2. ContainsAll(indices, Owned, x) /\ ~Among(indices, size, x) /\ x # i
        BY <3>1, <3>3, <4>1, OwnedAssumption DEF ContainsAll
      <4>3. PICK p \in cursor..Len(indices[driver]) : indices[driver][p] = x
        BY <1>1, <1>2, <4>2
      <4>4. p # cursor
        BY <4>2, <4>3 DEF i
      <4>5. p \in cursor + 1..Len(indices[driver]) /\ p # size + 1
        BY <1>1, <1>2, <1>3, <4>3, <4>4
      <4>6. indices'[driver][p] = x
        BY <1>3, <3>3, <3>4, <4>3, <4>5
      <4> QED
        BY <4>5, <4>6
    <3> QED
      BY <1>1, <1>2, <1>3, <3>1, <3>3, <3>5
  <2>2. CASE ~Outside(i)
    <3>1. indices' = indices /\ size' = size
      BY <2>2 DEF BuildNext, Enter, Outside, i
    <3>2. ASSUME NEW x \in EntityIndex, Outside(x)'
          PROVE  \E p \in cursor + 1..Len(indices[driver]) : indices'[driver][p] = x
      <4>1. Outside(x)
        BY <3>1, <3>2 DEF Outside, InGroup
      <4>2. PICK p \in cursor..Len(indices[driver]) : indices[driver][p] = x
        BY <1>2, <4>1
      <4>3. p # cursor
        BY <2>2, <4>1, <4>2 DEF i
      <4> QED
        BY <1>3, <3>1, <4>2, <4>3
    <3> QED
      BY <1>1, <1>2, <1>3, <3>1, <3>2
  <2> QED
    BY <2>1, <2>2
<1>5. CASE cursor = Len(indices[driver])
  <2>1. run' = "idle" /\ driver' = None /\ cursor' = 0
    BY <1>5 DEF BuildNext
  <2>2. GroupTypeOK'
    BY <1>1, <1>2, <1>4, <2>1 DEF GroupTypeOK, Arrays
  <2>3. PutOff'
    BY <1>3, <1>4, <1>5 DEF PutOff
  <2> QED
    BY <1>1, <1>2, <1>4, <2>1, <2>2, <2>3
       DEF IInv, BuildingCatchesUp, Phases, EachMatchVisitedOnce, VisitsAhead
<1>6. CASE cursor # Len(indices[driver])
  <2>1. run' = run /\ driver' = driver /\ cursor' = cursor + 1 /\ cursor + 1 \in 1..Len(indices[driver])
    BY <1>3, <1>6 DEF BuildNext
  <2>2. GroupTypeOK'
    BY <1>1, <1>2, <1>4, <2>1 DEF GroupTypeOK, Arrays
  <2>3. BuildingCatchesUp'
    BY <1>2, <1>4, <2>1 DEF BuildingCatchesUp
  <2> QED
    BY <1>1, <1>2, <1>4, <2>1, <2>2, <2>3
       DEF IInv, PutOff, Phases, EachMatchVisitedOnce, VisitsAhead
<1> QED
  BY <1>5, <1>6

LEMMA BeginVisitsIInv ==
    ASSUME IInv, NEW components \in SUBSET Component, BeginVisits(components)
    PROVE  IInv'
<1>1. /\ Arrays(indices) /\ GroupTypeOK /\ Phases /\ run = "idle"
      /\ UNCHANGED <<indices, declared, size, pending, current, visited>>
      /\ run' = "visiting" /\ required' = components /\ todo' = Matching(components)
      /\ visited = <<>> /\ current = None
  BY IInvArrays DEF BeginVisits, IInv, Phases
<1>2. PICK c \in Smallest(components) : driver' = c /\ cursor' = Len(indices[c])
  BY DEF BeginVisits
<1>3. c \in components /\ c \in Component /\ indices[c] \in Seq(EntityIndex)
      /\ Len(indices[c]) \in Nat /\ DOMAIN indices[c] = 1..Len(indices[c])
  BY <1>1 DEF Smallest, Arrays
<1>4. GroupTypeOK'
  BY <1>1, <1>2, <1>3 DEF GroupTypeOK, Matching
<1>5. Ahead' = {indices[c][p] : p \in 1..Len(indices[c])} /\ Ahead' \subseteq EntityIndex
  BY <1>1, <1>2, <1>3 DEF Ahead
<1>6. todo' \subseteq Ahead' /\ \A i \in Ahead' : i \in todo' <=> ContainsAll(indices, components, i)
  BY <1>1, <1>3, <1>5 DEF Matching, ContainsAll, ContainsIndex
<1>7. Range(visited') = {} /\ NoRepeats(visited')
  BY <1>1 DEF Range, NoRepeats, IsInjective
<1>8. EachMatchVisitedOnce' /\ VisitsAhead'
  BY <1>1, <1>6, <1>7 DEF EachMatchVisitedOnce, VisitsAhead, Ahead, NoRepeats
<1> QED
  BY <1>1, <1>4, <1>8 DEF IInv, BuildingCatchesUp, PutOff, Phases, Outside, InGroup, Prefix

LEMMA VisitNextIInv ==
    ASSUME IInv, VisitNext
    PROVE  IInv'
<1> DEFINE i == indices[driver][cursor]
<1>1. /\ Arrays(indices) /\ GroupTypeOK /\ Phases /\ run = "visiting" /\ cursor > 0
      /\ UNCHANGED <<indices, declared, size, pending, run, driver, required, todo>>
      /\ cursor' = cursor - 1
  BY IInvArrays DEF VisitNext, IInv
<1>2. /\ NoRepeats(visited) /\ Range(visited) \subseteq todo /\ visited \in Seq(EntityIndex)
      /\ todo \ Range(visited) \subseteq Ahead /\ Range(visited) \cap Ahead = {}
      /\ \A x \in Ahead : x \in todo <=> ContainsAll(indices, required, x)
      /\ current # None => current \in Range(visited)
  BY <1>1 DEF IInv, GroupTypeOK, EachMatchVisitedOnce, VisitsAhead, Ahead
<1>3. /\ driver \in Component /\ indices[driver] \in Seq(EntityIndex) /\ IsInjective(indices[driver])
      /\ DOMAIN indices[driver] = 1..Len(indices[driver]) /\ Len(indices[driver]) \in Nat
      /\ cursor \in 1..Len(indices[driver]) /\ cursor \in Nat
  BY <1>1 DEF GroupTypeOK, NoRepeats
<1>4. Ahead' = {indices[driver][p] : p \in 1..cursor - 1}
  BY <1>1 DEF Ahead
<1>5. Ahead = Ahead' \cup {i} /\ i \notin Ahead' /\ i \in EntityIndex
  <2>1. 1..cursor = (1..cursor - 1) \cup {cursor} /\ i = indices[driver][cursor] /\ i \in EntityIndex
    BY <1>3
  <2> HIDE DEF i
  <2>2. \A p \in 1..cursor - 1 : indices[driver][p] # i
    BY <1>3, <2>1 DEF IsInjective
  <2>3. Ahead = Ahead' \cup {i}
    BY <1>4, <2>1 DEF Ahead
  <2>4. i \notin Ahead'
    BY <1>4, <2>2
  <2> QED
    BY <2>1, <2>3, <2>4
<1>6. IF ContainsAll(indices, required, i)
      THEN current' = i /\ visited' = Append(visited, i)
      ELSE current' = None /\ visited' = visited
  BY DEF VisitNext
<1> HIDE DEF i
<1>7. /\ NoRepeats(visited') /\ Range(visited') \subseteq todo /\ visited' \in Seq(EntityIndex)
      /\ todo \ Range(visited') \subseteq Ahead' /\ Range(visited') \cap Ahead' = {}
      /\ current' # None => current' \in Range(visited')
      /\ current' \in EntityIndex \cup {None}
  <2>1. CASE ContainsAll(indices, required, i)
    <3>1. i \notin Range(visited) /\ i \in todo
      BY <1>2, <1>5, <2>1
    <3>2. visited' = Append(visited, i) /\ current' = i
      BY <1>6, <2>1
    <3>3. Range(visited') = Range(visited) \cup {i} /\ visited' \in Seq(EntityIndex)
      BY <1>2, <1>5, <3>2 DEF Range
    <3>4. NoRepeats(visited')
      BY <1>2, <3>1, <3>2 DEF NoRepeats, IsInjective, Range
    <3> QED
      BY <1>2, <1>5, <3>1, <3>2, <3>3, <3>4
  <2>2. CASE ~ContainsAll(indices, required, i)
    <3>1. i \notin todo /\ visited' = visited /\ current' = None
      BY <1>2, <1>5, <1>6, <2>2
    <3> QED
      BY <1>2, <1>5, <3>1
  <2> QED
    BY <2>1, <2>2
<1>8. GroupTypeOK'
  BY <1>1, <1>3, <1>7 DEF GroupTypeOK
<1>9. EachMatchVisitedOnce'
  BY <1>1, <1>7 DEF EachMatchVisitedOnce, Ahead
<1>10. VisitsAhead'
  BY <1>1, <1>2, <1>5, <1>7 DEF VisitsAhead
<1> QED
  BY <1>1, <1>8, <1>9, <1>10 DEF IInv, BuildingCatchesUp, PutOff, Phases, Outside, InGroup, Prefix

LEMMA EndVisitsIInv ==
    ASSUME IInv, EndVisits
    PROVE  IInv'
<1>1. /\ GroupTypeOK /\ run = "visiting"
      /\ run' = (IF pending = <<>> THEN "idle" ELSE "draining")
      /\ driver' = None /\ cursor' = 0 /\ required' = {} /\ current' = None
      /\ visited' = <<>> /\ todo' = {}
      /\ UNCHANGED <<indices, declared, size, pending>>
  BY DEF EndVisits, IInv
<1>2. GroupTypeOK'
  BY <1>1 DEF GroupTypeOK
<1> QED
  BY <1>1, <1>2 DEF IInv, BuildingCatchesUp, PutOff, Phases, Outside, InGroup, Prefix,
                    EachMatchVisitedOnce, VisitsAhead

LEMMA DrainNextIInv ==
    ASSUME IInv, DrainNext
    PROVE  IInv'
<1> DEFINE i == Head(pending)
<1>1. /\ Arrays(indices) /\ size \in Nat /\ Prefix(indices, size) /\ GroupTypeOK /\ Phases
      /\ \A x : InGroup(x) <=> Among(indices, size, x)
      /\ \A x : Outside(x) <=> ContainsAll(indices, Owned, x) /\ ~Among(indices, size, x)
      /\ run = "draining" /\ pending \in Seq(EntityIndex) /\ pending # <<>>
      /\ UNCHANGED <<declared, driver, cursor, required, current, visited, todo>>
      /\ pending' = Tail(pending)
      /\ run' = (IF Len(pending) = 1 THEN "idle" ELSE "draining")
  BY IInvArrays DEF DrainNext, IInv, GroupTypeOK
<1>2. /\ i \in EntityIndex /\ pending' \in Seq(EntityIndex) /\ Range(pending) = Range(pending') \cup {i}
      /\ Len(pending) = 1 <=> pending' = <<>>
  <2>1. /\ Len(pending) \in Nat \ {0} /\ Len(pending') = Len(pending) - 1
        /\ DOMAIN pending = 1..Len(pending) /\ DOMAIN pending' = 1..Len(pending) - 1
        /\ \A k \in 1..Len(pending) - 1 : pending'[k] = pending[k + 1]
        /\ i = pending[1] /\ pending' \in Seq(EntityIndex) /\ i \in EntityIndex
    BY <1>1
  <2> HIDE DEF i
  <2>2. \A x \in Range(pending) : x \in Range(pending') \cup {i}
    <3> SUFFICES ASSUME NEW k \in 1..Len(pending), k # 1 PROVE pending[k] \in Range(pending')
      BY <2>1 DEF Range
    <3>1. k - 1 \in 1..Len(pending) - 1 /\ pending'[k - 1] = pending[k]
      BY <2>1
    <3> QED
      BY <2>1, <3>1 DEF Range
  <2>3. \A x \in Range(pending') \cup {i} : x \in Range(pending)
    BY <2>1 DEF Range
  <2> QED
    BY <2>1, <2>2, <2>3
<1> HIDE DEF i
<1>3. /\ Arrays(indices') /\ size' \in Nat /\ Prefix(indices', size')
      /\ \A x : Outside(x)' => Outside(x) /\ x # i
      /\ ~declared => size' = size
  <2>1. CASE ContainsAll(indices, Owned, i)
    <3>1. Enter(indices, i)
      BY <2>1 DEF DrainNext, i
    <3>2. /\ Arrays(indices') /\ size' \in Nat /\ Prefix(indices', size')
          /\ \A c \in Component : \A x : ContainsIndex(indices', c, x) <=> ContainsIndex(indices, c, x)
          /\ \A x : Among(indices', size', x) <=> Among(indices, size, x) \/ x = i
      BY <1>1, <1>2, <2>1, <3>1, EnterStep
    <3>3. \A x : Outside(x)' <=> ContainsAll(indices', Owned, x) /\ ~Among(indices', size', x)
      BY <3>2, OutsideNext
    <3>4. \A x : ContainsAll(indices', Owned, x) <=> ContainsAll(indices, Owned, x)
      BY <3>2, OwnedAssumption DEF ContainsAll
    <3>5. declared
      BY <1>1 DEF Phases
    <3> QED
      BY <1>1, <3>2, <3>3, <3>4, <3>5
  <2>2. CASE ~ContainsAll(indices, Owned, i)
    <3>1. indices' = indices /\ size' = size
      BY <2>2 DEF DrainNext, i
    <3> QED
      BY <1>1, <2>2, <3>1 DEF Outside, InGroup
  <2> QED
    BY <2>1, <2>2
<1>4. GroupTypeOK'
  BY <1>1, <1>2, <1>3 DEF GroupTypeOK, Arrays
<1>5. PutOff'
  <2>1. declared => \A x \in EntityIndex : Outside(x) => x \in Range(pending)
    BY <1>1 DEF IInv, PutOff
  <2> QED
    BY <1>1, <1>2, <1>3, <2>1 DEF PutOff
<1> QED
  BY <1>1, <1>2, <1>3, <1>4, <1>5
     DEF IInv, BuildingCatchesUp, Phases, EachMatchVisitedOnce, VisitsAhead

-----------------------------------------------------------------------------
(* The invariant holds. *)
LEMMA StutterIInv ==
    ASSUME IInv, UNCHANGED groupVars
    PROVE  IInv'
BY DEF groupVars, loop, IInv, GroupTypeOK, Prefix, BuildingCatchesUp, PutOff, Phases, EachMatchVisitedOnce,
       VisitsAhead, Ahead, Outside, InGroup, NoRepeats, ContainsAll, ContainsIndex

LEMMA IInvHolds == GroupSpec => []IInv
<1>1. IInv /\ [GroupNext]_groupVars => IInv'
  <2> SUFFICES ASSUME IInv, [GroupNext]_groupVars PROVE IInv'
    OBVIOUS
  <2>1. ASSUME NEW i \in EntityIndex, NEW c \in Component, Add(c, i) PROVE IInv'
    BY <2>1, AddIInv
  <2>2. ASSUME NEW i \in EntityIndex, NEW c \in Component, RemoveComponent(c, i) PROVE IInv'
    BY <2>2, RemoveIInv
  <2>3. ASSUME NEW i \in EntityIndex, Destroy(i) PROVE IInv'
    BY <2>3, DestroyIInv
  <2>4. CASE Declare
    BY <2>4, DeclareIInv
  <2>5. CASE BuildNext
    BY <2>5, BuildNextIInv
  <2>6. ASSUME NEW components \in SUBSET Component, BeginVisits(components) PROVE IInv'
    BY <2>6, BeginVisitsIInv
  <2>7. CASE VisitNext
    BY <2>7, VisitNextIInv
  <2>8. CASE EndVisits
    BY <2>8, EndVisitsIInv
  <2>9. CASE DrainNext
    BY <2>9, DrainNextIInv
  <2>10. CASE UNCHANGED groupVars
    BY <2>10, StutterIInv
  <2> QED
    BY <2>1, <2>2, <2>3, <2>4, <2>5, <2>6, <2>7, <2>8, <2>9, <2>10 DEF GroupNext
<1> QED
  BY <1>1, InitIInv, PTL DEF GroupSpec

-----------------------------------------------------------------------------
(* Each storage holds an index at most once, and a running loop has a      *)
(* driver and a position inside it.                                        *)
THEOREM TypeCorrect == GroupSpec => []GroupTypeOK
<1>1. IInv => GroupTypeOK
  BY DEF IInv
<1> QED
  BY <1>1, IInvHolds, PTL

(* Outside loops the group is exactly the entities with every owned        *)
(* component, as a common prefix of the owned storages; in a loop it       *)
(* misses only those that the loop has still to enter.                     *)
THEOREM GroupCorrect == GroupSpec => []GroupIsPrefix
<1>1. IInv => GroupIsPrefix
  <2> SUFFICES ASSUME IInv PROVE GroupIsPrefix
    OBVIOUS
  <2> DEFINE members == {indices[c][p] : c \in Owned, p \in 1..size}
  <2>1. /\ Arrays(indices) /\ size \in Nat /\ Prefix(indices, size) /\ Phases
        /\ \A i : InGroup(i) <=> Among(indices, size, i)
    BY IInvArrays DEF IInv
  <2>2. \A c \in Owned, p \in 1..size : p \in DOMAIN indices[c] /\ indices[c][p] \in EntityIndex
    BY <2>1, OwnedAssumption DEF Arrays, Prefix
  <2>3. \A i : i \in members <=> InGroup(i)
    BY <2>2 DEF InGroup
  <2>4. ASSUME NEW i \in members PROVE i \in Matching(Owned)
    <3>1. i \in EntityIndex /\ Among(indices, size, i)
      BY <2>1, <2>2, <2>3
    <3>2. ContainsAll(indices, Owned, i)
      BY <2>2, <3>1 DEF Among, ContainsAll, ContainsIndex
    <3> QED
      BY <3>1, <3>2 DEF Matching
  <2>5. declared /\ run # "building" => Matching(Owned) \ members \subseteq Range(pending)
    BY <2>3 DEF IInv, PutOff, Outside, Matching
  <2> HIDE DEF members
  <2>6. members \subseteq Matching(Owned)
    BY <2>4
  <2> QED
    BY <2>1, <2>5, <2>6 DEF GroupIsPrefix, Prefix, Phases, members
<1> QED
  BY <1>1, IInvHolds, PTL

(* A structural job visits an entity that matched when it began once, and  *)
(* misses none, whatever its callback does to its current entity.          *)
THEOREM VisitsCorrect == GroupSpec => []EachMatchVisitedOnce
<1>1. IInv => EachMatchVisitedOnce
  BY DEF IInv
<1> QED
  BY <1>1, IInvHolds, PTL

(* The place an add of a structural job's callback returns holds, after    *)
(* the call, the value of the entity and component it was called with.     *)
THEOREM AddReturns == GroupSpec => StructuralAddReturnsOwnValue
<1>1. ASSUME IInv, NEW c \in Component, NEW i \in EntityIndex, run = "visiting", Add(c, i)
      PROVE  indices'[c][EmplacedAt(c, i)] = i
  <2>1. Arrays(indices) /\ size \in Nat /\ Prefix(indices, size)
    BY <1>1, IInvArrays
  <2>2. indices' = Emplaced(indices, c, i)
    BY <1>1 DEF Add, RefreshAfterAdd
  <2>3. Arrays(indices') /\ ContainsIndex(indices', c, i)
    BY <2>1, <2>2, PutAtEnd
  <2> QED
    BY <2>2, <2>3, PositionFound DEF EmplacedAt
<1>2. IInv /\ [GroupNext]_groupVars =>
        [\A c \in Component, i \in EntityIndex :
            run = "visiting" /\ Add(c, i) => indices'[c][EmplacedAt(c, i)] = i]_groupVars
  BY <1>1
<1> QED
  BY <1>2, IInvHolds, PTL DEF GroupSpec, StructuralAddReturnsOwnValue
=============================================================================
