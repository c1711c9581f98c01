---------------------------- MODULE FdSetProofs ----------------------------
(***************************************************************************)
(* Proofs about FdSet, for every MaxFd.  That the ranges are separated is  *)
(* inductive with their type, and all else follows from it: what the walks *)
(* of the tree find, that each operation does to the descriptors what      *)
(* DescriptorSet says, and which descriptors the functions of fd.c close.  *)
(***************************************************************************)
EXTENDS FdSet, WellFoundedInduction, TLAPS

Inv == TypeOK /\ Separated

\* Separated, of any set of ranges.
Apart(set) == \A r, s \in set : r # s => r.rhs + 1 < s.lhs \/ s.rhs + 1 < r.lhs

----------------------------------------------------------------------------
\* The order of the ranges

\* A set of natural numbers that is not empty has a least member.
LEMMA LeastNatural ==
    ASSUME NEW S \in SUBSET Nat, S # {}
    PROVE  \E m \in S : \A n \in S : m <= n
<1> DEFINE R == OpToRel(<, Nat)
<1>1. \A m, n \in Nat : <<m, n>> \in R <=> m < n
  BY DEF OpToRel
<1>2. IsWellFoundedOn(R, Nat)
  BY NatLessThanWellFounded
<1> HIDE DEF R
<1>3. PICK m \in S : \A n \in S : ~ (<<n, m>> \in R)
  BY <1>2, WFMin
<1>4. \A n \in S : ~ (n < m)
  BY <1>1, <1>3
<1>5. m \in Nat /\ \A n \in S : n \in Nat
  OBVIOUS
<1> QED  BY <1>4, <1>5

\* A range has its ends in order and is told by them.
LEMMA Typed ==
    /\ \A r \in FdRanges : /\ r.lhs \in Nat /\ r.rhs \in Nat
                           /\ r.lhs <= r.rhs /\ r.rhs <= MaxFd
                           /\ r = FdRange(r.lhs, r.rhs)
    /\ \A l, h \in Nat : l <= h /\ h <= MaxFd => FdRange(l, h) \in FdRanges
BY MaxFdAssumption DEF FdRanges, FdRange, Fds

\* Separated ranges are in the order of their ends.
LEMMA Ordered ==
    ASSUME Inv, NEW r \in ranges, NEW s \in ranges
    PROVE  /\ r \in FdRanges /\ s \in FdRanges
           /\ Less(r, s) => r.rhs + 1 < s.lhs
           /\ r = s \/ Less(r, s) \/ Less(s, r)
           /\ r # s => r.lhs # s.lhs
<1>1. r \in FdRanges /\ s \in FdRanges
  BY DEF Inv, TypeOK
<1>2. r # s => r.rhs + 1 < s.lhs \/ s.rhs + 1 < r.lhs
  BY DEF Inv, Separated
<1> QED  BY <1>1, <1>2, Typed DEF Less

LEMMA FirstOf ==
    ASSUME Inv, NEW T \in SUBSET ranges, T # {}
    PROVE  \E m \in T : First(T) = {m} /\ \A s \in T : s = m \/ m.rhs + 1 < s.lhs
<1>1. \A s \in T : s \in FdRanges
  BY DEF Inv, TypeOK
<1> DEFINE S == {s.lhs : s \in T}
<1>2. S \in SUBSET Nat /\ S # {}
  BY <1>1, Typed
<1>3. PICK m \in T : \A s \in T : m.lhs <= s.lhs
  <2> HIDE DEF S
  <2>1. PICK k \in S : \A j \in S : k <= j
    BY <1>2, LeastNatural
  <2> QED  BY <2>1 DEF S
<1>4. \A s \in T : s = m \/ (m.rhs + 1 < s.lhs /\ Less(m, s) /\ ~ Less(s, m))
  BY <1>1, <1>3, Ordered, Typed DEF Less
<1>5. m \in First(T) /\ ~ Less(m, m)
  BY <1>1, <1>4, Typed DEF First, Less
<1> QED  BY <1>4, <1>5 DEF First

LEMMA LastOf ==
    ASSUME Inv, NEW T \in SUBSET ranges, T # {}
    PROVE  \E m \in T : Last(T) = {m} /\ \A s \in T : s = m \/ s.rhs + 1 < m.lhs
<1>1. \A s \in T : s \in FdRanges
  BY DEF Inv, TypeOK
<1>2. \A s \in T : MaxFd - s.lhs \in Nat /\ s.lhs \in Nat
  BY <1>1, Typed, MaxFdAssumption
<1> DEFINE S == {MaxFd - s.lhs : s \in T}
<1>3. S \in SUBSET Nat /\ S # {}
  BY <1>2
<1>4. PICK m \in T : \A s \in T : MaxFd - m.lhs <= MaxFd - s.lhs
  <2> HIDE DEF S
  <2>1. PICK k \in S : \A j \in S : k <= j
    BY <1>3, LeastNatural
  <2> QED  BY <2>1 DEF S
<1>5. \A s \in T : s.lhs <= m.lhs
  BY <1>2, <1>4, MaxFdAssumption
<1>6. \A s \in T : s = m \/ (s.rhs + 1 < m.lhs /\ Less(s, m) /\ ~ Less(m, s))
  BY <1>1, <1>5, Ordered, Typed DEF Less
<1>7. m \in Last(T) /\ ~ Less(m, m)
  BY <1>1, <1>6, Typed DEF Last, Less
<1> QED  BY <1>6, <1>7 DEF Last

\* The range before r, in the tree or not, if any range is before it.
LEMMA PrevOf ==
    ASSUME Inv, NEW r
    PROVE  \/ Prev(r) = {} /\ \A s \in ranges : ~ Less(s, r)
           \/ \E p \in ranges :
                /\ Prev(r) = {p} /\ Less(p, r)
                /\ \A s \in ranges : Less(s, r) => s = p \/ s.rhs + 1 < p.lhs
<1> DEFINE T == {s \in ranges : Less(s, r)}
<1>1. CASE T = {}
  BY <1>1 DEF Prev, Last
<1>2. CASE T # {}
  <2>1. PICK p \in T : Last(T) = {p} /\ \A s \in T : s = p \/ s.rhs + 1 < p.lhs
    <3> HIDE DEF T
    <3>1. T \in SUBSET ranges
      BY DEF T
    <3> QED  BY <1>2, <3>1, LastOf
  <2> QED  BY <2>1 DEF Prev
<1> QED  BY <1>1, <1>2

LEMMA SuccOf ==
    ASSUME Inv, NEW r
    PROVE  \/ Succ(r) = {} /\ \A s \in ranges : ~ Less(r, s)
           \/ \E n \in ranges :
                /\ Succ(r) = {n} /\ Less(r, n)
                /\ \A s \in ranges : Less(r, s) => s = n \/ n.rhs + 1 < s.lhs
<1> DEFINE T == {s \in ranges : Less(r, s)}
<1>1. CASE T = {}
  BY <1>1 DEF Succ, First
<1>2. CASE T # {}
  <2>1. PICK n \in T : First(T) = {n} /\ \A s \in T : s = n \/ n.rhs + 1 < s.lhs
    <3> HIDE DEF T
    <3>1. T \in SUBSET ranges
      BY DEF T
    <3> QED  BY <1>2, <3>1, FirstOf
  <2> QED  BY <2>1 DEF Succ
<1> QED  BY <1>1, <1>2

----------------------------------------------------------------------------
\* ert_insertFdSetRange

\* The neighbours tell whether a range overlaps any other.
LEMMA ExistsMeans ==
    ASSUME Inv, NEW r \in FdRanges
    PROVE  Exists(r) <=> \E s \in ranges : r.lhs <= s.rhs /\ s.lhs <= r.rhs
<1>0. \A s \in ranges : s \in FdRanges
  BY DEF Inv, TypeOK
<1>1. ASSUME Exists(r) PROVE \E s \in ranges : r.lhs <= s.rhs /\ s.lhs <= r.rhs
  <2>1. CASE r \in ranges
    BY <2>1, Typed
  <2>2. ASSUME NEW p \in Prev(r), ~ p.rhs < r.lhs
        PROVE  \E s \in ranges : r.lhs <= s.rhs /\ s.lhs <= r.rhs
    <3>1. p \in ranges /\ Less(p, r)
      BY DEF Prev, Last
    <3> QED  BY <1>0, <2>2, <3>1, Typed DEF Less
  <2>3. ASSUME NEW n \in Succ(r), ~ r.rhs < n.lhs
        PROVE  \E s \in ranges : r.lhs <= s.rhs /\ s.lhs <= r.rhs
    <3>1. n \in ranges /\ Less(r, n)
      BY DEF Succ, First
    <3> QED  BY <1>0, <2>3, <3>1, Typed DEF Less
  <2> QED  BY <1>1, <2>1, <2>2, <2>3 DEF Exists
<1>2. ASSUME ~ Exists(r), NEW s \in ranges PROVE ~ (r.lhs <= s.rhs /\ s.lhs <= r.rhs)
  <2>1. Less(s, r) \/ Less(r, s)
    <3>1. s # r
      BY <1>2 DEF Exists
    <3>2. s.lhs # r.lhs \/ s.rhs # r.rhs
      BY <1>0, <3>1, Typed
    <3>3. s.lhs \in Nat /\ s.rhs \in Nat /\ r.lhs \in Nat /\ r.rhs \in Nat
      BY <1>0, Typed
    <3> QED  BY <3>2, <3>3 DEF Less
  <2>2. CASE Less(s, r)
    <3>1. PICK p \in ranges : Prev(r) = {p} /\ (s = p \/ s.rhs + 1 < p.lhs)
      BY <2>2, PrevOf
    <3>2. p.rhs < r.lhs
      BY <1>2, <3>1 DEF Exists
    <3> QED  BY <1>0, <3>1, <3>2, Typed
  <2>3. CASE Less(r, s)
    <3>1. PICK n \in ranges : Succ(r) = {n} /\ (s = n \/ n.rhs + 1 < s.lhs)
      BY <2>3, SuccOf
    <3>2. r.rhs < n.lhs
      BY <1>2, <3>1 DEF Exists
    <3> QED  BY <1>0, <3>1, <3>2, Typed
  <2> QED  BY <2>1, <2>2, <2>3
<1> QED  BY <1>1, <1>2

\* Insertion joins the range with those that touch it: the ranges stay apart, and
\* cover what they did and the range.
LEMMA Inserting ==
    ASSUME Inv, NEW r \in FdRanges, ~ Exists(r)
    PROVE  /\ Inserted(r) \subseteq FdRanges /\ Apart(Inserted(r))
           /\ Covered(Inserted(r)) = Covered(ranges) \cup r.lhs .. r.rhs
           /\ Covered(ranges) \cap r.lhs .. r.rhs = {}
<1> DEFINE left  == {p \in Prev(r) : r.lhs - 1 = p.rhs}
           right == {n \in Succ(r) : r.rhs + 1 = n.lhs}
<1>0. /\ ranges \subseteq FdRanges
      /\ r.lhs \in Nat /\ r.rhs \in Nat /\ r.lhs <= r.rhs /\ r.rhs <= MaxFd
      /\ \A s \in ranges : /\ s.lhs \in Nat /\ s.rhs \in Nat
                           /\ s.lhs <= s.rhs /\ s.rhs <= MaxFd
  BY Typed DEF Inv, TypeOK
<1>1. \A s \in ranges : s.rhs < r.lhs \/ r.rhs < s.lhs
  BY <1>0, ExistsMeans
<1>2. left = {p \in ranges : p.rhs + 1 = r.lhs}
  <2>1. \A p \in left : p \in ranges /\ p.rhs + 1 = r.lhs
    BY <1>0 DEF Prev, Last
  <2>2. ASSUME NEW s \in ranges, s.rhs + 1 = r.lhs PROVE s \in left
    <3>1. Less(s, r)
      BY <1>0, <2>2 DEF Less
    <3>2. PICK p \in ranges : /\ Prev(r) = {p} /\ Less(p, r)
                              /\ s = p \/ s.rhs + 1 < p.lhs
      BY <3>1, PrevOf
    <3>3. s = p
      BY <1>0, <2>2, <3>2 DEF Less
    <3> QED  BY <1>0, <2>2, <3>2, <3>3
  <2> QED  BY <2>1, <2>2
<1>3. right = {n \in ranges : r.rhs + 1 = n.lhs}
  <2>1. \A n \in right : n \in ranges /\ r.rhs + 1 = n.lhs
    BY DEF Succ, First
  <2>2. ASSUME NEW s \in ranges, r.rhs + 1 = s.lhs PROVE s \in right
    <3>1. Less(r, s)
      BY <1>0, <2>2 DEF Less
    <3>2. PICK n \in ranges : /\ Succ(r) = {n} /\ Less(r, n)
                              /\ s = n \/ n.rhs + 1 < s.lhs
      BY <3>1, SuccOf
    <3>3. r.rhs < n.lhs
      BY <1>0, <1>1, <3>2 DEF Less
    <3>4. s = n
      BY <1>0, <2>2, <3>2, <3>3
    <3> QED  BY <2>2, <3>2, <3>4
  <2> QED  BY <2>1, <2>2
<1>4. /\ Inserted(r) = (ranges \ (left \cup right)) \cup
           {s \in FdRanges :
              /\ IF left = {} THEN s.lhs = r.lhs ELSE \E p \in left : s.lhs = p.lhs
              /\ IF right = {} THEN s.rhs = r.rhs ELSE \E n \in right : s.rhs = n.rhs}
  BY DEF Inserted
<1> HIDE DEF left, right
<1>5. PICK l \in Nat :
          /\ l <= r.lhs
          /\ left = {} => l = r.lhs
          /\ \A p \in left : p.lhs = l
          /\ \A s : s.lhs = l <=>
                IF left = {} THEN s.lhs = r.lhs ELSE \E p \in left : s.lhs = p.lhs
  <2>1. CASE left = {}
    BY <1>0, <2>1
  <2>2. ASSUME NEW p \in left PROVE left = {p} /\ p.lhs \in Nat /\ p.lhs <= r.lhs
    BY <1>0, <1>2 DEF Inv, Separated
  <2> QED  BY <2>1, <2>2
<1>6. PICK h \in Nat :
          /\ r.rhs <= h /\ h <= MaxFd
          /\ right = {} => h = r.rhs
          /\ \A n \in right : n.rhs = h
          /\ \A s : s.rhs = h <=>
                IF right = {} THEN s.rhs = r.rhs ELSE \E n \in right : s.rhs = n.rhs
  <2>1. CASE right = {}
    BY <1>0, <2>1
  <2>2. ASSUME NEW n \in right
        PROVE  right = {n} /\ n.rhs \in Nat /\ r.rhs <= n.rhs /\ n.rhs <= MaxFd
    BY <1>0, <1>3 DEF Inv, Separated
  <2> QED  BY <2>1, <2>2
<1>7. PICK x \in FdRanges : x.lhs = l /\ x.rhs = h
  <2>1. FdRange(l, h) \in FdRanges
    BY <1>0, <1>5, <1>6, Typed
  <2> QED  BY <2>1 DEF FdRange
<1>8. Inserted(r) = (ranges \ (left \cup right)) \cup {x}
  <2>1. \A s \in FdRanges : s.lhs = l /\ s.rhs = h <=> s = x
    BY <1>7, Typed
  <2> QED  BY <1>4, <1>5, <1>6, <2>1
<1>9. \A s \in ranges \ (left \cup right) : s.rhs + 1 < l \/ h + 1 < s.lhs
  <2> SUFFICES ASSUME NEW s \in ranges \ (left \cup right)
               PROVE  s.rhs + 1 < l \/ h + 1 < s.lhs
    OBVIOUS
  <2>1. CASE s.rhs < r.lhs
    <3>1. s.rhs + 1 < r.lhs
      BY <1>0, <1>2, <2>1
    <3>2. CASE left = {}
      BY <1>5, <3>1, <3>2
    <3>3. ASSUME NEW p \in left PROVE s.rhs + 1 < l
      <4>1. p \in ranges /\ p # s /\ p.rhs + 1 = r.lhs /\ p.lhs = l
        BY <1>2, <1>5
      <4> QED  BY <1>0, <3>1, <4>1 DEF Inv, Separated
    <3> QED  BY <3>2, <3>3
  <2>2. CASE r.rhs < s.lhs
    <3>1. r.rhs + 1 < s.lhs
      BY <1>0, <1>3, <2>2
    <3>2. CASE right = {}
      BY <1>6, <3>1, <3>2
    <3>3. ASSUME NEW n \in right PROVE h + 1 < s.lhs
      <4>1. n \in ranges /\ n # s /\ r.rhs + 1 = n.lhs /\ n.rhs = h
        BY <1>3, <1>6
      <4> QED  BY <1>0, <3>1, <4>1 DEF Inv, Separated
    <3> QED  BY <3>2, <3>3
  <2> QED  BY <1>1, <2>1, <2>2
<1>10. Inserted(r) \subseteq FdRanges
  BY <1>0, <1>8
<1>11. Apart(Inserted(r))
  <2>1. \A s, t \in ranges : s # t => s.rhs + 1 < t.lhs \/ t.rhs + 1 < s.lhs
    BY DEF Inv, Separated
  <2> QED  BY <1>7, <1>8, <1>9, <2>1 DEF Apart
<1>12. Covered(ranges) \cap r.lhs .. r.rhs = {}
  BY <1>0, <1>1 DEF Covered, Fds
<1>13. Covered(Inserted(r)) = Covered(ranges) \cup r.lhs .. r.rhs
  <2>1. \A p \in left : p \in ranges /\ p.lhs = l /\ p.rhs + 1 = r.lhs
    BY <1>2, <1>5
  <2>2. \A n \in right : n \in ranges /\ n.rhs = h /\ n.lhs = r.rhs + 1
    BY <1>3, <1>6
  <2>3. ASSUME NEW fd \in Fds, l <= fd, fd <= h
        PROVE  fd \in r.lhs .. r.rhs \/ \E s \in ranges : s.lhs <= fd /\ fd <= s.rhs
    <3>1. CASE fd < r.lhs
      <4>1. PICK p \in left : TRUE
        BY <1>0, <1>5, <2>3, <3>1 DEF Fds
      <4> QED  BY <1>0, <2>1, <2>3, <3>1, <4>1 DEF Fds
    <3>2. CASE r.rhs < fd
      <4>1. PICK n \in right : TRUE
        BY <1>0, <1>6, <2>3, <3>2 DEF Fds
      <4> QED  BY <1>0, <2>2, <2>3, <3>2, <4>1 DEF Fds
    <3> QED  BY <1>0, <3>1, <3>2 DEF Fds
  <2>4. ASSUME NEW fd \in Fds, NEW s \in ranges, s.lhs <= fd, fd <= s.rhs
        PROVE  \E t \in Inserted(r) : t.lhs <= fd /\ fd <= t.rhs
    <3>1. CASE s \in left
      BY <1>0, <1>5, <1>6, <1>7, <1>8, <2>1, <2>4, <3>1 DEF Fds
    <3>2. CASE s \in right
      BY <1>0, <1>5, <1>6, <1>7, <1>8, <2>2, <2>4, <3>2 DEF Fds
    <3>3. CASE s \notin left \cup right
      BY <1>8, <2>4, <3>3
    <3> QED  BY <3>1, <3>2, <3>3
  <2>5. ASSUME NEW fd \in r.lhs .. r.rhs
        PROVE  fd \in Fds /\ \E t \in Inserted(r) : t.lhs <= fd /\ fd <= t.rhs
    BY <1>0, <1>5, <1>6, <1>7, <1>8, MaxFdAssumption DEF Fds
  <2>6. ASSUME NEW fd \in Fds, NEW t \in Inserted(r), t.lhs <= fd, fd <= t.rhs
        PROVE  fd \in Covered(ranges) \cup r.lhs .. r.rhs
    BY <1>7, <1>8, <2>3, <2>6 DEF Covered
  <2> QED  BY <2>4, <2>5, <2>6 DEF Covered
<1> QED  BY <1>10, <1>11, <1>12, <1>13

----------------------------------------------------------------------------
\* ert_removeFdSetRange

\* The search finds the range that holds all of r, if there is one, and there is
\* one if every descriptor of r is in the set: two ranges never share them.
LEMMA HoldingMeans ==
    ASSUME Inv, NEW r \in FdRanges
    PROVE  /\ Holding(r) = {e \in ranges : Contains(e, r)}
           /\ Holding(r) # {} <=> r.lhs .. r.rhs \subseteq Covered(ranges)
<1>0. /\ ranges \subseteq FdRanges
      /\ r.lhs \in Nat /\ r.rhs \in Nat /\ r.lhs <= r.rhs /\ r.rhs <= MaxFd
      /\ \A s \in ranges : /\ s.lhs \in Nat /\ s.rhs \in Nat
                           /\ s.lhs <= s.rhs /\ s.rhs <= MaxFd
  BY Typed DEF Inv, TypeOK
<1>1. \A s, t \in ranges : s # t => s.rhs + 1 < t.lhs \/ t.rhs + 1 < s.lhs
  BY DEF Inv, Separated
<1> DEFINE notLess == {s \in ranges : ~ Less(s, r)}
<1>2. NFind(r) \subseteq ranges
  BY DEF NFind, First, Last
<1>3. \A n \in NFind(r) : Prev(n) \subseteq ranges
  BY DEF Prev, Last
<1>4. Holding(r) \subseteq {e \in ranges : Contains(e, r)}
  BY <1>2, <1>3 DEF Holding
<1>5. ASSUME NEW e \in ranges, Contains(e, r) PROVE Holding(r) = {e}
  <2>0. e.lhs <= r.lhs /\ r.rhs <= e.rhs
    BY <1>5 DEF Contains
  <2>1. \A s \in ranges : Contains(s, r) => s = e
    BY <1>0, <1>1, <2>0 DEF Contains
  <2>2. CASE ~ Less(e, r)
    <3>1. e.lhs = r.lhs /\ e \in notLess
      BY <1>0, <2>0, <2>2 DEF Less
    <3>2. PICK m \in notLess :
            First(notLess) = {m} /\ \A s \in notLess : s = m \/ m.rhs + 1 < s.lhs
      <4> HIDE DEF notLess
      <4>1. notLess \in SUBSET ranges /\ notLess # {}
        BY <3>1 DEF notLess
      <4> QED  BY <4>1, FirstOf
    <3>3. m = e
      BY <1>0, <2>0, <3>1, <3>2 DEF Less
    <3>4. NFind(r) = {e}
      BY <3>1, <3>2, <3>3 DEF NFind
    <3> QED  BY <1>5, <3>4 DEF Holding
  <2>3. CASE Less(e, r)
    <3>1. \A s \in ranges : Less(s, r) => s = e \/ s.rhs + 1 < e.lhs
      BY <1>0, <1>1, <2>0 DEF Less
    <3>2. CASE notLess = {}
      <4>1. PICK m \in ranges :
              Last(ranges) = {m} /\ \A s \in ranges : s = m \/ s.rhs + 1 < m.lhs
        BY LastOf
      <4>2. m = e
        BY <1>0, <3>1, <3>2, <4>1
      <4>3. NFind(r) = {e}
        BY <3>2, <4>1, <4>2 DEF NFind
      <4> QED  BY <1>5, <4>3 DEF Holding
    <3>3. CASE notLess # {}
      <4>1. PICK m \in notLess :
              First(notLess) = {m} /\ \A s \in notLess : s = m \/ m.rhs + 1 < s.lhs
        <5> HIDE DEF notLess
        <5>1. notLess \in SUBSET ranges
          BY DEF notLess
        <5> QED  BY <3>3, <5>1, FirstOf
      <4>2. NFind(r) = {m} /\ m # e /\ ~ Contains(m, r)
        BY <2>1, <2>3, <3>3, <4>1 DEF NFind
      <4>3. Less(e, m)
        BY <1>0, <1>1, <2>0, <4>1, <4>2 DEF Less
      <4>4. PICK p \in ranges : /\ Prev(m) = {p} /\ Less(p, m)
                                /\ e = p \/ e.rhs + 1 < p.lhs
        BY <4>3, PrevOf
      <4>5. p = e
        <5>1. Less(p, r)
          <6>1. ~ (m.rhs + 1 < p.lhs) /\ p # m
            BY <1>0, <4>1, <4>4 DEF Less
          <6> QED  BY <4>1, <6>1
        <5> QED  BY <1>0, <3>1, <4>4, <5>1
      <4> QED  BY <1>5, <4>2, <4>4, <4>5 DEF Holding
    <3> QED  BY <3>2, <3>3
  <2> QED  BY <2>2, <2>3
<1>6. Holding(r) = {e \in ranges : Contains(e, r)}
  BY <1>4, <1>5
<1>7. ASSUME NEW e \in ranges, Contains(e, r)
      PROVE  r.lhs .. r.rhs \subseteq Covered(ranges)
  BY <1>0, <1>7, MaxFdAssumption DEF Covered, Contains, Fds
<1>8. ASSUME r.lhs .. r.rhs \subseteq Covered(ranges)
      PROVE  \E e \in ranges : Contains(e, r)
  <2>1. PICK e \in ranges : e.lhs <= r.lhs /\ r.lhs <= e.rhs
    BY <1>0, <1>8 DEF Covered
  <2>2. CASE e.rhs < r.rhs
    <3>1. e.rhs + 1 \in r.lhs .. r.rhs
      BY <1>0, <2>1, <2>2
    <3>2. PICK t \in ranges : t.lhs <= e.rhs + 1 /\ e.rhs + 1 <= t.rhs
      BY <1>8, <3>1 DEF Covered
    <3> QED  BY <1>0, <1>1, <3>2
  <2> QED  BY <1>0, <2>1, <2>2 DEF Contains
<1> QED  BY <1>6, <1>7, <1>8

\* Removal leaves the two sides of the range that held r.
LEMMA Removing ==
    ASSUME Inv, NEW r \in FdRanges, NEW e \in ranges, Contains(e, r),
           NEW rest, rest = (ranges \ {e}) \cup LeftOver(e, r)
    PROVE  /\ rest \subseteq FdRanges /\ Apart(rest)
           /\ Covered(rest) = Covered(ranges) \ (r.lhs .. r.rhs)
<1>0. /\ ranges \subseteq FdRanges
      /\ r.lhs \in Nat /\ r.rhs \in Nat /\ r.lhs <= r.rhs /\ r.rhs <= MaxFd
      /\ \A s \in ranges : /\ s.lhs \in Nat /\ s.rhs \in Nat
                           /\ s.lhs <= s.rhs /\ s.rhs <= MaxFd
  BY Typed DEF Inv, TypeOK
<1>1. \A s, t \in ranges : s # t => s.rhs + 1 < t.lhs \/ t.rhs + 1 < s.lhs
  BY DEF Inv, Separated
<1>2. e.lhs <= r.lhs /\ r.rhs <= e.rhs
  BY DEF Contains
<1>3. ASSUME NEW s \in LeftOver(e, r)
      PROVE  /\ s \in FdRanges /\ s.lhs \in Nat /\ s.rhs \in Nat
             /\ s.lhs <= s.rhs /\ s.rhs <= MaxFd
             /\ \/ s.lhs = e.lhs /\ s.rhs = r.lhs - 1
                \/ s.lhs = r.rhs + 1 /\ s.rhs = e.rhs
  BY <1>0, <1>2, MaxFdAssumption DEF LeftOver, FdRange, FdRanges, Fds
<1>4. \A s \in LeftOver(e, r) : e.lhs <= s.lhs /\ s.rhs <= e.rhs
  BY <1>0, <1>2, <1>3
<1>5. \A s, t \in LeftOver(e, r) :
          s # t => s.rhs + 1 < t.lhs \/ t.rhs + 1 < s.lhs
  BY <1>0, <1>2 DEF LeftOver, FdRange
<1>6. \A s \in ranges \ {e}, t \in LeftOver(e, r) :
          s.rhs + 1 < t.lhs \/ t.rhs + 1 < s.lhs
  BY <1>0, <1>1, <1>3, <1>4
<1>7. Apart(rest)
  BY <1>1, <1>5, <1>6 DEF Apart
<1>8. rest \subseteq FdRanges
  BY <1>0, <1>3
<1>9. ASSUME NEW fd \in Covered(rest)
      PROVE  fd \in Covered(ranges) /\ fd \notin r.lhs .. r.rhs
  <2>1. PICK s \in rest : fd \in Fds /\ s.lhs <= fd /\ fd <= s.rhs
    BY DEF Covered
  <2>2. CASE s \in ranges \ {e}
    BY <1>0, <1>1, <1>2, <2>1, <2>2 DEF Covered, Fds
  <2>3. CASE s \in LeftOver(e, r)
    BY <1>0, <1>2, <1>3, <1>4, <2>1, <2>3 DEF Covered, Fds
  <2> QED  BY <2>2, <2>3
<1>10. ASSUME NEW fd \in Covered(ranges), fd \notin r.lhs .. r.rhs
       PROVE  fd \in Covered(rest)
  <2>1. PICK s \in ranges : fd \in Fds /\ s.lhs <= fd /\ fd <= s.rhs
    BY DEF Covered
  <2>2. CASE s # e
    BY <2>1, <2>2 DEF Covered
  <2>3. CASE s = e /\ fd < r.lhs
    <3>1. FdRange(e.lhs, r.lhs - 1) \in LeftOver(e, r)
      BY <1>0, <2>1, <2>3 DEF LeftOver, FdRange, Fds
    <3> QED  BY <1>0, <2>1, <2>3, <3>1 DEF Covered, FdRange, Fds
  <2>4. CASE s = e /\ r.rhs < fd
    <3>1. FdRange(r.rhs + 1, e.rhs) \in LeftOver(e, r)
      BY <1>0, <2>1, <2>4 DEF LeftOver, FdRange, Fds
    <3> QED  BY <1>0, <2>1, <2>4, <3>1 DEF Covered, FdRange, Fds
  <2> QED  BY <1>0, <1>10, <2>1, <2>2, <2>3, <2>4 DEF Fds
<1> QED  BY <1>7, <1>8, <1>9, <1>10

----------------------------------------------------------------------------
\* ert_invertFdSet

\* What lies between neighbours, or a range and the end of the descriptors.
Gaps ==
    {g \in FdRanges :
        /\ g.lhs = 0 \/ \E p \in ranges : p.rhs + 1 = g.lhs
        /\ g.rhs = MaxFd \/ \E n \in ranges : g.rhs + 1 = n.lhs
        /\ \A s \in ranges : s.rhs < g.lhs \/ g.rhs < s.lhs}

\* The ends of the ranges, which do not meet, and of a gap.
LEMMA Ends ==
    ASSUME Inv
    PROVE  /\ \A s \in ranges : /\ s.lhs \in Nat /\ s.rhs \in Nat
                                /\ s.lhs <= s.rhs /\ s.rhs <= MaxFd
           /\ \A s, t \in ranges : s # t => s.rhs + 1 < t.lhs \/ t.rhs + 1 < s.lhs
           /\ \A s, t \in ranges : Less(s, t) => s.rhs + 1 < t.lhs
           /\ \A s, t \in ranges : s = t \/ Less(s, t) \/ Less(t, s)
           /\ \A g \in Gaps : /\ g.lhs \in Nat /\ g.rhs \in Nat
                              /\ g.lhs <= g.rhs /\ g.rhs <= MaxFd
<1>1. ranges \subseteq FdRanges /\ Gaps \subseteq FdRanges
  BY DEF Inv, TypeOK, Gaps
<1>2. \A s, t \in ranges : s # t => s.rhs + 1 < t.lhs \/ t.rhs + 1 < s.lhs
  BY DEF Inv, Separated
<1> QED  BY <1>1, <1>2, Typed, Ordered

\* The gap before the first range is a gap, and the only one that starts at 0
\* when there are ranges.
LEMMA FirstGapMeans ==
    ASSUME Inv, ranges # {}
    PROVE  FirstGap = {g \in Gaps : g.lhs = 0}
<1>1. PICK f \in ranges :
          First(ranges) = {f} /\ \A s \in ranges : s = f \/ f.rhs + 1 < s.lhs
  BY FirstOf
<1>2. FirstGap = IF f.lhs = 0 THEN {} ELSE {FdRange(0, f.lhs - 1)}
  BY <1>1 DEF FirstGap
<1>3. ASSUME f.lhs # 0 PROVE FdRange(0, f.lhs - 1) \in Gaps
  <2>1. 0 \in Nat /\ f.lhs - 1 \in Nat /\ 0 <= f.lhs - 1 /\ f.lhs - 1 <= MaxFd
    BY <1>1, <1>3, Ends, MaxFdAssumption
  <2>2. FdRange(0, f.lhs - 1) \in FdRanges
    BY <2>1, Typed
  <2>3. \A s \in ranges : f.lhs - 1 < s.lhs
    BY <1>1, Ends
  <2> QED  BY <1>1, <2>1, <2>2, <2>3, Ends DEF Gaps, FdRange
<1>4. ASSUME NEW g \in Gaps, g.lhs = 0
      PROVE  f.lhs # 0 /\ g = FdRange(0, f.lhs - 1)
  <2>1. g \in FdRanges /\ f.lhs \in Nat /\ f.rhs \in Nat /\ g.rhs \in Nat
        /\ f.lhs <= f.rhs /\ f.rhs <= MaxFd
    BY <1>1, Ends DEF Gaps
  <2>2. g.rhs < f.lhs
    BY <1>1, <1>4, <2>1 DEF Gaps
  <2>3. PICK n \in ranges : g.rhs + 1 = n.lhs
    BY <2>1, <2>2, MaxFdAssumption DEF Gaps
  <2>4. n = f
    BY <1>1, <2>1, <2>2, <2>3, Ends
  <2>5. f.lhs - 1 = g.rhs
    BY <2>1, <2>3, <2>4
  <2> QED  BY <1>4, <2>1, <2>2, <2>5, Typed
<1>5. FdRange(0, f.lhs - 1).lhs = 0
  BY DEF FdRange
<1> QED  BY <1>2, <1>3, <1>4, <1>5

\* A gap that does not start at 0 is after the range that ends there, and a gap
\* that does not end at INT_MAX is before the range that starts there.
LEMMA GapBeforeMeans ==
    ASSUME Inv, NEW r \in ranges
    PROVE  GapBefore(r) = {g \in Gaps : g.lhs # 0 /\ g.rhs + 1 = r.lhs}
<1>1. ASSUME NEW p \in ranges, Prev(r) = {p}, Less(p, r),
             \A s \in ranges : Less(s, r) => s = p \/ s.rhs + 1 < p.lhs
      PROVE  /\ GapBefore(r) = {FdRange(p.rhs + 1, r.lhs - 1)}
             /\ FdRange(p.rhs + 1, r.lhs - 1) \in {g \in Gaps : g.lhs # 0 /\ g.rhs + 1 = r.lhs}
  <2>1. p.rhs + 1 \in Nat /\ r.lhs - 1 \in Nat /\ p.rhs + 1 <= r.lhs - 1 /\ r.lhs - 1 <= MaxFd
    BY <1>1, Ends, MaxFdAssumption
  <2>2. FdRange(p.rhs + 1, r.lhs - 1) \in FdRanges
    BY <2>1, Typed
  <2>3. \A s \in ranges : s.rhs < p.rhs + 1 \/ r.lhs - 1 < s.lhs
    BY <1>1, Ends
  <2>4. r.lhs - 1 + 1 = r.lhs /\ p.rhs + 1 # 0
    BY Ends
  <2> QED  BY <1>1, <2>2, <2>3, <2>4 DEF GapBefore, Gaps, FdRange
<1>2. ASSUME NEW g \in Gaps, g.lhs # 0, g.rhs + 1 = r.lhs
      PROVE  g \in GapBefore(r)
  <2>1. PICK q \in ranges : q.rhs + 1 = g.lhs
    BY <1>2 DEF Gaps
  <2>2. q # r /\ ~ Less(r, q)
    BY <1>2, <2>1, Ends
  <2>3. PICK p \in ranges : /\ Prev(r) = {p} /\ Less(p, r)
                            /\ q = p \/ q.rhs + 1 < p.lhs
    BY <2>2, Ends, PrevOf
  <2>4. p.rhs < g.lhs \/ g.rhs < p.lhs
    BY DEF Gaps
  <2>5. p = q
    BY <1>2, <2>1, <2>3, <2>4, Ends
  <2>6. g = FdRange(p.rhs + 1, r.lhs - 1)
    <3>1. p.rhs + 1 = g.lhs /\ r.lhs - 1 = g.rhs
      BY <1>2, <2>1, <2>5, Ends
    <3> QED  BY <3>1, Typed DEF Gaps
  <2> QED  BY <2>3, <2>6 DEF GapBefore
<1>3. CASE Prev(r) = {}
  BY <1>2, <1>3 DEF GapBefore
<1> QED  BY <1>1, <1>2, <1>3, PrevOf

LEMMA GapAfterMeans ==
    ASSUME Inv, NEW r \in ranges, r.rhs # MaxFd
    PROVE  GapAfter(r) = {g \in Gaps : r.rhs + 1 = g.lhs}
<1>1. ASSUME NEW n \in ranges, Succ(r) = {n}, Less(r, n),
             \A s \in ranges : Less(r, s) => s = n \/ n.rhs + 1 < s.lhs
      PROVE  /\ GapAfter(r) = {FdRange(r.rhs + 1, n.lhs - 1)}
             /\ FdRange(r.rhs + 1, n.lhs - 1) \in {g \in Gaps : r.rhs + 1 = g.lhs}
  <2>1. r.rhs + 1 \in Nat /\ n.lhs - 1 \in Nat /\ r.rhs + 1 <= n.lhs - 1 /\ n.lhs - 1 <= MaxFd
    BY <1>1, Ends, MaxFdAssumption
  <2>2. FdRange(r.rhs + 1, n.lhs - 1) \in FdRanges
    BY <2>1, Typed
  <2>3. \A s \in ranges : s.rhs < r.rhs + 1 \/ n.lhs - 1 < s.lhs
    BY <1>1, Ends
  <2>4. n.lhs - 1 + 1 = n.lhs
    BY Ends
  <2> QED  BY <1>1, <2>2, <2>3, <2>4 DEF GapAfter, Gaps, FdRange
<1>2. ASSUME Succ(r) = {}, \A s \in ranges : ~ Less(r, s)
      PROVE  /\ GapAfter(r) = {FdRange(r.rhs + 1, MaxFd)}
             /\ FdRange(r.rhs + 1, MaxFd) \in {g \in Gaps : r.rhs + 1 = g.lhs}
  <2>1. r.rhs + 1 \in Nat /\ r.rhs + 1 <= MaxFd
    BY Ends, MaxFdAssumption
  <2>2. FdRange(r.rhs + 1, MaxFd) \in FdRanges
    BY <2>1, Typed, MaxFdAssumption
  <2>3. \A s \in ranges : s.rhs < r.rhs + 1
    BY <1>2, Ends
  <2> QED  BY <1>2, <2>2, <2>3 DEF GapAfter, Gaps, FdRange
<1>3. ASSUME NEW g \in Gaps, r.rhs + 1 = g.lhs
      PROVE  g \in GapAfter(r)
  <2>0. g = FdRange(g.lhs, g.rhs) /\ \A s \in ranges : s.rhs < g.lhs \/ g.rhs < s.lhs
    BY Typed DEF Gaps
  <2>1. CASE g.rhs = MaxFd
    <3>1. \A s \in ranges : ~ Less(r, s)
      BY <1>3, <2>0, <2>1, Ends
    <3>2. Succ(r) = {}
      BY <3>1, SuccOf
    <3> QED  BY <1>2, <1>3, <2>0, <2>1, <3>1, <3>2
  <2>2. ASSUME NEW m \in ranges, g.rhs + 1 = m.lhs PROVE g \in GapAfter(r)
    <3>1. m # r /\ ~ Less(m, r)
      BY <1>3, <2>2, Ends
    <3>2. PICK n \in ranges : /\ Succ(r) = {n} /\ Less(r, n)
                              /\ m = n \/ n.rhs + 1 < m.lhs
      BY <3>1, Ends, SuccOf
    <3>3. n = m
      BY <1>3, <2>0, <2>2, <3>2, Ends
    <3>4. g = FdRange(r.rhs + 1, n.lhs - 1)
      <4>1. n.lhs - 1 = g.rhs
        BY <2>2, <3>3, Ends
      <4> QED  BY <1>3, <2>0, <4>1
    <3> QED  BY <3>2, <3>4 DEF GapAfter
  <2> QED  BY <2>1, <2>2 DEF Gaps
<1> QED  BY <1>1, <1>2, <1>3, SuccOf

\* Inversion makes the gaps the ranges, whichever way it walks.
LEMMA InvertedMeans ==
    ASSUME Inv
    PROVE  Inverted = Gaps
<1>1. CASE ranges = {}
  <2>1. FdRange(0, MaxFd) \in FdRanges
    BY Typed, MaxFdAssumption
  <2>2. \A g \in FdRanges : g.lhs = 0 /\ g.rhs = MaxFd <=> g = FdRange(0, MaxFd)
    BY Typed DEF FdRange
  <2> QED  BY <1>1, <2>1, <2>2 DEF Inverted, Gaps
<1>2. CASE ranges # {} /\ EndsAtMax
  <2>1. PICK z \in ranges : z.rhs = MaxFd
    BY <1>2 DEF EndsAtMax, Last
  <2>2. \A g \in Gaps : g.rhs # MaxFd
    <3>1. \A g \in Gaps : z.rhs < g.lhs \/ g.rhs < z.lhs
      BY DEF Gaps
    <3> QED  BY <2>1, <3>1, Ends
  <2>3. \A g \in Gaps : g.lhs # 0 => \E r \in ranges : g \in GapBefore(r)
    BY <2>2, GapBeforeMeans DEF Gaps
  <2>4. \A r \in ranges : GapBefore(r) \subseteq Gaps
    BY GapBeforeMeans
  <2>5. Inverted = FirstGap \cup UNION {GapBefore(r) : r \in ranges}
    BY <1>2 DEF Inverted
  <2> QED  BY <1>2, <2>3, <2>4, <2>5, FirstGapMeans
<1>3. CASE ranges # {} /\ ~ EndsAtMax
  <2>1. \A r \in ranges : r.rhs # MaxFd
    <3> SUFFICES ASSUME NEW r \in ranges, r.rhs = MaxFd PROVE FALSE
      OBVIOUS
    <3>1. PICK z \in ranges :
            Last(ranges) = {z} /\ \A s \in ranges : s = z \/ s.rhs + 1 < z.lhs
      BY LastOf
    <3>2. z = r
      BY <3>1, Ends
    <3> QED  BY <1>3, <3>1, <3>2 DEF EndsAtMax
  <2>2. \A g \in Gaps : g.lhs # 0 => \E r \in ranges : g \in GapAfter(r)
    BY <2>1, GapAfterMeans DEF Gaps
  <2>3. \A r \in ranges : GapAfter(r) \subseteq Gaps
    BY <2>1, GapAfterMeans
  <2>4. Inverted = FirstGap \cup UNION {GapAfter(r) : r \in ranges}
    BY <1>3 DEF Inverted
  <2> QED  BY <1>3, <2>2, <2>3, <2>4, FirstGapMeans
<1> QED  BY <1>1, <1>2, <1>3

\* The gaps are apart, and cover what the ranges do not.
LEMMA Inverting ==
    ASSUME Inv
    PROVE  /\ Inverted \subseteq FdRanges /\ Apart(Inverted)
           /\ Covered(Inverted) = Fds \ Covered(ranges)
<1>1. Gaps \subseteq FdRanges
  BY DEF Gaps
<1>2. ASSUME NEW g \in Gaps, NEW h \in Gaps, g.lhs < h.lhs
      PROVE  g.rhs + 1 < h.lhs
  <2>1. PICK p \in ranges : p.rhs + 1 = h.lhs
    BY <1>2, Ends DEF Gaps
  <2>2. p.rhs < g.lhs \/ g.rhs < p.lhs
    BY DEF Gaps
  <2> QED  BY <1>2, <2>1, <2>2, Ends
<1>3. ASSUME NEW g \in Gaps, NEW h \in Gaps, g.lhs = h.lhs
      PROVE  ~ g.rhs < h.rhs
  <2> SUFFICES ASSUME g.rhs < h.rhs PROVE FALSE
    OBVIOUS
  <2>1. PICK n \in ranges : g.rhs + 1 = n.lhs
    BY Ends, MaxFdAssumption DEF Gaps
  <2>2. n.rhs < h.lhs \/ h.rhs < n.lhs
    BY DEF Gaps
  <2> QED  BY <1>3, <2>1, <2>2, Ends
<1>4. Apart(Gaps)
  <2> SUFFICES ASSUME NEW g \in Gaps, NEW h \in Gaps, g # h
               PROVE  g.rhs + 1 < h.lhs \/ h.rhs + 1 < g.lhs
    BY DEF Apart
  <2>1. g.lhs # h.lhs \/ g.rhs # h.rhs
    BY <1>1, Typed
  <2>2. /\ g.lhs \in Nat /\ g.rhs \in Nat /\ h.lhs \in Nat /\ h.rhs \in Nat
    BY Ends
  <2>3. g.lhs = h.lhs => ~ g.rhs < h.rhs /\ ~ h.rhs < g.rhs
    BY <1>3
  <2>4. g.lhs < h.lhs \/ h.lhs < g.lhs
    BY <2>1, <2>2, <2>3
  <2> QED  BY <1>2, <2>4
<1>5. ASSUME NEW fd \in Covered(Gaps) PROVE fd \in Fds \ Covered(ranges)
  <2>1. PICK g \in Gaps : fd \in Fds /\ g.lhs <= fd /\ fd <= g.rhs
    BY DEF Covered
  <2>2. \A s \in ranges : s.rhs < g.lhs \/ g.rhs < s.lhs
    BY DEF Gaps
  <2> QED  BY <2>1, <2>2, Ends DEF Covered, Fds
<1>6. ASSUME NEW fd \in Fds, fd \notin Covered(ranges) PROVE fd \in Covered(Gaps)
  <2>0. fd \in Nat /\ fd <= MaxFd
    BY DEF Fds
  <2>1. \A s \in ranges : s.rhs < fd \/ fd < s.lhs
    BY <1>6, <2>0, Ends DEF Covered
  <2>2. PICK l \in Nat : /\ l <= fd /\ (l = 0 \/ \E p \in ranges : p.rhs + 1 = l)
                         /\ \A s \in ranges : s.rhs < fd => s.rhs < l
    <3> DEFINE T == {s \in ranges : s.rhs < fd}
    <3>1. CASE T = {}
      BY <2>0, <3>1
    <3>2. CASE T # {}
      <4>1. PICK p \in T : \A s \in T : s = p \/ s.rhs + 1 < p.lhs
        <5> HIDE DEF T
        <5>1. T \in SUBSET ranges
          BY DEF T
        <5> QED  BY <3>2, <5>1, LastOf
      <4>2. p.rhs + 1 \in Nat /\ p.rhs + 1 <= fd
        BY <2>0, Ends
      <4>3. \A s \in ranges : s.rhs < fd => s.rhs < p.rhs + 1
        BY <4>1, Ends
      <4> QED  BY <4>2, <4>3
    <3> QED  BY <3>1, <3>2
  <2>3. PICK h \in Nat : /\ fd <= h /\ h <= MaxFd
                         /\ h = MaxFd \/ \E n \in ranges : h + 1 = n.lhs
                         /\ \A s \in ranges : fd < s.lhs => h < s.lhs
    <3> DEFINE T == {s \in ranges : fd < s.lhs}
    <3>1. CASE T = {}
      BY <2>0, <3>1, MaxFdAssumption
    <3>2. CASE T # {}
      <4>1. PICK n \in T : \A s \in T : s = n \/ n.rhs + 1 < s.lhs
        <5> HIDE DEF T
        <5>1. T \in SUBSET ranges
          BY DEF T
        <5> QED  BY <3>2, <5>1, FirstOf
      <4>2. /\ n.lhs - 1 \in Nat /\ fd <= n.lhs - 1 /\ n.lhs - 1 <= MaxFd
            /\ n.lhs - 1 + 1 = n.lhs
        BY <2>0, Ends, MaxFdAssumption
      <4>3. \A s \in ranges : fd < s.lhs => n.lhs - 1 < s.lhs
        BY <4>1, Ends
      <4> QED  BY <4>2, <4>3
    <3> QED  BY <3>1, <3>2
  <2>4. FdRange(l, h) \in FdRanges
    BY <2>0, <2>2, <2>3, Typed
  <2>5. FdRange(l, h) \in Gaps
    BY <2>1, <2>2, <2>3, <2>4 DEF Gaps, FdRange
  <2> QED  BY <2>2, <2>3, <2>5 DEF Covered, FdRange
<1> QED  BY <1>1, <1>4, <1>5, <1>6, InvertedMeans
----------------------------------------------------------------------------
\* ert_closeFdExceptWhiteList and ert_closeFdOnlyBlackList

\* Where the white list's visitor has got to after some of the ranges.
LEMMA MFdMeans ==
    ASSUME Inv, NEW T \in SUBSET ranges, NEW limit \in Nat
    PROVE  /\ T = {} => MFd(T, limit) = 0
           /\ T # {} => \E m \in T : /\ MFd(T, limit) = FdEnd(m, limit)
                                     /\ \A s \in T : s = m \/ s.rhs + 1 < m.lhs
<1>1. ASSUME T # {}
      PROVE  \E m \in T : /\ MFd(T, limit) = FdEnd(m, limit)
                          /\ \A s \in T : s = m \/ s.rhs + 1 < m.lhs
  <2>1. PICK m \in T : Last(T) = {m} /\ \A s \in T : s = m \/ s.rhs + 1 < m.lhs
    BY <1>1, LastOf
  <2>2. {FdEnd(r, limit) : r \in Last(T)} = {FdEnd(m, limit)}
    BY <2>1
  <2>3. MFd(T, limit) = CHOOSE fd \in {FdEnd(m, limit)} : TRUE
    BY <1>1, <2>2 DEF MFd
  <2> QED  BY <2>1, <2>3
<1> QED  BY <1>1 DEF MFd

\* What the visitor does not close is listed, and what it does is not.
LEMMA WhiteList ==
    ASSUME Inv, NEW limit \in 0 .. MaxFd + 1
    PROVE  NotListed(limit) = (0 .. limit - 1) \ Covered(ranges)
<1> DEFINE W == WhiteVisited(limit)
           done(r) == MFd(Earlier(r), limit)
<1>0. limit \in Nat /\ limit <= MaxFd + 1 /\ MaxFd \in Nat
  BY MaxFdAssumption
<1>1. W \in SUBSET ranges /\ \A r : Earlier(r) \in SUBSET ranges
  BY DEF WhiteVisited, Earlier
<1>2. \A r \in ranges : /\ FdEnd(r, limit) \in Nat /\ FdEnd(r, limit) <= limit
                        /\ FdEnd(r, limit) < limit => FdEnd(r, limit) = r.rhs + 1
                        /\ r.rhs < limit => FdEnd(r, limit) = r.rhs + 1
                        /\ limit <= r.rhs => FdEnd(r, limit) = limit
  BY <1>0, Ends DEF FdEnd
<1>3. \A r \in ranges : \A x \in Int :
          x <= FdBegin(r, limit) - 1 <=> x < r.lhs /\ x < limit
  BY <1>0, Ends DEF FdBegin, FdEnd
<1>4. \A r \in ranges : FdBegin(r, limit) \in Nat
  BY <1>0, <1>2, Ends DEF FdBegin
<1>5. ASSUME NEW T \in SUBSET ranges
      PROVE  /\ MFd(T, limit) \in Nat
             /\ \A x \in Nat : x < limit => (MFd(T, limit) <= x <=> \A s \in T : s.rhs < x)
  <2>1. CASE T = {}
    BY <1>0, <2>1, MFdMeans
  <2>2. CASE T # {}
    <3>1. PICK m \in T : /\ MFd(T, limit) = FdEnd(m, limit)
                         /\ \A s \in T : s = m \/ s.rhs + 1 < m.lhs
      BY <1>0, <2>2, MFdMeans
    <3>2. \A s \in T : s.rhs <= m.rhs
      BY <3>1, Ends
    <3>3. MFd(T, limit) \in Nat
      BY <1>2, <3>1
    <3>4. ASSUME NEW x \in Nat, x < limit
          PROVE  FdEnd(m, limit) <= x <=> m.rhs < x
      BY <1>0, <1>2, <3>4, Ends
    <3>5. ASSUME NEW x \in Nat PROVE m.rhs < x <=> \A s \in T : s.rhs < x
      BY <3>2, Ends
    <3> QED  BY <3>1, <3>3, <3>4, <3>5
  <2> QED  BY <2>1, <2>2
<1>9. \A x : x \in NotListed(limit) <=>
          \/ \E r \in W : x \in done(r) .. FdBegin(r, limit) - 1
          \/ x \in MFd(W, limit) .. limit - 1
  <2> DEFINE closed == {done(r) .. FdBegin(r, limit) - 1 : r \in W}
  <2>1. NotListed(limit) = (UNION closed) \cup (MFd(W, limit) .. limit - 1)
    BY DEF NotListed
  <2> HIDE DEF W, done
  <2>2. \A x : x \in UNION closed <=>
                 \E r \in W : x \in done(r) .. FdBegin(r, limit) - 1
    OBVIOUS
  <2> HIDE DEF closed
  <2> QED  BY <2>1, <2>2
<1> HIDE DEF W, done
<1>6. ASSUME NEW r \in W, NEW x \in done(r) .. FdBegin(r, limit) - 1
      PROVE  x \in 0 .. limit - 1 /\ x \notin Covered(ranges)
  <2>1. r \in ranges /\ x \in Nat /\ done(r) <= x /\ x < r.lhs /\ x < limit
    <3>1. r \in ranges /\ done(r) \in Nat /\ FdBegin(r, limit) \in Nat
      BY <1>1, <1>4, <1>5 DEF done
    <3> QED  BY <1>3, <3>1
  <2>2. \A s \in Earlier(r) : s.rhs < x
    BY <1>1, <1>5, <2>1 DEF done
  <2>3. ASSUME NEW s \in ranges, s.lhs <= x, x <= s.rhs PROVE FALSE
    <3>1. s \in Earlier(r)
      BY <2>1, <2>3, Ends DEF Earlier, Less
    <3> QED  BY <2>1, <2>2, <2>3, <3>1, Ends
  <2> QED  BY <1>0, <2>1, <2>3 DEF Covered
<1>7. ASSUME NEW x \in MFd(W, limit) .. limit - 1
      PROVE  x \in 0 .. limit - 1 /\ x \notin Covered(ranges)
  <2>1. x \in Nat /\ x < limit /\ MFd(W, limit) <= x
    BY <1>0, <1>1, <1>5
  <2>2. \A s \in W : s.rhs < x
    BY <1>1, <1>5, <2>1
  <2>3. ASSUME NEW s \in ranges, s.lhs <= x, x <= s.rhs PROVE FALSE
    <3>1. s \notin W
      BY <2>1, <2>2, <2>3, Ends
    <3>2. PICK t \in Earlier(s) : ~ FdEnd(t, limit) < limit
      BY <3>1 DEF W, WhiteVisited
    <3>3. t \in ranges /\ t.rhs + 1 < s.lhs
      BY Ends DEF Earlier
    <3> QED  BY <1>0, <1>2, <2>1, <2>3, <3>2, <3>3, Ends
  <2> QED  BY <1>0, <2>1, <2>3 DEF Covered
<1>8. ASSUME NEW x \in 0 .. limit - 1, x \notin Covered(ranges)
      PROVE  x \in NotListed(limit)
  <2>1. x \in Nat /\ x < limit /\ x \in Fds
    BY <1>0 DEF Fds
  <2>2. \A s \in ranges : s.rhs < x \/ x < s.lhs
    BY <1>8, <2>1, Ends DEF Covered
  <2> DEFINE T == {r \in W : x < r.lhs}
  <2>3. CASE T = {}
    <3>1. \A s \in W : s.rhs < x
      BY <1>1, <2>2, <2>3
    <3>2. MFd(W, limit) \in Nat /\ MFd(W, limit) <= x
      BY <1>1, <1>5, <2>1, <3>1
    <3>3. x \in MFd(W, limit) .. limit - 1
      BY <1>0, <2>1, <3>2
    <3> QED  BY <1>9, <3>3
  <2>4. CASE T # {}
    <3>1. PICK r \in T : \A s \in T : s = r \/ r.rhs + 1 < s.lhs
      <4> HIDE DEF T
      <4>1. T \in SUBSET ranges
        BY <1>1 DEF T
      <4> QED  BY <2>4, <4>1, FirstOf
    <3>2. r \in W /\ r \in ranges /\ x < r.lhs
      BY <1>1
    <3>3. ASSUME NEW s \in Earlier(r) PROVE s.rhs < x
      <4>1. s \in ranges /\ Less(s, r) /\ s.rhs + 1 < r.lhs
        BY <3>2, Ends DEF Earlier
      <4>2. Earlier(s) \subseteq Earlier(r)
        BY <3>2, <4>1, Ends DEF Earlier, Less
      <4>3. s \in W
        BY <3>2, <4>1, <4>2 DEF W, WhiteVisited
      <4>4. s \notin T
        BY <3>1, <3>2, <4>1, Ends
      <4> QED  BY <2>2, <4>1, <4>3, <4>4
    <3>4. done(r) \in Nat /\ done(r) <= x
      BY <1>1, <1>5, <2>1, <3>3 DEF done
    <3>5. x \in done(r) .. FdBegin(r, limit) - 1
      BY <1>3, <1>4, <2>1, <3>2, <3>4
    <3> QED  BY <1>9, <3>2, <3>5
  <2> QED  BY <2>3, <2>4
<1> QED  BY <1>6, <1>7, <1>8, <1>9

\* What the black list's visitor closes is listed, and all of it below the limit.
LEMMA BlackList ==
    ASSUME Inv, NEW limit \in 0 .. MaxFd + 1
    PROVE  /\ Listed(limit) \subseteq Covered(ranges)
           /\ Covered(ranges) \cap 0 .. limit - 1 \subseteq Listed(limit)
<1> DEFINE last(r) == IF MeetsLimit(r, limit) THEN limit - 1 ELSE r.rhs
<1>0. limit \in Nat /\ limit <= MaxFd + 1 /\ MaxFd \in Nat
  BY MaxFdAssumption
<1>1. BlackVisited(limit) \subseteq ranges
  BY DEF BlackVisited
<1>2. ASSUME NEW r \in ranges
      PROVE  /\ last(r) \in Int /\ last(r) <= r.rhs
             /\ \A x \in Nat : x < limit /\ x <= r.rhs => x <= last(r)
  BY <1>0, Ends DEF MeetsLimit
<1>3. Listed(limit) = UNION {r.lhs .. last(r) : r \in BlackVisited(limit)}
  BY DEF Listed
<1> HIDE DEF last
<1>4. ASSUME NEW r \in BlackVisited(limit), NEW x \in r.lhs .. last(r)
      PROVE  x \in Covered(ranges)
  <2>1. r \in ranges /\ x \in Nat /\ r.lhs <= x /\ x <= r.rhs /\ x <= MaxFd
    BY <1>1, <1>2, Ends, MaxFdAssumption
  <2> QED  BY <2>1, <1>0 DEF Covered, Fds
<1>5. ASSUME NEW x \in Covered(ranges), x \in 0 .. limit - 1
      PROVE  \E r \in BlackVisited(limit) : x \in r.lhs .. last(r)
  <2>1. PICK r \in ranges : r.lhs <= x /\ x <= r.rhs
    BY DEF Covered
  <2>2. x \in Nat /\ x < limit
    BY <1>0, <1>5
  <2>3. ASSUME NEW s \in Earlier(r) PROVE ~ MeetsLimit(s, limit)
    <3>1. s \in ranges /\ s.rhs + 1 < r.lhs
      BY <2>1, Ends DEF Earlier
    <3> QED  BY <1>0, <2>1, <2>2, <3>1, Ends DEF MeetsLimit
  <2>4. r \in BlackVisited(limit)
    BY <2>1, <2>3 DEF BlackVisited
  <2>5. x \in r.lhs .. last(r)
    BY <1>2, <2>1, <2>2, Ends
  <2> QED  BY <2>4, <2>5
<1> QED  BY <1>3, <1>4, <1>5

----------------------------------------------------------------------------
\* The steps

LEMMA InitInv == Init => Inv
BY DEF Init, Inv, TypeOK, Separated

LEMMA InsertInv ==
    ASSUME Inv, NEW r \in FdRanges, InsertRange(r)
    PROVE  Inv' /\ Abstract!Insert(r.lhs .. r.rhs)
<1>1. CASE ~ Exists(r) /\ Succeed(Inserted(r))
  <2>1. /\ ranges' \subseteq FdRanges /\ Apart(ranges') /\ errno' = "ok"
        /\ Covered(ranges') = Covered(ranges) \cup r.lhs .. r.rhs
        /\ Covered(ranges) \cap r.lhs .. r.rhs = {}
    BY <1>1, Inserting DEF Succeed
  <2>2. Inv'
    BY <2>1 DEF Inv, TypeOK, Separated, Apart
  <2>3. Covered(ranges)' = Covered(ranges')
    BY DEF Covered
  <2> QED  BY <2>1, <2>2, <2>3 DEF Abstract!Insert, Abstract!Succeed
<1>2. CASE Exists(r) /\ Fail("EEXIST")
  <2>1. ranges' = ranges /\ errno' = "EEXIST" /\ Covered(ranges)' = Covered(ranges)
    BY <1>2 DEF Fail, Covered
  <2>2. Inv'
    BY <2>1 DEF Inv, TypeOK, Separated
  <2>3. PICK s \in ranges : r.lhs <= s.rhs /\ s.lhs <= r.rhs
    BY <1>2, ExistsMeans
  <2>4. /\ r.lhs \in Nat /\ r.rhs \in Nat /\ r.lhs <= r.rhs /\ r.rhs <= MaxFd
        /\ s.lhs \in Nat /\ s.rhs \in Nat /\ s.lhs <= s.rhs /\ s.rhs <= MaxFd
    BY Typed, Ends
  <2>5. r.lhs .. r.rhs \cap Covered(ranges) # {}
    <3>1. CASE r.lhs <= s.lhs
      <4>1. s.lhs \in r.lhs .. r.rhs /\ s.lhs \in Covered(ranges)
        BY <2>3, <2>4, <3>1, MaxFdAssumption DEF Covered, Fds
      <4> QED  BY <4>1
    <3>2. CASE s.lhs < r.lhs
      <4>1. r.lhs \in r.lhs .. r.rhs /\ r.lhs \in Covered(ranges)
        BY <2>3, <2>4, <3>2, MaxFdAssumption DEF Covered, Fds
      <4> QED  BY <4>1
    <3> QED  BY <2>4, <3>1, <3>2
  <2> QED  BY <2>1, <2>2, <2>5 DEF Abstract!Insert, Abstract!Fail
<1>3. CASE Fail("ENOMEM")
  <2>1. ranges' = ranges /\ errno' = "ENOMEM" /\ Covered(ranges)' = Covered(ranges)
    BY <1>3 DEF Fail, Covered
  <2> QED  BY <2>1 DEF Inv, TypeOK, Separated, Abstract!Insert, Abstract!Fail
<1> QED  BY <1>1, <1>2, <1>3 DEF InsertRange

LEMMA RemoveInv ==
    ASSUME Inv, NEW r \in FdRanges, RemoveRange(r)
    PROVE  Inv' /\ Abstract!Remove(r.lhs .. r.rhs)
<1>1. CASE Holding(r) = {} /\ Fail("ENOENT")
  <2>1. ranges' = ranges /\ errno' = "ENOENT" /\ Covered(ranges)' = Covered(ranges)
    BY <1>1 DEF Fail, Covered
  <2>2. ~ (r.lhs .. r.rhs \subseteq Covered(ranges))
    BY <1>1, HoldingMeans
  <2>3. Inv'
    BY <2>1 DEF Inv, TypeOK, Separated
  <2> QED  BY <2>1, <2>2, <2>3 DEF Abstract!Remove, Abstract!Fail
<1>2. ASSUME NEW e \in Holding(r), Succeed((ranges \ {e}) \cup LeftOver(e, r))
      PROVE  Inv' /\ Abstract!Remove(r.lhs .. r.rhs)
  <2>1. /\ e \in ranges /\ Contains(e, r)
        /\ r.lhs .. r.rhs \subseteq Covered(ranges)
    BY HoldingMeans
  <2>2. ranges' = (ranges \ {e}) \cup LeftOver(e, r) /\ errno' = "ok"
    BY <1>2 DEF Succeed
  <2>3. /\ ranges' \subseteq FdRanges /\ Apart(ranges')
        /\ Covered(ranges') = Covered(ranges) \ (r.lhs .. r.rhs)
    BY <2>1, <2>2, Removing
  <2>4. Inv'
    BY <2>2, <2>3 DEF Inv, TypeOK, Separated, Apart
  <2>5. Covered(ranges)' = Covered(ranges')
    BY DEF Covered
  <2> QED  BY <2>1, <2>2, <2>3, <2>4, <2>5 DEF Abstract!Remove, Abstract!Succeed
<1>3. CASE Fail("ENOMEM")
  <2>1. ranges' = ranges /\ errno' = "ENOMEM" /\ Covered(ranges)' = Covered(ranges)
    BY <1>3 DEF Fail, Covered
  <2> QED  BY <2>1 DEF Inv, TypeOK, Separated, Abstract!Remove, Abstract!Fail
<1> QED  BY <1>1, <1>2, <1>3 DEF RemoveRange

LEMMA InvertInv ==
    ASSUME Inv, InvertSet
    PROVE  Inv' /\ Abstract!Invert
<1>1. CASE Succeed(Inverted)
  <2>1. /\ ranges' \subseteq FdRanges /\ Apart(ranges') /\ errno' = "ok"
        /\ Covered(ranges') = Fds \ Covered(ranges)
    BY <1>1, Inverting DEF Succeed
  <2>2. Inv'
    BY <2>1 DEF Inv, TypeOK, Separated, Apart
  <2>3. Covered(ranges)' = Covered(ranges')
    BY DEF Covered
  <2> QED  BY <2>1, <2>2, <2>3 DEF Abstract!Invert, Abstract!Succeed, Abstract!Fds, Fds
<1>2. CASE Fail("ENOMEM")
  <2>1. ranges' = ranges /\ errno' = "ENOMEM" /\ Covered(ranges)' = Covered(ranges)
    BY <1>2 DEF Fail, Covered
  <2> QED  BY <2>1 DEF Inv, TypeOK, Separated, Abstract!Invert, Abstract!Fail
<1> QED  BY <1>1, <1>2 DEF InvertSet

LEMMA ClearInv ==
    ASSUME ClearSet
    PROVE  Inv' /\ Abstract!Clear
<1>1. ranges' = {} /\ errno' = "ok"
  BY DEF ClearSet, Succeed
<1>2. Covered(ranges)' = {}
  BY <1>1 DEF Covered
<1> QED  BY <1>1, <1>2 DEF Inv, TypeOK, Separated, Abstract!Clear, Abstract!Succeed

LEMMA FillInv ==
    ASSUME FillSet
    PROVE  Inv' /\ Abstract!Fill
<1>1. CASE Succeed({FdRange(0, MaxFd)})
  <2>1. ranges' = {FdRange(0, MaxFd)} /\ errno' = "ok"
    BY <1>1 DEF Succeed
  <2>2. FdRange(0, MaxFd) \in FdRanges
    BY Typed, MaxFdAssumption
  <2>3. Inv'
    BY <2>1, <2>2 DEF Inv, TypeOK, Separated
  <2>4. Covered(ranges)' = Fds
    BY <2>1 DEF Covered, FdRange, Fds
  <2> QED  BY <2>1, <2>3, <2>4 DEF Abstract!Fill, Abstract!Succeed, Abstract!Fds, Fds
<1>2. CASE ranges' = {} /\ errno' = "ENOMEM"
  <2>1. Covered(ranges)' = {}
    BY <1>2 DEF Covered
  <2> QED  BY <1>2, <2>1 DEF Inv, TypeOK, Separated, Abstract!Fill
<1> QED  BY <1>1, <1>2 DEF FillSet

\* A step keeps the invariant and is a step of DescriptorSet or none.
LEMMA NextInv ==
    ASSUME Inv, [Next]_vars
    PROVE  Inv' /\ [Abstract!Next]_(Abstract!vars)
<1>1. ASSUME NEW r \in FdRanges, InsertRange(r) \/ RemoveRange(r)
      PROVE  Inv' /\ Abstract!Next
  <2>1. r.lhs \in Abstract!Fds /\ r.rhs \in Abstract!Fds /\ r.lhs <= r.rhs
    BY Typed, MaxFdAssumption DEF Abstract!Fds
  <2>2. Inv' /\ (Abstract!Insert(r.lhs .. r.rhs) \/ Abstract!Remove(r.lhs .. r.rhs))
    BY <1>1, InsertInv, RemoveInv
  <2> QED  BY <2>1, <2>2 DEF Abstract!Next
<1>2. CASE InvertSet
  BY <1>2, InvertInv DEF Abstract!Next
<1>3. CASE ClearSet
  BY <1>3, ClearInv DEF Abstract!Next
<1>4. CASE FillSet
  BY <1>4, FillInv DEF Abstract!Next
<1>5. CASE UNCHANGED vars
  BY <1>5 DEF vars, Inv, TypeOK, Separated, Covered, Abstract!vars
<1> QED  BY <1>1, <1>2, <1>3, <1>4, <1>5 DEF Next

----------------------------------------------------------------------------
\* The theorems

THEOREM Invariance == Spec => []Inv
<1>1. Init => Inv
  BY InitInv
<1>2. Inv /\ [Next]_vars => Inv'
  BY NextInv
<1> QED  BY <1>1, <1>2, PTL DEF Spec

\* The tree holds ranges of descriptors with their ends in order.
THEOREM TypeCorrect == Spec => []TypeOK
<1>1. Inv => TypeOK
  BY DEF Inv
<1> QED  BY <1>1, Invariance, PTL

\* The ranges neither overlap nor touch, however they were inserted, removed,
\* split and inverted.
THEOREM RangesApart == Spec => []Separated
<1>1. Inv => Separated
  BY DEF Inv
<1> QED  BY <1>1, Invariance, PTL

\* The tree implements the set of descriptors that its users believe it is.
THEOREM Refinement == Spec => DescriptorSetSpec
<1>1. Init => Abstract!Init
  BY DEF Init, Abstract!Init, Covered
<1>2. Inv /\ [Next]_vars => [Abstract!Next]_(Abstract!vars)
  BY NextInv
<1> QED  BY <1>1, <1>2, Invariance, PTL DEF Spec, DescriptorSetSpec, Abstract!Spec

\* ert_insertFdSetRange and ert_removeFdSetRange do what they promise of the very
\* range that they are given.
THEOREM RangeOperations == Spec => RangesExact
<1>1. Inv /\ [Next]_vars =>
        [\A r \in FdRanges :
            /\ InsertRange(r) => Abstract!Insert(r.lhs .. r.rhs)
            /\ RemoveRange(r) => Abstract!Remove(r.lhs .. r.rhs)]_vars
  BY InsertInv, RemoveInv
<1> QED  BY <1>1, Invariance, PTL DEF Spec, RangesExact

\* ert_closeFdExceptWhiteList closes the descriptors below the limit that are not
\* in the set and no other; ert_closeFdOnlyBlackList closes those that are, and
\* nothing that is not in the set.
THEOREM Closing == Spec => []ClosesExactly
<1>1. Inv => ClosesExactly
  BY WhiteList, BlackList DEF ClosesExactly
<1> QED  BY <1>1, Invariance, PTL
=============================================================================
