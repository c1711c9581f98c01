----------------------------- MODULE SocketsProofs -----------------------------
(***************************************************************************)
(* Proofs about Sockets.  One lemma per action shows that SocketsInv is    *)
(* kept; lemmas about the tables of the system are shared by them: what    *)
(* numbers stand for once a process got or closed some, what is held,      *)
(* what waits, and which names are in use.                                 *)
(***************************************************************************)
EXTENDS Sockets, SequenceTheorems, FiniteSetTheorems, WellFoundedInduction, TLAPS

\* Every set of numbers has a least one.
LEMMA LeastNumber ==
    ASSUME NEW S \in SUBSET Nat, S # {}
    PROVE  \E m \in S : \A k \in S : m <= k
<1> DEFINE R == OpToRel(<, Nat)
<1>1. IsWellFoundedOn(R, Nat)
  BY NatLessThanWellFounded
<1>2. \A x, y \in Nat : y < x => <<y, x>> \in R
  BY DEF OpToRel
<1> HIDE DEF R
<1>3. PICK m \in S : \A k \in S : ~(<<k, m>> \in R)
  BY <1>1, WFMin
<1>4. \A k \in S : k \in Nat /\ m \in Nat /\ ~(k < m)
  BY <1>2, <1>3
<1> QED  BY <1>4

LEMMA UnusedFinite ==
    ASSUME NEW p \in Peers
    PROVE  Unused(p) \in SUBSET Nat /\ IsFiniteSet(Unused(p)) /\ Unused(p) \subseteq Slots
<1>1. IsFiniteSet(Slots) /\ Slots \subseteq Nat /\ Unused(p) \in SUBSET Slots
  <2>1. SocketTable \in Nat
    BY SocketsAssumption
  <2>2. IsFiniteSet(1 .. SocketTable) /\ 1 .. SocketTable \subseteq Nat
    BY <2>1, FS_Interval
  <2> QED  BY <2>2 DEF Slots, Unused
<1> QED  BY <1>1, FS_Subset

\* The ranks of the numbers of a process are different.
LEMMA RankUp ==
    ASSUME NEW p \in Peers, NEW n \in Unused(p)
    PROVE  /\ Rank(p, n) \in Nat \ {0}
           /\ \A m \in Unused(p) : n < m => Rank(p, n) < Rank(p, m)
<1> DEFINE A(m) == {k \in Unused(p) : k <= m}
<1>1. \A m \in Unused(p) : A(m) \in SUBSET Unused(p) /\ IsFiniteSet(A(m)) /\ m \in A(m)
  BY UnusedFinite, FS_Subset
<1>2. \A m \in Unused(p) : Cardinality(A(m)) \in Nat /\ Rank(p, m) = Cardinality(A(m))
  BY <1>1, FS_CardinalityType DEF Rank
<1>3. Cardinality(A(n)) # 0
  BY <1>1, FS_EmptySet
<1>4. ASSUME NEW m \in Unused(p), n < m
      PROVE  Cardinality(A(n)) < Cardinality(A(m))
  <2>1. n \in Nat /\ m \in Nat
    BY UnusedFinite
  <2>2. A(n) \cup {m} \in SUBSET A(m) /\ m \notin A(n)
    <3>1. \A k \in A(n) : k \in Nat /\ k \in A(m)
      BY <1>4, <2>1, UnusedFinite
    <3>2. m \notin A(n)
      BY <1>4, <2>1
    <3>3. m \in A(m)
      BY <1>1
    <3> HIDE DEF A
    <3> QED  BY <3>1, <3>2, <3>3
  <2>3. Cardinality(A(n) \cup {m}) = Cardinality(A(n)) + 1
    BY <1>1, <2>2, FS_AddElement
  <2>4. Cardinality(A(n) \cup {m}) <= Cardinality(A(m))
    BY <1>1, <2>2, FS_Subset
  <2> QED  BY <1>2, <2>3, <2>4
<1> QED  BY <1>2, <1>3, <1>4

LEMMA RanksDiffer ==
    ASSUME NEW p \in Peers, NEW n \in Unused(p), NEW m \in Unused(p), Rank(p, n) = Rank(p, m)
    PROVE  n = m
<1>1. n \in Nat /\ m \in Nat /\ Rank(p, n) \in Nat /\ Rank(p, m) \in Nat
  BY UnusedFinite, RankUp
<1>2. n < m => Rank(p, n) < Rank(p, m)
  BY RankUp
<1>3. m < n => Rank(p, m) < Rank(p, n)
  BY RankUp
<1> QED  BY <1>1, <1>2, <1>3

\* The first of the numbers is the least.
LEMMA FirstOne ==
    ASSUME NEW p \in Peers, Unused(p) # {}
    PROVE  /\ Min(Unused(p)) \in Unused(p) /\ Rank(p, Min(Unused(p))) = 1
           /\ First(p, 1) = {Min(Unused(p))}
<1>1. PICK m \in Unused(p) : \A k \in Unused(p) : m <= k
  BY UnusedFinite, LeastNumber
<1>2. Min(Unused(p)) \in Unused(p) /\ \A k \in Unused(p) : Min(Unused(p)) <= k
  BY <1>1 DEF Min
<1> DEFINE n == Min(Unused(p))
<1> HIDE DEF n
<1>3. n \in Unused(p) /\ \A k \in Unused(p) : n <= k
  BY <1>2 DEF n
<1>4. Rank(p, n) = 1
  <2>1. {k \in Unused(p) : k <= n} = {n}
    <3>1. \A k \in Unused(p) : k <= n <=> k = n
      BY <1>3, UnusedFinite
    <3> QED  BY <1>3, <3>1
  <2> QED  BY <2>1, FS_Singleton DEF Rank
<1>5. \A k \in Unused(p) : Rank(p, k) <= 1 <=> k = n
  <2> SUFFICES ASSUME NEW k \in Unused(p) PROVE Rank(p, k) <= 1 <=> k = n
    OBVIOUS
  <2>1. Rank(p, k) \in Nat \ {0}
    BY RankUp
  <2>2. Rank(p, k) = 1 => k = n
    BY <1>3, <1>4, RanksDiffer
  <2> QED  BY <1>4, <2>1, <2>2
<1>6. First(p, 1) = {n}
  BY <1>3, <1>5 DEF First
<1> QED  BY <1>3, <1>4, <1>6 DEF n

\* What the numbers stand for once a process got some.
LEMMA NumberedIs ==
    ASSUME TablesInv, NEW p \in Peers, NEW got \in Seq(Nat)
    PROVE  LET f == Numbered(p, got)
               N == First(p, Len(got))
           IN  /\ f \in [Peers -> [Slots -> Nat]] /\ N \subseteq Unused(p)
               /\ \A n \in N : Rank(p, n) \in 1 .. Len(got)
               /\ \A q \in Peers : \A n \in Slots :
                    f[q][n] = IF q = p /\ n \in N THEN got[Rank(p, n)] ELSE numbers[q][n]
<1>1. numbers \in [Peers -> [Slots -> Nat]]
  <2>1. Len(objects) \in Nat
    BY LenProperties DEF TablesInv
  <2>2. 0 .. Len(objects) \subseteq Nat
    BY <2>1
  <2>3. \A q \in Peers : numbers[q] \in [Slots -> Nat]
    BY <2>2 DEF TablesInv
  <2> QED  BY <2>3 DEF TablesInv
<1> DEFINE N == First(p, Len(got))
           a == [n \in Slots |-> IF n \in N THEN got[Rank(p, n)] ELSE numbers[p][n]]
<1>2. Numbered(p, got) = [numbers EXCEPT ![p] = a]
  BY <1>1 DEF Numbered
<1>3. N \subseteq Unused(p) /\ \A n \in N : Rank(p, n) \in 1 .. Len(got)
  <2> SUFFICES ASSUME NEW n \in N PROVE n \in Unused(p) /\ Rank(p, n) \in 1 .. Len(got)
    OBVIOUS
  <2>1. /\ n \in Unused(p) /\ Rank(p, n) <= Len(got)
    BY DEF First
  <2>2. Rank(p, n) \in Nat \ {0} /\ Len(got) \in Nat
    BY <2>1, RankUp, LenProperties
  <2> QED  BY <2>1, <2>2
<1> HIDE DEF N
<1>4. a \in [Slots -> Nat]
  BY <1>1, <1>3, ElementOfSeq
<1>5. \A n \in Slots : a[n] = IF n \in N THEN got[Rank(p, n)] ELSE numbers[p][n]
  OBVIOUS
<1> HIDE DEF a
<1>6. /\ Numbered(p, got) \in [Peers -> [Slots -> Nat]]
      /\ \A q \in Peers : Numbered(p, got)[q] = IF q = p THEN a ELSE numbers[q]
  BY <1>1, <1>2, <1>4
<1> QED  BY <1>3, <1>5, <1>6 DEF N

LEMMA TableFacts ==
    ASSUME TablesInv
    PROVE  /\ Len(objects) \in Nat /\ NoName = -1 /\ NameCount \in Nat /\ Vacant = 0
           /\ \A o \in 1 .. Len(objects) : objects[o] \in ObjectTypes
           /\ \A p \in Peers : \A n \in Slots : numbers[p][n] \in 0 .. Len(objects)
           /\ \A p \in Peers : \A n \in Slots :
                numbers[p][n] # Vacant => numbers[p][n] \in 1 .. Len(objects)
           /\ \A o : Held(o) <=> \E p \in Peers : \E n \in Slots : numbers[p][n] = o
           /\ \A p \in Peers : \A n \in Slots : n \in Unused(p) <=> numbers[p][n] = Vacant
           /\ \A p \in Peers : calling[p] \in CallTypes
           /\ Path \in Nat
<1>1. Len(objects) \in Nat /\ \A o \in 1 .. Len(objects) : objects[o] \in ObjectTypes
  BY LenProperties, ElementOfSeq DEF TablesInv
<1>2. \A p \in Peers : numbers[p] \in [Slots -> 0 .. Len(objects)]
  BY DEF TablesInv
<1>3. \A p \in Peers : \A n \in Slots : numbers[p][n] \in 0 .. Len(objects)
  BY <1>2
<1>4. NameCount \in Nat /\ \A p \in Peers : calling[p] \in CallTypes
  BY SocketsAssumption DEF TablesInv
<1> QED  BY <1>1, <1>3, <1>4 DEF NoName, Vacant, Held, Unused, InUse, Path

LEMMA NextFacts ==
    ASSUME TablesInv'
    PROVE  /\ Len(objects') \in Nat
           /\ \A o \in 1 .. Len(objects') : objects'[o] \in ObjectTypes
           /\ \A p \in Peers : \A n \in Slots : numbers'[p][n] \in 0 .. Len(objects')
           /\ \A o : Held(o)' <=> \E p \in Peers : \E n \in Slots : numbers'[p][n] = o
<1>1. Len(objects') \in Nat /\ \A o \in 1 .. Len(objects') : objects'[o] \in ObjectTypes
  <2>1. objects' \in Seq(ObjectTypes)
    BY DEF TablesInv
  <2> QED  BY <2>1, LenProperties, ElementOfSeq
<1>2. \A p \in Peers : numbers'[p] \in [Slots -> 0 .. Len(objects')]
  BY DEF TablesInv
<1> QED  BY <1>1, <1>2 DEF Held

\* The tables of the system, when process p gets numbers N for objects, and others are given
\* up: only files are held more than once, and what waits is held by nobody.
LEMMA SystemKept ==
    ASSUME SocketsInv, TablesInv', NEW p \in Peers, NEW N \in SUBSET Slots,
           Len(objects) <= Len(objects'),
           \A q \in Peers : \A n \in Slots :
             (q = p /\ n \in N) \/ numbers'[q][n] = numbers[q][n] \/ numbers'[q][n] = Vacant,
           \A o \in 1 .. Len(objects) :
             /\ objects'[o].kind = "file" <=> objects[o].kind = "file"
             /\ objects[o].kind = "end" => objects'[o].kind = "end",
           \A n \in N : numbers'[p][n] # Vacant =>
             \/ objects'[numbers'[p][n]].kind = "file"
             \/ /\ ~Held(numbers'[p][n])
                /\ \A m \in N : numbers'[p][m] = numbers'[p][n] => m = n
                /\ \A l \in 1 .. Len(objects') : objects'[l].waiting # <<numbers'[p][n]>>,
           \A l \in 1 .. Len(objects') :
             \/ objects'[l].waiting = <<>>
             \/ l <= Len(objects) /\ objects'[l].waiting = objects[l].waiting
    PROVE  HeldOnce' /\ WaitingInv'
<1>1. /\ Len(objects) \in Nat /\ Len(objects') \in Nat /\ Vacant = 0
      /\ \A q \in Peers : \A n \in Slots : numbers[q][n] \in 0 .. Len(objects)
      /\ \A q \in Peers : \A n \in Slots : numbers'[q][n] \in 0 .. Len(objects')
      /\ \A o : Held(o) <=> \E q \in Peers : \E n \in Slots : numbers[q][n] = o
      /\ \A o : Held(o)' <=> \E q \in Peers : \E n \in Slots : numbers'[q][n] = o
      /\ HeldOnce /\ WaitingInv
  BY TableFacts, NextFacts DEF SocketsInv
<1>2. HeldOnce'
  <2> SUFFICES ASSUME NEW q \in Peers, NEW r \in Peers, NEW n \in Slots, NEW m \in Slots,
                      numbers'[q][n] # Vacant, objects'[numbers'[q][n]].kind # "file",
                      numbers'[q][n] = numbers'[r][m]
               PROVE  q = r /\ n = m
    BY DEF HeldOnce
  <2> DEFINE o == numbers'[q][n]
  <2>1. CASE (q = p /\ n \in N) /\ (r = p /\ m \in N)
    BY <2>1
  <2>2. CASE (q = p /\ n \in N) /\ ~(r = p /\ m \in N)
    <3>1. numbers[r][m] = o
      BY <2>2
    <3> QED  BY <1>1, <2>2, <3>1
  <2>3. CASE ~(q = p /\ n \in N) /\ (r = p /\ m \in N)
    <3>1. numbers[q][n] = o
      BY <2>3
    <3> QED  BY <1>1, <2>3, <3>1
  <2>4. CASE ~(q = p /\ n \in N) /\ ~(r = p /\ m \in N)
    <3>1. numbers[q][n] = o /\ numbers[r][m] = o
      BY <2>4
    <3>2. o \in 1 .. Len(objects)
      BY <1>1, <3>1
    <3>3. objects[o].kind # "file"
      BY <3>2
    <3> QED  BY <1>1, <3>1, <3>3 DEF HeldOnce
  <2> QED  BY <2>1, <2>2, <2>3, <2>4
<1>3. WaitingInv'
  <2> SUFFICES ASSUME NEW l \in 1 .. Len(objects'), objects'[l].waiting # <<>>
               PROVE  /\ \E w \in 1 .. Len(objects') :
                            /\ objects'[l].waiting = <<w>> /\ objects'[w].kind = "end"
                            /\ ~Held(w)'
                      /\ \A k \in 1 .. Len(objects') :
                           objects'[k].waiting = objects'[l].waiting => k = l
    BY DEF WaitingInv
  <2>1. l \in 1 .. Len(objects) /\ objects'[l].waiting = objects[l].waiting
    BY <1>1
  <2>2. PICK w \in 1 .. Len(objects) :
           objects[l].waiting = <<w>> /\ objects[w].kind = "end" /\ ~Held(w)
    BY <1>1, <2>1 DEF WaitingInv
  <2>3. w \in 1 .. Len(objects') /\ objects'[w].kind = "end" /\ w # Vacant
    BY <1>1, <2>2
  <2>4. ~Held(w)'
    <3> SUFFICES ASSUME NEW q \in Peers, NEW n \in Slots, numbers'[q][n] = w
                 PROVE  FALSE
      BY <1>1
    <3>1. CASE q = p /\ n \in N
      BY <2>1, <2>2, <2>3, <3>1
    <3>2. CASE ~(q = p /\ n \in N)
      BY <1>1, <2>2, <2>3, <3>2
    <3> QED  BY <3>1, <3>2
  <2>5. \A k \in 1 .. Len(objects') : objects'[k].waiting = objects'[l].waiting => k = l
    <3> SUFFICES ASSUME NEW k \in 1 .. Len(objects'),
                        objects'[k].waiting = objects'[l].waiting
                 PROVE  k = l
      OBVIOUS
    <3>1. k \in 1 .. Len(objects) /\ objects[k].waiting = objects[l].waiting
      BY <1>1, <2>1
    <3> QED  BY <1>1, <2>1, <3>1 DEF WaitingInv
  <2> QED  BY <2>1, <2>2, <2>3, <2>4, <2>5
<1> QED  BY <1>2, <1>3

\* Names, when nothing gets one, and what has one is not held again.
LEMMA NamesKept ==
    ASSUME TablesInv, TablesInv', NamesInv,
           \A o \in 1 .. Len(objects') : objects'[o].name # NoName =>
             /\ o \in 1 .. Len(objects) /\ objects'[o].name = objects[o].name
             /\ Held(o)' => Held(o)
    PROVE  NamesInv'
BY DEF NamesInv

\* The objects, when no message is added and no file becomes another thing.
LEMMA ObjectsKept ==
    ASSUME TablesInv, TablesInv', ObjectsInv, Len(objects) <= Len(objects'),
           \A o \in 1 .. Len(objects') :
             /\ objects'[o].kind = "listener" => objects'[o].name # NoName
             /\ objects'[o].kind \in {"end", "file"} => objects'[o].name = NoName
             /\ \/ objects'[o].inbox = <<>>
                \/ o <= Len(objects) /\ objects'[o].inbox = objects[o].inbox,
           \A o \in 1 .. Len(objects) : objects[o].kind = "file" => objects'[o].kind = "file"
    PROVE  ObjectsInv'
<1>1. Len(objects) \in Nat /\ Len(objects') \in Nat
  BY TableFacts, NextFacts
<1> SUFFICES ASSUME NEW o \in 1 .. Len(objects'), objects'[o].inbox # <<>>
             PROVE  LET m == Head(objects'[o].inbox)
                    IN  \A i \in 1 .. Len(m.files) :
                          m.files[i] \in 1 .. Len(objects') /\ objects'[m.files[i]].kind = "file"
  BY DEF ObjectsInv
<1>2. o \in 1 .. Len(objects) /\ objects'[o].inbox = objects[o].inbox
  BY <1>1
<1> DEFINE m == Head(objects[o].inbox)
<1>3. \A i \in 1 .. Len(m.files) :
         m.files[i] \in 1 .. Len(objects) /\ objects[m.files[i]].kind = "file"
  BY <1>2 DEF ObjectsInv
<1>4. Head(objects'[o].inbox) = m
  BY <1>2
<1> HIDE DEF m
<1>5. \A i \in 1 .. Len(m.files) :
         m.files[i] \in 1 .. Len(objects') /\ objects'[m.files[i]].kind = "file"
  <2> SUFFICES ASSUME NEW i \in 1 .. Len(m.files)
               PROVE  m.files[i] \in 1 .. Len(objects') /\ objects'[m.files[i]].kind = "file"
    OBVIOUS
  <2> DEFINE f == m.files[i]
  <2>1. f \in 1 .. Len(objects) /\ objects[f].kind = "file"
    BY <1>3
  <2> HIDE DEF f
  <2>2. f \in 1 .. Len(objects') /\ objects'[f].kind = "file"
    BY <1>1, <2>1
  <2> QED  BY <2>2 DEF f
<1> QED  BY <1>4, <1>5

\* The calls of other processes, when process p changes an object that it holds alone.
LEMMA OtherCallsKept ==
    ASSUME SocketsInv, NEW p \in Peers, NEW n \in Slots,
           \A q \in Peers \ {p} : numbers'[q] = numbers[q] /\ calling'[q] = calling[q],
           \A o \in 1 .. Len(objects) :
             \/ /\ objects'[o].kind = objects[o].kind
                /\ objects[o].name # NoName => objects'[o].name # NoName
             \/ objects[o].kind # "socket"
             \/ o = numbers[p][n] /\ objects[o].kind # "file"
    PROVE  \A q \in Peers \ {p} : CallInv(q)'
<1> SUFFICES ASSUME NEW q \in Peers \ {p} PROVE CallInv(q)'
  OBVIOUS
<1>1. CallInv(q) /\ numbers'[q] = numbers[q] /\ calling'[q] = calling[q]
  BY DEF SocketsInv
<1>2. CASE calling[q] = NotCalling
  BY <1>1, <1>2 DEF CallInv
<1>3. CASE calling[q] # NotCalling
  <2> DEFINE fd == calling[q].fd
             o == numbers[q][fd]
  <2>1. fd \in Slots /\ o # Vacant /\ objects[o].kind = "socket"
    BY <1>1, <1>3 DEF CallInv
  <2>2. o \in 1 .. Len(objects)
    BY <2>1, TableFacts DEF SocketsInv
  <2>3. o # numbers[p][n]
    BY <2>1 DEF SocketsInv, HeldOnce
  <2>4. objects'[o].kind = "socket" /\ (objects[o].name # NoName => objects'[o].name # NoName)
    BY <2>1, <2>2, <2>3
  <2> QED  BY <1>1, <1>3, <2>1, <2>4 DEF CallInv
<1> QED  BY <1>2, <1>3

\* The numbers that are owned, when process p gets some and gives some up.
LEMMA OwnedKept ==
    ASSUME NumbersOwned, NEW p \in Peers, foreign \subseteq foreign',
           \A q \in Peers \ {p} :
             /\ numbers'[q] = numbers[q] /\ calling'[q] = calling[q]
             /\ owned'[q] = owned[q] /\ stray'[q] = stray[q],
           LET own == owned'[p] \cup ({calling'[p].fd} \ {Vacant})
           IN  /\ InUse(p)' = own \cup stray'[p] /\ own \cap stray'[p] = {}
               /\ calling'[p].fd \notin owned'[p]
               /\ stray'[p] # {} => p \in foreign'
    PROVE  NumbersOwned'
<1> SUFFICES ASSUME NEW q \in Peers
             PROVE  LET own == owned'[q] \cup ({calling'[q].fd} \ {Vacant})
                    IN  /\ InUse(q)' = own \cup stray'[q] /\ own \cap stray'[q] = {}
                        /\ calling'[q].fd \notin owned'[q]
                        /\ stray'[q] # {} => q \in foreign'
  BY DEF NumbersOwned
<1>1. CASE q = p
  BY <1>1
<1>2. CASE q # p
  <2>1. InUse(q)' = InUse(q)
    BY <1>2 DEF InUse
  <2> QED  BY <1>2, <2>1 DEF NumbersOwned
<1> QED  BY <1>1, <1>2

LEMMA ObjectMade ==
    ASSUME NEW kind \in Kinds, NEW peer \in Nat
    PROVE  LET x == Object(kind, peer)
           IN  /\ x \in ObjectTypes /\ x.kind = kind /\ x.name = NoName /\ x.peer = peer
               /\ x.waiting = <<>> /\ x.inbox = <<>>
<1>1. NoName \in NoName .. Path
  BY SocketsAssumption DEF NoName, Path
<1>2. <<>> \in Seq(Nat) /\ <<>> \in Seq(PassedMessages)
  OBVIOUS
<1> QED  BY <1>1, <1>2 DEF Object, ObjectTypes

LEMMA ObjectChanged ==
    ASSUME TablesInv, NEW o \in 1 .. Len(objects), NEW x \in ObjectTypes,
           objects' = [objects EXCEPT ![o] = x]
    PROVE  /\ objects' \in Seq(ObjectTypes) /\ Len(objects') = Len(objects)
           /\ \A k \in 1 .. Len(objects) : objects'[k] = IF k = o THEN x ELSE objects[k]
BY ExceptSeq DEF TablesInv

LEMMA SocketsInitInv == SocketsInit => SocketsInv
<1> SUFFICES ASSUME SocketsInit PROVE SocketsInv
  OBVIOUS
<1>1. /\ objects = <<>> /\ Len(objects) = 0
      /\ \A p \in Peers : \A n \in Slots : numbers[p][n] = Vacant
      /\ \A p \in Peers : owned[p] = {} /\ stray[p] = {} /\ calling[p] = NotCalling
  BY DEF SocketsInit
<1>2. NotCalling \in CallTypes /\ NotCalling.fd = Vacant
  BY SocketsAssumption DEF NotCalling, CallTypes, NoName, Path
<1>3. TablesInv
  BY <1>1, <1>2 DEF SocketsInit, TablesInv, Vacant
<1>4. ObjectsInv /\ WaitingInv /\ HeldOnce /\ NamesInv /\ \A p \in Peers : CallInv(p)
  BY <1>1 DEF ObjectsInv, WaitingInv, HeldOnce, NamesInv, CallInv
<1>5. NumbersOwned
  BY <1>1, <1>2 DEF NumbersOwned, InUse
<1> QED  BY <1>3, <1>4, <1>5 DEF SocketsInv

\* Process p gets numbers for objects that are new.
LEMMA FreshKept ==
    ASSUME SocketsInv, NEW p \in Peers, NEW got \in Seq(Nat),
           objects' \in Seq(ObjectTypes), Len(objects') = Len(objects) + Len(got),
           \A i \in 1 .. Len(got) : got[i] = Len(objects) + i,
           \A o \in 1 .. Len(objects) : objects'[o] = objects[o],
           \A i \in 1 .. Len(got) : \E kind \in {"socket", "file", "end"} : \E peer \in Nat :
             objects'[Len(objects) + i] = Object(kind, peer),
           numbers' = Numbered(p, got), owned' \in [Peers -> SUBSET Slots],
           calling' \in [Peers -> CallTypes], UNCHANGED <<stray, foreign>>
    PROVE  LET N == First(p, Len(got))
           IN  /\ TablesInv' /\ ObjectsInv' /\ WaitingInv' /\ HeldOnce' /\ NamesInv'
               /\ InUse(p)' = InUse(p) \cup N /\ N \subseteq Unused(p) /\ N \subseteq Slots
               /\ \A n \in N : numbers'[p][n] = Len(objects) + Rank(p, n)
               /\ \A q \in Peers \ {p} : numbers'[q] = numbers[q]
<1> DEFINE N == First(p, Len(got))
<1>1. /\ Len(objects) \in Nat /\ Len(got) \in Nat /\ Len(objects') \in Nat /\ Vacant = 0
      /\ \A q \in Peers : \A n \in Slots : numbers[q][n] \in 0 .. Len(objects)
      /\ \A o : Held(o) <=> \E q \in Peers : \E n \in Slots : numbers[q][n] = o
      /\ \A n \in Slots : n \in Unused(p) <=> numbers[p][n] = Vacant
      /\ TablesInv /\ ObjectsInv /\ WaitingInv /\ HeldOnce /\ NamesInv
  BY TableFacts, LenProperties DEF SocketsInv
<1>2. /\ numbers' \in [Peers -> [Slots -> Nat]] /\ N \subseteq Unused(p)
      /\ \A n \in N : Rank(p, n) \in 1 .. Len(got)
      /\ \A q \in Peers : \A n \in Slots :
           numbers'[q][n] = IF q = p /\ n \in N THEN got[Rank(p, n)] ELSE numbers[q][n]
  BY <1>1, NumberedIs
<1>3. N \subseteq Slots
  BY <1>2, UnusedFinite
<1> HIDE DEF N
<1>4. \A n \in N : numbers'[p][n] = Len(objects) + Rank(p, n)
  BY <1>2, <1>3
<1>5. \A q \in Peers \ {p} : numbers'[q] = numbers[q]
  <2> SUFFICES ASSUME NEW q \in Peers \ {p} PROVE numbers'[q] = numbers[q]
    OBVIOUS
  <2>1. numbers[q] \in [Slots -> 0 .. Len(objects)] /\ numbers'[q] \in [Slots -> Nat]
    BY <1>1, <1>2 DEF TablesInv
  <2>2. \A n \in Slots : numbers'[q][n] = numbers[q][n]
    BY <1>2
  <2> QED  BY <2>1, <2>2
<1>6. TablesInv'
  <2>1. \A q \in Peers : \A n \in Slots : numbers'[q][n] \in 0 .. Len(objects')
    <3> SUFFICES ASSUME NEW q \in Peers, NEW n \in Slots
                 PROVE  numbers'[q][n] \in 0 .. Len(objects')
      OBVIOUS
    <3>1. CASE q = p /\ n \in N
      BY <1>1, <1>2, <1>4, <3>1
    <3>2. CASE ~(q = p /\ n \in N)
      <4>1. numbers'[q][n] = numbers[q][n] /\ numbers[q][n] \in 0 .. Len(objects)
        BY <1>1, <1>2, <3>2
      <4> QED  BY <1>1, <4>1
    <3> QED  BY <3>1, <3>2
  <2>2. \A q \in Peers : numbers'[q] \in [Slots -> 0 .. Len(objects')]
    BY <1>2, <2>1
  <2>3. numbers' \in [Peers -> [Slots -> 0 .. Len(objects')]]
    BY <1>2, <2>2
  <2> QED  BY <1>1, <2>3 DEF TablesInv
<1>7. \A o \in 1 .. Len(objects') :
        \/ o \in 1 .. Len(objects) /\ objects'[o] = objects[o]
        \/ /\ o > Len(objects) /\ objects'[o].kind \in {"socket", "file", "end"}
           /\ objects'[o].name = NoName /\ objects'[o].waiting = <<>>
           /\ objects'[o].inbox = <<>>
  <2> SUFFICES ASSUME NEW o \in 1 .. Len(objects'), ~(o \in 1 .. Len(objects))
               PROVE  /\ o > Len(objects) /\ objects'[o].kind \in {"socket", "file", "end"}
                      /\ objects'[o].name = NoName /\ objects'[o].waiting = <<>>
                      /\ objects'[o].inbox = <<>>
    OBVIOUS
  <2>0. o \in Int /\ o > Len(objects)
    BY <1>1
  <2>1. o - Len(objects) \in 1 .. Len(got) /\ Len(objects) + (o - Len(objects)) = o
    BY <1>1, <2>0
  <2>2. PICK kind \in {"socket", "file", "end"} : \E peer \in Nat :
           objects'[o] = Object(kind, peer)
    BY <2>1
  <2>3. kind \in Kinds
    BY DEF Kinds
  <2> QED  BY <2>0, <2>2, <2>3, ObjectMade
<1>8. HeldOnce' /\ WaitingInv'
  <2>1. \A n \in N : LET o == numbers'[p][n]
                     IN  /\ ~Held(o) /\ o > Len(objects)
                         /\ \A m \in N : numbers'[p][m] = o => m = n
                         /\ \A l \in 1 .. Len(objects') : objects'[l].waiting # <<o>>
    <3> SUFFICES ASSUME NEW n \in N
                 PROVE  LET o == numbers'[p][n]
                        IN  /\ ~Held(o) /\ o > Len(objects)
                            /\ \A m \in N : numbers'[p][m] = o => m = n
                            /\ \A l \in 1 .. Len(objects') : objects'[l].waiting # <<o>>
      OBVIOUS
    <3> DEFINE o == numbers'[p][n]
    <3>1. o > Len(objects)
      BY <1>1, <1>2, <1>4
    <3>2. ~Held(o)
      BY <1>1, <3>1
    <3>3. \A m \in N : numbers'[p][m] = o => m = n
      <4> SUFFICES ASSUME NEW m \in N, numbers'[p][m] = o PROVE m = n
        OBVIOUS
      <4>1. Rank(p, m) = Rank(p, n)
        BY <1>1, <1>2, <1>4
      <4> QED  BY <1>2, <4>1, RanksDiffer
    <3> HIDE DEF o
    <3>4. ASSUME NEW l \in 1 .. Len(objects') PROVE objects'[l].waiting # <<o>>
      <4>1. CASE l \in 1 .. Len(objects) /\ objects'[l] = objects[l]
        <5>1. CASE objects[l].waiting = <<>>
          BY <4>1, <5>1
        <5>2. CASE objects[l].waiting # <<>>
          <6>1. PICK w \in 1 .. Len(objects) : objects[l].waiting = <<w>>
            BY <1>1, <4>1, <5>2 DEF WaitingInv
          <6>2. w # o
            BY <1>1, <3>1
          <6>3. <<w>> # <<o>>
            BY <6>2
          <6> QED  BY <4>1, <6>1, <6>3
        <5> QED  BY <5>1, <5>2
      <4>2. CASE objects'[l].waiting = <<>>
        BY <4>2
      <4> QED  BY <1>7, <4>1, <4>2
    <3> QED  BY <3>1, <3>2, <3>3, <3>4 DEF o
  <2>2. N \in SUBSET Slots /\ Len(objects) <= Len(objects')
    BY <1>1, <1>3
  <2>3. \A q \in Peers : \A n \in Slots :
          (q = p /\ n \in N) \/ numbers'[q][n] = numbers[q][n] \/ numbers'[q][n] = Vacant
    BY <1>2
  <2>4. \A o \in 1 .. Len(objects) :
          /\ objects'[o].kind = "file" <=> objects[o].kind = "file"
          /\ objects[o].kind = "end" => objects'[o].kind = "end"
    OBVIOUS
  <2>5. \A l \in 1 .. Len(objects') :
          \/ objects'[l].waiting = <<>>
          \/ l <= Len(objects) /\ objects'[l].waiting = objects[l].waiting
    BY <1>1, <1>7
  <2> QED  BY <1>6, <2>1, <2>2, <2>3, <2>4, <2>5, SystemKept
<1>9. NamesInv'
  <2>1. ASSUME NEW o \in 1 .. Len(objects') , objects'[o].name # NoName
        PROVE  /\ o \in 1 .. Len(objects) /\ objects'[o].name = objects[o].name
               /\ Held(o)' => Held(o)
    <3>1. o \in 1 .. Len(objects) /\ objects'[o] = objects[o]
      BY <1>7, <2>1
    <3>2. Held(o)' => Held(o)
      <4> SUFFICES ASSUME NEW q \in Peers, NEW n \in Slots, numbers'[q][n] = o
                   PROVE  Held(o)
        BY <1>6, NextFacts
      <4>1. ~(q = p /\ n \in N)
        BY <1>1, <1>2, <1>4, <3>1
      <4> QED  BY ZenonT(40), <1>1, <1>2, <4>1
    <3> QED  BY <3>1, <3>2
  <2> QED  BY <1>1, <1>6, <2>1, NamesKept
<1>10. ObjectsInv'
  <2>1. \A o \in 1 .. Len(objects') :
             /\ objects'[o].kind = "listener" => objects'[o].name # NoName
             /\ objects'[o].kind \in {"end", "file"} => objects'[o].name = NoName
             /\ \/ objects'[o].inbox = <<>>
                \/ o <= Len(objects) /\ objects'[o].inbox = objects[o].inbox
    <3> SUFFICES ASSUME NEW o \in 1 .. Len(objects')
                 PROVE  /\ objects'[o].kind = "listener" => objects'[o].name # NoName
                        /\ objects'[o].kind \in {"end", "file"} => objects'[o].name = NoName
                        /\ \/ objects'[o].inbox = <<>>
                           \/ o <= Len(objects) /\ objects'[o].inbox = objects[o].inbox
      OBVIOUS
    <3>1. CASE o \in 1 .. Len(objects) /\ objects'[o] = objects[o]
      BY <1>1, <3>1 DEF ObjectsInv
    <3>2. CASE ~(o \in 1 .. Len(objects) /\ objects'[o] = objects[o])
      BY <1>7, <3>2
    <3> QED  BY <3>1, <3>2
  <2>2. Len(objects) <= Len(objects')
    BY <1>1
  <2>3. \A o \in 1 .. Len(objects) : objects[o].kind = "file" => objects'[o].kind = "file"
    OBVIOUS
  <2> QED  BY <1>1, <1>6, <2>1, <2>2, <2>3, ObjectsKept
<1>11. InUse(p)' = InUse(p) \cup N
  <2>1. \A n \in N : numbers'[p][n] # Vacant
    BY <1>1, <1>2, <1>4
  <2> QED  BY <1>2, <1>3, <2>1 DEF InUse
<1> QED  BY <1>2, <1>3, <1>4, <1>5, <1>6, <1>8, <1>9, <1>10, <1>11 DEF N

\* What process p owns, in a call and between calls.
LEMMA OwnedFacts ==
    ASSUME SocketsInv, NEW p \in Peers
    PROVE  /\ owned[p] \subseteq Slots /\ stray[p] \subseteq Slots
           /\ \A n \in owned[p] : numbers[p][n] \in 1 .. Len(objects)
           /\ owned[p] \cap stray[p] = {}
           /\ stray[p] # {} => p \in foreign
           /\ calling[p] = NotCalling => InUse(p) = owned[p] \cup stray[p]
           /\ calling[p] # NotCalling =>
                /\ InUse(p) = (owned[p] \cup {calling[p].fd}) \cup stray[p]
                /\ calling[p].fd \in Slots /\ calling[p].fd \notin owned[p] \cup stray[p]
                /\ numbers[p][calling[p].fd] \in 1 .. Len(objects)
                /\ objects[numbers[p][calling[p].fd]].kind = "socket"
           /\ Vacant \notin Slots /\ NotCalling.fd = Vacant /\ InUse(p) \cap Unused(p) = {}
<1>1. owned[p] \subseteq Slots /\ stray[p] \subseteq Slots /\ Vacant \notin Slots
      /\ NotCalling.fd = Vacant /\ InUse(p) \cap Unused(p) = {}
  BY DEF SocketsInv, TablesInv, Slots, Vacant, NotCalling, Unused
<1>2. LET own == owned[p] \cup ({calling[p].fd} \ {Vacant})
      IN  /\ InUse(p) = own \cup stray[p] /\ own \cap stray[p] = {}
          /\ calling[p].fd \notin owned[p] /\ (stray[p] # {} => p \in foreign)
  BY DEF SocketsInv, NumbersOwned
<1>3. \A n \in Slots : n \in InUse(p) => numbers[p][n] \in 1 .. Len(objects)
  BY TableFacts DEF SocketsInv, InUse
<1>4. CASE calling[p] = NotCalling
  BY <1>1, <1>2, <1>3, <1>4
<1>5. CASE calling[p] # NotCalling
  <2>1. /\ calling[p].fd \in Slots /\ objects[numbers[p][calling[p].fd]].kind = "socket"
        /\ calling[p].fd # Vacant
    BY <1>1, <1>5 DEF SocketsInv, CallInv
  <2> QED  BY <1>1, <1>2, <1>3, <1>5, <2>1
<1> QED  BY <1>4, <1>5

LEMMA OpenSocketInv ==
    ASSUME SocketsInv, NEW p \in Peers, NEW step \in {"bind", "connect"}, NEW name \in 0 .. Path,
           NEW given \in BOOLEAN, OpenSocket(p, step, name, given)
    PROVE  SocketsInv'
<1> DEFINE n == Min(Unused(p))
           c == [step |-> step, fd |-> n, name |-> name, given |-> given]
           got == <<Len(objects) + 1>>
<1>1. /\ calling[p] = NotCalling /\ Unused(p) # {}
      /\ objects' = Append(objects, Object("socket", 0)) /\ numbers' = Numbered(p, got)
      /\ calling' = [calling EXCEPT ![p] = c] /\ UNCHANGED <<owned, stray, foreign>>
      /\ owned \in [Peers -> SUBSET Slots] /\ calling \in [Peers -> CallTypes]
      /\ objects \in Seq(ObjectTypes) /\ Len(objects) \in Nat /\ NoName = -1 /\ Path \in Nat
  BY TableFacts DEF OpenSocket, SocketsInv, TablesInv
<1>2. /\ n \in Unused(p) /\ n \in Slots /\ Rank(p, n) = 1 /\ First(p, 1) = {n}
  BY <1>1, FirstOne, UnusedFinite
<1>3. /\ got \in Seq(Nat) /\ Len(got) = 1 /\ got[1] = Len(objects) + 1
  BY <1>1
<1> HIDE DEF n
<1>4. c \in CallTypes /\ c.fd = n /\ c.step = step /\ c.name = name
  <2>1. name \in NoName .. Path
    BY <1>1
  <2> QED  BY <1>2, <2>1 DEF CallTypes
<1> HIDE DEF c, got
<1>5. /\ calling' \in [Peers -> CallTypes] /\ calling'[p] = c
      /\ \A q \in Peers \ {p} : calling'[q] = calling[q]
  BY <1>1, <1>4
<1>6. /\ objects' \in Seq(ObjectTypes) /\ Len(objects') = Len(objects) + Len(got)
      /\ \A o \in 1 .. Len(objects) : objects'[o] = objects[o]
      /\ objects'[Len(objects) + 1] = Object("socket", 0)
  <2>1. Object("socket", 0) \in ObjectTypes
    BY ObjectMade DEF Kinds
  <2> QED  BY <1>1, <1>3, <2>1, AppendProperties
<1>7. /\ TablesInv' /\ ObjectsInv' /\ WaitingInv' /\ HeldOnce' /\ NamesInv'
      /\ InUse(p)' = InUse(p) \cup {n}
      /\ numbers'[p][n] = Len(objects) + 1
      /\ \A q \in Peers \ {p} : numbers'[q] = numbers[q]
  <2>1. \A i \in 1 .. Len(got) : /\ got[i] = Len(objects) + i
                                 /\ \E kind \in {"socket", "file", "end"} : \E peer \in Nat :
                                      objects'[Len(objects) + i] = Object(kind, peer)
    BY <1>3, <1>6
  <2>2. owned' \in [Peers -> SUBSET Slots]
    BY <1>1
  <2>3. stray' = stray /\ foreign' = foreign /\ First(p, Len(got)) = {n}
    BY <1>1, <1>2, <1>3
  <2>4. LET N == First(p, Len(got))
        IN  /\ TablesInv' /\ ObjectsInv' /\ WaitingInv' /\ HeldOnce' /\ NamesInv'
            /\ InUse(p)' = InUse(p) \cup N
            /\ \A k \in N : numbers'[p][k] = Len(objects) + Rank(p, k)
            /\ \A q \in Peers \ {p} : numbers'[q] = numbers[q]
    BY <1>1, <1>3, <1>5, <1>6, <2>1, <2>2, <2>3, FreshKept
  <2> QED  BY <1>2, <2>3, <2>4
<1>8. CallInv(p)'
  <2>1. objects'[Len(objects) + 1].kind = "socket"
    BY <1>6, ObjectMade DEF Kinds
  <2> QED  BY <1>1, <1>2, <1>4, <1>5, <1>7, <2>1 DEF CallInv, Vacant
<1>9. \A q \in Peers \ {p} : CallInv(q)'
  BY <1>2, <1>5, <1>6, <1>7, OtherCallsKept
<1>10. NumbersOwned'
  <2>1. /\ InUse(p) = owned[p] \cup stray[p] /\ owned[p] \cap stray[p] = {}
        /\ n \notin InUse(p) /\ n # Vacant /\ (stray[p] # {} => p \in foreign)
    BY <1>1, <1>2, OwnedFacts
  <2> QED  BY <1>1, <1>4, <1>5, <1>7, <2>1, OwnedKept DEF SocketsInv
<1> QED  BY <1>7, <1>8, <1>9, <1>10 DEF SocketsInv

LEMMA OpenPassedFileInv ==
    ASSUME SocketsInv, NEW p \in Peers, OpenPassedFile(p)
    PROVE  SocketsInv'
<1> DEFINE n == Min(Unused(p))
           got == <<Len(objects) + 1>>
<1>1. /\ calling[p] = NotCalling /\ Unused(p) # {}
      /\ objects' = Append(objects, Object("file", 0)) /\ numbers' = Numbered(p, got)
      /\ owned' = [owned EXCEPT ![p] = owned[p] \cup {n}] /\ UNCHANGED <<calling, stray, foreign>>
      /\ owned \in [Peers -> SUBSET Slots] /\ calling \in [Peers -> CallTypes]
      /\ objects \in Seq(ObjectTypes) /\ Len(objects) \in Nat
  BY TableFacts DEF OpenPassedFile, SocketsInv, TablesInv
<1>2. /\ n \in Unused(p) /\ n \in Slots /\ First(p, 1) = {n}
  BY <1>1, FirstOne, UnusedFinite
<1>3. /\ got \in Seq(Nat) /\ Len(got) = 1 /\ got[1] = Len(objects) + 1
  BY <1>1
<1> HIDE DEF n, got
<1>4. /\ owned' \in [Peers -> SUBSET Slots] /\ owned'[p] = owned[p] \cup {n}
      /\ \A q \in Peers \ {p} : owned'[q] = owned[q]
  BY <1>1, <1>2
<1>5. /\ objects' \in Seq(ObjectTypes) /\ Len(objects') = Len(objects) + Len(got)
      /\ \A o \in 1 .. Len(objects) : objects'[o] = objects[o]
      /\ objects'[Len(objects) + 1] = Object("file", 0)
  <2>1. Object("file", 0) \in ObjectTypes
    BY ObjectMade DEF Kinds
  <2> QED  BY <1>1, <1>3, <2>1, AppendProperties
<1>6. /\ TablesInv' /\ ObjectsInv' /\ WaitingInv' /\ HeldOnce' /\ NamesInv'
      /\ InUse(p)' = InUse(p) \cup {n}
      /\ \A q \in Peers \ {p} : numbers'[q] = numbers[q]
  <2>1. \A i \in 1 .. Len(got) : /\ got[i] = Len(objects) + i
                                 /\ \E kind \in {"socket", "file", "end"} : \E peer \in Nat :
                                      objects'[Len(objects) + i] = Object(kind, peer)
    BY <1>3, <1>5
  <2> QED  BY ZenonT(40), <1>1, <1>2, <1>3, <1>4, <1>5, <2>1, FreshKept
<1>7. \A q \in Peers : CallInv(q)'
  <2>1. CallInv(p)'
    BY <1>1 DEF CallInv
  <2>2. \A q \in Peers \ {p} : CallInv(q)'
    BY <1>1, <1>2, <1>5, <1>6, OtherCallsKept
  <2> QED  BY <2>1, <2>2
<1>8. NumbersOwned'
  <2>1. /\ InUse(p) = owned[p] \cup stray[p] /\ owned[p] \cap stray[p] = {}
        /\ n \notin InUse(p) /\ n # Vacant /\ (stray[p] # {} => p \in foreign)
        /\ calling[p].fd = Vacant /\ Vacant \notin Slots /\ owned[p] \subseteq Slots
    BY <1>1, <1>2, OwnedFacts
  <2> QED  BY <1>1, <1>2, <1>4, <1>6, <2>1, OwnedKept DEF SocketsInv
<1> QED  BY <1>6, <1>7, <1>8 DEF SocketsInv

LEMMA CreatePairInv ==
    ASSUME SocketsInv, NEW p \in Peers, CreatePair(p)
    PROVE  SocketsInv'
<1> DEFINE one == Len(objects) + 1
           got == <<one, one + 1>>
           both == First(p, 2)
           made == <<Object("end", one + 1), Object("end", one)>>
<1>1. /\ calling[p] = NotCalling /\ objects' = objects \o made
      /\ numbers' = [Numbered(p, got) EXCEPT
                       ![p] = [n \in Slots |-> IF n \in {} THEN Vacant ELSE @[n]]]
      /\ owned' = [owned EXCEPT ![p] = owned[p] \cup both] /\ UNCHANGED <<calling, stray, foreign>>
      /\ owned \in [Peers -> SUBSET Slots] /\ calling \in [Peers -> CallTypes] /\ TablesInv
      /\ objects \in Seq(ObjectTypes) /\ Len(objects) \in Nat /\ one \in Nat
  BY TableFacts DEF CreatePair, NotHandedOver, SocketsInv, TablesInv
<1>2. /\ got \in Seq(Nat) /\ Len(got) = 2 /\ got[1] = one /\ got[2] = one + 1
  BY <1>1
<1>3. /\ made \in Seq(ObjectTypes) /\ Len(made) = 2
      /\ made[1] = Object("end", one + 1) /\ made[2] = Object("end", one)
  <2>1. Object("end", one + 1) \in ObjectTypes /\ Object("end", one) \in ObjectTypes
    BY <1>1, ObjectMade DEF Kinds
  <2> QED  BY <2>1
<1> HIDE DEF got, made, both
<1>4. numbers' = Numbered(p, got)
  <2> DEFINE f == Numbered(p, got)
  <2>1. f \in [Peers -> [Slots -> Nat]]
    BY <1>1, <1>2, NumberedIs
  <2>2. numbers' = [f EXCEPT ![p] = [n \in Slots |-> IF n \in {} THEN Vacant ELSE @[n]]]
    BY <1>1
  <2> HIDE DEF f
  <2>3. numbers' = f
    BY <2>1, <2>2
  <2> QED  BY <2>3 DEF f
<1>5. /\ objects' \in Seq(ObjectTypes) /\ Len(objects') = Len(objects) + Len(got)
      /\ \A o \in 1 .. Len(objects) : objects'[o] = objects[o]
      /\ objects'[Len(objects) + 1] = Object("end", one + 1)
      /\ objects'[Len(objects) + 2] = Object("end", one)
  <2>1. /\ objects \o made \in Seq(ObjectTypes)
        /\ Len(objects \o made) = Len(objects) + Len(made)
        /\ \A i \in 1 .. Len(objects) + Len(made) : (objects \o made)[i] =
              IF i <= Len(objects) THEN objects[i] ELSE made[i - Len(objects)]
    BY <1>1, <1>3, ConcatProperties
  <2> DEFINE all == objects \o made
  <2> HIDE DEF all
  <2>2. /\ all \in Seq(ObjectTypes) /\ Len(all) = Len(objects) + 2
        /\ \A i \in 1 .. Len(objects) + 2 :
              all[i] = IF i <= Len(objects) THEN objects[i] ELSE made[i - Len(objects)]
    BY <1>3, <2>1 DEF all
  <2>3. /\ \A o \in 1 .. Len(objects) : all[o] = objects[o]
        /\ all[Len(objects) + 1] = made[1] /\ all[Len(objects) + 2] = made[2]
    <3>1. \A o \in 1 .. Len(objects) : o \in 1 .. Len(objects) + 2 /\ o <= Len(objects)
      BY <1>1
    <3>2. /\ Len(objects) + 1 \in 1 .. Len(objects) + 2 /\ ~(Len(objects) + 1 <= Len(objects))
          /\ Len(objects) + 2 \in 1 .. Len(objects) + 2 /\ ~(Len(objects) + 2 <= Len(objects))
          /\ (Len(objects) + 1) - Len(objects) = 1 /\ (Len(objects) + 2) - Len(objects) = 2
      BY <1>1
    <3>3. all[Len(objects) + 1] = made[(Len(objects) + 1) - Len(objects)]
      BY <2>2, <3>2
    <3>4. all[Len(objects) + 2] = made[(Len(objects) + 2) - Len(objects)]
      BY <2>2, <3>2
    <3> QED  BY <2>2, <3>1, <3>2, <3>3, <3>4
  <2> QED  BY <1>1, <1>2, <1>3, <2>2, <2>3 DEF all
<1>6. both \subseteq Unused(p) /\ both \subseteq Slots /\ First(p, Len(got)) = both
  BY <1>2, UnusedFinite DEF both, First
<1>7. /\ owned' \in [Peers -> SUBSET Slots] /\ owned'[p] = owned[p] \cup both
      /\ \A q \in Peers \ {p} : owned'[q] = owned[q]
  BY <1>1, <1>6
<1>8. /\ TablesInv' /\ ObjectsInv' /\ WaitingInv' /\ HeldOnce' /\ NamesInv'
      /\ InUse(p)' = InUse(p) \cup both
      /\ \A q \in Peers \ {p} : numbers'[q] = numbers[q]
  <2>1. \A i \in 1 .. Len(got) : /\ got[i] = Len(objects) + i
                                 /\ \E kind \in {"socket", "file", "end"} : \E peer \in Nat :
                                      objects'[Len(objects) + i] = Object(kind, peer)
    <3> SUFFICES ASSUME NEW i \in 1 .. Len(got)
                 PROVE  /\ got[i] = Len(objects) + i
                        /\ \E kind \in {"socket", "file", "end"} : \E peer \in Nat :
                             objects'[Len(objects) + i] = Object(kind, peer)
      OBVIOUS
    <3>1. i = 1 \/ i = 2
      BY <1>2
    <3> QED  BY <1>1, <1>2, <1>5, <3>1
  <2> QED  BY <1>1, <1>2, <1>4, <1>5, <1>6, <1>7, <2>1, FreshKept
<1>9. \A q \in Peers : CallInv(q)'
  <2>1. CallInv(p)'
    BY <1>1 DEF CallInv
  <2>2. Slots # {}
    BY SocketsAssumption DEF Slots
  <2>3. \A q \in Peers \ {p} : CallInv(q)'
    BY <1>1, <1>5, <1>8, <2>2, OtherCallsKept
  <2> QED  BY <2>1, <2>3
<1>10. NumbersOwned'
  <2>1. /\ InUse(p) = owned[p] \cup stray[p] /\ owned[p] \cap stray[p] = {}
        /\ both \cap InUse(p) = {} /\ (stray[p] # {} => p \in foreign)
        /\ calling[p].fd = Vacant /\ Vacant \notin Slots /\ owned[p] \subseteq Slots
    BY <1>1, <1>6, OwnedFacts
  <2> QED  BY <1>1, <1>6, <1>7, <1>8, <2>1, OwnedKept DEF SocketsInv
<1> QED  BY <1>8, <1>9, <1>10 DEF SocketsInv

\* What the numbers stand for once process p closed some.
LEMMA ClosedIs ==
    ASSUME TablesInv, NEW p \in Peers, NEW C \in SUBSET Slots, numbers' = Closed(p, C)
    PROVE  /\ numbers' \in [Peers -> [Slots -> 0 .. Len(objects)]]
           /\ \A q \in Peers \ {p} : numbers'[q] = numbers[q]
           /\ \A n \in Slots : numbers'[p][n] = IF n \in C THEN Vacant ELSE numbers[p][n]
           /\ InUse(p)' = InUse(p) \ C
<1> DEFINE a == [n \in Slots |-> IF n \in C THEN Vacant ELSE numbers[p][n]]
<1>1. numbers \in [Peers -> [Slots -> 0 .. Len(objects)]] /\ Len(objects) \in Nat
  BY TableFacts DEF TablesInv
<1>2. Closed(p, C) = [numbers EXCEPT ![p] = a]
  BY <1>1 DEF Closed
<1>3. /\ a \in [Slots -> 0 .. Len(objects)]
      /\ \A n \in Slots : a[n] = IF n \in C THEN Vacant ELSE numbers[p][n]
  <2>1. Vacant \in 0 .. Len(objects)
    BY <1>1 DEF Vacant
  <2> QED  BY <1>1, <2>1
<1> HIDE DEF a
<1>4. numbers' \in [Peers -> [Slots -> 0 .. Len(objects)]] /\ numbers'[p] = a
      /\ \A q \in Peers \ {p} : numbers'[q] = numbers[q]
  BY <1>1, <1>2, <1>3
<1> QED  BY <1>3, <1>4 DEF InUse

LEMMA NothingGot ==
    ASSUME SocketsInv, TablesInv', NEW p \in Peers, Len(objects) <= Len(objects'),
           \A q \in Peers : \A n \in Slots :
             numbers'[q][n] = numbers[q][n] \/ numbers'[q][n] = Vacant,
           \A o \in 1 .. Len(objects) :
             /\ objects'[o].kind = "file" <=> objects[o].kind = "file"
             /\ objects[o].kind = "end" => objects'[o].kind = "end",
           \A l \in 1 .. Len(objects') :
             \/ objects'[l].waiting = <<>>
             \/ l <= Len(objects) /\ objects'[l].waiting = objects[l].waiting
    PROVE  HeldOnce' /\ WaitingInv'
<1> DEFINE N == {}
<1>2. N \in SUBSET Slots /\ \A n \in N : FALSE
  OBVIOUS
<1> HIDE DEF N
<1>3. \A q \in Peers : \A n \in Slots :
        (q = p /\ n \in N) \/ numbers'[q][n] = numbers[q][n] \/ numbers'[q][n] = Vacant
  OBVIOUS
<1>4. \A n \in N : numbers'[p][n] # Vacant =>
           \/ objects'[numbers'[p][n]].kind = "file"
           \/ /\ ~Held(numbers'[p][n])
              /\ \A m \in N : numbers'[p][m] = numbers'[p][n] => m = n
              /\ \A l \in 1 .. Len(objects') : objects'[l].waiting # <<numbers'[p][n]>>
  BY <1>2
<1> QED  BY <1>2, <1>3, <1>4, SystemKept

\* A process closes a number that it owns; the objects are as they were.
LEMMA ClosesInv ==
    ASSUME SocketsInv, NEW p \in Peers, NEW C \in SUBSET Slots, numbers' = Closed(p, C),
           owned' \in [Peers -> SUBSET Slots], calling' \in [Peers -> CallTypes],
           UNCHANGED <<objects, stray, foreign>>, calling'[p] = NotCalling,
           \A q \in Peers \ {p} : owned'[q] = owned[q] /\ calling'[q] = calling[q],
           InUse(p) \ C = owned'[p] \cup stray[p], owned'[p] \subseteq owned[p]
    PROVE  SocketsInv'
<1>1. /\ numbers' \in [Peers -> [Slots -> 0 .. Len(objects)]] /\ TablesInv
      /\ \A q \in Peers \ {p} : numbers'[q] = numbers[q]
      /\ \A n \in Slots : numbers'[p][n] = IF n \in C THEN Vacant ELSE numbers[p][n]
      /\ InUse(p)' = InUse(p) \ C /\ Len(objects) \in Nat
  BY ClosedIs, TableFacts DEF SocketsInv
<1>2. TablesInv'
  BY <1>1 DEF TablesInv
<1>3. \A q \in Peers : \A n \in Slots :
        numbers'[q][n] = numbers[q][n] \/ numbers'[q][n] = Vacant
  BY <1>1
<1>4. HeldOnce' /\ WaitingInv'
  <2>1. \A l \in 1 .. Len(objects') : l <= Len(objects)
    BY <1>1
  <2>2. Len(objects) <= Len(objects') /\ objects' = objects
    BY <1>1
  <2> QED  BY <1>2, <1>3, <2>1, <2>2, NothingGot
<1>5. \A o \in 1 .. Len(objects) : Held(o)' => Held(o)
  <2> SUFFICES ASSUME NEW o \in 1 .. Len(objects), NEW q \in Peers, NEW n \in Slots,
                      numbers'[q][n] = o
               PROVE  Held(o)
    BY <1>2, NextFacts
  <2>1. o # Vacant
    BY <1>1 DEF Vacant
  <2>2. numbers[q][n] = o
    BY <1>3, <2>1
  <2> QED  BY <2>2 DEF Held
<1>6. NamesInv'
  BY <1>1, <1>2, <1>5, NamesKept DEF SocketsInv
<1>7. ObjectsInv'
  BY DEF SocketsInv, ObjectsInv
<1>8. \A q \in Peers : CallInv(q)'
  <2>1. CallInv(p)'
    BY DEF CallInv
  <2>2. ASSUME NEW q \in Peers \ {p} PROVE CallInv(q)'
    <3>1. CallInv(q) /\ calling'[q] = calling[q] /\ numbers'[q] = numbers[q]
      BY <1>1 DEF SocketsInv
    <3> QED  BY <3>1 DEF CallInv
  <2> QED  BY <2>1, <2>2
<1>9. NumbersOwned'
  <2>1. /\ owned[p] \cap stray[p] = {} /\ (stray[p] # {} => p \in foreign)
        /\ NotCalling.fd = Vacant /\ Vacant \notin Slots /\ owned[p] \subseteq Slots
    BY OwnedFacts
  <2> QED  BY <1>1, <2>1, OwnedKept DEF SocketsInv
<1> QED  BY <1>2, <1>4, <1>6, <1>7, <1>8, <1>9 DEF SocketsInv

LEMMA CallFailsInv ==
    ASSUME SocketsInv, NEW p \in Peers, CallFails(p)
    PROVE  SocketsInv'
<1>1. /\ calling[p] # NotCalling /\ numbers' = Closed(p, {calling[p].fd})
      /\ calling' = [calling EXCEPT ![p] = NotCalling]
      /\ UNCHANGED <<objects, owned, stray, foreign>>
      /\ owned \in [Peers -> SUBSET Slots] /\ calling \in [Peers -> CallTypes]
  BY DEF CallFails, SocketsInv, TablesInv
<1>2. /\ InUse(p) = (owned[p] \cup {calling[p].fd}) \cup stray[p] /\ calling[p].fd \in Slots
      /\ calling[p].fd \notin owned[p] \cup stray[p]
  BY <1>1, OwnedFacts
<1>3. NotCalling \in CallTypes
  BY TableFacts DEF NotCalling, CallTypes, SocketsInv
<1>4. /\ calling' \in [Peers -> CallTypes] /\ calling'[p] = NotCalling
      /\ \A q \in Peers \ {p} : calling'[q] = calling[q]
  BY <1>1, <1>3
<1>5. InUse(p) \ {calling[p].fd} = owned[p] \cup stray[p] /\ {calling[p].fd} \in SUBSET Slots
  BY <1>2
<1> QED  BY <1>1, <1>4, <1>5, ClosesInv

LEMMA CloseOwnedInv ==
    ASSUME SocketsInv, NEW p \in Peers, CloseOwned(p)
    PROVE  SocketsInv'
<1>1. PICK n \in owned[p] : numbers' = Closed(p, {n})
                            /\ owned' = [owned EXCEPT ![p] = owned[p] \ {n}]
  BY DEF CloseOwned
<1>2. /\ calling[p] = NotCalling /\ UNCHANGED <<objects, calling, stray, foreign>>
      /\ owned \in [Peers -> SUBSET Slots] /\ calling \in [Peers -> CallTypes]
  BY DEF CloseOwned, SocketsInv, TablesInv
<1>3. InUse(p) = owned[p] \cup stray[p] /\ owned[p] \cap stray[p] = {} /\ owned[p] \subseteq Slots
  BY <1>2, OwnedFacts
<1>4. /\ owned' \in [Peers -> SUBSET Slots] /\ owned'[p] = owned[p] \ {n}
      /\ \A q \in Peers \ {p} : owned'[q] = owned[q]
  BY <1>1, <1>2, <1>3
<1>5. InUse(p) \ {n} = owned'[p] \cup stray[p] /\ {n} \in SUBSET Slots
  BY <1>3, <1>4
<1> QED  BY <1>1, <1>2, <1>4, <1>5, ClosesInv

\* An object of process p changes, which it holds alone if it is not a file; its numbers
\* are those that it had.
LEMMA ChangeKept ==
    ASSUME SocketsInv, NEW p \in Peers, NEW n \in Slots, NEW o \in 1 .. Len(objects),
           NEW x \in ObjectTypes, objects' = [objects EXCEPT ![o] = x],
           UNCHANGED <<numbers, stray, foreign>>, calling' \in [Peers -> CallTypes],
           owned' \in [Peers -> SUBSET Slots],
           \A q \in Peers \ {p} : owned'[q] = owned[q] /\ calling'[q] = calling[q],
           \/ x.kind = objects[o].kind /\ (objects[o].name # NoName => x.name # NoName)
           \/ o = numbers[p][n] /\ objects[o].kind # "file",
           x.kind = "file" <=> objects[o].kind = "file",
           objects[o].kind = "end" => x.kind = "end",
           x.waiting \in {<<>>, objects[o].waiting}
    PROVE  /\ TablesInv' /\ HeldOnce' /\ WaitingInv' /\ Len(objects') = Len(objects)
           /\ \A k \in 1 .. Len(objects) : objects'[k] = IF k = o THEN x ELSE objects[k]
           /\ \A q \in Peers \ {p} : CallInv(q)'
           /\ \A k : Held(k)' <=> Held(k)
           /\ InUse(p)' = InUse(p)
<1>1. /\ TablesInv /\ Len(objects) \in Nat /\ objects' \in Seq(ObjectTypes)
      /\ Len(objects') = Len(objects)
      /\ \A k \in 1 .. Len(objects) : objects'[k] = IF k = o THEN x ELSE objects[k]
  BY ObjectChanged, TableFacts DEF SocketsInv
<1>2. TablesInv'
  BY <1>1 DEF TablesInv
<1>3. HeldOnce' /\ WaitingInv'
  <2>1. Len(objects) <= Len(objects')
    BY <1>1
  <2>2. \A k \in 1 .. Len(objects) :
             /\ objects'[k].kind = "file" <=> objects[k].kind = "file"
             /\ objects[k].kind = "end" => objects'[k].kind = "end"
    BY <1>1
  <2>3. \A l \in 1 .. Len(objects') :
             \/ objects'[l].waiting = <<>>
             \/ l <= Len(objects) /\ objects'[l].waiting = objects[l].waiting
    BY <1>1
  <2>4. \A q \in Peers : \A k \in Slots :
          numbers'[q][k] = numbers[q][k] \/ numbers'[q][k] = Vacant
    OBVIOUS
  <2> QED  BY <1>2, <2>1, <2>2, <2>3, <2>4, NothingGot
<1>4. \A q \in Peers \ {p} : CallInv(q)'
  <2>1. \A q \in Peers \ {p} : numbers'[q] = numbers[q] /\ calling'[q] = calling[q]
    OBVIOUS
  <2>2. \A k \in 1 .. Len(objects) :
             \/ /\ objects'[k].kind = objects[k].kind
                /\ objects[k].name # NoName => objects'[k].name # NoName
             \/ objects[k].kind # "socket"
             \/ k = numbers[p][n] /\ objects[k].kind # "file"
    BY <1>1
  <2> QED  BY <2>1, <2>2, OtherCallsKept
<1>5. (\A k : Held(k)' <=> Held(k)) /\ InUse(p)' = InUse(p)
  BY DEF Held, InUse
<1> QED  BY <1>1, <1>2, <1>3, <1>4, <1>5

LEMMA BindAgainInv ==
    ASSUME SocketsInv, NEW p \in Peers, BindAgain(p)
    PROVE  SocketsInv'
<1> DEFINE c == calling[p]
           k == createRandomName(c.name)
           d == [c EXCEPT !.name = k]
<1>1. /\ c.step = "bind" /\ calling' = [calling EXCEPT ![p] = d] /\ c \in CallTypes
      /\ UNCHANGED <<objects, numbers, owned, stray, foreign>> /\ calling \in [Peers -> CallTypes]
      /\ NameCount \in Nat \ {0} /\ NoName = -1 /\ Path = NameCount /\ CallInv(p) /\ TablesInv
  BY SocketsAssumption DEF BindAgain, SocketsInv, TablesInv, NoName, Path
<1>2. k \in 0 .. NameCount - 1
  BY <1>1 DEF createRandomName, CallTypes
<1>3. d \in CallTypes /\ d.step = c.step /\ d.fd = c.fd /\ d.name = k
  <2>1. k \in NoName .. Path
    BY <1>1, <1>2
  <2> QED  BY <1>1, <2>1 DEF CallTypes
<1> HIDE DEF d, k
<1>4. /\ calling' \in [Peers -> CallTypes] /\ calling'[p] = d
      /\ \A q \in Peers \ {p} : calling'[q] = calling[q]
  BY <1>1, <1>3
<1>5. TablesInv' /\ ObjectsInv' /\ HeldOnce' /\ WaitingInv' /\ NamesInv'
  <2>1. TablesInv'
    BY <1>1, <1>4 DEF TablesInv
  <2>2. ObjectsInv'
    BY <1>1 DEF SocketsInv, ObjectsInv
  <2>3. HeldOnce'
    BY <1>1 DEF SocketsInv, HeldOnce
  <2>4. WaitingInv'
    BY <1>1 DEF SocketsInv, WaitingInv, Held
  <2>5. NamesInv'
    BY <1>1 DEF SocketsInv, NamesInv, Held
  <2> QED  BY <2>1, <2>2, <2>3, <2>4, <2>5
<1>6. \A q \in Peers : CallInv(q)'
  <2>1. CallInv(p)'
    <3>1. c # NotCalling
      BY <1>1 DEF NotCalling
    <3> QED  BY <1>1, <1>2, <1>3, <1>4, <3>1 DEF CallInv
  <2> QED  BY <1>1, <1>4, <2>1 DEF SocketsInv, CallInv
<1>7. NumbersOwned'
  BY <1>1, <1>3, <1>4 DEF SocketsInv, NumbersOwned, InUse
<1> QED  BY <1>5, <1>6, <1>7 DEF SocketsInv

LEMMA BindSocketInv ==
    ASSUME SocketsInv, NEW p \in Peers, BindSocket(p)
    PROVE  SocketsInv'
<1> DEFINE c == calling[p]
           d == [c EXCEPT !.step = "listen"]
           o == numbers[p][c.fd]
           x == [objects[o] EXCEPT !.name = c.name]
<1>1. /\ c.step = "bind" /\ ~NameInUse(c.name) /\ calling' = [calling EXCEPT ![p] = d]
      /\ UNCHANGED <<numbers, owned, stray, foreign>> /\ c \in CallTypes
      /\ objects' = [objects EXCEPT ![o] = x] /\ calling \in [Peers -> CallTypes]
      /\ owned \in [Peers -> SUBSET Slots] /\ TablesInv
  BY DEF BindSocket, SocketsInv, TablesInv
<1>2. /\ c # NotCalling /\ c.fd \in Slots /\ o \in 1 .. Len(objects) /\ objects[o].kind = "socket"
      /\ objects[o] \in ObjectTypes /\ c.name # NoName /\ Held(o) /\ o # Vacant
  <2>1. c # NotCalling
    BY <1>1 DEF NotCalling
  <2>2. c.fd \in Slots /\ o \in 1 .. Len(objects) /\ objects[o].kind = "socket"
    BY <2>1, OwnedFacts
  <2>3. c.name # NoName
    BY <2>1 DEF SocketsInv, CallInv
  <2>4. objects[o] \in ObjectTypes /\ Held(o) /\ o # Vacant
    BY <1>1, <2>2, TableFacts
  <2> QED  BY <2>1, <2>2, <2>3, <2>4
<1>3. /\ x \in ObjectTypes /\ x.kind = "socket" /\ x.name = c.name
      /\ x.waiting = objects[o].waiting /\ x.inbox = objects[o].inbox
  BY <1>1, <1>2 DEF ObjectTypes, CallTypes
<1>4. /\ d \in CallTypes /\ d.step = "listen" /\ d.fd = c.fd /\ d.name = c.name
  BY <1>1 DEF CallTypes
<1> HIDE DEF d, x
<1>5. /\ calling' \in [Peers -> CallTypes] /\ calling'[p] = d
      /\ \A q \in Peers \ {p} : calling'[q] = calling[q]
  BY <1>1, <1>4
<1>6. /\ TablesInv' /\ HeldOnce' /\ WaitingInv' /\ Len(objects') = Len(objects)
      /\ \A k \in 1 .. Len(objects) : objects'[k] = IF k = o THEN x ELSE objects[k]
      /\ \A q \in Peers \ {p} : CallInv(q)'
      /\ \A k : Held(k)' <=> Held(k)
      /\ InUse(p)' = InUse(p)
  BY <1>1, <1>2, <1>3, <1>5, ChangeKept
<1>7. ObjectsInv'
  <2>1. \A k \in 1 .. Len(objects') :
             /\ objects'[k].kind = "listener" => objects'[k].name # NoName
             /\ objects'[k].kind \in {"end", "file"} => objects'[k].name = NoName
             /\ objects'[k].inbox = objects[k].inbox /\ k <= Len(objects)
    <3> SUFFICES ASSUME NEW k \in 1 .. Len(objects)
                 PROVE  /\ objects'[k].kind = "listener" => objects'[k].name # NoName
                        /\ objects'[k].kind \in {"end", "file"} => objects'[k].name = NoName
                        /\ objects'[k].inbox = objects[k].inbox /\ k <= Len(objects)
      BY <1>6
    <3>1. k <= Len(objects)
      BY <1>1, TableFacts
    <3>2. CASE k = o
      <4>1. objects'[k] = x
        BY <1>6, <3>2
      <4> QED  BY <1>3, <3>1, <3>2, <4>1
    <3>3. CASE k # o
      <4>1. objects'[k] = objects[k]
        BY <1>6, <3>3
      <4> QED  BY <3>1, <4>1 DEF SocketsInv, ObjectsInv
    <3> QED  BY <3>2, <3>3
  <2>2. \A k \in 1 .. Len(objects) : objects[k].kind = "file" => objects'[k].kind = "file"
    BY <1>2, <1>6
  <2>3. Len(objects) <= Len(objects')
    BY <1>1, <1>6, TableFacts
  <2> QED  BY <1>1, <1>6, <2>1, <2>2, <2>3, ObjectsKept DEF SocketsInv
<1>8. NamesInv'
  <2>1. \A k \in 1 .. Len(objects) : ~(objects[k].name = c.name /\ (c.name = Path \/ Held(k)))
    BY <1>1 DEF NameInUse
  <2> SUFFICES ASSUME NEW j \in 1 .. Len(objects), NEW k \in 1 .. Len(objects),
                      objects'[j].name = objects'[k].name, objects'[j].name # NoName,
                      objects'[j].name = Path \/ (Held(j) /\ Held(k))
               PROVE  j = k
    BY <1>6 DEF NamesInv
  <2>2. CASE j = o /\ k # o
    BY <1>3, <1>6, <2>1, <2>2
  <2>3. CASE j # o /\ k = o
    BY <1>3, <1>6, <2>1, <2>3
  <2>4. CASE j # o /\ k # o
    BY <1>6, <2>4 DEF SocketsInv, NamesInv
  <2> QED  BY <2>2, <2>3, <2>4
<1>9. CallInv(p)'
  <2>1. /\ calling'[p] = d /\ d.step # "none" /\ d.fd \in Slots /\ d.name # NoName
        /\ numbers' = numbers
    BY <1>1, <1>2, <1>4, <1>5
  <2>2. numbers'[p][d.fd] = o
    BY <1>4, <2>1
  <2>3. objects'[o] = x
    BY <1>2, <1>6
  <2> HIDE DEF o
  <2>4. o # Vacant /\ x.kind = "socket" /\ x.name # NoName
    BY <1>2, <1>3
  <2> QED  BY <2>1, <2>2, <2>3, <2>4 DEF CallInv
<1>10. NumbersOwned'
  BY <1>1, <1>4, <1>5, <1>6 DEF SocketsInv, NumbersOwned, InUse
<1> QED  BY <1>6, <1>7, <1>8, <1>9, <1>10 DEF SocketsInv

LEMMA SocketsStutterInv ==
    ASSUME SocketsInv, UNCHANGED socketVars
    PROVE  SocketsInv'
<1>1. /\ UNCHANGED <<objects, numbers, owned, calling, stray, foreign>>
      /\ TablesInv /\ ObjectsInv /\ WaitingInv /\ HeldOnce /\ NamesInv /\ NumbersOwned
      /\ \A p \in Peers : CallInv(p)
  BY DEF SocketsInv, socketVars
<1>2. TablesInv' /\ ObjectsInv' /\ HeldOnce'
  BY <1>1 DEF TablesInv, ObjectsInv, HeldOnce
<1>3. WaitingInv' /\ NamesInv'
  BY <1>1 DEF WaitingInv, NamesInv, Held
<1>4. NumbersOwned' /\ \A p \in Peers : CallInv(p)'
  BY <1>1 DEF NumbersOwned, InUse, CallInv
<1> QED  BY <1>2, <1>3, <1>4 DEF SocketsInv

\* A call that ends well gives its number to the process.
LEMMA EndedCall ==
    ASSUME SocketsInv, NEW p \in Peers, EndCall(p), calling[p] # NotCalling,
           numbers' = numbers, UNCHANGED <<stray, foreign>>
    PROVE  /\ owned' \in [Peers -> SUBSET Slots] /\ calling' \in [Peers -> CallTypes]
           /\ calling'[p] = NotCalling
           /\ \A q \in Peers \ {p} : owned'[q] = owned[q] /\ calling'[q] = calling[q]
           /\ NumbersOwned' /\ CallInv(p)'
<1>1. /\ owned \in [Peers -> SUBSET Slots] /\ calling \in [Peers -> CallTypes]
      /\ calling' = [calling EXCEPT ![p] = NotCalling]
      /\ owned' = [owned EXCEPT ![p] = owned[p] \cup {calling[p].fd}]
  BY DEF EndCall, SocketsInv, TablesInv
<1>2. NotCalling \in CallTypes
  BY TableFacts DEF NotCalling, CallTypes, SocketsInv
<1>3. /\ InUse(p) = (owned[p] \cup {calling[p].fd}) \cup stray[p] /\ calling[p].fd \in Slots
      /\ calling[p].fd \notin owned[p] \cup stray[p] /\ owned[p] \cap stray[p] = {}
      /\ owned[p] \subseteq Slots /\ Vacant \notin Slots /\ NotCalling.fd = Vacant
      /\ stray[p] # {} => p \in foreign
  BY OwnedFacts
<1>4. /\ owned' \in [Peers -> SUBSET Slots] /\ calling' \in [Peers -> CallTypes]
      /\ calling'[p] = NotCalling /\ owned'[p] = owned[p] \cup {calling[p].fd}
      /\ \A q \in Peers \ {p} : owned'[q] = owned[q] /\ calling'[q] = calling[q]
  BY <1>1, <1>2, <1>3
<1>5. InUse(p)' = InUse(p)
  BY DEF InUse
<1>6. NumbersOwned'
  BY <1>3, <1>4, <1>5, OwnedKept DEF SocketsInv
<1>7. CallInv(p)'
  BY <1>4 DEF CallInv
<1> QED  BY <1>4, <1>6, <1>7

LEMMA ListenSocketInv ==
    ASSUME SocketsInv, NEW p \in Peers, ListenSocket(p)
    PROVE  SocketsInv'
<1> DEFINE c == calling[p]
           o == numbers[p][c.fd]
           x == [objects[o] EXCEPT !.kind = "listener"]
<1>1. /\ c.step = "listen" /\ EndCall(p) /\ UNCHANGED <<numbers, stray, foreign>>
      /\ objects' = [objects EXCEPT ![o] = x] /\ TablesInv /\ c # NotCalling
  BY DEF ListenSocket, SocketsInv, NotCalling
<1>2. /\ c.fd \in Slots /\ o \in 1 .. Len(objects) /\ objects[o].kind = "socket"
      /\ objects[o] \in ObjectTypes /\ objects[o].name # NoName
  <2>1. c.fd \in Slots /\ o \in 1 .. Len(objects) /\ objects[o].kind = "socket"
    BY <1>1, OwnedFacts
  <2>2. objects[o].name # NoName
    BY <1>1 DEF SocketsInv, CallInv
  <2>3. objects[o] \in ObjectTypes
    BY <1>1, <2>1, TableFacts
  <2> QED  BY <2>1, <2>2, <2>3
<1>3. /\ x \in ObjectTypes /\ x.kind = "listener" /\ x.name = objects[o].name
      /\ x.waiting = objects[o].waiting /\ x.inbox = objects[o].inbox
  BY <1>2 DEF ObjectTypes, Kinds
<1> HIDE DEF x
<1>4. /\ owned' \in [Peers -> SUBSET Slots] /\ calling' \in [Peers -> CallTypes]
      /\ \A q \in Peers \ {p} : owned'[q] = owned[q] /\ calling'[q] = calling[q]
      /\ NumbersOwned' /\ CallInv(p)'
  BY <1>1, EndedCall
<1>5. /\ TablesInv' /\ HeldOnce' /\ WaitingInv' /\ Len(objects') = Len(objects)
      /\ \A k \in 1 .. Len(objects) : objects'[k] = IF k = o THEN x ELSE objects[k]
      /\ \A q \in Peers \ {p} : CallInv(q)'
      /\ \A k : Held(k)' <=> Held(k)
  <2>1. PICK n \in Slots : n = c.fd
    BY <1>2
  <2>2. PICK k \in 1 .. Len(objects) : k = o
    BY <1>2
  <2>3. PICK y \in ObjectTypes : y = x
    BY <1>3
  <2>4. objects' = [objects EXCEPT ![k] = y]
    BY <1>1, <2>2, <2>3
  <2>5. k = numbers[p][n] /\ objects[k].kind # "file"
    BY <1>2, <2>1, <2>2
  <2>6. /\ (y.kind = "file" <=> objects[k].kind = "file")
        /\ objects[k].kind = "end" => y.kind = "end"
        /\ y.waiting \in {<<>>, objects[k].waiting}
    BY <1>2, <1>3, <2>2, <2>3
  <2>7. UNCHANGED <<numbers, stray, foreign>>
    BY <1>1
  <2> HIDE DEF o
  <2>8. TablesInv' /\ HeldOnce' /\ WaitingInv' /\ Len(objects') = Len(objects)
    BY <1>4, <2>4, <2>5, <2>6, <2>7, ChangeKept
  <2>9. \A i \in 1 .. Len(objects) : objects'[i] = IF i = k THEN y ELSE objects[i]
    BY <1>1, <2>4, ObjectChanged
  <2>10. \A i : Held(i)' <=> Held(i)
    BY <2>7 DEF Held
  <2>11. \A q \in Peers \ {p} : CallInv(q)'
    BY <1>4, <2>4, <2>5, <2>6, <2>7, ChangeKept
  <2> QED  BY <2>2, <2>3, <2>8, <2>9, <2>10, <2>11
<1>6. ObjectsInv'
  <2>1. \A k \in 1 .. Len(objects') :
             /\ objects'[k].kind = "listener" => objects'[k].name # NoName
             /\ objects'[k].kind \in {"end", "file"} => objects'[k].name = NoName
             /\ objects'[k].inbox = objects[k].inbox /\ k <= Len(objects)
    <3>1. \A k \in 1 .. Len(objects) :
             /\ objects[k].kind = "listener" => objects[k].name # NoName
             /\ objects[k].kind \in {"end", "file"} => objects[k].name = NoName
      BY DEF SocketsInv, ObjectsInv
    <3>2. Len(objects') = Len(objects) /\ Len(objects) \in Nat
      BY <1>1, <1>5, TableFacts
    <3> TAKE k \in 1 .. Len(objects')
    <3>3. k \in 1 .. Len(objects) /\ k <= Len(objects)
      BY <3>2
    <3>4. CASE k = o
      BY <1>2, <1>3, <1>5, <3>3, <3>4
    <3>5. CASE k # o
      BY <1>5, <3>1, <3>3, <3>5
    <3> QED  BY <3>4, <3>5
  <2>2. \A k \in 1 .. Len(objects) : objects[k].kind = "file" => objects'[k].kind = "file"
    BY <1>2, <1>5
  <2>3. Len(objects) <= Len(objects')
    BY <1>1, <1>5, TableFacts
  <2> QED  BY <1>1, <1>5, <2>1, <2>2, <2>3, ObjectsKept DEF SocketsInv
<1>7. NamesInv'
  <2>1. \A k \in 1 .. Len(objects') :
          k \in 1 .. Len(objects) /\ objects'[k].name = objects[k].name /\ (Held(k)' => Held(k))
    BY <1>3, <1>5
  <2> QED  BY <1>1, <1>5, <2>1, NamesKept DEF SocketsInv
<1> QED  BY <1>4, <1>5, <1>6, <1>7 DEF SocketsInv

\* A process that is in no call keeps what it has.
LEMMA OwnedAsBefore ==
    ASSUME SocketsInv, NEW p \in Peers, InUse(p)' = InUse(p), foreign \subseteq foreign',
           UNCHANGED <<owned, calling, stray>>,
           \A q \in Peers \ {p} : numbers'[q] = numbers[q]
    PROVE  NumbersOwned'
<1>1. LET own == owned[p] \cup ({calling[p].fd} \ {Vacant})
      IN  /\ InUse(p) = own \cup stray[p] /\ own \cap stray[p] = {}
          /\ calling[p].fd \notin owned[p] /\ (stray[p] # {} => p \in foreign)
  BY DEF SocketsInv, NumbersOwned
<1> QED  BY <1>1, OwnedKept DEF SocketsInv

LEMMA PutMessageInv ==
    ASSUME SocketsInv, NEW p \in Peers, NEW message \in PassedMessages,
           \A i \in 1 .. Len(message.files) : /\ message.files[i] \in 1 .. Len(objects)
                                              /\ objects[message.files[i]].kind = "file",
           PutMessage(p, message)
    PROVE  SocketsInv'
<1>1. PICK n \in OwnedEnds(p) :
         LET peer == objects[numbers[p][n]].peer
         IN  objects' = [objects EXCEPT ![peer].inbox = <<message>>]
  BY DEF PutMessage
<1>2. /\ calling[p] = NotCalling /\ UNCHANGED <<numbers, owned, calling, stray, foreign>>
      /\ TablesInv /\ objects \in Seq(ObjectTypes) /\ Len(objects) \in Nat
      /\ owned \in [Peers -> SUBSET Slots] /\ calling \in [Peers -> CallTypes]
  BY TableFacts DEF PutMessage, SocketsInv, TablesInv
<1> DEFINE o == objects[numbers[p][n]].peer
           x == [objects[o] EXCEPT !.inbox = <<message>>]
<1>3. objects' = [objects EXCEPT ![o] = x]
  BY <1>1
<1>4. n \in Slots
  BY OwnedFacts DEF OwnedEnds
<1>5. CASE o \in 1 .. Len(objects)
  <2>1. objects[o] \in ObjectTypes
    BY <1>2, <1>5, TableFacts
  <2>2. <<message>> \in Seq(PassedMessages) /\ Head(<<message>>) = message
    OBVIOUS
  <2>3. /\ x \in ObjectTypes /\ x.kind = objects[o].kind /\ x.name = objects[o].name
        /\ x.waiting = objects[o].waiting /\ x.inbox = <<message>>
    BY <2>1, <2>2 DEF ObjectTypes
  <2> HIDE DEF x, o
  <2>4. /\ TablesInv' /\ HeldOnce' /\ WaitingInv' /\ Len(objects') = Len(objects)
        /\ \A k \in 1 .. Len(objects) : objects'[k] = IF k = o THEN x ELSE objects[k]
        /\ \A q \in Peers \ {p} : CallInv(q)'
        /\ \A k : Held(k)' <=> Held(k)
        /\ InUse(p)' = InUse(p)
    <3>1. /\ x.kind = objects[o].kind /\ (objects[o].name # NoName => x.name # NoName)
          /\ (x.kind = "file" <=> objects[o].kind = "file")
          /\ objects[o].kind = "end" => x.kind = "end"
          /\ x.waiting \in {<<>>, objects[o].waiting}
      BY <2>3
    <3>2. \A q \in Peers \ {p} : owned'[q] = owned[q] /\ calling'[q] = calling[q]
      BY <1>2
    <3>3. calling' \in [Peers -> CallTypes] /\ owned' \in [Peers -> SUBSET Slots]
      BY <1>2
    <3> QED  BY <1>2, <1>3, <1>4, <1>5, <2>3, <3>1, <3>2, <3>3, ChangeKept
  <2>5. ObjectsInv'
    <3> SUFFICES ASSUME NEW k \in 1 .. Len(objects)
                 PROVE  /\ objects'[k].kind = "listener" => objects'[k].name # NoName
                        /\ objects'[k].kind \in {"end", "file"} => objects'[k].name = NoName
                        /\ objects'[k].inbox # <<>> =>
                             LET m == Head(objects'[k].inbox)
                             IN  \A i \in 1 .. Len(m.files) :
                                    /\ m.files[i] \in 1 .. Len(objects)
                                    /\ objects'[m.files[i]].kind = "file"
      BY <2>4 DEF ObjectsInv
    <3>1. /\ objects'[k].kind = objects[k].kind /\ objects'[k].name = objects[k].name
          /\ objects[k].kind = "listener" => objects[k].name # NoName
          /\ objects[k].kind \in {"end", "file"} => objects[k].name = NoName
      BY <2>3, <2>4 DEF SocketsInv, ObjectsInv
    <3>2. ASSUME objects'[k].inbox # <<>>
          PROVE  LET m == Head(objects'[k].inbox)
                 IN  \A i \in 1 .. Len(m.files) :
                       m.files[i] \in 1 .. Len(objects) /\ objects[m.files[i]].kind = "file"
      <4>1. CASE k = o
        BY <2>2, <2>3, <2>4, <4>1
      <4>2. CASE k # o
        <5>1. objects'[k] = objects[k]
          BY <2>4, <4>2
        <5> QED  BY <3>2, <5>1 DEF SocketsInv, ObjectsInv
      <4> QED  BY <4>1, <4>2
    <3>3. \A f \in 1 .. Len(objects) : objects'[f].kind = objects[f].kind
      BY <2>3, <2>4
    <3> QED  BY <3>1, <3>2, <3>3
  <2>6. NamesInv'
    <3>1. \A k \in 1 .. Len(objects') :
            k \in 1 .. Len(objects) /\ objects'[k].name = objects[k].name /\ (Held(k)' => Held(k))
      BY <2>3, <2>4
    <3> QED  BY <1>2, <2>4, <3>1, NamesKept DEF SocketsInv
  <2>7. CallInv(p)'
    BY <1>2 DEF CallInv
  <2>8. NumbersOwned'
    BY <1>2, <2>4, OwnedAsBefore
  <2> QED  BY <2>4, <2>5, <2>6, <2>7, <2>8 DEF SocketsInv
\* No object is changed where there is none.
<1>6. CASE o \notin 1 .. Len(objects)
  <2> HIDE DEF x, o
  <2>1. objects' = objects
    BY <1>2, <1>3, <1>6
  <2> QED  BY <1>2, <2>1, SocketsStutterInv DEF socketVars
<1> QED  BY <1>5, <1>6

LEMMA FilesOwned ==
    ASSUME SocketsInv, NEW p \in Peers, NEW file \in OwnedFiles(p)
    PROVE  file \in 1 .. Len(objects) /\ file \in Nat /\ objects[file].kind = "file"
BY OwnedFacts, TableFacts DEF OwnedFiles, SocketsInv

LEMMA SendUnixSocketFdInv ==
    ASSUME SocketsInv, NEW p \in Peers, SendUnixSocketFd(p)
    PROVE  SocketsInv'
<1>1. PICK file \in OwnedFiles(p) : PutMessage(p, [zero |-> TRUE, files |-> <<file>>])
  BY DEF SendUnixSocketFd
<1> DEFINE m == [zero |-> TRUE, files |-> <<file>>]
<1>2. file \in 1 .. Len(objects) /\ file \in Nat /\ objects[file].kind = "file"
  BY FilesOwned
<1>3. <<file>> \in Seq(Nat) /\ Len(<<file>>) = 1 /\ <<file>>[1] = file
  BY <1>2
<1>4. m \in PassedMessages /\ \A i \in 1 .. Len(m.files) : m.files[i] = file
  BY <1>3 DEF PassedMessages
<1> HIDE DEF m
<1> QED  BY <1>1, <1>2, <1>4, PutMessageInv DEF m

LEMMA SendOtherInv ==
    ASSUME SocketsInv, NEW p \in Peers, SendOther(p)
    PROVE  SocketsInv'
<1>1. PICK file \in OwnedFiles(p), zero \in BOOLEAN, n \in 0 .. 3 :
         PutMessage(p, [zero |-> zero, files |-> [i \in 1 .. n |-> file]])
  BY DEF SendOther
<1> DEFINE fs == [i \in 1 .. n |-> file]
           m == [zero |-> zero, files |-> fs]
<1>2. file \in 1 .. Len(objects) /\ file \in Nat /\ objects[file].kind = "file"
  BY FilesOwned
<1>3. fs \in Seq(Nat) /\ \A i \in 1 .. Len(fs) : fs[i] = file
  <2>1. n \in Nat
    OBVIOUS
  <2>2. fs \in Seq(Nat) /\ Len(fs) = n
    BY <1>2, <2>1
  <2> QED  BY <2>2
<1> HIDE DEF fs
<1>4. m \in PassedMessages /\ \A i \in 1 .. Len(m.files) : m.files[i] = file
  BY <1>3 DEF PassedMessages
<1>5. PutMessage(p, m)
  BY <1>1 DEF fs
<1> HIDE DEF m
<1> QED  BY <1>2, <1>4, <1>5, PutMessageInv

\* Process p takes what waits for it at object o: numbers for files, or for a connection.
LEMMA TakeKept ==
    ASSUME SocketsInv, NEW p \in Peers, NEW got \in Seq(Nat), NEW o \in 1 .. Len(objects),
           NEW x \in ObjectTypes, objects' \in Seq(ObjectTypes), Len(objects') = Len(objects),
           \A k \in 1 .. Len(objects) : objects'[k] = IF k = o THEN x ELSE objects[k],
           x.kind = objects[o].kind, x.name = objects[o].name,
           x.waiting \in {<<>>, objects[o].waiting}, x.inbox \in {<<>>, objects[o].inbox},
           numbers' = Numbered(p, got), UNCHANGED calling,
           owned' \in [Peers -> SUBSET Slots], stray' \in [Peers -> SUBSET Slots],
           \A i \in 1 .. Len(got) :
             /\ got[i] \in 1 .. Len(objects)
             /\ \/ objects[got[i]].kind = "file"
                \/ /\ objects[got[i]].kind = "end" /\ ~Held(got[i]) /\ Len(got) = 1
                   /\ \A l \in 1 .. Len(objects) : objects'[l].waiting # <<got[i]>>
    PROVE  LET N == First(p, Len(got))
           IN  /\ TablesInv' /\ ObjectsInv' /\ WaitingInv' /\ HeldOnce' /\ NamesInv'
               /\ InUse(p)' = InUse(p) \cup N /\ N \subseteq Unused(p) /\ N \subseteq Slots
               /\ \A q \in Peers \ {p} : numbers'[q] = numbers[q] /\ CallInv(q)'
<1> DEFINE N == First(p, Len(got))
<1>1. /\ Len(objects) \in Nat /\ Len(got) \in Nat /\ Vacant = 0
      /\ \A q \in Peers : \A n \in Slots : numbers[q][n] \in 0 .. Len(objects)
      /\ \A k : Held(k) <=> \E q \in Peers : \E n \in Slots : numbers[q][n] = k
      /\ TablesInv /\ ObjectsInv /\ NamesInv
  BY TableFacts, LenProperties DEF SocketsInv
<1>2. /\ numbers' \in [Peers -> [Slots -> Nat]] /\ N \subseteq Unused(p)
      /\ \A n \in N : Rank(p, n) \in 1 .. Len(got)
      /\ \A q \in Peers : \A n \in Slots :
           numbers'[q][n] = IF q = p /\ n \in N THEN got[Rank(p, n)] ELSE numbers[q][n]
  BY <1>1, NumberedIs
<1>3. N \subseteq Slots
  BY <1>2, UnusedFinite
<1>4. Len(got) = 1 => \A n, m \in N : n = m
  <2> SUFFICES ASSUME Len(got) = 1, NEW n \in N, NEW m \in N PROVE n = m
    OBVIOUS
  <2>1. Rank(p, n) = 1 /\ Rank(p, m) = 1 /\ n \in Unused(p) /\ m \in Unused(p)
    BY <1>2
  <2> QED  BY <2>1, RanksDiffer
<1> HIDE DEF N
<1>5. Len(objects') = Len(objects)
  OBVIOUS
<1>6. \A k \in 1 .. Len(objects) :
        /\ objects'[k].kind = objects[k].kind /\ objects'[k].name = objects[k].name
        /\ objects'[k].waiting \in {<<>>, objects[k].waiting}
        /\ objects'[k].inbox \in {<<>>, objects[k].inbox}
  OBVIOUS
<1>7. \A n \in N :
        /\ numbers'[p][n] \in 1 .. Len(objects)
        /\ \/ objects[numbers'[p][n]].kind = "file"
           \/ /\ objects[numbers'[p][n]].kind = "end" /\ ~Held(numbers'[p][n]) /\ Len(got) = 1
              /\ \A l \in 1 .. Len(objects) : objects'[l].waiting # <<numbers'[p][n]>>
  <2> SUFFICES ASSUME NEW n \in N
               PROVE  /\ numbers'[p][n] \in 1 .. Len(objects)
                      /\ \/ objects[numbers'[p][n]].kind = "file"
                         \/ /\ objects[numbers'[p][n]].kind = "end" /\ ~Held(numbers'[p][n])
                            /\ Len(got) = 1
                            /\ \A l \in 1 .. Len(objects) :
                                 objects'[l].waiting # <<numbers'[p][n]>>
    OBVIOUS
  <2>1. PICK i \in 1 .. Len(got) : i = Rank(p, n)
    BY <1>2
  <2>2. numbers'[p][n] = got[i]
    BY <1>2, <1>3, <2>1
  <2> QED  BY <2>2
<1>8. \A q \in Peers \ {p} : numbers'[q] = numbers[q]
  <2> SUFFICES ASSUME NEW q \in Peers \ {p} PROVE numbers'[q] = numbers[q]
    OBVIOUS
  <2>1. numbers[q] \in [Slots -> 0 .. Len(objects)] /\ numbers'[q] \in [Slots -> Nat]
    BY <1>1, <1>2 DEF TablesInv
  <2>2. \A n \in Slots : numbers'[q][n] = numbers[q][n]
    BY <1>2
  <2> QED  BY <2>1, <2>2
<1>9. TablesInv'
  <2>1. \A q \in Peers : \A n \in Slots : numbers'[q][n] \in 0 .. Len(objects')
    <3> SUFFICES ASSUME NEW q \in Peers, NEW n \in Slots
                 PROVE  numbers'[q][n] \in 0 .. Len(objects')
      OBVIOUS
    <3>1. CASE q = p /\ n \in N
      BY <1>1, <1>5, <1>7, <3>1
    <3>2. CASE ~(q = p /\ n \in N)
      <4>1. numbers'[q][n] = numbers[q][n] /\ numbers[q][n] \in 0 .. Len(objects)
        BY <1>1, <1>2, <3>2
      <4> QED  BY <1>5, <4>1
    <3> QED  BY <3>1, <3>2
  <2>2. \A q \in Peers : numbers'[q] \in [Slots -> 0 .. Len(objects')]
    BY <1>2, <2>1
  <2>3. numbers' \in [Peers -> [Slots -> 0 .. Len(objects')]]
    BY <1>2, <2>2
  <2> QED  BY <1>1, <1>5, <2>3 DEF TablesInv
<1>10. HeldOnce' /\ WaitingInv'
  <2>1. Len(objects) <= Len(objects') /\ N \in SUBSET Slots
    BY <1>1, <1>3, <1>5
  <2>2. \A q \in Peers : \A n \in Slots :
          (q = p /\ n \in N) \/ numbers'[q][n] = numbers[q][n] \/ numbers'[q][n] = Vacant
    BY <1>2
  <2>3. \A k \in 1 .. Len(objects) :
             /\ objects'[k].kind = "file" <=> objects[k].kind = "file"
             /\ objects[k].kind = "end" => objects'[k].kind = "end"
    BY <1>6
  <2>4. \A n \in N : numbers'[p][n] # Vacant =>
             \/ objects'[numbers'[p][n]].kind = "file"
             \/ /\ ~Held(numbers'[p][n])
                /\ \A m \in N : numbers'[p][m] = numbers'[p][n] => m = n
                /\ \A l \in 1 .. Len(objects') : objects'[l].waiting # <<numbers'[p][n]>>
    BY <1>4, <1>5, <1>6, <1>7
  <2>5. \A l \in 1 .. Len(objects') :
             \/ objects'[l].waiting = <<>>
             \/ l <= Len(objects) /\ objects'[l].waiting = objects[l].waiting
    BY <1>1, <1>5, <1>6
  <2> QED  BY ZenonT(40), <1>9, <2>1, <2>2, <2>3, <2>4, <2>5, SystemKept
<1>11. NamesInv'
  <2>1. ASSUME NEW k \in 1 .. Len(objects') , objects'[k].name # NoName
        PROVE  /\ k \in 1 .. Len(objects) /\ objects'[k].name = objects[k].name
               /\ Held(k)' => Held(k)
    <3>1. k \in 1 .. Len(objects) /\ objects'[k].name = objects[k].name
      BY <1>5, <1>6
    <3>2. objects[k].kind \notin {"file", "end"}
      BY <1>1, <2>1, <3>1 DEF ObjectsInv
    <3>3. Held(k)' => Held(k)
      <4> SUFFICES ASSUME NEW q \in Peers, NEW n \in Slots, numbers'[q][n] = k
                   PROVE  Held(k)
        BY <1>9, NextFacts
      <4>1. ~(q = p /\ n \in N)
        BY <1>7, <3>2
      <4>2. numbers[q][n] = k
        BY <1>2, <4>1
      <4> QED  BY <1>1, <4>2
    <3> QED  BY <3>1, <3>3
  <2> QED  BY <1>1, <1>9, <2>1, NamesKept
<1>12. ObjectsInv'
  <2>1. \A k \in 1 .. Len(objects') :
             /\ objects'[k].kind = "listener" => objects'[k].name # NoName
             /\ objects'[k].kind \in {"end", "file"} => objects'[k].name = NoName
             /\ \/ objects'[k].inbox = <<>>
                \/ k <= Len(objects) /\ objects'[k].inbox = objects[k].inbox
    BY <1>1, <1>5, <1>6 DEF ObjectsInv
  <2>2. Len(objects) <= Len(objects')
    BY <1>1, <1>5
  <2>3. \A k \in 1 .. Len(objects) : objects[k].kind = "file" => objects'[k].kind = "file"
    BY <1>6
  <2> QED  BY <1>1, <1>9, <2>1, <2>2, <2>3, ObjectsKept
<1>13. \A q \in Peers \ {p} : CallInv(q)'
  <2>1. PICK n \in Slots : TRUE
    BY SocketsAssumption DEF Slots
  <2>2. \A q \in Peers \ {p} : numbers'[q] = numbers[q] /\ calling'[q] = calling[q]
    BY <1>8
  <2>3. \A k \in 1 .. Len(objects) :
             \/ /\ objects'[k].kind = objects[k].kind
                /\ objects[k].name # NoName => objects'[k].name # NoName
             \/ objects[k].kind # "socket"
             \/ k = numbers[p][n] /\ objects[k].kind # "file"
    BY <1>6
  <2> QED  BY <2>2, <2>3, OtherCallsKept
<1>14. InUse(p)' = InUse(p) \cup N
  <2>1. \A n \in N : numbers'[p][n] # Vacant
    BY <1>1, <1>7
  <2> QED  BY <1>2, <1>3, <2>1 DEF InUse
<1> QED  BY <1>2, <1>3, <1>8, <1>9, <1>10, <1>11, <1>12, <1>13, <1>14 DEF N

LEMMA AcceptSocketInv ==
    ASSUME SocketsInv, NEW p \in Peers, AcceptSocket(p)
    PROVE  SocketsInv'
<1>1. PICK n \in owned[p] :
         /\ objects[numbers[p][n]].kind = "listener" /\ objects[numbers[p][n]].waiting # <<>>
         /\ numbers' = Numbered(p, objects[numbers[p][n]].waiting)
         /\ objects' = [objects EXCEPT ![numbers[p][n]].waiting = <<>>]
  BY DEF AcceptSocket
<1>2. PICK o \in 1 .. Len(objects) : o = numbers[p][n]
  BY OwnedFacts
<1>3. PICK x \in ObjectTypes : x = [objects[o] EXCEPT !.waiting = <<>>]
  <2>1. objects[o] \in ObjectTypes
    BY TableFacts DEF SocketsInv
  <2>2. <<>> \in Seq(Nat)
    OBVIOUS
  <2> QED  BY <2>1, <2>2 DEF ObjectTypes
<1> DEFINE k == Min(Unused(p))
<1>4. /\ calling[p] = NotCalling /\ Unused(p) # {} /\ UNCHANGED <<calling, stray, foreign>>
      /\ owned' = [owned EXCEPT ![p] = owned[p] \cup {k}] /\ owned \in [Peers -> SUBSET Slots]
      /\ stray \in [Peers -> SUBSET Slots] /\ TablesInv /\ WaitingInv /\ Len(objects) \in Nat
      /\ objects[o].kind = "listener" /\ objects[o].waiting # <<>>
      /\ numbers' = Numbered(p, objects[o].waiting)
  BY <1>1, <1>2, TableFacts DEF AcceptSocket, SocketsInv, TablesInv
<1>5. /\ InUse(p) = owned[p] \cup stray[p]
      /\ owned[p] \cap stray[p] = {} /\ (stray[p] # {} => p \in foreign)
      /\ InUse(p) \cap Unused(p) = {} /\ Vacant \notin Slots /\ NotCalling.fd = Vacant
      /\ owned[p] \subseteq Slots
  BY <1>4, OwnedFacts
<1>6. k \in Unused(p) /\ k \in Slots /\ First(p, 1) = {k}
  BY <1>4, FirstOne, UnusedFinite
<1>7. PICK w \in 1 .. Len(objects) :
         objects[o].waiting = <<w>> /\ objects[w].kind = "end" /\ ~Held(w)
  BY <1>4 DEF WaitingInv
<1> DEFINE got == <<w>>
<1>8. got \in Seq(Nat) /\ Len(got) = 1 /\ got[1] = w /\ numbers' = Numbered(p, got)
  BY <1>4, <1>7
<1>9. /\ x.kind = objects[o].kind /\ x.name = objects[o].name
      /\ x.waiting = <<>> /\ x.inbox = objects[o].inbox
  <2>1. objects[o] \in ObjectTypes
    BY <1>4, TableFacts
  <2> QED  BY <1>3, <2>1 DEF ObjectTypes
<1> HIDE DEF k, got
<1>10. /\ owned' \in [Peers -> SUBSET Slots] /\ owned'[p] = owned[p] \cup {k}
       /\ \A q \in Peers \ {p} : owned'[q] = owned[q]
  BY <1>4, <1>6
<1>11. /\ objects' \in Seq(ObjectTypes) /\ Len(objects') = Len(objects)
       /\ \A l \in 1 .. Len(objects) : objects'[l] = IF l = o THEN x ELSE objects[l]
  <2>1. objects' = [objects EXCEPT ![o] = x]
    BY <1>1, <1>2, <1>3
  <2> QED  BY <1>4, <2>1, ObjectChanged
<1>12. \A l \in 1 .. Len(objects) : objects'[l].waiting # <<w>>
  <2> SUFFICES ASSUME NEW l \in 1 .. Len(objects), objects'[l].waiting = <<w>> PROVE FALSE
    OBVIOUS
  <2>1. <<w>> # <<>>
    OBVIOUS
  <2>2. l # o /\ objects[l].waiting = <<w>>
    BY <1>9, <1>11, <2>1
  <2> QED  BY <1>4, <1>7, <2>2 DEF WaitingInv
<1>13. \A i \in 1 .. Len(got) :
             /\ got[i] \in 1 .. Len(objects)
             /\ \/ objects[got[i]].kind = "file"
                \/ /\ objects[got[i]].kind = "end" /\ ~Held(got[i]) /\ Len(got) = 1
                   /\ \A l \in 1 .. Len(objects) : objects'[l].waiting # <<got[i]>>
  <2>1. \A i \in 1 .. Len(got) : got[i] = w
    BY <1>8
  <2> QED  BY <1>7, <1>8, <1>12, <2>1
<1>14. /\ TablesInv' /\ ObjectsInv' /\ WaitingInv' /\ HeldOnce' /\ NamesInv'
       /\ InUse(p)' = InUse(p) \cup {k}
       /\ \A q \in Peers \ {p} : numbers'[q] = numbers[q] /\ CallInv(q)'
  <2>1. x.waiting \in {<<>>, objects[o].waiting} /\ x.inbox \in {<<>>, objects[o].inbox}
    BY <1>9
  <2>2. stray' \in [Peers -> SUBSET Slots] /\ UNCHANGED calling
    BY <1>4
  <2>3. LET N == First(p, Len(got))
        IN  /\ TablesInv' /\ ObjectsInv' /\ WaitingInv' /\ HeldOnce' /\ NamesInv'
            /\ InUse(p)' = InUse(p) \cup N
            /\ \A q \in Peers \ {p} : numbers'[q] = numbers[q] /\ CallInv(q)'
    BY ZenonT(40), <1>8, <1>9, <1>10, <1>11, <1>13, <2>1, <2>2, TakeKept
  <2> QED  BY <1>6, <1>8, <2>3
<1>15. CallInv(p)'
  BY <1>4 DEF CallInv
<1>16. NumbersOwned'
  BY <1>4, <1>5, <1>6, <1>10, <1>14, OwnedKept DEF SocketsInv
<1> QED  BY <1>14, <1>15, <1>16 DEF SocketsInv

\* What a process gets of a message.
LEMMA InstalledIs ==
    ASSUME NEW p \in Peers, NEW m \in PassedMessages
    PROVE  LET got == Installed(p, m)
           IN  /\ got \in Seq(Nat) /\ Len(got) \in Nat /\ Len(got) <= Len(m.files)
               /\ Len(got) # 0 => Unused(p) # {}
               /\ \A i \in 1 .. Len(got) : i \in 1 .. Len(m.files) /\ got[i] = m.files[i]
<1> DEFINE S == {2, Len(m.files), Cardinality(Unused(p))}
           k == Min(S)
<1>1. m.files \in Seq(Nat) /\ Len(m.files) \in Nat /\ Cardinality(Unused(p)) \in Nat
  BY UnusedFinite, FS_CardinalityType, LenProperties DEF PassedMessages
<1>2. S \in SUBSET Nat /\ S # {}
  BY <1>1
<1>3. PICK l \in S : \A j \in S : l <= j
  BY <1>2, LeastNumber
<1>4. k \in S /\ \A j \in S : k <= j
  BY <1>3 DEF Min
<1>5. k \in Nat /\ k <= Len(m.files) /\ k <= Cardinality(Unused(p))
  BY <1>1, <1>4
<1>6. Installed(p, m) = SubSeq(m.files, 1, k)
  BY DEF Installed
<1> HIDE DEF k, S
<1> DEFINE got == SubSeq(m.files, 1, k)
<1>7. \A i \in 1 .. k : i \in 1 .. Len(m.files) /\ m.files[i] \in Nat
  BY <1>1, <1>5, ElementOfSeq
<1>8. /\ got \in Seq(Nat) /\ Len(got) = (IF 1 <= k THEN k - 1 + 1 ELSE 0)
      /\ \A i \in 1 .. k - 1 + 1 : got[i] = m.files[1 + i - 1]
  BY <1>5, <1>7, SubSeqProperties
<1> HIDE DEF got
<1>9. Len(got) = k /\ \A i \in 1 .. k : got[i] = m.files[i]
  BY <1>5, <1>8
<1>10. Unused(p) = {} => k = 0
  BY <1>5, FS_EmptySet
<1> QED  BY <1>5, <1>6, <1>7, <1>8, <1>9, <1>10 DEF got

LEMMA RecvUnixSocketFdInv ==
    ASSUME SocketsInv, NEW p \in Peers, RecvUnixSocketFd(p)
    PROVE  SocketsInv'
<1>1. PICK n \in OwnedEnds(p) :
         /\ objects[numbers[p][n]].inbox # <<>>
         /\ LET m == Head(objects[numbers[p][n]].inbox)
                fds == First(p, Len(Installed(p, m)))
                closed == IF Acceptable(p, m) /\ Truncated(p, m) THEN fds ELSE {}
            IN  /\ numbers' = [Numbered(p, Installed(p, m)) EXCEPT
                                 ![p] = [k \in Slots |-> IF k \in closed THEN Vacant ELSE @[k]]]
                /\ owned' = [owned EXCEPT ![p] =
                                IF Acceptable(p, m) /\ closed = {} THEN @ \cup {Min(fds)} ELSE @]
                /\ stray' = [stray EXCEPT ![p] = IF Acceptable(p, m) THEN @ ELSE @ \cup fds]
                /\ foreign' = IF m.zero /\ Len(m.files) = 1 THEN foreign ELSE foreign \cup {p}
         /\ objects' = [objects EXCEPT ![numbers[p][n]].inbox = <<>>]
  BY DEF RecvUnixSocketFd
<1>2. PICK o \in 1 .. Len(objects) : o = numbers[p][n]
  BY OwnedFacts DEF OwnedEnds
<1>3. objects[o] \in ObjectTypes /\ objects[o].inbox # <<>>
  BY <1>1, <1>2, TableFacts DEF SocketsInv
<1>4. PICK x \in ObjectTypes : x = [objects[o] EXCEPT !.inbox = <<>>]
  <2>1. <<>> \in Seq(PassedMessages)
    OBVIOUS
  <2> QED  BY <1>3, <2>1 DEF ObjectTypes
<1>5. PICK m \in PassedMessages : m = Head(objects[o].inbox)
  <2>1. objects[o].inbox \in Seq(PassedMessages)
    BY <1>3 DEF ObjectTypes
  <2> QED  BY <1>3, <2>1, HeadTailProperties
<1> DEFINE got == Installed(p, m)
           N == First(p, Len(got))
           closed == IF Acceptable(p, m) /\ Truncated(p, m) THEN N ELSE {}
           f == Numbered(p, got)
<1>6. /\ numbers' = [f EXCEPT ![p] = [k \in Slots |-> IF k \in closed THEN Vacant ELSE f[p][k]]]
      /\ owned' = [owned EXCEPT ![p] = IF Acceptable(p, m) /\ closed = {}
                                       THEN owned[p] \cup {Min(N)} ELSE owned[p]]
      /\ stray' = [stray EXCEPT ![p] = IF Acceptable(p, m) THEN stray[p] ELSE stray[p] \cup N]
      /\ foreign' = IF m.zero /\ Len(m.files) = 1 THEN foreign ELSE foreign \cup {p}
  BY <1>1, <1>2, <1>5
<1>7. /\ got \in Seq(Nat) /\ Len(got) \in Nat /\ Len(got) <= Len(m.files)
      /\ Len(got) # 0 => Unused(p) # {}
      /\ \A i \in 1 .. Len(got) : i \in 1 .. Len(m.files) /\ got[i] = m.files[i]
  BY InstalledIs
<1>8. /\ Acceptable(p, m) <=> (m.zero /\ Len(got) = 1)
      /\ Truncated(p, m) <=> Len(got) < Len(m.files)
  BY DEF Acceptable, Truncated
<1>9. /\ calling[p] = NotCalling /\ UNCHANGED calling /\ Len(objects) \in Nat
      /\ TablesInv /\ owned \in [Peers -> SUBSET Slots] /\ stray \in [Peers -> SUBSET Slots]
      /\ Vacant = 0 /\ m.zero \in BOOLEAN /\ Len(m.files) \in Nat
  BY TableFacts, LenProperties DEF RecvUnixSocketFd, SocketsInv, TablesInv, PassedMessages
<1>10. /\ InUse(p) = owned[p] \cup stray[p] /\ owned[p] \cap stray[p] = {}
       /\ (stray[p] # {} => p \in foreign) /\ InUse(p) \cap Unused(p) = {}
       /\ Vacant \notin Slots /\ NotCalling.fd = Vacant
       /\ owned[p] \subseteq Slots /\ stray[p] \subseteq Slots
  BY <1>9, OwnedFacts
<1>11. /\ f \in [Peers -> [Slots -> Nat]] /\ N \subseteq Unused(p)
       /\ \A k \in N : Rank(p, k) \in 1 .. Len(got)
       /\ \A q \in Peers : \A k \in Slots :
            f[q][k] = IF q = p /\ k \in N THEN got[Rank(p, k)] ELSE numbers[q][k]
  BY <1>7, <1>9, NumberedIs
<1>12. /\ x.kind = objects[o].kind /\ x.name = objects[o].name
       /\ x.waiting = objects[o].waiting /\ x.inbox = <<>>
  BY <1>3, <1>4 DEF ObjectTypes
<1>13. /\ objects' \in Seq(ObjectTypes) /\ Len(objects') = Len(objects)
       /\ \A l \in 1 .. Len(objects) : objects'[l] = IF l = o THEN x ELSE objects[l]
  <2>1. objects' = [objects EXCEPT ![o] = x]
    BY <1>1, <1>2, <1>4
  <2> QED  BY <1>9, <2>1, ObjectChanged
<1>14. \A i \in 1 .. Len(got) : got[i] \in 1 .. Len(objects) /\ objects[got[i]].kind = "file"
  <2>1. \A i \in 1 .. Len(m.files) :
           m.files[i] \in 1 .. Len(objects) /\ objects[m.files[i]].kind = "file"
    BY <1>3, <1>5 DEF SocketsInv, ObjectsInv
  <2> HIDE DEF got
  <2> QED  BY <1>7, <2>1
<1>15. CallInv(p)'
  BY <1>9 DEF CallInv
<1>16. N \subseteq Slots
  BY <1>11, UnusedFinite
<1>17. Acceptable(p, m) => Min(N) \in N /\ N = {Min(N)}
  <2> SUFFICES ASSUME Acceptable(p, m) PROVE Min(N) \in N /\ N = {Min(N)}
    OBVIOUS
  <2>1. Len(got) = 1 /\ Unused(p) # {}
    <3> HIDE DEF got
    <3>1. Len(got) = 1
      BY <1>8
    <3> QED  BY <1>7, <3>1
  <2>2. PICK k \in Nat : k = Min(Unused(p)) /\ k \in Unused(p)
    BY <2>1, FirstOne, UnusedFinite
  <2>3. N = {k}
    BY <2>1, <2>2, FirstOne
  <2>4. Min({k}) = k
    BY <2>2 DEF Min
  <2> QED  BY <2>3, <2>4
<1> HIDE DEF got, N, f
\* The number that is acceptable is closed, for the message had more.
<1>18. CASE Acceptable(p, m) /\ Truncated(p, m)
  <2>1. closed = N
    BY <1>18
  <2>2. \A q \in Peers : \A k \in Slots : numbers'[q][k] = numbers[q][k]
    <3>1. \A k \in N : numbers[p][k] = Vacant
      BY <1>9, <1>11, <1>16, TableFacts
    <3> QED  BY <1>6, <1>11, <2>1, <3>1
  <2>3. numbers' \in [Peers -> [Slots -> Nat]]
    BY <1>6, <1>9, <1>11
  <2>4. numbers' = numbers
    <3>1. \A q \in Peers : numbers'[q] = numbers[q]
      <4> SUFFICES ASSUME NEW q \in Peers PROVE numbers'[q] = numbers[q]
        OBVIOUS
      <4>1. numbers'[q] \in [Slots -> Nat] /\ numbers[q] \in [Slots -> 0 .. Len(objects)]
        BY <1>9, <2>3 DEF TablesInv
      <4> QED  BY <2>2, <4>1
    <3>2. numbers \in [Peers -> [Slots -> 0 .. Len(objects)]]
      BY <1>9 DEF TablesInv
    <3> QED  BY <2>3, <3>1, <3>2
  <2>5. owned' = owned /\ stray' = stray /\ foreign \subseteq foreign'
    BY <1>6, <1>9, <1>17, <1>18, <2>1
  <2>6. TablesInv'
    BY <1>9, <1>13, <2>4, <2>5 DEF TablesInv
  <2>7. \A k \in 1 .. Len(objects) :
        /\ objects'[k].kind = objects[k].kind /\ objects'[k].name = objects[k].name
        /\ objects'[k].waiting = objects[k].waiting
        /\ objects'[k].inbox \in {<<>>, objects[k].inbox}
    BY <1>12, <1>13
  <2>8. HeldOnce' /\ WaitingInv'
    <3>1. Len(objects) <= Len(objects')
      BY <1>9, <1>13
    <3>2. \A q \in Peers : \A k \in Slots :
            numbers'[q][k] = numbers[q][k] \/ numbers'[q][k] = Vacant
      BY <2>4
    <3>3. \A k \in 1 .. Len(objects) :
             /\ objects'[k].kind = "file" <=> objects[k].kind = "file"
             /\ objects[k].kind = "end" => objects'[k].kind = "end"
      BY <2>7
    <3>4. \A l \in 1 .. Len(objects') :
             \/ objects'[l].waiting = <<>>
             \/ l <= Len(objects) /\ objects'[l].waiting = objects[l].waiting
      BY <1>9, <1>13, <2>7
    <3> QED  BY <2>6, <3>1, <3>2, <3>3, <3>4, NothingGot
  <2>9. NamesInv'
    <3>1. \A k \in 1 .. Len(objects') : k \in 1 .. Len(objects)
             /\ objects'[k].name = objects[k].name /\ (Held(k)' => Held(k))
      BY <1>13, <2>4, <2>7 DEF Held
    <3> QED  BY <1>9, <2>6, <3>1, NamesKept DEF SocketsInv
  <2>10. ObjectsInv'
    <3>1. \A k \in 1 .. Len(objects') :
             /\ objects'[k].kind = "listener" => objects'[k].name # NoName
             /\ objects'[k].kind \in {"end", "file"} => objects'[k].name = NoName
             /\ \/ objects'[k].inbox = <<>>
                \/ k <= Len(objects) /\ objects'[k].inbox = objects[k].inbox
      BY <1>9, <1>13, <2>7 DEF SocketsInv, ObjectsInv
    <3>2. Len(objects) <= Len(objects')
      BY <1>9, <1>13
    <3>3. \A k \in 1 .. Len(objects) : objects[k].kind = "file" => objects'[k].kind = "file"
      BY <2>7
    <3> QED  BY <1>9, <2>6, <3>1, <3>2, <3>3, ObjectsKept DEF SocketsInv
  <2>11. \A q \in Peers \ {p} : CallInv(q)'
    <3>1. \A k \in 1 .. Len(objects) :
             \/ /\ objects'[k].kind = objects[k].kind
                /\ objects[k].name # NoName => objects'[k].name # NoName
             \/ objects[k].kind # "socket"
             \/ k = numbers[p][n] /\ objects[k].kind # "file"
      BY <2>7
    <3>2. n \in Slots /\ \A q \in Peers \ {p} : numbers'[q] = numbers[q] /\ calling'[q] = calling[q]
      BY <1>9, <1>10, <2>4 DEF OwnedEnds
    <3> QED  BY <3>1, <3>2, OtherCallsKept
  <2>12. NumbersOwned'
    BY <1>9, <2>4, <2>5, OwnedAsBefore DEF InUse
  <2> QED  BY <1>15, <2>6, <2>8, <2>9, <2>10, <2>11, <2>12 DEF SocketsInv
\* The numbers stay, and are owned or stray.
<1>19. CASE ~(Acceptable(p, m) /\ Truncated(p, m))
  <2>1. closed = {}
    BY <1>19
  <2>2. numbers' = f
    BY <1>6, <1>11, <2>1
  <2>3. numbers' = Numbered(p, got)
    BY <2>2 DEF f
  <2>4. /\ owned'[p] = IF Acceptable(p, m) THEN owned[p] \cup N ELSE owned[p]
        /\ stray'[p] = IF Acceptable(p, m) THEN stray[p] ELSE stray[p] \cup N
        /\ \A q \in Peers \ {p} : owned'[q] = owned[q] /\ stray'[q] = stray[q]
        /\ owned' \in [Peers -> SUBSET Slots] /\ stray' \in [Peers -> SUBSET Slots]
    BY <1>6, <1>9, <1>10, <1>16, <1>17, <2>1
  <2>5. x.waiting \in {<<>>, objects[o].waiting} /\ x.inbox \in {<<>>, objects[o].inbox}
    BY <1>12
  <2>6. \A i \in 1 .. Len(got) :
             /\ got[i] \in 1 .. Len(objects)
             /\ \/ objects[got[i]].kind = "file"
                \/ /\ objects[got[i]].kind = "end" /\ ~Held(got[i]) /\ Len(got) = 1
                   /\ \A l \in 1 .. Len(objects) : objects'[l].waiting # <<got[i]>>
    BY <1>14
  <2>7. UNCHANGED calling
    BY <1>9
  <2>8. /\ TablesInv' /\ ObjectsInv' /\ WaitingInv' /\ HeldOnce' /\ NamesInv'
        /\ InUse(p)' = InUse(p) \cup N
        /\ \A q \in Peers \ {p} : numbers'[q] = numbers[q] /\ CallInv(q)'
    <3>1. owned' \in [Peers -> SUBSET Slots] /\ stray' \in [Peers -> SUBSET Slots]
      BY <2>4
    <3>2. got \in Seq(Nat) /\ x.kind = objects[o].kind /\ x.name = objects[o].name
      BY <1>7, <1>12
    <3>3. LET K == First(p, Len(got))
          IN  /\ TablesInv' /\ ObjectsInv' /\ WaitingInv' /\ HeldOnce' /\ NamesInv'
              /\ InUse(p)' = InUse(p) \cup K
              /\ \A q \in Peers \ {p} : numbers'[q] = numbers[q] /\ CallInv(q)'
      BY <1>13, <2>3, <2>5, <2>6, <2>7, <3>1, <3>2, TakeKept
    <3> QED  BY <3>3 DEF N
  <2>9. ~Acceptable(p, m) /\ N # {} => p \in foreign'
    <3> SUFFICES ASSUME ~Acceptable(p, m), N # {}, m.zero, Len(m.files) = 1 PROVE FALSE
      BY <1>6
    <3>1. PICK k : k \in N
      OBVIOUS
    <3>2. Len(got) >= 1
      BY <1>7, <1>11, <3>1
    <3>3. Len(got) \in Nat /\ Len(got) <= Len(m.files)
      BY <1>7
    <3> DEFINE a == Len(got)
               b == Len(m.files)
    <3>4. a \in Nat /\ a <= b /\ a >= 1 /\ b = 1
      BY <3>2, <3>3
    <3> HIDE DEF a, b
    <3>5. a = 1
      BY <3>4
    <3> QED  BY <1>8, <3>5 DEF a
  <2>10. NumbersOwned'
    <3>1. foreign \subseteq foreign' /\ calling'[p].fd = Vacant
      BY <1>6, <1>9, <1>10
    <3>2. LET own == owned'[p] \cup ({calling'[p].fd} \ {Vacant})
          IN  /\ InUse(p)' = own \cup stray'[p] /\ own \cap stray'[p] = {}
              /\ calling'[p].fd \notin owned'[p]
              /\ stray'[p] # {} => p \in foreign'
      BY <1>10, <1>11, <1>16, <2>4, <2>8, <2>9, <3>1
    <3> QED  BY <1>9, <2>4, <2>8, <3>1, <3>2, OwnedKept DEF SocketsInv
  <2> QED  BY <1>15, <2>8, <2>10 DEF SocketsInv
<1> QED  BY <1>18, <1>19

LEMMA ConnectSocketInv ==
    ASSUME SocketsInv, NEW p \in Peers, ConnectSocket(p)
    PROVE  SocketsInv'
<1> DEFINE c == calling[p]
           peer == Len(objects) + 1
<1>1. /\ c.step = "connect" /\ EndCall(p) /\ UNCHANGED <<numbers, stray, foreign>>
      /\ c # NotCalling /\ TablesInv /\ Len(objects) \in Nat /\ objects \in Seq(ObjectTypes)
      /\ WaitingInv /\ ObjectsInv
  BY TableFacts DEF ConnectSocket, SocketsInv, NotCalling, TablesInv
<1>2. PICK me \in 1 .. Len(objects) : me = numbers[p][c.fd]
  BY <1>1, OwnedFacts
<1>3. c.fd \in Slots /\ objects[me].kind = "socket"
  BY <1>1, <1>2, OwnedFacts
<1>4. PICK l \in Listeners :
         /\ objects[l].waiting = <<>>
         /\ objects' = Append([objects EXCEPT ![me] = Object("end", peer),
                                              ![l].waiting = <<peer>>],
                              Object("end", me))
  BY <1>2 DEF ConnectSocket
<1>5. l \in 1 .. Len(objects) /\ objects[l].kind = "listener" /\ l # me
  BY <1>3 DEF Listeners
<1>6. PICK x \in ObjectTypes : x = [objects[l] EXCEPT !.waiting = <<peer>>]
  <2>1. objects[l] \in ObjectTypes /\ <<peer>> \in Seq(Nat)
    BY <1>1, <1>5, TableFacts
  <2> QED  BY <2>1 DEF ObjectTypes
<1>7. /\ x.kind = "listener" /\ x.name = objects[l].name /\ x.waiting = <<peer>>
      /\ x.inbox = objects[l].inbox
  <2>1. objects[l] \in ObjectTypes
    BY <1>1, <1>5, TableFacts
  <2> QED  BY <1>5, <1>6, <2>1 DEF ObjectTypes
<1>8. PICK y \in ObjectTypes :
        /\ y = Object("end", peer) /\ y.kind = "end" /\ y.name = NoName
        /\ y.waiting = <<>> /\ y.inbox = <<>>
  <2>1. peer \in Nat /\ "end" \in Kinds
    BY <1>1 DEF Kinds
  <2> QED  BY <2>1, ObjectMade
<1>9. PICK z \in ObjectTypes :
        /\ z = Object("end", me) /\ z.kind = "end" /\ z.name = NoName
        /\ z.waiting = <<>> /\ z.inbox = <<>>
  <2>1. me \in Nat /\ "end" \in Kinds
    BY <1>1 DEF Kinds
  <2> QED  BY <2>1, ObjectMade
<1> HIDE DEF c
<1>10. /\ objects' \in Seq(ObjectTypes) /\ Len(objects') = Len(objects) + 1
       /\ objects'[peer] = z
       /\ \A k \in 1 .. Len(objects) :
            objects'[k] = IF k = l THEN x ELSE IF k = me THEN y ELSE objects[k]
  <2> DEFINE f == [objects EXCEPT ![me] = y]
             g == [f EXCEPT ![l] = x]
  <2>1. /\ f \in Seq(ObjectTypes) /\ Len(f) = Len(objects)
        /\ \A k \in 1 .. Len(objects) : f[k] = IF k = me THEN y ELSE objects[k]
    BY <1>1, ExceptSeq
  <2>2. objects' = Append([f EXCEPT ![l].waiting = <<peer>>], z)
    BY <1>4, <1>8, <1>9
  <2> HIDE DEF f
  <2>3. f[l] = objects[l]
    BY <1>5, <2>1
  <2>4. objects' = Append(g, z)
    BY <1>6, <2>2, <2>3
  <2>5. /\ g \in Seq(ObjectTypes) /\ Len(g) = Len(objects)
        /\ \A k \in 1 .. Len(objects) : g[k] = IF k = l THEN x ELSE f[k]
    BY <1>5, <2>1, ExceptSeq
  <2> HIDE DEF g
  <2>6. /\ Append(g, z) \in Seq(ObjectTypes) /\ Len(Append(g, z)) = Len(g) + 1
        /\ \A k \in 1 .. Len(g) : Append(g, z)[k] = g[k]
        /\ Append(g, z)[Len(g) + 1] = z
    BY <2>5, AppendProperties
  <2> QED  BY <2>1, <2>4, <2>5, <2>6
<1>11. /\ owned' \in [Peers -> SUBSET Slots] /\ calling' \in [Peers -> CallTypes]
       /\ \A q \in Peers \ {p} : owned'[q] = owned[q] /\ calling'[q] = calling[q]
       /\ NumbersOwned' /\ CallInv(p)'
  BY <1>1, EndedCall DEF c
<1>12. /\ \A q \in Peers : \A n \in Slots : numbers[q][n] \in 0 .. Len(objects)
       /\ \A k : Held(k) <=> \E q \in Peers : \E n \in Slots : numbers[q][n] = k
       /\ \A k : Held(k)' <=> Held(k)
  BY <1>1, TableFacts DEF Held
<1>13. TablesInv'
  <2>1. numbers' = numbers /\ stray' = stray
    BY <1>1
  <2>2. numbers \in [Peers -> [Slots -> 0 .. Len(objects')]]
    <3>1. 0 .. Len(objects) \subseteq 0 .. Len(objects')
      BY <1>1, <1>10
    <3>2. \A q \in Peers : numbers[q] \in [Slots -> 0 .. Len(objects')]
      BY <1>1, <3>1 DEF TablesInv
    <3> QED  BY <1>1, <3>2 DEF TablesInv
  <2> QED  BY <1>1, <1>10, <1>11, <2>1, <2>2 DEF TablesInv
<1>14. \A k \in 1 .. Len(objects') :
         \/ k = peer
         \/ k \in 1 .. Len(objects)
  BY <1>1, <1>10
<1>15. /\ \A k \in 1 .. Len(objects) : k # l /\ k # me => objects'[k] = objects[k]
       /\ objects'[l] = x /\ objects'[me] = y /\ peer \in 1 .. Len(objects')
       /\ \A k \in 1 .. Len(objects) : k \in 1 .. Len(objects') /\ k # peer
  BY <1>1, <1>5, <1>10
<1> HIDE DEF peer
<1>16. HeldOnce'
  <2> SUFFICES ASSUME NEW q \in Peers, NEW r \in Peers, NEW n \in Slots, NEW m \in Slots,
                      numbers[q][n] # Vacant, objects'[numbers[q][n]].kind # "file",
                      numbers[q][n] = numbers[r][m]
               PROVE  q = r /\ n = m
    BY <1>1 DEF HeldOnce
  <2>1. PICK k \in 1 .. Len(objects) : k = numbers[q][n]
    BY <1>12 DEF Vacant
  <2>2. objects[k].kind # "file"
    BY <1>3, <1>5, <1>15, <2>1
  <2> QED  BY <2>1, <2>2 DEF SocketsInv, HeldOnce
<1>17. ~Held(peer)
  BY <1>1, <1>12 DEF peer
<1>18. \A k \in 1 .. Len(objects) : objects[k].waiting # <<peer>>
  <2> SUFFICES ASSUME NEW k \in 1 .. Len(objects), objects[k].waiting = <<peer>> PROVE FALSE
    OBVIOUS
  <2>1. <<peer>> # <<>>
    OBVIOUS
  <2>2. PICK w \in 1 .. Len(objects) : objects[k].waiting = <<w>>
    BY <1>1, <2>1 DEF WaitingInv
  <2>3. w = peer
    BY <2>2
  <2> QED  BY <1>15, <2>3
<1>19. WaitingInv'
  <2> SUFFICES ASSUME NEW k \in 1 .. Len(objects'), objects'[k].waiting # <<>>
               PROVE  /\ \E w \in 1 .. Len(objects') :
                            /\ objects'[k].waiting = <<w>> /\ objects'[w].kind = "end"
                            /\ ~Held(w)
                      /\ \A j \in 1 .. Len(objects') :
                           objects'[j].waiting = objects'[k].waiting => j = k
    BY <1>12 DEF WaitingInv
  <2>1. k \in 1 .. Len(objects) /\ k # me
    BY <1>8, <1>9, <1>10, <1>14, <1>15
  <2>2. CASE k = l
    <3>1. objects'[k].waiting = <<peer>> /\ objects'[peer].kind = "end"
      BY <1>7, <1>9, <1>10, <1>15, <2>2
    <3>2. ASSUME NEW j \in 1 .. Len(objects'), objects'[j].waiting = <<peer>>
          PROVE  j = l
      <4>1. j \in 1 .. Len(objects) /\ j # me
        <5>1. objects'[j].waiting # <<>>
          BY <3>2
        <5> QED  BY <1>8, <1>9, <1>10, <1>14, <1>15, <5>1
      <4> QED  BY <1>15, <1>18, <3>2, <4>1
    <3> QED  BY <1>15, <1>17, <2>2, <3>1, <3>2
  <2>3. CASE k # l
    <3>1. objects'[k] = objects[k]
      BY <1>15, <2>1, <2>3
    <3>2. PICK w \in 1 .. Len(objects) :
             objects[k].waiting = <<w>> /\ objects[w].kind = "end" /\ ~Held(w)
      BY <1>1, <2>1, <3>1 DEF WaitingInv
    <3>3. w \in 1 .. Len(objects') /\ objects'[w].kind = "end"
      BY <1>3, <1>5, <1>15, <3>2
    <3>4. ASSUME NEW j \in 1 .. Len(objects'), objects'[j].waiting = objects'[k].waiting
          PROVE  j = k
      <4>1. objects'[j].waiting = <<w>> /\ <<w>> # <<>> /\ <<w>> # <<peer>>
        <5>1. w # peer
          BY <1>15
        <5> QED  BY <3>1, <3>2, <3>4, <5>1
      <4>2. j \in 1 .. Len(objects) /\ j # me /\ j # l
        BY <1>7, <1>8, <1>9, <1>10, <1>14, <1>15, <4>1
      <4>3. objects[j].waiting = objects[k].waiting
        BY <1>15, <3>1, <3>4, <4>2
      <4> QED  BY <1>1, <2>1, <3>1, <4>2, <4>3 DEF WaitingInv
    <3> QED  BY <3>1, <3>2, <3>3, <3>4
  <2> QED  BY <2>2, <2>3
<1>20. NamesInv'
  <2>1. ASSUME NEW k \in 1 .. Len(objects'), objects'[k].name # NoName
        PROVE  /\ k \in 1 .. Len(objects) /\ objects'[k].name = objects[k].name
               /\ Held(k)' => Held(k)
    <3>1. k \in 1 .. Len(objects) /\ k # me
      BY <1>8, <1>9, <1>10, <1>14, <1>15, <2>1
    <3> QED  BY <1>7, <1>12, <1>15, <3>1
  <2> QED  BY <1>1, <1>13, <2>1, NamesKept DEF SocketsInv
<1>21. ObjectsInv'
  <2>1. ASSUME NEW k \in 1 .. Len(objects')
        PROVE  /\ objects'[k].kind = "listener" => objects'[k].name # NoName
               /\ objects'[k].kind \in {"end", "file"} => objects'[k].name = NoName
               /\ \/ objects'[k].inbox = <<>>
                  \/ k <= Len(objects) /\ objects'[k].inbox = objects[k].inbox
    <3>1. CASE k = peer \/ k = me
      BY <1>8, <1>9, <1>10, <1>15, <3>1
    <3>2. CASE k = l
      BY <1>1, <1>5, <1>7, <1>15, <3>2 DEF ObjectsInv
    <3>3. CASE k # peer /\ k # me /\ k # l
      BY <1>1, <1>14, <1>15, <3>3 DEF ObjectsInv
    <3> QED  BY <3>1, <3>2, <3>3
  <2>2. Len(objects) <= Len(objects')
    BY <1>1, <1>10
  <2>3. \A k \in 1 .. Len(objects) : objects[k].kind = "file" => objects'[k].kind = "file"
    BY <1>3, <1>5, <1>15
  <2> QED  BY <1>1, <1>13, <2>1, <2>2, <2>3, ObjectsKept
<1>22. \A q \in Peers \ {p} : CallInv(q)'
  <2>1. PICK n \in Slots : n = c.fd
    BY <1>3
  <2>2. \A k \in 1 .. Len(objects) :
             \/ /\ objects'[k].kind = objects[k].kind
                /\ objects[k].name # NoName => objects'[k].name # NoName
             \/ objects[k].kind # "socket"
             \/ k = numbers[p][n] /\ objects[k].kind # "file"
    BY <1>2, <1>3, <1>5, <1>15, <2>1
  <2>3. \A q \in Peers \ {p} : numbers'[q] = numbers[q] /\ calling'[q] = calling[q]
    BY <1>1, <1>11
  <2> QED  BY <2>2, <2>3, OtherCallsKept
<1> QED  BY <1>11, <1>13, <1>16, <1>19, <1>20, <1>21, <1>22 DEF SocketsInv

LEMMA SocketsNextInv ==
    ASSUME SocketsInv, SocketsNext
    PROVE  SocketsInv'
<1>1. PICK p \in Peers :
        \/ OpenServer(p) \/ BindAgain(p) \/ BindSocket(p) \/ ListenSocket(p)
        \/ OpenClient(p) \/ ConnectSocket(p) \/ AcceptSocket(p) \/ CallFails(p)
        \/ CreatePair(p) \/ OpenPassedFile(p) \/ CloseOwned(p)
        \/ SendUnixSocketFd(p) \/ SendOther(p) \/ RecvUnixSocketFd(p)
  BY DEF SocketsNext
<1>2. CASE OpenServer(p) \/ OpenClient(p)
  <2>1. PICK step \in {"bind", "connect"}, name \in 0 .. Path, given \in BOOLEAN :
          OpenSocket(p, step, name, given)
    BY <1>2 DEF OpenServer, OpenClient
  <2> QED  BY <2>1, OpenSocketInv
<1>3. CASE BindAgain(p) \/ BindSocket(p) \/ ListenSocket(p)
  BY <1>3, BindAgainInv, BindSocketInv, ListenSocketInv
<1>4. CASE ConnectSocket(p) \/ AcceptSocket(p) \/ CallFails(p)
  BY <1>4, ConnectSocketInv, AcceptSocketInv, CallFailsInv
<1>5. CASE CreatePair(p) \/ OpenPassedFile(p) \/ CloseOwned(p)
  BY <1>5, CreatePairInv, OpenPassedFileInv, CloseOwnedInv
<1>6. CASE SendUnixSocketFd(p) \/ SendOther(p) \/ RecvUnixSocketFd(p)
  BY <1>6, SendUnixSocketFdInv, SendOtherInv, RecvUnixSocketFdInv
<1> QED  BY <1>1, <1>2, <1>3, <1>4, <1>5, <1>6

\* A server that listens has a name that no other has, and an end is held once.
LEMMA SocketsAreKept == SocketsInv => SocketsKept
<1> SUFFICES ASSUME SocketsInv PROVE SocketsKept
  OBVIOUS
<1>1. \A l, k \in Listeners : objects[l].name = objects[k].name => l = k
  BY DEF SocketsInv, Listeners, ObjectsInv, NamesInv
<1>2. \A p, q \in Peers : \A n \in OwnedEnds(p), m \in OwnedEnds(q) :
            numbers[p][n] = numbers[q][m] => p = q /\ n = m
  <2> SUFFICES ASSUME NEW p \in Peers, NEW q \in Peers, NEW n \in OwnedEnds(p),
                      NEW m \in OwnedEnds(q), numbers[p][n] = numbers[q][m]
               PROVE  p = q /\ n = m
    OBVIOUS
  <2>1. n \in Slots /\ m \in Slots /\ numbers[p][n] # Vacant
        /\ objects[numbers[p][n]].kind = "end"
    BY OwnedFacts DEF OwnedEnds, Vacant
  <2> QED  BY <2>1 DEF SocketsInv, HeldOnce
<1> QED  BY <1>1, <1>2 DEF SocketsInv, SocketsKept, NamesDistinct

LEMMA SocketsAlways == SocketsSpec => []SocketsInv
<1> QED  BY SocketsInitInv, SocketsNextInv, SocketsStutterInv, PTL DEF SocketsSpec

\* Whatever fails, and at whichever step, each number of a process belongs to one socket,
\* call or caller, or was lost for a message that the library does not send; no two servers
\* have a name, and no two descriptors are one connection (unixsocket.c,
\* ert_createUnixSocket(), ert_recvUnixSocketFd()).
THEOREM NumbersAndNames == SocketsSpec => []SocketsKept
<1> QED  BY SocketsAlways, SocketsAreKept, PTL

=============================================================================
