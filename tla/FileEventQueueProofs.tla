------------------------ MODULE FileEventQueueProofs ------------------------
(***************************************************************************)
(* Proofs about FileEventQueue, for any finite set of activities, any size *)
(* of the queue and any nesting of polls.  Inv is inductive: each action   *)
(* has a lemma, and NextInv puts them together.                            *)
(***************************************************************************)
EXTENDS FileEventQueue, SequenceTheorems, FiniteSetTheorems, TLAPS

----------------------------------------------------------------------------
\* Counting

\* How the number of elements changes with one of them.
LEMMA Counted ==
    ASSUME NEW A \in SUBSET Activities
    PROVE  /\ IsFiniteSet(A) /\ Cardinality(A) \in Nat
           /\ Cardinality(A) = 0 <=> A = {}
           /\ \A x \in Activities \ A : Cardinality(A \cup {x}) = Cardinality(A) + 1
           /\ \A x \in A : Cardinality(A \ {x}) = Cardinality(A) - 1
<1>1. IsFiniteSet(A)
  BY ActivitiesAssumption, FS_Subset
<1> QED  BY <1>1, FS_CardinalityType, FS_EmptySet, FS_AddElement, FS_RemoveElement

\* The events that epoll returns are of as many activities.
LEMMA EventsCounted ==
    ASSUME NEW n \in Nat, NEW q \in [1 .. n -> Activities], IsInjective(q)
    PROVE  Cardinality({q[i] : i \in 1 .. n}) = n
<1> DEFINE R == {q[i] : i \in 1 .. n}
<1>1. q \in Bijection(1 .. n, R)
  BY DEF IsInjective, Bijection, Injection, Surjection
<1>2. ExistsBijection(1 .. n, R)
  BY <1>1 DEF ExistsBijection
<1> QED  BY <1>2, FS_CountingElements

\* What is left of A without B.
LEMMA Left ==
    ASSUME NEW A \in SUBSET Activities, NEW B \in SUBSET A
    PROVE  /\ Cardinality(A \ B) = Cardinality(A) - Cardinality(B)
           /\ Cardinality(B) <= Cardinality(A)
<1>1. IsFiniteSet(A) /\ IsFiniteSet(B) /\ A \cap B = B
  BY Counted
<1> QED  BY ZenonT(40), <1>1, FS_Difference, FS_Subset

\* The types that the lemmas need.
LEMMA Typed ==
    TypeOK => /\ DOMAIN queue = 1 .. Len(queue) /\ Len(queue) \in Nat
              /\ Waiting \in SUBSET Activities /\ Pending \in SUBSET Activities
              /\ \A a \in Activities : mPending[a] \in Nat
              /\ QueueSize \in Nat \ {0} /\ MaxPolls \in Nat \ {0}
BY LenProperties, BoundsAssumption DEF TypeOK, Waiting, Pending

\* Nothing is pending when the queue is empty.
LEMMA EmptyQueue ==
    ASSUME TypeOK, QueueExact, queue = <<>>
    PROVE  \A a \in Activities : mPending[a] = 0
BY Typed DEF QueueExact

----------------------------------------------------------------------------
\* The queue and the files

LEMMA CreateQueueInv == Inv /\ CreateQueue => Inv'
<1> SUFFICES ASSUME Inv, CreateQueue PROVE Inv'
  OBVIOUS
<1> USE DEF Inv
<1>a. ~ open /\ ~ aborted /\ attached = {} /\ queue = <<>> /\ closedPending = 0
  BY DEF CreateQueue, PlaceInv
<1>b. \A a \in Activities : mArmed[a] = {} /\ mPending[a] = 0
  BY <1>a DEF DetachedIdle
<1>c. UNCHANGED <<attached, mArmed, mPending, interest, condition, polls, at,
        closedPending, aborted>>
  BY DEF CreateQueue, fileVars
<1>1. TypeOK'
  BY <1>c, BoundsAssumption DEF CreateQueue, TypeOK
<1>2. QueueExact'
  BY <1>a, <1>b, <1>c DEF CreateQueue, QueueExact
<1>3. CountsKept'
  <2>1. Waiting' = {} /\ Pending' = {}
    BY <1>b, <1>c DEF Waiting, Pending
  <2> QED  BY <1>a, <1>c, <2>1, Counted DEF CreateQueue, CountsKept
<1>4. ArmedWatched' /\ AbortCauses' /\ DetachedIdle' /\ PendingArmed'
  BY <1>a, <1>c DEF ArmedWatched, AbortCauses, DetachedIdle, PendingArmed
<1>5. PlaceInv'
  BY <1>c DEF CreateQueue, PlaceInv
<1> QED  BY <1>1, <1>2, <1>3, <1>4, <1>5

LEMMA CloseQueueInv == Inv /\ CloseQueue => Inv'
<1> SUFFICES ASSUME Inv, CloseQueue PROVE Inv'
  OBVIOUS
<1> USE DEF Inv
<1>a. open /\ ~ aborted /\ at = "user" /\ polls = 0 /\ attached = {}
  BY DEF CloseQueue, InUser
<1>b. \A a \in Activities : mArmed[a] = {} /\ mPending[a] = 0
  BY <1>a DEF DetachedIdle
<1>c. UNCHANGED <<mNumArmed, mNumPending, attached, mArmed, mPending, interest,
        condition, polls, at, closedPending>>
  BY DEF CloseQueue, fileVars, countVars
<1>d. mNumArmed + closedPending = 0 /\ mNumPending = 0
  <2>1. Waiting = {} /\ Pending = {}
    BY <1>b DEF Waiting, Pending
  <2> QED  BY <1>a, <2>1, Counted DEF CountsKept
<1>e. aborted' <=> closedPending > 0
  <2>1. mNumPending = 0 /\ (mNumArmed = 0 <=> closedPending = 0)
    BY <1>d DEF TypeOK
  <2>2. closedPending > 0 <=> closedPending # 0
    BY DEF TypeOK
  <2> QED  BY <2>1, <2>2 DEF CloseQueue, Ensure
<1>1. TypeOK'
  <2>1. aborted' \in BOOLEAN
    BY DEF CloseQueue, Ensure
  <2>2. open' \in BOOLEAN
    BY DEF CloseQueue
  <2>3. queue' \in Seq(Entries) /\ Len(queue') <= QueueSize
    BY BoundsAssumption DEF CloseQueue
  <2> QED  BY <1>c, <2>1, <2>2, <2>3 DEF TypeOK
<1>2. QueueExact'
  BY <1>b, <1>c DEF CloseQueue, QueueExact
<1>3. CountsKept'
  BY <1>a, <1>c DEF CountsKept, Waiting, Pending
<1>4. ArmedWatched' /\ AbortCauses' /\ DetachedIdle'
  BY <1>c, <1>e DEF ArmedWatched, AbortCauses, DetachedIdle
<1>5. PendingArmed' /\ PlaceInv'
  BY <1>a, <1>b, <1>c, <1>e DEF CloseQueue, PendingArmed, PlaceInv, TypeOK
<1> QED  BY <1>1, <1>2, <1>3, <1>4, <1>5

LEMMA FileChangesInv ==
    ASSUME Inv, NEW a \in Activities, FileChanges(a)
    PROVE  Inv'
<1> USE DEF Inv
<1>a. ~ aborted /\ UNCHANGED <<open, queue, mNumArmed, mNumPending, attached,
        mArmed, mPending, interest, polls, at, closedPending, aborted>>
  BY DEF FileChanges, countVars
<1>1. TypeOK'
  <2>1. condition' \in [Activities -> SUBSET {"hup", "in", "out"}]
    <3>1. PICK C \in SUBSET {"hup", "in", "out"} :
              condition' = [condition EXCEPT ![a] = C]
      <4>1. condition[a] \in SUBSET {"hup", "in", "out"}
        BY DEF TypeOK
      <4> QED  BY <4>1 DEF FileChanges
    <3> QED  BY <3>1 DEF TypeOK
  <2> QED  BY <1>a, <2>1 DEF TypeOK
<1>2. QueueExact' /\ ArmedWatched' /\ AbortCauses' /\ CountsKept'
  BY <1>a DEF QueueExact, ArmedWatched, AbortCauses, CountsKept, Waiting, Pending
<1>3. DetachedIdle' /\ PendingArmed' /\ PlaceInv'
  BY <1>a DEF DetachedIdle, PendingArmed, PlaceInv
<1> QED  BY <1>1, <1>2, <1>3

----------------------------------------------------------------------------
\* Activities

LEMMA CreateActivityInv ==
    ASSUME Inv, NEW a \in Activities, CreateActivity(a)
    PROVE  Inv'
<1> USE DEF Inv
<1>a. open /\ ~ aborted /\ at = "user" /\ a \notin attached
  BY DEF CreateActivity, InUser
<1>b. /\ attached' = attached \cup {a}
      /\ \A b \in Activities : b # a => interest'[b] = interest[b]
  BY DEF CreateActivity, TypeOK
<1>c. UNCHANGED <<open, queue, mNumArmed, mNumPending, mArmed, mPending, polls,
        at, closedPending, aborted>>
  BY DEF CreateActivity, countVars
<1>1. TypeOK'
  BY <1>c DEF CreateActivity, TypeOK, Triggers, Always
<1>2. QueueExact'
  BY <1>b, <1>c DEF QueueExact
<1>3. ArmedWatched' /\ DetachedIdle' /\ PendingArmed'
  BY <1>a, <1>b, <1>c DEF ArmedWatched, DetachedIdle, PendingArmed
<1>4. AbortCauses' /\ CountsKept' /\ PlaceInv'
  BY <1>a, <1>c DEF AbortCauses, CountsKept, Waiting, Pending, PlaceInv
<1> QED  BY <1>1, <1>2, <1>3, <1>4

LEMMA ArmInv ==
    ASSUME Inv, NEW a \in Activities, NEW trigger \in Triggers, Arm(a, trigger)
    PROVE  Inv'
<1> USE DEF Inv
<1>a. /\ open /\ ~ aborted /\ at = "user" /\ a \in attached /\ mArmed[a] = {}
      /\ mPending[a] = 0 /\ trigger # {}
  BY DEF Arm, InUser, PendingArmed, Triggers
<1>b. /\ \A b \in Activities :
            mArmed'[b] = IF b = a THEN trigger ELSE mArmed[b]
      /\ \A b \in Activities :
            interest'[b] = IF b = a THEN trigger ELSE interest[b]
      /\ mNumArmed' = mNumArmed + 1 /\ aborted' = FALSE
  BY <1>a DEF Arm, Ensure, TypeOK
<1>c. UNCHANGED <<open, queue, mNumPending, attached, mPending, condition,
        polls, at, closedPending>>
  BY DEF Arm
<1>1. TypeOK'
  <2>1. /\ mArmed' \in [Activities -> Triggers \cup {{}}]
        /\ interest' \in [Activities -> Triggers \cup {{}}]
    BY DEF Arm, TypeOK
  <2>2. aborted' \in BOOLEAN
    BY DEF Arm, Ensure
  <2>3. mNumArmed' \in Int
    BY DEF Arm, TypeOK
  <2> QED  BY <1>c, <2>1, <2>2, <2>3 DEF TypeOK
<1>2. QueueExact'
  BY <1>c DEF QueueExact
<1>3. ArmedWatched' /\ DetachedIdle' /\ PendingArmed'
  BY <1>a, <1>b, <1>c DEF ArmedWatched, DetachedIdle, PendingArmed
<1>4. AbortCauses' /\ PlaceInv'
  BY <1>a, <1>b, <1>c DEF AbortCauses, PlaceInv
<1>5. CountsKept'
  <2>1. Waiting' = Waiting \cup {a} /\ a \notin Waiting /\ Pending' = Pending
    BY <1>a, <1>b, <1>c DEF Waiting, Pending
  <2>2. Cardinality(Waiting') = Cardinality(Waiting) + 1
    BY Typed, <2>1, Counted
  <2>3. Cardinality(Waiting) \in Nat
    BY Typed, Counted
  <2> QED  BY <1>a, <1>b, <1>c, <2>1, <2>2, <2>3 DEF CountsKept, TypeOK
<1> QED  BY <1>1, <1>2, <1>3, <1>4, <1>5

LEMMA CloseActivityInv ==
    ASSUME Inv, NEW a \in Activities, CloseActivity(a)
    PROVE  Inv'
<1> USE DEF Inv
<1>a. /\ open /\ ~ aborted /\ at = "user" /\ a \in attached
      /\ mPending[a] # 0 => mArmed[a] # {}
  BY DEF CloseActivity, InUser, PendingArmed
<1>b. /\ attached' = attached \ {a}
      /\ \A b \in Activities : mArmed'[b] = IF b = a THEN {} ELSE mArmed[b]
      /\ \A b \in Activities : mPending'[b] = IF b = a THEN 0 ELSE mPending[b]
      /\ \A b \in Activities : interest'[b] = IF b = a THEN {} ELSE interest[b]
  BY DEF CloseActivity, TypeOK
<1>c. UNCHANGED <<open, polls, at>>
  BY DEF CloseActivity
<1>d. \/ /\ mPending[a] = 0 /\ mArmed[a] = {} /\ closedPending' = closedPending
         /\ UNCHANGED <<queue, mNumArmed, mNumPending, aborted>>
      \/ /\ mPending[a] = 0 /\ mArmed[a] # {} /\ closedPending' = closedPending
         /\ aborted' \in BOOLEAN /\ (aborted' <=> ~ (mNumArmed > 0))
         /\ mNumArmed' = mNumArmed - 1 /\ UNCHANGED <<queue, mNumPending>>
      \/ /\ mPending[a] # 0 /\ mArmed[a] # {} /\ closedPending' = closedPending + 1
         /\ aborted' \in BOOLEAN /\ (aborted' <=> ~ (mNumArmed > 0))
         /\ queue' = [queue EXCEPT ![mPending[a]] = NoActivity]
         /\ mNumArmed' = mNumArmed - 1 /\ mNumPending' = mNumPending - 1
  <2>1. mArmed[a] # {} =>
            aborted' \in BOOLEAN /\ (aborted' <=> ~ (mNumArmed > 0))
    BY DEF CloseActivity, Purge, Ensure
  <2>2. closedPending' = IF mPending[a] # 0 THEN closedPending + 1 ELSE closedPending
    BY DEF CloseActivity, TypeOK
  <2> QED  BY <1>a, <2>1, <2>2 DEF CloseActivity, Purge, countVars
<1>e. /\ queue' \in Seq(Entries) /\ Len(queue') = Len(queue)
      /\ DOMAIN queue' = 1 .. Len(queue')
      /\ \A i \in 1 .. Len(queue) :
            queue'[i] = IF i = mPending[a] THEN NoActivity ELSE queue[i]
  <2>1. CASE mPending[a] = 0
    BY Typed, <1>d, <2>1 DEF TypeOK
  <2>2. CASE mPending[a] # 0
    <3>1. mPending[a] \in 1 .. Len(queue) /\ queue \in Seq(Entries)
      BY Typed, <2>2 DEF QueueExact, TypeOK
    <3> QED  BY <1>d, <2>2, <3>1, ExceptSeq, LenProperties DEF Entries
  <2> QED  BY <2>1, <2>2
<1>1. TypeOK'
  <2>1. aborted' \in BOOLEAN
    BY <1>d DEF TypeOK
  <2>2. mNumArmed' \in Int /\ mNumPending' \in Int /\ closedPending' \in Nat
    BY <1>d DEF TypeOK
  <2>3. /\ mArmed' \in [Activities -> Triggers \cup {{}}]
        /\ mPending' \in [Activities -> 0 .. QueueSize]
        /\ interest' \in [Activities -> Triggers \cup {{}}]
        /\ condition' \in [Activities -> SUBSET {"hup", "in", "out"}]
    BY BoundsAssumption DEF CloseActivity, TypeOK
  <2> QED  BY <1>b, <1>c, <1>e, <2>1, <2>2, <2>3 DEF TypeOK
<1>2. QueueExact'
  <2>1. ASSUME NEW b \in Activities, mPending'[b] # 0
        PROVE  mPending'[b] <= Len(queue') /\ queue'[mPending'[b]] = b
    <3>1. b # a /\ mPending'[b] = mPending[b] /\ mPending[b] \in 1 .. Len(queue)
      BY Typed, <1>b, <2>1 DEF QueueExact
    <3>2. queue[mPending[b]] = b
      BY <3>1 DEF QueueExact
    <3>3. mPending[b] # mPending[a]
      BY <3>1, <3>2 DEF QueueExact
    <3> QED  BY <1>e, <3>1, <3>2, <3>3
  <2>2. ASSUME NEW i \in 1 .. Len(queue'), queue'[i] # NoActivity
        PROVE  queue'[i] \in attached' /\ mPending'[queue'[i]] = i
    <3>1. i \in 1 .. Len(queue) /\ i # mPending[a] /\ queue'[i] = queue[i]
      BY <1>e, <2>2
    <3>2. queue[i] \in attached /\ mPending[queue[i]] = i
      BY <2>2, <3>1 DEF QueueExact
    <3> QED  BY <1>b, <3>1, <3>2 DEF TypeOK
  <2> QED  BY <2>1, <2>2 DEF QueueExact
<1>3. ArmedWatched' /\ DetachedIdle'
  BY <1>b DEF ArmedWatched, DetachedIdle
<1>4. PendingArmed'
  BY <1>a, <1>b DEF PendingArmed
<1>5. PlaceInv'
  BY <1>a, <1>c DEF PlaceInv
<1>6. AbortCauses' /\ CountsKept'
  <2>0. /\ Cardinality(Waiting) \in Nat /\ Cardinality(Pending) \in Nat
        /\ mNumArmed + closedPending = Cardinality(Waiting)
        /\ mNumPending = Cardinality(Pending)
        /\ mNumArmed \in Int /\ mNumPending \in Int /\ closedPending \in Nat
    BY Typed, <1>a, Counted DEF CountsKept, TypeOK
  <2>1. CASE mPending[a] = 0 /\ mArmed[a] = {}
    <3>1. Waiting' = Waiting /\ Pending' = Pending
      BY <1>b, <2>1 DEF Waiting, Pending
    <3> QED  BY <1>a, <1>d, <2>0, <2>1, <3>1 DEF AbortCauses, CountsKept
  <2>2. CASE mPending[a] = 0 /\ mArmed[a] # {}
    <3>1. Waiting' = Waiting \ {a} /\ a \in Waiting /\ Pending' = Pending
      BY <1>b, <2>2 DEF Waiting, Pending
    <3>2. Cardinality(Waiting') = Cardinality(Waiting) - 1 /\ Cardinality(Waiting) # 0
      BY Typed, <3>1, Counted
    <3>3. mNumArmed > 0 \/ closedPending > 0
      BY <2>0, <3>2
    <3>4. /\ closedPending' = closedPending /\ (aborted' <=> ~ (mNumArmed > 0))
          /\ mNumArmed' = mNumArmed - 1 /\ mNumPending' = mNumPending
      BY <1>d, <2>2
    <3> QED  BY <2>0, <3>1, <3>2, <3>3, <3>4 DEF AbortCauses, CountsKept
  <2>3. CASE mPending[a] # 0
    <3>1. Waiting' = Waiting /\ Pending' = Pending \ {a} /\ a \in Pending
      BY <1>b, <2>3 DEF Waiting, Pending
    <3>2. Cardinality(Pending') = Cardinality(Pending) - 1
      BY Typed, <3>1, Counted
    <3> QED  BY <1>d, <2>0, <2>3, <3>1, <3>2 DEF AbortCauses, CountsKept
  <2> QED  BY <2>1, <2>2, <2>3
<1> QED  BY <1>1, <1>2, <1>3, <1>4, <1>5, <1>6

----------------------------------------------------------------------------
\* Polls

\* What epoll returns: distinct activities, all of them watched.
LEMMA Reported ==
    ASSUME TypeOK, NEW q \in Reports
    PROVE  /\ q \in Seq(Ready) /\ Len(q) \in 0 .. QueueSize
           /\ q \in [1 .. Len(q) -> Ready] /\ IsInjective(q)
<1>1. PICK n \in 0 .. QueueSize : q \in [1 .. n -> Ready]
  BY DEF Reports
<1>2. n \in Nat /\ q \in Seq(Ready)
  BY <1>1, SeqDef, Typed
<1>3. Len(q) = n
  BY <1>1, <1>2, LenProperties
<1> QED  BY <1>1, <1>2, <1>3 DEF Reports

LEMMA WaitInv ==
    ASSUME Inv, ~ aborted, queue = <<>>, Poll
    PROVE  Inv'
<1> USE DEF Inv
<1>a. /\ open /\ at = "user" /\ polls < MaxPolls
      /\ at' = "loop" /\ polls' = polls + 1
      /\ \A a \in Activities : mPending[a] = 0
  BY EmptyQueue DEF Poll, InUser
<1>b. PICK q \in Reports :
        /\ queue' = q
        /\ Ensure(/\ \A i \in 1 .. Len(q) : mArmed[q[i]] # {} /\ mPending[q[i]] = 0
                  /\ mNumArmed >= Len(q))
        /\ mPending' = [a \in Activities |->
               IF \E i \in 1 .. Len(q) : q[i] = a
               THEN CHOOSE i \in 1 .. Len(q) : q[i] = a ELSE mPending[a]]
        /\ interest' = [a \in Activities |->
               IF \E i \in 1 .. Len(q) : q[i] = a THEN {} ELSE interest[a]]
        /\ mNumArmed' = mNumArmed - Len(q)
        /\ mNumPending' = mNumPending + Len(q)
  BY DEF Poll, Wait
<1>c. UNCHANGED <<open, attached, mArmed, condition, closedPending>>
  BY DEF Poll
<1>d. /\ q \in Seq(Ready) /\ Len(q) \in 0 .. QueueSize /\ Len(q) \in Nat
      /\ q \in [1 .. Len(q) -> Ready] /\ IsInjective(q)
      /\ Ready \subseteq attached /\ Ready \subseteq Activities
  <2>1. /\ q \in Seq(Ready) /\ Len(q) \in 0 .. QueueSize
        /\ q \in [1 .. Len(q) -> Ready] /\ IsInjective(q)
    BY Reported
  <2>2. Len(q) \in Nat
    BY <2>1, BoundsAssumption
  <2>3. Ready \subseteq attached /\ attached \subseteq Activities
    BY DEF Ready, TypeOK
  <2> QED  BY <2>1, <2>2, <2>3
<1> DEFINE R == {q[i] : i \in 1 .. Len(q)}
<1>e. /\ \A i \in 1 .. Len(q) : mPending'[q[i]] = i /\ interest'[q[i]] = {}
      /\ \A a \in Activities \ R :
            mPending'[a] = 0 /\ interest'[a] = interest[a]
      /\ R \subseteq attached /\ R \subseteq Activities
  <2>1. \A i, j \in 1 .. Len(q) : q[i] = q[j] => i = j
    BY <1>d DEF IsInjective
  <2>2. ASSUME NEW i \in 1 .. Len(q)
        PROVE  mPending'[q[i]] = i /\ interest'[q[i]] = {}
    <3>1. q[i] \in Activities
      BY <1>d
    <3>2. (CHOOSE j \in 1 .. Len(q) : q[j] = q[i]) = i
      BY <2>1
    <3> QED  BY <1>b, <3>1, <3>2
  <2>3. ASSUME NEW a \in Activities \ R
        PROVE  mPending'[a] = 0 /\ interest'[a] = interest[a]
    BY <1>a, <1>b
  <2> QED  BY <1>d, <2>2, <2>3
<1>f. /\ aborted' \in BOOLEAN
      /\ ~ aborted' => /\ \A i \in 1 .. Len(q) : mArmed[q[i]] # {}
                       /\ mNumArmed >= Len(q)
      /\ aborted' => \/ \E i \in 1 .. Len(q) : mArmed[q[i]] = {}
                     \/ mNumArmed < Len(q)
  <2>1. \A i \in 1 .. Len(q) : mPending[q[i]] = 0
    BY <1>a, <1>d
  <2>2. mNumArmed \in Int /\ Len(q) \in Int
    BY <1>d DEF TypeOK
  <2>3. Ensure(/\ \A i \in 1 .. Len(q) : mArmed[q[i]] # {} /\ mPending[q[i]] = 0
               /\ mNumArmed >= Len(q))
    BY <1>b
  <2>4. aborted' \in BOOLEAN
    BY <2>3 DEF Ensure
  <2>5. aborted' <=> ~ (/\ \A i \in 1 .. Len(q) : mArmed[q[i]] # {} /\ mPending[q[i]] = 0
                       /\ mNumArmed >= Len(q))
    BY <2>3 DEF Ensure
  <2> QED  BY <2>1, <2>2, <2>4, <2>5
<1> HIDE DEF R
<1>1. TypeOK'
  <2>1. mPending' \in [Activities -> 0 .. QueueSize]
    <3>1. mPending' = [a \in Activities |-> mPending'[a]]
      BY <1>b
    <3>2. ASSUME NEW a \in Activities PROVE mPending'[a] \in 0 .. QueueSize
      <4>1. CASE a \in R
        <5>1. PICK i \in 1 .. Len(q) : q[i] = a
          BY <4>1 DEF R
        <5>2. i \in 0 .. QueueSize
          BY <1>d, BoundsAssumption
        <5> QED  BY <1>e, <5>1, <5>2
      <4>2. CASE a \notin R
        BY <1>e, <4>2, BoundsAssumption
      <4> QED  BY <4>1, <4>2
    <3> QED  BY <3>1, <3>2
  <2>2. interest' \in [Activities -> Triggers \cup {{}}]
    BY <1>b DEF TypeOK
  <2>3. q \in Seq(Entries)
    BY <1>d, SeqMonotonic DEF Entries
  <2>4. polls' \in 0 .. MaxPolls
    BY <1>a, BoundsAssumption DEF TypeOK
  <2>5. mNumArmed' \in Int /\ mNumPending' \in Int
    BY <1>b, <1>d DEF TypeOK
  <2>6. aborted' \in BOOLEAN /\ at' \in {"user", "loop"}
    BY <1>a, <1>f
  <2> QED  BY <1>b, <1>c, <1>d, <2>1, <2>2, <2>3, <2>4, <2>5, <2>6 DEF TypeOK
<1>2. QueueExact'
  <2>1. ASSUME NEW a \in Activities, mPending'[a] # 0
        PROVE  mPending'[a] <= Len(q) /\ q[mPending'[a]] = a
    <3>1. PICK i \in 1 .. Len(q) : q[i] = a
      BY <1>e, <2>1 DEF R
    <3> QED  BY <1>d, <1>e, <3>1
  <2>2. ASSUME NEW i \in 1 .. Len(q)
        PROVE  q[i] \in attached /\ mPending'[q[i]] = i
    BY <1>d, <1>e
  <2> QED  BY <1>b, <1>c, <2>1, <2>2 DEF QueueExact
<1>3. ArmedWatched'
  <2> SUFFICES ASSUME NEW a \in Activities, mArmed[a] # {}, mPending'[a] = 0
               PROVE  interest'[a] = mArmed[a]
    BY <1>c DEF ArmedWatched
  <2>1. a \notin R
    BY <1>e DEF R
  <2> QED  BY <1>a, <1>e, <2>1 DEF ArmedWatched
<1>4. DetachedIdle'
  BY <1>c, <1>e DEF DetachedIdle
<1>5. PendingArmed'
  <2> SUFFICES ASSUME ~ aborted', NEW a \in Activities, mPending'[a] # 0
               PROVE  mArmed[a] # {} /\ interest'[a] = {}
    BY <1>c DEF PendingArmed
  <2>1. PICK i \in 1 .. Len(q) : q[i] = a
    BY <1>e DEF R
  <2> QED  BY <1>e, <1>f, <2>1
<1>6. PlaceInv'
  BY <1>a, <1>c DEF PlaceInv, TypeOK
<1>7. /\ Cardinality(R) = Len(q) /\ Pending = {}
      /\ (\A i \in 1 .. Len(q) : mArmed[q[i]] # {}) => R \subseteq Waiting
  <2>1. q \in [1 .. Len(q) -> Activities]
    BY <1>d
  <2>2. Cardinality(R) = Len(q)
    BY <1>d, <2>1, EventsCounted DEF R
  <2>3. Pending = {}
    BY <1>a DEF Pending
  <2>4. ASSUME \A i \in 1 .. Len(q) : mArmed[q[i]] # {}, NEW a \in R
        PROVE  a \in Waiting
    <3>1. PICK i \in 1 .. Len(q) : q[i] = a
      BY DEF R
    <3> QED  BY <1>a, <1>e, <2>4, <3>1 DEF Waiting
  <2> QED  BY <2>2, <2>3, <2>4
<1>8. /\ Cardinality(Waiting) \in Nat /\ mNumArmed + closedPending = Cardinality(Waiting)
      /\ mNumPending = 0 /\ mNumArmed \in Int /\ closedPending \in Nat
  BY <1>7, Typed, Counted DEF CountsKept, TypeOK
<1>9. AbortCauses'
  <2> SUFFICES ASSUME aborted', \A i \in 1 .. Len(q) : mArmed[q[i]] # {}
               PROVE  closedPending > 0
    BY <1>b, <1>c DEF AbortCauses
  <2>1. Len(q) <= Cardinality(Waiting) /\ mNumArmed < Len(q)
    BY <1>7, <1>f, Typed, Left
  <2> QED  BY <1>d, <1>8, <2>1
<1>10. CountsKept'
  <2> SUFFICES ASSUME ~ aborted'
               PROVE  /\ mNumArmed' + closedPending = Cardinality(Waiting')
                      /\ mNumPending' = Cardinality(Pending')
    BY <1>c DEF CountsKept
  <2>1. Waiting' = Waiting \ R /\ R \subseteq Waiting
    <3>1. R \subseteq Waiting
      BY <1>7, <1>f
    <3>2. \A a \in Activities : a \in R <=> mPending'[a] # 0
      BY <1>d, <1>e DEF R
    <3> QED  BY <1>a, <1>c, <3>1, <3>2 DEF Waiting
  <2>2. Pending' = R
    BY <1>d, <1>e DEF R, Pending
  <2>3. Cardinality(Waiting') = Cardinality(Waiting) - Len(q)
    BY <1>7, <2>1, Typed, Left
  <2> QED  BY <1>7, <1>8, <1>b, <1>d, <2>2, <2>3
<1> QED  BY <1>1, <1>2, <1>3, <1>4, <1>5, <1>6, <1>9, <1>10

LEMMA PollInv == Inv /\ Poll => Inv'
<1> SUFFICES ASSUME Inv, Poll PROVE Inv'
  OBVIOUS
<1>a. open /\ ~ aborted /\ polls < MaxPolls /\ polls' = polls + 1 /\ at' = "loop"
  BY DEF Poll, InUser
<1>1. CASE queue = <<>>
  BY <1>a, <1>1, WaitInv
<1>2. CASE queue # <<>>
  <2> USE DEF Inv
  <2>1. UNCHANGED <<open, queue, mNumArmed, mNumPending, attached, mArmed,
          mPending, interest, condition, closedPending, aborted>>
    BY <1>2 DEF Poll, countVars
  <2>2. TypeOK' /\ PlaceInv'
    BY <1>a, <2>1, BoundsAssumption DEF TypeOK, PlaceInv
  <2>3. QueueExact' /\ ArmedWatched' /\ AbortCauses' /\ CountsKept'
    BY <2>1 DEF QueueExact, ArmedWatched, AbortCauses, CountsKept, Waiting, Pending
  <2>4. DetachedIdle' /\ PendingArmed'
    BY <2>1 DEF DetachedIdle, PendingArmed
  <2> QED  BY <2>2, <2>3, <2>4
<1> QED  BY <1>1, <1>2

\* What is left in the queue when its last entry is taken.
LEMMA Taken ==
    ASSUME TypeOK, queue # <<>>, NEW q, q = SubSeq(queue, 1, Len(queue) - 1)
    PROVE  /\ q \in Seq(Entries) /\ Len(q) = Len(queue) - 1 /\ Len(queue) \in Nat \ {0}
           /\ \A i \in 1 .. Len(q) : q[i] = queue[i]
<1>1. queue \in Seq(Entries) /\ Len(queue) \in Nat \ {0}
  BY EmptySeq, LenProperties DEF TypeOK
<1>2. \A i \in 1 .. Len(queue) - 1 : queue[i] \in Entries
  BY <1>1, LenProperties
<1>3. /\ q \in Seq(Entries) /\ Len(q) = Len(queue) - 1
      /\ \A i \in 1 .. Len(queue) - 1 : q[i] = queue[i]
  <2>1. q \in Seq(Entries)
    BY <1>1, <1>2, SubSeqProperties
  <2>2. /\ Len(q) = IF 1 <= Len(queue) - 1 THEN Len(queue) - 1 - 1 + 1 ELSE 0
        /\ \A i \in 1 .. Len(queue) - 1 - 1 + 1 : q[i] = queue[1 + i - 1]
    BY <1>1, <1>2, SubSeqProperties
  <2>3. Len(q) = Len(queue) - 1
    <3>1. PICK n \in Nat \ {0} : n = Len(queue)
      BY <1>1
    <3>2. (IF 1 <= n - 1 THEN n - 1 - 1 + 1 ELSE 0) = n - 1
      BY <3>1
    <3> QED  BY <2>2, <3>1, <3>2
  <2>4. \A i \in 1 .. Len(queue) - 1 : i \in 1 .. Len(queue) - 1 - 1 + 1 /\ 1 + i - 1 = i
    BY <1>1
  <2> QED  BY <2>1, <2>2, <2>3, <2>4
<1> QED  BY <1>1, <1>3

LEMMA SkipClosedInv == Inv /\ SkipClosed => Inv'
<1> SUFFICES ASSUME Inv, SkipClosed PROVE Inv'
  OBVIOUS
<1> USE DEF Inv
<1>a. /\ open /\ ~ aborted /\ at = "loop" /\ queue # <<>>
      /\ queue[Len(queue)] = NoActivity
  BY DEF SkipClosed, InLoop
<1>b. /\ queue' \in Seq(Entries) /\ Len(queue') = Len(queue) - 1
      /\ Len(queue) \in Nat \ {0} /\ \A i \in 1 .. Len(queue') : queue'[i] = queue[i]
  BY <1>a, Taken DEF SkipClosed
<1>c. UNCHANGED <<open, mNumArmed, mNumPending, attached, mArmed, mPending,
        interest, condition, polls, at, closedPending, aborted>>
  BY DEF SkipClosed, countVars, fileVars
<1>1. TypeOK'
  BY <1>b, <1>c, BoundsAssumption DEF TypeOK
<1>2. QueueExact'
  <2>1. ASSUME NEW a \in Activities, mPending[a] # 0
        PROVE  mPending[a] <= Len(queue') /\ queue'[mPending[a]] = a
    <3>1. mPending[a] \in 1 .. Len(queue) /\ queue[mPending[a]] = a
      BY <2>1, Typed DEF QueueExact
    <3>2. mPending[a] # Len(queue)
      BY <1>a, <3>1, ActivitiesAssumption
    <3> QED  BY <1>b, <3>1, <3>2
  <2>2. ASSUME NEW i \in 1 .. Len(queue'), queue'[i] # NoActivity
        PROVE  queue'[i] \in attached /\ mPending[queue'[i]] = i
    BY <1>b, <2>2 DEF QueueExact
  <2> QED  BY <1>c, <2>1, <2>2 DEF QueueExact
<1>3. ArmedWatched' /\ AbortCauses' /\ CountsKept'
  BY <1>a, <1>c DEF ArmedWatched, AbortCauses, CountsKept, Waiting, Pending
<1>4. DetachedIdle' /\ PendingArmed' /\ PlaceInv'
  BY <1>a, <1>c DEF DetachedIdle, PendingArmed, PlaceInv
<1> QED  BY <1>1, <1>2, <1>3, <1>4

LEMMA DispatchInv == Inv /\ Dispatch => Inv'
<1> SUFFICES ASSUME Inv, Dispatch PROVE Inv'
  OBVIOUS
<1> USE DEF Inv
<1>a. open /\ ~ aborted /\ at = "loop" /\ at' = "user" /\ queue # <<>>
  BY DEF Dispatch, InLoop
<1>b. /\ queue' \in Seq(Entries) /\ Len(queue') = Len(queue) - 1
      /\ Len(queue) \in Nat \ {0} /\ \A i \in 1 .. Len(queue') : queue'[i] = queue[i]
  BY <1>a, Taken DEF Dispatch
<1>c. UNCHANGED <<open, mNumArmed, attached, interest, condition, polls,
        closedPending>>
  BY DEF Dispatch, fileVars
<1>d. PICK a \in Activities :
        /\ a = queue[Len(queue)] /\ a \in attached /\ mPending[a] = Len(queue)
        /\ mArmed[a] # {} /\ interest[a] = {}
  <2>1. queue[Len(queue)] # NoActivity
    BY DEF Dispatch
  <2>2. queue[Len(queue)] \in attached /\ mPending[queue[Len(queue)]] = Len(queue)
    BY <1>b, <2>1 DEF QueueExact
  <2> QED  BY <1>a, <1>b, <2>2 DEF PendingArmed, TypeOK
<1>e. /\ mArmed' = [mArmed EXCEPT ![a] = {}] /\ mPending' = [mPending EXCEPT ![a] = 0]
      /\ mNumPending' = mNumPending - 1
      /\ Ensure(mArmed[a] # {} /\ mPending[a] # 0)
  BY <1>d DEF Dispatch
<1>f. /\ \A b \in Activities : mArmed'[b] = IF b = a THEN {} ELSE mArmed[b]
      /\ \A b \in Activities : mPending'[b] = IF b = a THEN 0 ELSE mPending[b]
  BY <1>e DEF TypeOK
<1>g. aborted' = FALSE
  BY <1>b, <1>d, <1>e DEF Ensure
<1>1. TypeOK'
  <2>1. /\ mArmed' \in [Activities -> Triggers \cup {{}}]
        /\ mPending' \in [Activities -> 0 .. QueueSize]
    BY <1>e, BoundsAssumption DEF TypeOK
  <2>2. mNumPending' \in Int /\ Len(queue') <= QueueSize
    BY <1>b, <1>e, BoundsAssumption DEF TypeOK
  <2> QED  BY <1>a, <1>b, <1>c, <1>g, <2>1, <2>2 DEF TypeOK
<1>2. QueueExact'
  <2>1. ASSUME NEW b \in Activities, mPending'[b] # 0
        PROVE  mPending'[b] <= Len(queue') /\ queue'[mPending'[b]] = b
    <3>1. b # a /\ mPending'[b] = mPending[b] /\ mPending[b] \in 1 .. Len(queue)
      BY <1>f, <2>1, Typed DEF QueueExact
    <3>2. queue[mPending[b]] = b
      BY <3>1 DEF QueueExact
    <3>3. mPending[b] # Len(queue)
      BY <1>d, <3>1, <3>2
    <3> QED  BY <1>b, <3>1, <3>2, <3>3
  <2>2. ASSUME NEW i \in 1 .. Len(queue'), queue'[i] # NoActivity
        PROVE  queue'[i] \in attached /\ mPending'[queue'[i]] = i
    <3>1. queue'[i] = queue[i] /\ i \in 1 .. Len(queue) /\ i # Len(queue)
      BY <1>b
    <3>2. queue[i] \in attached /\ mPending[queue[i]] = i
      BY <2>2, <3>1 DEF QueueExact
    <3>3. queue[i] \in Activities /\ queue[i] # a
      BY <1>d, <3>1, <3>2 DEF TypeOK
    <3> QED  BY <1>f, <3>1, <3>2, <3>3
  <2> QED  BY <1>c, <2>1, <2>2 DEF QueueExact
<1>3. ArmedWatched' /\ AbortCauses' /\ DetachedIdle'
  BY <1>c, <1>d, <1>f, <1>g DEF ArmedWatched, AbortCauses, DetachedIdle
<1>4. PendingArmed' /\ PlaceInv'
  BY <1>a, <1>c, <1>f DEF PendingArmed, PlaceInv
<1>5. CountsKept'
  <2>1. Waiting' = Waiting /\ Pending' = Pending \ {a} /\ a \in Pending
    BY <1>b, <1>d, <1>f DEF Waiting, Pending
  <2>2. Cardinality(Pending') = Cardinality(Pending) - 1
    BY <2>1, Typed, Counted
  <2> QED  BY <1>a, <1>c, <1>e, <2>1, <2>2 DEF CountsKept
<1> QED  BY <1>1, <1>2, <1>3, <1>4, <1>5

LEMMA MethodReturnsInv == Inv /\ MethodReturns => Inv'
<1> SUFFICES ASSUME Inv, MethodReturns PROVE Inv'
  OBVIOUS
<1> USE DEF Inv
<1>a. open /\ polls > 0 /\ at' = "loop"
  BY DEF MethodReturns, InUser
<1>b. UNCHANGED <<open, queue, mNumArmed, mNumPending, attached, mArmed, mPending,
        interest, condition, polls, closedPending, aborted>>
  BY DEF MethodReturns, countVars, fileVars
<1>1. TypeOK' /\ PlaceInv'
  BY <1>a, <1>b DEF TypeOK, PlaceInv
<1>2. QueueExact' /\ ArmedWatched' /\ AbortCauses' /\ CountsKept'
  BY <1>b DEF QueueExact, ArmedWatched, AbortCauses, CountsKept, Waiting, Pending
<1>3. DetachedIdle' /\ PendingArmed'
  BY <1>b DEF DetachedIdle, PendingArmed
<1> QED  BY <1>1, <1>2, <1>3

LEMMA PollReturnsInv == Inv /\ PollReturns => Inv'
<1> SUFFICES ASSUME Inv, PollReturns PROVE Inv'
  OBVIOUS
<1> USE DEF Inv
<1>a. open /\ polls > 0 /\ at' = "user" /\ polls' = polls - 1
  BY DEF PollReturns, InUser, InLoop, PlaceInv
<1>b. UNCHANGED <<open, queue, mNumArmed, mNumPending, attached, mArmed, mPending,
        interest, condition, closedPending, aborted>>
  BY DEF PollReturns, countVars, fileVars
<1>1. TypeOK' /\ PlaceInv'
  BY <1>a, <1>b, BoundsAssumption DEF TypeOK, PlaceInv
<1>2. QueueExact' /\ ArmedWatched' /\ AbortCauses' /\ CountsKept'
  BY <1>b DEF QueueExact, ArmedWatched, AbortCauses, CountsKept, Waiting, Pending
<1>3. DetachedIdle' /\ PendingArmed'
  BY <1>b DEF DetachedIdle, PendingArmed
<1> QED  BY <1>1, <1>2, <1>3

----------------------------------------------------------------------------
\* The theorems

LEMMA InitInv == Init => Inv
<1> SUFFICES ASSUME Init PROVE Inv
  OBVIOUS
<1>a. /\ open /\ ~ aborted /\ queue = <<>> /\ attached = {} /\ at = "user"
      /\ mNumArmed = 0 /\ mNumPending = 0 /\ closedPending = 0
      /\ \A a \in Activities :
            mArmed[a] = {} /\ mPending[a] = 0 /\ interest[a] = {}
  BY DEF Init, Idle
<1>1. TypeOK
  <2>1. queue \in Seq(Entries) /\ Len(queue) <= QueueSize
    BY BoundsAssumption, EmptySeq DEF Init
  <2>2. polls \in 0 .. MaxPolls /\ mPending \in [Activities -> 0 .. QueueSize]
    BY BoundsAssumption DEF Init
  <2>3. open \in BOOLEAN /\ aborted \in BOOLEAN
    BY DEF Init
  <2>4. /\ mArmed \in [Activities -> Triggers \cup {{}}]
        /\ interest \in [Activities -> Triggers \cup {{}}]
        /\ condition \in [Activities -> SUBSET {"hup", "in", "out"}]
    BY DEF Init, Idle
  <2> QED  BY <1>a, <2>1, <2>2, <2>3, <2>4 DEF TypeOK
<1>2. QueueExact /\ ArmedWatched /\ AbortCauses
  BY <1>a DEF QueueExact, ArmedWatched, AbortCauses
<1>3. CountsKept
  <2>1. Waiting = {} /\ Pending = {}
    BY <1>a DEF Waiting, Pending
  <2> QED  BY <1>a, <2>1, Counted DEF CountsKept
<1>4. DetachedIdle /\ PendingArmed /\ PlaceInv
  BY <1>a DEF DetachedIdle, PendingArmed, PlaceInv
<1> QED  BY <1>1, <1>2, <1>3, <1>4 DEF Inv

LEMMA NextInv == Inv /\ [Next]_vars => Inv'
<1> SUFFICES ASSUME Inv, [Next]_vars PROVE Inv'
  OBVIOUS
<1>1. CASE CreateQueue
  BY <1>1, CreateQueueInv
<1>2. CASE CloseQueue
  BY <1>2, CloseQueueInv
<1>3. CASE Loop
  BY <1>3, PollInv, SkipClosedInv, DispatchInv, MethodReturnsInv, PollReturnsInv
     DEF Loop
<1>4. ASSUME NEW a \in Activities, Use(a) PROVE Inv'
  BY <1>4, CreateActivityInv, CloseActivityInv, ArmInv DEF Use
<1>5. ASSUME NEW a \in Activities, FileChanges(a) PROVE Inv'
  BY <1>5, FileChangesInv
<1>6. CASE UNCHANGED vars
  BY ZenonT(40), <1>6 DEF vars, countVars, fileVars, Inv, TypeOK, QueueExact, ArmedWatched,
     AbortCauses, CountsKept, Waiting, Pending, DetachedIdle, PendingArmed, PlaceInv
<1> QED  BY <1>1, <1>2, <1>3, <1>4, <1>5, <1>6 DEF Next

\* The invariant that the properties below are parts of: the queue, the
\* activities and the interest of epoll agree after every call and every method.
THEOREM Invariance == Spec => []Inv
<1>1. Init => Inv
  BY InitInv
<1>2. Inv /\ [Next]_vars => Inv'
  BY NextInv
<1> QED  BY <1>1, <1>2, PTL DEF Spec

\* Every field of the two structures stays in its range, and the queue never
\* holds more than the aQueueSize events that it has room for.
THEOREM TypeCorrect == Spec => []TypeOK
<1>1. Inv => TypeOK
  BY DEF Inv
<1> QED  BY <1>1, Invariance, PTL

\* The queue refers to the activities with an event pending and to no other,
\* whatever the methods close, create again and arm while it is dispatched.
THEOREM QueueMatches == Spec => []QueueExact
<1>1. Inv => QueueExact
  BY DEF Inv
<1> QED  BY <1>1, Invariance, PTL

\* An activity that is armed and has no event pending is watched by epoll.
THEOREM Watched == Spec => []ArmedWatched
<1>1. Inv => ArmedWatched
  BY DEF Inv
<1> QED  BY <1>1, Invariance, PTL

\* mNumArmed and mNumPending count what waits and what is pending, but for the
\* activities that ert_purgeFileEventQueueActivity_ takes off both.
THEOREM CountsCorrect == Spec => []CountsKept
<1>1. Inv => CountsKept
  BY DEF Inv
<1> QED  BY <1>1, Invariance, PTL

\* An ert_ensure() of the file fails for one of two reasons only: epoll reported
\* an activity that is not armed, or one was closed with its event pending.
THEOREM AbortExplained == Spec => []AbortCauses
<1>1. Inv => AbortCauses
  BY DEF Inv
<1> QED  BY <1>1, Invariance, PTL
=============================================================================
