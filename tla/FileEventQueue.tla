--------------------------- MODULE FileEventQueue ---------------------------
(***************************************************************************)
(* struct Ert_FileEventQueue and struct Ert_FileEventQueueActivity         *)
(* (fileeventqueue.c): one shot file events over epoll.  An activity is    *)
(* armed with a trigger, epoll reports it once, the queue keeps the events *)
(* that it was given and calls the method of each.  A method may itself    *)
(* arm, close, create and poll, and when it fails the poll returns and     *)
(* leaves the rest of the events for the next one.                         *)
(*                                                                         *)
(* The queue has no lock: one thread uses it.  `interest' and `condition'  *)
(* are the kernel's; everything else is a field of the two structures.     *)
(***************************************************************************)
EXTENDS Integers, Sequences, FiniteSets, Functions

CONSTANTS
    Activities,     \* the structures that hold activities
    NoActivity,     \* a queue entry whose activity was closed
    QueueSize,      \* aQueueSize, the events one epoll_wait() returns at most
    MaxPolls,       \* bound on the polls that are nested in methods
    EarlyHangUp     \* whether a file hangs up before its activity is first armed

ASSUME ActivitiesAssumption ==
    IsFiniteSet(Activities) /\ NoActivity \notin Activities
ASSUME BoundsAssumption ==
    /\ QueueSize \in Nat \ {0} /\ MaxPolls \in Nat \ {0}
    /\ EarlyHangUp \in BOOLEAN

VARIABLES
    open,           \* the queue has been created
    queue,          \* mQueue[0] to mQueue[mQueuePending - 1]
    mNumArmed, mNumPending,
    attached,       \* the activities that have been created
    mArmed,         \* mArmed[a]: the conditions a is armed for
    mPending,       \* mPending[a]: index in queue of the event of a, or 0
    interest,       \* interest[a]: the conditions for which epoll reports a
    condition,      \* condition[a]: the conditions of the file of a
    polls,          \* how many polls are active, each in a method of the other
    at,             \* "user" code runs, a method if polls > 0, or the poll "loop"
    closedPending,  \* how many activities were closed with an event pending
    aborted         \* an ert_ensure() has failed

fileVars  == <<interest, condition>>
countVars == <<mNumArmed, mNumPending>>
vars == <<open, queue, countVars, attached, mArmed, mPending, fileVars, polls,
          at, closedPending, aborted>>

\* pollTriggers_
Triggers == {{"hup"}, {"hup", "out"}, {"hup", "in"}}

\* What the kernel reports whether it is asked to or not.
Always == {"hup"}

Idle == [a \in Activities |-> {}]

Init ==
    /\ open = TRUE /\ queue = <<>>
    /\ mNumArmed = 0 /\ mNumPending = 0
    /\ attached = {} /\ mArmed = Idle
    /\ mPending = [a \in Activities |-> 0]
    /\ interest = Idle /\ condition = Idle
    /\ polls = 0 /\ at = "user" /\ closedPending = 0 /\ aborted = FALSE

InUser == open /\ ~ aborted /\ at = "user"
InLoop == open /\ ~ aborted /\ at = "loop"

\* ert_ensure() of a condition: the program ends there when it fails.
Ensure(condition_) == aborted' = ~ condition_

----------------------------------------------------------------------------
\* The queue and the files

\* ert_createFileEventQueue
CreateQueue ==
    /\ ~ open /\ ~ aborted
    /\ open' = TRUE /\ queue' = <<>>
    /\ mNumArmed' = 0 /\ mNumPending' = 0
    /\ UNCHANGED <<attached, mArmed, mPending, fileVars, polls, at,
                   closedPending, aborted>>

\* ert_closeFileEventQueue, of a queue whose activities have been closed.
CloseQueue ==
    /\ InUser /\ polls = 0 /\ attached = {}
    /\ Ensure(mNumArmed = 0 /\ mNumPending = 0)
    /\ open' = FALSE /\ queue' = <<>>
    /\ UNCHANGED <<countVars, attached, mArmed, mPending, fileVars, polls, at,
                   closedPending>>

\* The file of an activity becomes ready, or is no longer; it hangs up for good.
FileChanges(a) ==
    /\ a \in attached /\ ~ aborted
    /\ \/ \E c \in {"in", "out"} :
              condition' = [condition EXCEPT
                  ![a] = IF c \in @ THEN @ \ {c} ELSE @ \cup {c}]
       \/ /\ "hup" \notin condition[a]
          /\ EarlyHangUp \/ mArmed[a] # {} \/ interest[a] = {}
          /\ condition' = [condition EXCEPT ![a] = @ \cup {"hup"}]
    /\ UNCHANGED <<open, queue, countVars, attached, mArmed, mPending, interest,
                   polls, at, closedPending, aborted>>

----------------------------------------------------------------------------
\* Activities

\* ert_createFileEventQueueActivity: EPOLL_CTL_ADD with no events.
CreateActivity(a) ==
    /\ InUser /\ a \notin attached
    /\ attached' = attached \cup {a}
    /\ interest' = [interest EXCEPT ![a] = Always]
    /\ condition' = [condition EXCEPT ![a] = {}]
    /\ UNCHANGED <<open, queue, countVars, mArmed, mPending, polls, at,
                   closedPending, aborted>>

\* Mutant: does not count.
BugArmUncounted(a, trigger) ==
    /\ InUser /\ a \in attached /\ mArmed[a] = {}
    /\ Ensure(mPending[a] = 0)
    /\ mArmed' = [mArmed EXCEPT ![a] = trigger]
    /\ interest' = [interest EXCEPT ![a] = trigger]
    /\ UNCHANGED <<open, queue, mNumPending, mNumArmed, attached, mPending,
                   condition, polls, at, closedPending>>

\* Mutant: asks for what it is told and not for EPOLLHUP.
BugArmBare(a, trigger) ==
    /\ InUser /\ a \in attached /\ mArmed[a] = {}
    /\ Ensure(mPending[a] = 0)
    /\ mArmed' = [mArmed EXCEPT ![a] = trigger \ Always]
    /\ interest' = [interest EXCEPT ![a] = trigger]
    /\ mNumArmed' = mNumArmed + 1
    /\ UNCHANGED <<open, queue, mNumPending, attached, mPending, condition,
                   polls, at, closedPending>>

\* Mutant: arms the activity but forgets EPOLL_CTL_MOD.
BugArmQuiet(a, trigger) ==
    /\ InUser /\ a \in attached /\ mArmed[a] = {}
    /\ Ensure(mPending[a] = 0)
    /\ mArmed' = [mArmed EXCEPT ![a] = trigger]
    /\ mNumArmed' = mNumArmed + 1
    /\ UNCHANGED <<open, queue, mNumPending, attached, mPending, fileVars,
                   polls, at, closedPending>>

\* ert_armFileEventQueueActivity, of an activity that its user knows is not
\* armed, and ert_lodgeFileEventQueueActivity_.
Arm(a, trigger) ==
    /\ InUser /\ a \in attached /\ mArmed[a] = {}
    /\ Ensure(mPending[a] = 0)
    /\ mArmed' = [mArmed EXCEPT ![a] = trigger]
    /\ interest' = [interest EXCEPT ![a] = trigger]
    /\ mNumArmed' = mNumArmed + 1
    /\ UNCHANGED <<open, queue, mNumPending, attached, mPending, condition,
                   polls, at, closedPending>>

\* Mutant: leaves the entry of a pending event in the queue.
BugPurge(a) ==
    /\ Ensure(mNumArmed > 0)
    /\ mNumArmed' = mNumArmed - 1
    /\ UNCHANGED <<queue, mNumPending>>

\* ert_purgeFileEventQueueActivity_
Purge(a) ==
    /\ Ensure(mNumArmed > 0)
    /\ mNumArmed' = mNumArmed - 1
    /\ IF mPending[a] # 0
       THEN /\ queue' = [queue EXCEPT ![mPending[a]] = NoActivity]
            /\ mNumPending' = mNumPending - 1
       ELSE UNCHANGED <<queue, mNumPending>>

\* ert_closeFileEventQueueActivity: EPOLL_CTL_DEL.
CloseActivity(a) ==
    /\ InUser /\ a \in attached
    /\ IF mArmed[a] # {} THEN Purge(a)
                         ELSE UNCHANGED <<queue, countVars, aborted>>
    /\ attached' = attached \ {a}
    /\ mArmed' = [mArmed EXCEPT ![a] = {}]
    /\ mPending' = [mPending EXCEPT ![a] = 0]
    /\ interest' = [interest EXCEPT ![a] = {}]
    /\ condition' = [condition EXCEPT ![a] = {}]
    /\ closedPending' = closedPending + IF mPending[a] # 0 THEN 1 ELSE 0
    /\ UNCHANGED <<open, polls, at>>

----------------------------------------------------------------------------
\* ert_pollFileEventQueueActivity

Ready == {a \in attached : interest[a] \cap condition[a] # {}}

\* What epoll_wait() can return: as many ready activities as fit, in any order;
\* nothing when the timeout expires or a signal arrives before one is ready.
Reports ==
    {q \in UNION {[1 .. n -> Ready] : n \in 0 .. QueueSize} :
        IsInjective(q) /\ (Len(q) = QueueSize \/ Len(q) = Cardinality(Ready))}

\* ert_markFileEventQueueActivityPending_ for each event; EPOLLONESHOT has
\* turned epoll's interest off.
Wait ==
    \E q \in Reports :
        /\ queue' = q
        /\ Ensure(/\ \A i \in 1 .. Len(q) : mArmed[q[i]] # {} /\ mPending[q[i]] = 0
                  /\ mNumArmed >= Len(q))
        /\ mPending' = [a \in Activities |->
               IF \E i \in 1 .. Len(q) : q[i] = a
               THEN CHOOSE i \in 1 .. Len(q) : q[i] = a ELSE mPending[a]]
        /\ interest' = [a \in Activities |->
               IF \E i \in 1 .. Len(q) : q[i] = a THEN {} ELSE interest[a]]
        /\ mNumArmed' = mNumArmed - Len(q)
        /\ mNumPending' = mNumPending + Len(q)

\* Mutant: waits although events are pending.
BugPoll ==
    /\ InUser /\ polls < MaxPolls
    /\ polls' = polls + 1 /\ at' = "loop"
    /\ Wait
    /\ UNCHANGED <<open, attached, mArmed, condition, closedPending>>

\* Waits only when no event is left from a poll before, or around, this one.
Poll ==
    /\ InUser /\ polls < MaxPolls
    /\ polls' = polls + 1 /\ at' = "loop"
    /\ IF queue = <<>> THEN Wait
                       ELSE UNCHANGED <<queue, countVars, mPending, interest,
                                        aborted>>
    /\ UNCHANGED <<open, attached, mArmed, condition, closedPending>>

SkipClosed ==
    /\ InLoop /\ queue # <<>> /\ queue[Len(queue)] = NoActivity
    /\ queue' = SubSeq(queue, 1, Len(queue) - 1)
    /\ UNCHANGED <<open, countVars, attached, mArmed, mPending, fileVars, polls,
                   at, closedPending, aborted>>

\* Mutant: calls the method and clears the event when it has returned.
BugDispatch ==
    /\ InLoop /\ queue # <<>> /\ queue[Len(queue)] # NoActivity
    /\ LET a == queue[Len(queue)] IN
           /\ Ensure(mArmed[a] # {} /\ mPending[a] # 0)
           /\ mArmed' = [mArmed EXCEPT ![a] = {}]
    /\ queue' = SubSeq(queue, 1, Len(queue) - 1)
    /\ mNumPending' = mNumPending - 1
    /\ at' = "user"
    /\ UNCHANGED <<open, mNumArmed, attached, mPending, fileVars, polls,
                   closedPending>>

\* ert_disarmFileEventQueueActivity_: the activity can be armed and closed by
\* the time that its method runs.
Dispatch ==
    /\ InLoop /\ queue # <<>> /\ queue[Len(queue)] # NoActivity
    /\ LET a == queue[Len(queue)] IN
           /\ Ensure(mArmed[a] # {} /\ mPending[a] # 0)
           /\ mArmed' = [mArmed EXCEPT ![a] = {}]
           /\ mPending' = [mPending EXCEPT ![a] = 0]
    /\ queue' = SubSeq(queue, 1, Len(queue) - 1)
    /\ mNumPending' = mNumPending - 1
    /\ at' = "user"
    /\ UNCHANGED <<open, mNumArmed, attached, fileVars, polls, closedPending>>

MethodReturns ==
    /\ InUser /\ polls > 0
    /\ at' = "loop"
    /\ UNCHANGED <<open, queue, countVars, attached, mArmed, mPending, fileVars,
                   polls, closedPending, aborted>>

\* The poll that called the method returns its error at once, and so does one
\* that has no event left.
PollReturns ==
    /\ \/ InUser /\ polls > 0
       \/ InLoop /\ queue = <<>>
    /\ polls' = polls - 1 /\ at' = "user"
    /\ UNCHANGED <<open, queue, countVars, attached, mArmed, mPending, fileVars,
                   closedPending, aborted>>

----------------------------------------------------------------------------
Use(a) ==
    \/ CreateActivity(a) \/ CloseActivity(a)
    \/ \E trigger \in Triggers : Arm(a, trigger)

Loop == Poll \/ SkipClosed \/ Dispatch \/ MethodReturns \/ PollReturns

Next ==
    \/ CreateQueue \/ CloseQueue \/ Loop
    \/ \E a \in Activities : Use(a) \/ FileChanges(a)

Spec == Init /\ [][Next]_vars

\* The program polls again and again and the methods come to an end.
FairSpec == Spec /\ WF_vars(Loop)

----------------------------------------------------------------------------
Entries == Activities \cup {NoActivity}

TypeOK ==
    /\ open \in BOOLEAN /\ aborted \in BOOLEAN
    /\ queue \in Seq(Entries) /\ Len(queue) <= QueueSize
    /\ mNumArmed \in Int /\ mNumPending \in Int /\ closedPending \in Nat
    /\ attached \subseteq Activities
    /\ mArmed \in [Activities -> Triggers \cup {{}}]
    /\ mPending \in [Activities -> 0 .. QueueSize]
    /\ interest \in [Activities -> Triggers \cup {{}}]
    /\ condition \in [Activities -> SUBSET {"hup", "in", "out"}]
    /\ polls \in 0 .. MaxPolls /\ at \in {"user", "loop"}

\* No ert_ensure() of the file fails: an event is only ever reported for an
\* armed activity that has none pending, and what is armed is counted, however
\* methods arm, close and poll.
NoAbort == ~ aborted

\* An ert_ensure() fails only when epoll has reported an activity that is not
\* armed, or once an activity was closed that had an event pending.
AbortCauses ==
    aborted => \/ closedPending > 0
               \/ \E i \in 1 .. Len(queue) : mArmed[queue[i]] = {}

Waiting == {a \in Activities : mArmed[a] # {} /\ mPending[a] = 0}
Pending == {a \in Activities : mPending[a] # 0}

\* mNumArmed and mNumPending count the activities that wait for an event and
\* those that have one that was not dispatched; an activity that is closed with
\* an event pending is taken off both, though it was in only one.
CountsKept ==
    ~ aborted => /\ mNumArmed + closedPending = Cardinality(Waiting)
                 /\ mNumPending = Cardinality(Pending)

\* The queue refers to the activities that have an event pending and to no
\* other, so never to one that was closed, or closed and created again.
QueueExact ==
    /\ \A a \in Activities :
           mPending[a] # 0 => mPending[a] <= Len(queue) /\ queue[mPending[a]] = a
    /\ \A i \in 1 .. Len(queue) :
           queue[i] # NoActivity => queue[i] \in attached /\ mPending[queue[i]] = i

\* epoll watches an armed activity for what it is armed for until its event is
\* in the queue: none is armed and forgotten.
ArmedWatched ==
    \A a \in Activities :
        mArmed[a] # {} /\ mPending[a] = 0 => interest[a] = mArmed[a]

----------------------------------------------------------------------------
\* What makes these properties inductive (FileEventQueueProofs).

\* An activity that does not exist is neither armed nor pending nor watched.
DetachedIdle ==
    \A a \in Activities \ attached :
        mArmed[a] = {} /\ mPending[a] = 0 /\ interest[a] = {}

\* An event is pending only for an armed activity, which epoll leaves alone.
PendingArmed ==
    ~ aborted => \A a \in Activities :
        mPending[a] # 0 => mArmed[a] # {} /\ interest[a] = {}

\* Where the program is: a closed queue is empty and was not miscounted.
PlaceInv ==
    /\ at = "loop" => polls > 0
    /\ ~ open => attached = {} /\ queue = <<>> /\ at = "user"
    /\ ~ open /\ ~ aborted => closedPending = 0

Inv ==
    /\ TypeOK /\ QueueExact /\ ArmedWatched /\ AbortCauses /\ CountsKept
    /\ DetachedIdle /\ PendingArmed /\ PlaceInv

----------------------------------------------------------------------------
\* Every event in the queue is dispatched or its activity is closed, though
\* methods fail and polls end early, unless an ert_ensure() ends the program.
Dispatched ==
    \A a \in Activities : mPending[a] # 0 ~> mPending[a] = 0 \/ aborted
=============================================================================
