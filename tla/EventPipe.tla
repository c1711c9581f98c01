------------------------------ MODULE EventPipe ------------------------------
(***************************************************************************)
(* struct Ert_EventPipe and struct Ert_EventLatch (eventpipe.c,            *)
(* eventlatch.c): latches that threads set, disable and reset, bound to a  *)
(* pipe whose descriptor becomes readable when one of them needs attention *)
(* and whose poll calls the method of each latch that does.                *)
(*                                                                         *)
(* Every latch has a lock and so has the pipe; they are the locks of       *)
(* ThreadSigMutex, of which only what RecursiveLock promises is used here. *)
(* The owner of a lock has its signals blocked, so a signal handler runs   *)
(* only between the calls of its thread, where it is one more call.  There *)
(* is one pipe.  A call that needs only the lock of its latch is one step. *)
(***************************************************************************)
EXTENDS Naturals, Sequences, SequencesExt

CONSTANTS
    Threads,        \* the threads that call the functions
    NoThread,       \* the owner of a free lock
    Latches,        \* the latches
    CallbackOps,    \* what the methods of the latches call: of CallOps
    MaxCalls,       \* bound on the calls of each thread
    MaxErrors       \* bound on the failures of read(), write() and methods

CallOps == {"set", "disable", "reset", "bind", "unbind"}

ASSUME ThreadsAssumption == NoThread \notin Threads
ASSUME LatchesAssumption == Latches # {}
\* A method that bound or unbound a latch would change the list under the poll.
ASSUME CallbackAssumption == CallbackOps \subseteq {"set", "disable", "reset"}
ASSUME BoundsAssumption == MaxCalls \in Nat /\ MaxErrors \in Nat

VARIABLES
    event,          \* event[l]: mEvent, the bits "data" and "disable"
    bound,          \* bound[l]: mPipe # 0
    live,           \* live[l]: mList.mLatch # 0
    latchOwner,     \* latchOwner[l]: owner of the lock of l
    list,           \* mLatchList
    mSignalled,     \* the pipe is marked, and holds its one byte
    pipeOwner,      \* owner of the lock of the pipe between the steps: a poll
    pollAt,         \* where that poll is
    iter,           \* index in list of the entry it is at
    pollCount,      \* methods it has called
    pc,             \* pc[t]: where the call of thread t is, in a method or not
    op,             \* op[t]: which call
    on,             \* on[t]: the latch of that call
    refused,        \* latches bound by a call that returned an error
    calls, errors   \* see MaxCalls and MaxErrors

latchVars == <<event, bound, live, latchOwner, refused>>
pipeVars  == <<list, mSignalled, pipeOwner>>
pollVars  == <<pollAt, iter, pollCount>>
callVars  == <<pc, op, on, calls>>
vars == <<latchVars, pipeVars, pollVars, callVars, errors>>

Setting(l) == IF "disable" \in event[l] THEN "Disabled"
              ELSE IF "data" \in event[l] THEN "On" ELSE "Off"

\* Whether thread t may enter the lock of the pipe: it nests in its own poll.
PipeFree(t) == pipeOwner \in {NoThread, t}

\* The latch whose entry the poll is at.
Current == list[iter]

Init ==
    /\ event = [l \in Latches |-> {}]
    /\ bound = [l \in Latches |-> FALSE]
    /\ live = [l \in Latches |-> TRUE]
    /\ latchOwner = [l \in Latches |-> NoThread]
    /\ refused = {}
    /\ list = <<>> /\ mSignalled = FALSE /\ pipeOwner = NoThread
    /\ pollAt = "none" /\ iter = 1 /\ pollCount = 0
    /\ pc = [t \in Threads |-> "idle"]
    /\ op = [t \in Threads |-> "reset"]
    /\ on = [t \in Threads |-> CHOOSE l \in Latches : TRUE]
    /\ calls = [t \in Threads |-> 0]
    /\ errors = 0

----------------------------------------------------------------------------
\* Calls and returns

\* Thread t calls a function, from its own code or from a method that its
\* poll has called.  Only a latch without a pipe is bound.
Call(t, o, l) ==
    /\ pc[t] = "idle" /\ calls[t] < MaxCalls
    /\ pipeOwner = t => pollAt = "method" /\ o \in CallbackOps
    /\ o = "bind" => ~ bound[l]
    /\ pc' = [pc EXCEPT ![t] = "enter"]
    /\ op' = [op EXCEPT ![t] = o]
    /\ on' = [on EXCEPT ![t] = l]
    /\ calls' = [calls EXCEPT ![t] = @ + 1]
    /\ UNCHANGED <<latchVars, pipeVars, pollVars, errors>>

\* The call of t of function o can enter the lock of its latch.
Entering(t, o) == pc[t] = "enter" /\ op[t] = o /\ latchOwner[on[t]] = NoThread

GoTo(t, place) == pc' = [pc EXCEPT ![t] = place]

\* The call keeps the lock of its latch and goes on at place.
HoldLatch(t, place) ==
    /\ latchOwner' = [latchOwner EXCEPT ![on[t]] = t]
    /\ GoTo(t, place)

\* The call releases the lock of its latch, if it has kept it, and returns.
ReturnCall(t) ==
    /\ latchOwner' = [latchOwner EXCEPT ![on[t]] = NoThread]
    /\ GoTo(t, "idle")

\* The bit that a call of set or disable adds to mEvent; bind adds none.
Bits(o) == CASE o = "set" -> {"data"} [] o = "disable" -> {"disable"} [] OTHER -> {}

----------------------------------------------------------------------------
\* ert_setEventLatch and ert_disableEventLatch

\* The settings in which a call of function o has nothing to do.
Done(o) == IF o = "set" THEN {"On", "Disabled"} ELSE {"Disabled"}

Raise(t, o) ==
    /\ Entering(t, o)
    /\ IF Setting(on[t]) \in Done(o)
       THEN ReturnCall(t) /\ UNCHANGED event
       ELSE IF bound[on[t]]
       THEN HoldLatch(t, "signal") /\ UNCHANGED event
       ELSE /\ event' = [event EXCEPT ![on[t]] = @ \cup Bits(o)]
            /\ ReturnCall(t)
    /\ UNCHANGED <<bound, live, refused, pipeVars, pollVars, op, on, calls,
                   errors>>

SetEventLatch(t)     == Raise(t, "set")
DisableEventLatch(t) == Raise(t, "disable")

\* Mutant: marks the pipe without its lock.
BugSignalEventLatch(t) ==
    /\ pc[t] = "signal"
    /\ mSignalled' = TRUE
    /\ GoTo(t, "update")
    /\ UNCHANGED <<latchVars, list, pipeOwner, pollVars, op, on, calls, errors>>

\* signalEventLatch_, ert_setEventPipe: a byte is written unless the pipe is
\* marked already.
SignalEventLatch(t) ==
    /\ pc[t] = "signal" /\ PipeFree(t)
    /\ mSignalled' = TRUE
    /\ GoTo(t, "update")
    /\ UNCHANGED <<latchVars, list, pipeOwner, pollVars, op, on, calls, errors>>

\* write() fails: with EINTR it is tried again, otherwise the call returns an
\* error and leaves mEvent alone, but a latch that it has bound stays bound.
SignalFails(t) ==
    /\ pc[t] = "signal" /\ PipeFree(t) /\ ~ mSignalled
    /\ errors < MaxErrors
    /\ errors' = errors + 1
    /\ \/ UNCHANGED <<latchOwner, pc, refused>>
       \/ /\ ReturnCall(t)
          /\ refused' = IF op[t] = "bind" THEN refused \cup {on[t]} ELSE refused
    /\ UNCHANGED <<event, bound, live, pipeVars, pollVars, op, on, calls>>

\* The pipe marked, the call records the event in the latch.
Update(t) ==
    /\ pc[t] = "update"
    /\ event' = [event EXCEPT ![on[t]] = @ \cup Bits(op[t])]
    /\ ReturnCall(t)
    /\ UNCHANGED <<bound, live, refused, pipeVars, pollVars, op, on, calls,
                   errors>>

----------------------------------------------------------------------------
\* ert_resetEventLatch: only an enabled latch loses its data.
Reset(l) == IF Setting(l) = "On" THEN event[l] \ {"data"} ELSE event[l]

ResetEventLatch(t) ==
    /\ Entering(t, "reset")
    /\ event' = [event EXCEPT ![on[t]] = Reset(on[t])]
    /\ ReturnCall(t)
    /\ UNCHANGED <<bound, live, refused, pipeVars, pollVars, op, on, calls,
                   errors>>

----------------------------------------------------------------------------
\* bindEventLatchPipe_

\* Mutant: binds without looking again whether the latch is bound.
BugBeginBind(t) ==
    /\ \/ Entering(t, "bind")
       \/ Entering(t, "unbind") /\ bound[on[t]]
    /\ HoldLatch(t, "list")
    /\ UNCHANGED <<event, bound, live, refused, pipeVars, pollVars, op, on,
                   calls, errors>>

\* The latch may have been bound, or unbound, since the caller looked.
BeginBind(t) ==
    /\ \/ Entering(t, "bind") /\ ~ bound[on[t]]
       \/ Entering(t, "unbind") /\ bound[on[t]]
    /\ HoldLatch(t, "list")
    /\ UNCHANGED <<event, bound, live, refused, pipeVars, pollVars, op, on,
                   calls, errors>>

NothingToBind(t) ==
    /\ \/ Entering(t, "bind") /\ bound[on[t]]
       \/ Entering(t, "unbind") /\ ~ bound[on[t]]
    /\ ReturnCall(t)
    /\ UNCHANGED <<event, bound, live, refused, pipeVars, pollVars, op, on,
                   calls, errors>>

\* ert_attachEventPipeLatch_; a latch that is set needs the pipe marked.
Attach(t) ==
    /\ pc[t] = "list" /\ op[t] = "bind" /\ PipeFree(t)
    /\ list' = <<on[t]>> \o list
    /\ bound' = [bound EXCEPT ![on[t]] = TRUE]
    /\ IF Setting(on[t]) # "Off" THEN GoTo(t, "signal") /\ UNCHANGED latchOwner
                                 ELSE ReturnCall(t)
    /\ UNCHANGED <<event, live, refused, mSignalled, pipeOwner, pollVars, op, on,
                   calls, errors>>

\* The list without the entry of latch l.
Unlinked(l) == RemoveAt(list, CHOOSE i \in DOMAIN list : list[i] = l)

\* Mutant: takes the latch off the list without the lock of the pipe.
BugDetach(t) ==
    /\ pc[t] = "list" /\ op[t] = "unbind"
    /\ list' = Unlinked(on[t])
    /\ bound' = [bound EXCEPT ![on[t]] = FALSE]
    /\ refused' = refused \ {on[t]}
    /\ ReturnCall(t)
    /\ UNCHANGED <<event, live, mSignalled, pipeOwner, pollVars, op, on, calls,
                   errors>>

\* ert_detachEventPipeLatch_
Detach(t) ==
    /\ pc[t] = "list" /\ op[t] = "unbind" /\ PipeFree(t)
    /\ list' = Unlinked(on[t])
    /\ bound' = [bound EXCEPT ![on[t]] = FALSE]
    /\ refused' = refused \ {on[t]}
    /\ ReturnCall(t)
    /\ UNCHANGED <<event, live, mSignalled, pipeOwner, pollVars, op, on, calls,
                   errors>>

----------------------------------------------------------------------------
\* ert_pollEventPipe

\* Mutants: polls a pipe that is not marked; starts before the first entry.
BugBeginPollUnmarked(t) ==
    /\ pc[t] = "idle" /\ pipeOwner = NoThread
    /\ calls[t] < MaxCalls
    /\ calls' = [calls EXCEPT ![t] = @ + 1]
    /\ pipeOwner' = t
    /\ pollAt' = "entry" /\ iter' = 1 /\ pollCount' = 0
    /\ UNCHANGED <<latchVars, list, mSignalled, pc, op, on, errors>>

BugBeginPollEarly(t) ==
    /\ pc[t] = "idle" /\ pipeOwner = NoThread /\ mSignalled
    /\ calls[t] < MaxCalls
    /\ calls' = [calls EXCEPT ![t] = @ + 1]
    /\ pipeOwner' = t
    /\ pollAt' = "entry" /\ iter' = 0 /\ pollCount' = 0
    /\ UNCHANGED <<latchVars, list, mSignalled, pc, op, on, errors>>

\* A poll of a pipe that is not marked returns at once and changes nothing.
BeginPoll(t) ==
    /\ pc[t] = "idle" /\ pipeOwner = NoThread /\ mSignalled
    /\ calls[t] < MaxCalls
    /\ calls' = [calls EXCEPT ![t] = @ + 1]
    /\ pipeOwner' = t
    /\ pollAt' = "entry" /\ iter' = 1 /\ pollCount' = 0
    /\ UNCHANGED <<latchVars, list, mSignalled, pc, op, on, errors>>

Polling(t, place) == pipeOwner = t /\ pollAt = place /\ pc[t] = "idle"

\* ert_pollEventLatchListEntry: the latch is reset before its method is called;
\* one that was disabled is told so and never asked again.
PollEntry(t) ==
    /\ Polling(t, "entry") /\ iter <= Len(list)
    /\ live[Current] => latchOwner[Current] = NoThread
    /\ IF live[Current] /\ Setting(Current) # "Off"
       THEN /\ event' = [event EXCEPT ![Current] = Reset(Current)]
            /\ live' = [live EXCEPT ![Current] = Setting(Current) # "Disabled"]
            /\ pollAt' = "method" /\ UNCHANGED iter
       ELSE /\ iter' = iter + 1
            /\ UNCHANGED <<event, live, pollAt>>
    /\ UNCHANGED <<bound, latchOwner, refused, pipeVars, pollCount, callVars,
                   errors>>

MethodReturns(t) ==
    /\ Polling(t, "method")
    /\ pollAt' = "entry" /\ iter' = iter + 1 /\ pollCount' = pollCount + 1
    /\ UNCHANGED <<latchVars, pipeVars, callVars, errors>>

EndPoll ==
    /\ pipeOwner' = NoThread
    /\ pollAt' = "none" /\ iter' = 1 /\ pollCount' = 0

\* A method that fails ends the poll, with an error if it was the first and
\* with the number of methods called before if not, and the pipe stays marked.
MethodFails(t) ==
    /\ Polling(t, "method")
    /\ errors < MaxErrors /\ errors' = errors + 1
    /\ EndPoll
    /\ UNCHANGED <<latchVars, list, mSignalled, callVars>>

\* All entries polled, the byte is read; read() may fail and leave the mark.
ResetEventPipe(t) ==
    /\ Polling(t, "entry") /\ iter > Len(list)
    /\ \/ mSignalled' = FALSE /\ UNCHANGED errors
       \/ /\ errors < MaxErrors /\ errors' = errors + 1
          /\ UNCHANGED mSignalled
    /\ EndPoll
    /\ UNCHANGED <<latchVars, list, callVars>>

----------------------------------------------------------------------------
Next ==
    \E t \in Threads :
        \/ \E o \in CallOps, l \in Latches : Call(t, o, l)
        \/ SetEventLatch(t) \/ DisableEventLatch(t) \/ ResetEventLatch(t)
        \/ SignalEventLatch(t) \/ SignalFails(t) \/ Update(t)
        \/ BeginBind(t) \/ NothingToBind(t) \/ Attach(t) \/ Detach(t)
        \/ BeginPoll(t) \/ PollEntry(t) \/ MethodReturns(t) \/ MethodFails(t)
        \/ ResetEventPipe(t)

Spec == Init /\ [][Next]_vars

----------------------------------------------------------------------------
TypeOK ==
    /\ event \in [Latches -> SUBSET {"data", "disable"}]
    /\ bound \in [Latches -> BOOLEAN] /\ live \in [Latches -> BOOLEAN]
    /\ latchOwner \in [Latches -> Threads \cup {NoThread}]
    /\ refused \subseteq Latches
    /\ list \in Seq(Latches) /\ mSignalled \in BOOLEAN
    /\ pipeOwner \in Threads \cup {NoThread}
    /\ pollAt \in {"none", "entry", "method"}
    /\ iter \in 1 .. Len(list) + 1 /\ pollCount \in Nat
    /\ pc \in [Threads -> {"idle", "enter", "signal", "update", "list"}]
    /\ op \in [Threads -> CallOps] /\ on \in [Threads -> Latches]
    /\ calls \in [Threads -> 0 .. MaxCalls] /\ errors \in 0 .. MaxErrors

\* A latch that is set or disabled, bound, and not in the middle of a call has
\* the pipe marked, so that the next poll finds it: no event is lost between
\* the threads that raise events and the poll that clears the mark.
NoLostEvent ==
    \A l \in Latches :
        /\ bound[l] /\ live[l] /\ l \notin refused
        /\ latchOwner[l] = NoThread /\ Setting(l) # "Off"
        => mSignalled

\* While a poll runs the pipe stays marked, so that its ert_ensure() of having
\* read the byte holds in the end.
MarkedWhilePolled == pollAt # "none" => mSignalled

\* The method that runs is that of a latch that is still bound and listed: once
\* unbind has returned, no other thread is in the method or will enter it.
NoCallAfterUnbind == pollAt = "method" => iter <= Len(list) /\ bound[Current]

\* The list holds the bound latches, each once, except in the middle of a call.
ListedOnce ==
    /\ IsInjective(list)
    /\ \A l \in Latches : bound[l] <=> l \in ToSet(list)

----------------------------------------------------------------------------
\* What makes these properties inductive (EventPipeProofs).

\* The lock of a latch is kept between the steps of one call on that latch.
LatchInv ==
    \A l \in Latches, t \in Threads :
        latchOwner[l] = t <=> pc[t] \in {"signal", "update", "list"} /\ on[t] = l

\* How a call that keeps the lock of its latch stands to the list.
CallInv ==
    \A t \in Threads :
        /\ pc[t] \in {"signal", "update"} =>
              op[t] \in {"set", "disable", "bind"} /\ bound[on[t]]
        /\ pc[t] = "list" =>
              op[t] \in {"bind", "unbind"} /\ (bound[on[t]] <=> op[t] = "unbind")

\* A poll keeps the lock and the mark of the pipe, and calls through a method.
PollInv ==
    /\ pollAt = "none" <=> pipeOwner = NoThread
    /\ pollAt = "none" => iter = 1
    /\ MarkedWhilePolled
    /\ pollAt = "method" => iter <= Len(list)
    /\ \A t \in Threads : pipeOwner = t /\ pc[t] # "idle" =>
          pollAt = "method" /\ op[t] \in CallbackOps

\* The poll has been at entry i of the list.
Polled(i) == i < iter \/ (i = iter /\ pollAt = "method")

\* A call that has bound latch l has still to mark the pipe.
BindPending(l) ==
    \E t \in Threads : latchOwner[l] = t /\ pc[t] = "signal" /\ op[t] = "bind"

\* Methods at most reset latches.
Quiet == CallbackOps \subseteq {"reset"}

\* What a poll has passed is off until it ends.
PassedOff ==
    \A i \in DOMAIN list : Polled(i) /\ live[list[i]] =>
        /\ Setting(list[i]) = "Off"
        /\ \A t \in Threads : latchOwner[list[i]] = t => pc[t] # "update"

\* What is raised, or about to be, has the pipe marked.
RaisedMarked ==
    \A l \in Latches :
        /\ bound[l] /\ live[l] /\ l \notin refused
        /\ Setting(l) # "Off" /\ ~ BindPending(l)
        => mSignalled

UpdatingMarked ==
    \A t \in Threads : pc[t] = "update" /\ live[on[t]] => mSignalled

Inv ==
    /\ TypeOK /\ LatchInv /\ CallInv /\ PollInv /\ ListedOnce
    /\ Quiet => PassedOff /\ RaisedMarked /\ UpdatingMarked

----------------------------------------------------------------------------
\* A thread waits for the lock of the pipe while it has that of a latch, and
\* another for that latch while it has the pipe: neither can ever go on.
LockCycle ==
    \E t, u \in Threads, l \in Latches :
        /\ t # u /\ latchOwner[l] = t
        /\ pc[t] \in {"signal", "list"} /\ pipeOwner = u
        /\ \/ Polling(u, "entry") /\ iter <= Len(list) /\ Current = l /\ live[l]
           \/ pc[u] = "enter" /\ on[u] = l

NoLockCycle == ~ LockCycle
=============================================================================
