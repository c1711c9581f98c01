----------------------------- MODULE FdTransfer -----------------------------
(***************************************************************************)
(* Reading and writing a descriptor in fd.c, with or without a deadline    *)
(* (deadline.c): readFdDeadline_() and writeFdDeadline_() move units of    *)
(* data until all are moved, the file ends, an error or the deadline.      *)
(* Before each attempt ert_checkDeadlineExpired() polls the file, compares *)
(* the time it read first with the deadline, and waits; both polls are     *)
(* waitFdReady_(), a loop with a timeout of its own.  A deadline that      *)
(* passed while the process was stopped is measured again.                 *)
(*                                                                         *)
(* The peer supplies units (input for a reader, room for a writer), takes  *)
(* some away if the file is shared, and goes.  A signal can interrupt      *)
(* every system call, and time can pass between any two steps.             *)
(***************************************************************************)
EXTENDS Timekeeping

CONSTANTS
    Length,             \* units to move
    TransferPeriods,    \* the timeouts that calls are made with
    MaxTransferClock,   \* bound on the clock
    MaxTransferStops,   \* bound on stops of the process
    MaxSupplied,        \* bound on the units supplied
    MaxStolen           \* bound on the units another process takes

ASSUME TransferAssumption ==
    /\ TransferPeriods \subseteq Nat
    /\ {Length, MaxTransferClock, MaxTransferStops, MaxSupplied, MaxStolen} \subseteq Nat
    /\ MaxTransferClock < Wrap

VARIABLES
    at,             \* what the call does next
    call,           \* its arguments: direction, blocking, period
    moved,          \* bufPtr - aBuf
    deadline,       \* [mark, time, resumed] of the deadline
    purpose,        \* of the check of the deadline: "before" or "again"
    polling,        \* the current waitFdReady_()
    result,         \* what the call returned, -1 for an error
    now,            \* the event clock
    units, gone, supplied, stolen,      \* the file
    resumed,          \* SIGCONT counted by the process
    \* history
    transferred,          \* units that the kernel moved for this call
    unready,        \* the file was found not ready since the deadline's mark
    why             \* how a short or failed transfer ended

transferVars == <<at, call, moved, deadline, purpose, polling, result, now, units, gone,
                  supplied, stolen, resumed, transferred, unready, why>>

transferFileVars == <<units, gone, supplied, stolen>>
worldVars == <<now, units, gone, supplied, stolen, resumed>>

NoTimeout == -1         \* of poll(2): wait for ever
Directions == {"read", "write"}
Waiters == {"check", "wait", "again"}

TransferTypeOK ==
    /\ at \in {"idle", "loop", "check", "decide", "io", "blocked", "done"}
              \cup {"latch", "poll", "sleep"}
    /\ call \in [direction : Directions, blocking : BOOLEAN,
                 period : TransferPeriods \cup {NoTimeout}]
    /\ moved \in 0 .. Length
    /\ deadline \in [mark : Times, time : Times, resumed : 0 .. MaxTransferStops]
    /\ purpose \in {"before", "again"}
    /\ polling \in [by : Waiters, timeout : TransferPeriods \cup {NoTimeout} \cup Times,
                    mark : Times, time : Times, wake : Times, ready : BOOLEAN,
                    resumed : 0 .. MaxTransferStops]
    /\ result \in -1 .. Length
    /\ why \in {"moved", "ended", "error", "timeout"}

NoCall == [direction |-> "read", blocking |-> TRUE, period |-> NoTimeout]
NoDeadline == [mark |-> NoMark, time |-> 0, resumed |-> 0]
NoPolling == [by |-> "check", timeout |-> 0, mark |-> NoMark, time |-> 0, wake |-> 0,
              ready |-> FALSE, resumed |-> 0]

TransferInit ==
    /\ at = "idle" /\ call = NoCall /\ moved = 0
    /\ deadline = NoDeadline /\ purpose = "before" /\ polling = NoPolling
    /\ result = 0 /\ now = FirstTime
    /\ units = 0 /\ gone = FALSE /\ supplied = 0 /\ stolen = 0 /\ resumed = 0
    /\ transferred = 0 /\ unready = FALSE /\ why = "moved"

-----------------------------------------------------------------------------
(* The world.                                                              *)

callVars == <<at, call, moved, deadline, purpose, polling, result, transferred, unready, why>>

Pass == now < MaxTransferClock /\ now' = now + 1 /\ UNCHANGED <<callVars, transferFileVars,
                                                                resumed>>

Supply ==
    /\ supplied < MaxSupplied /\ ~gone
    /\ supplied' = supplied + 1 /\ units' = units + 1
    /\ UNCHANGED <<callVars, now, gone, stolen, resumed>>

Steal ==
    /\ stolen < MaxStolen /\ units > 0
    /\ stolen' = stolen + 1 /\ units' = units - 1
    /\ UNCHANGED <<callVars, now, gone, supplied, resumed>>

Leave == ~gone /\ gone' = TRUE /\ UNCHANGED <<callVars, now, units, supplied, stolen, resumed>>

\* The process is stopped and continued; SIGCONT is counted (process.c, sigCont_()).
StopContinue ==
    /\ resumed < MaxTransferStops /\ resumed' = resumed + 1
    /\ UNCHANGED <<callVars, now, transferFileVars>>

FileReady == units > 0 \/ gone

-----------------------------------------------------------------------------
(* The call.                                                               *)

Timed == call.period # NoTimeout

BeginTransfer ==
    /\ at = "idle" /\ at' = "loop"
    /\ call' \in [direction : Directions, blocking : BOOLEAN,
                  period : TransferPeriods \cup {NoTimeout}]
    /\ deadline' = [NoDeadline EXCEPT !.resumed = resumed]
    /\ UNCHANGED <<worldVars, moved, purpose, polling, result, transferred, unready, why>>

Return(code, reason) ==
    /\ at' = "done" /\ result' = code /\ why' = reason
    /\ UNCHANGED <<call, moved, deadline, purpose, polling, transferred, unready>>

\* Every failure is an error only while nothing was moved: later it cuts short.
Fail(reason) == Return(IF moved = 0 THEN -1 ELSE moved, reason)

Enter(by, timeout) ==
    /\ at' = "latch"
    /\ polling' = [NoPolling EXCEPT !.by = by, !.timeout = timeout, !.resumed = resumed]

TransferLoop ==
    /\ at = "loop"
    /\ IF moved = Length THEN Return(moved, "moved")
       ELSE /\ at' = IF Timed THEN "check" ELSE "io"
            /\ purpose' = "before"
            /\ UNCHANGED <<call, moved, deadline, polling, result, transferred, unready, why>>
    /\ UNCHANGED worldVars

\* ert_checkDeadlineExpired() reads the clock, then polls.
CheckDeadline ==
    /\ at = "check"
    /\ deadline' = [deadline EXCEPT !.time = now]
    /\ Enter("check", 0)
    /\ UNCHANGED <<worldVars, call, moved, purpose, result, transferred, unready, why>>

\* What the check tells its caller: the file is ready, or look again.
Ready == at' = (IF purpose = "before" THEN "io" ELSE "loop")
NotReady == at' = "loop"

\* A bug: the mark is made and compared in one go.
BugDeadlineExpired ==
    Elapsed(Marked(deadline.mark, deadline.time), deadline.time) >= call.period

DeadlineExpired == DeadlineTimeExpired(deadline.mark, call.period, deadline.time)

DecideDeadline ==
    /\ at = "decide"
    /\ IF DeadlineExpired
       THEN IF deadline.resumed # resumed
            THEN /\ deadline' = [deadline EXCEPT !.mark = NoMark, !.resumed = resumed]
                 /\ NotReady /\ unready' = FALSE
                 /\ UNCHANGED <<call, moved, purpose, polling, result, transferred, why>>
            ELSE Fail("timeout")
       ELSE /\ deadline' = [deadline EXCEPT !.mark = Marked(@, deadline.time)]
            /\ IF polling.ready THEN Ready /\ UNCHANGED polling
               ELSE Enter("wait", Remaining(deadline.mark, call.period, deadline.time))
            /\ UNCHANGED <<call, moved, purpose, result, transferred, unready, why>>
    /\ UNCHANGED worldVars

-----------------------------------------------------------------------------
(* waitFdReady_().                                                         *)

LatchPoll ==
    /\ at = "latch" /\ at' = "poll"
    /\ polling' = [polling EXCEPT !.time = now]
    /\ UNCHANGED <<worldVars, call, moved, deadline, purpose, result, transferred, unready, why>>

\* What the caller of waitFdReady_() does with its answer.
Answer(ready) ==
    /\ CASE polling.by = "check" -> at' = "decide"
         [] polling.by = "wait"  -> IF ready THEN Ready ELSE NotReady
         [] polling.by = "again" -> at' = "loop"
    /\ unready' = (unready \/ ~ready)

\* The file is polled without waiting (a signal leaves the last answer), and then the
\* time read before that is compared with the timeout.
Poll ==
    /\ at = "poll"
    /\ \E ready \in {FileReady, polling.ready} :
         IF polling.timeout = NoTimeout
         THEN /\ at' = "sleep" /\ UNCHANGED unready
              /\ polling' = [polling EXCEPT !.ready = ready]
         ELSE IF DeadlineTimeExpired(polling.mark, polling.timeout, polling.time)
         THEN IF polling.resumed # resumed
              THEN /\ at' = "latch" /\ UNCHANGED unready
                   /\ polling' = [polling EXCEPT !.ready = ready, !.mark = NoMark,
                                                 !.resumed = resumed]
              ELSE /\ polling' = [polling EXCEPT !.ready = ready]
                   /\ Answer(ready)
         ELSE /\ at' = "sleep" /\ UNCHANGED unready
              /\ polling' = [polling EXCEPT
                    !.ready = ready, !.mark = Marked(@, polling.time),
                    !.wake = now + Remaining(polling.mark, polling.timeout, polling.time)]
    /\ UNCHANGED <<worldVars, call, moved, deadline, purpose, result, transferred, why>>

PollFails ==
    /\ at \in {"poll", "sleep"} /\ Fail("error") /\ UNCHANGED worldVars

Sleep ==
    /\ at = "sleep"
    /\ \/ FileReady /\ polling' = [polling EXCEPT !.ready = TRUE] /\ Answer(TRUE)
       \/ /\ ~FileReady /\ polling.timeout # NoTimeout /\ now >= polling.wake
          /\ polling' = [polling EXCEPT !.ready = FALSE]
          /\ at' = "latch" /\ UNCHANGED unready
       \/ at' = "latch" /\ UNCHANGED <<polling, unready>>         \* EINTR
    /\ UNCHANGED <<worldVars, call, moved, deadline, purpose, result, transferred, why>>

-----------------------------------------------------------------------------
(* read(2) and write(2).                                                   *)

\* A bug: the whole buffer is asked for in every round.
BugMovable == 1 .. (IF units < Length THEN units ELSE Length)

\* A transfer moves what there is; a blocking write goes on until all is written, or
\* a signal cuts it short.
Movable == 1 .. (IF units < Length - moved THEN units ELSE Length - moved)

Move ==
    /\ at \in {"io", "blocked"}
    /\ call.direction = "write" => ~gone
    /\ \E n \in Movable :
         /\ units' = units - n /\ transferred' = transferred + n /\ moved' = moved + n
    /\ at' = "loop"
    /\ UNCHANGED <<now, gone, supplied, stolen, resumed, call, deadline, purpose, polling,
                   result, unready, why>>

MeetEnd ==
    /\ at \in {"io", "blocked"} /\ gone
    /\ \/ call.direction = "read" /\ units = 0 /\ Return(moved, "ended")
       \/ call.direction = "write" /\ Fail("error")
    /\ UNCHANGED worldVars

Block ==
    /\ at = "io" /\ call.blocking /\ ~gone
    /\ IF call.direction = "write" THEN units < Length - moved ELSE units = 0
    /\ at' = "blocked"
    /\ UNCHANGED <<worldVars, call, moved, deadline, purpose, polling, result, transferred,
                   unready, why>>

\* EINTR comes to a call that sleeps and has moved nothing.
InterruptTransfer ==
    /\ at = "blocked" /\ units = 0 /\ at' = "loop" /\ unready' = TRUE
    /\ UNCHANGED <<worldVars, call, moved, deadline, purpose, polling, result, transferred, why>>

\* EAGAIN: wait for the file as the deadline allows, then start again.
TryAgain ==
    /\ at = "io" /\ ~call.blocking /\ units = 0 /\ ~gone
    /\ IF Timed THEN at' = "check" /\ UNCHANGED polling ELSE Enter("again", NoTimeout)
    /\ purpose' = "again" /\ unready' = TRUE
    /\ UNCHANGED <<worldVars, call, moved, deadline, result, transferred, why>>

TransferFails ==
    /\ at \in {"io", "blocked"} /\ Fail("error") /\ UNCHANGED worldVars

TransferNext ==
    \/ Pass \/ Supply \/ Steal \/ Leave \/ StopContinue
    \/ BeginTransfer \/ TransferLoop \/ CheckDeadline \/ DecideDeadline
    \/ LatchPoll \/ Poll \/ PollFails \/ Sleep
    \/ Move \/ MeetEnd \/ Block \/ InterruptTransfer \/ TryAgain \/ TransferFails

TransferSpec == TransferInit /\ [][TransferNext]_transferVars

-----------------------------------------------------------------------------
\* The caller learns of every unit the kernel moved: an error or a timeout is
\* reported only when there was none, and is otherwise a short count.
NoUnitLost == at = "done" => result = (IF transferred = 0 /\ why \in {"error", "timeout"}
                                       THEN -1 ELSE transferred)

\* A call times out with nothing moved only after it found the file not ready since the
\* deadline was marked, however short the timeout was and however long the process was
\* stopped.  (It may be ready again at the end: the time is compared all the same.)
FairChance == at = "done" /\ why = "timeout" /\ result = -1 => unready

\* A call with a deadline sleeps in read(2), where nothing ends its wait, only if what
\* it was told of was taken by someone else; a write(2) sleeps whenever there is less
\* room than it has to write, which the poll before it does not tell.
BlockedByRace ==
    at = "blocked" /\ Timed => stolen > 0 \/ call.direction = "write"

\* What the users of a transfer may rely on.
TransfersKept == NoUnitLost /\ FairChance /\ BlockedByRace

-----------------------------------------------------------------------------
\* What makes this inductive (FilesProofs).

\* In a poll: by waitFdReady_(), or between its polls.
Polling == at \in {"latch", "poll", "sleep"}

\* The states of a poll and of a deadline, whatever their times.
Polls == [by : Waiters, timeout : Int, mark : Int, time : Int, wake : Int,
          ready : BOOLEAN, resumed : Nat]
Deadlines == [mark : Int, time : Int, resumed : Nat]

\* The call counts each unit as the kernel moves it.
MovedInv ==
    /\ moved \in 0 .. Length /\ units \in Nat /\ transferred = moved
    /\ at = "idle" => moved = 0
    /\ purpose \in {"before", "again"} /\ call.period \in Int
    /\ polling \in Polls /\ deadline \in Deadlines

\* A call with a mark that has moved nothing waits for the file, or is told that it is
\* ready, or has found it not ready.
ChanceInv ==
    /\ purpose = "again" /\ (at \in {"check", "decide"} \/ Polling) => unready
    /\ deadline.mark # NoMark /\ moved = 0 =>
         \/ at \in {"idle", "io", "blocked", "done"} \/ unready
         \/ Polling /\ polling.by = "wait"

\* The file that was found ready is, until somebody else takes what there was.
RaceInv ==
    /\ at = "decide" \/ Polling => ~polling.ready \/ stolen > 0 \/ FileReady
    /\ at = "io" /\ Timed => stolen > 0 \/ FileReady
    /\ stolen \in Nat

TransferInv ==
    /\ MovedInv /\ ChanceInv /\ RaceInv /\ TransfersKept
    /\ now \in Nat /\ resumed \in Nat
=============================================================================
