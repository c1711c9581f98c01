------------------------------ MODULE PollLoop ------------------------------
(***************************************************************************)
(* ert_runPollFdLoop() of pollfd.c: files and timers served by one thread. *)
(* Each turn of the loop waits for the files until the first timer is due, *)
(* reads the clock, polls the files once more, calls back for the files    *)
(* and then for the timers that expired by that reading.                   *)
(*                                                                         *)
(* A callback may use up what it was called for, stop the loop, fail, and  *)
(* do to any timer what timekeeping.h offers: cancel it, make it due, and  *)
(* restart it at the time it was passed or at a fresh reading, or delay    *)
(* it.  Time may pass between any two steps: the process can be stopped.   *)
(* The table of files is ordered: file 1 is looked at first.               *)
(***************************************************************************)
EXTENDS Timekeeping, FiniteSets, FiniteSetsExt

CONSTANTS
    PollFiles,      \* 1 .. n, the indices of the table of files
    Disconnecting,  \* the files polled for their disconnection too
    Timers,         \* 1 .. m, the indices of the table of timers
    Period,         \* the period of every timer
    TickScale,      \* ticks of the clock in a unit of poll(2)'s timeout
    MaxClock,       \* bound on the clock
    MaxTouches      \* bound on what callbacks do to timers

ASSUME PollAssumption ==
    /\ Disconnecting \subseteq PollFiles
    /\ {Period, TickScale, MaxClock} \subseteq Nat \ {0}
    /\ 2 * Period <= Wrap /\ 2 * MaxClock < Wrap

VARIABLES
    stage,          \* what the loop does next
    clock,          \* the event clock
    polltm,         \* the time latched
    wake,           \* when poll(2) gives up, or Forever
    mark,           \* mSince of each timer
    active,         \* the timers with a period
    readable,       \* the files with input
    hungUp,         \* the files whose peer is gone
    reported,       \* revents of the second poll, not yet looked at
    index,          \* the next timer to look at
    complete,       \* the completion query says so
    touches,        \* things done to timers
    \* history
    pending,        \* files ready when the time was latched and not served since
    pushed,         \* timers whose mark a callback moved past the time latched
    fired           \* what the last expiry looked like

pollVars == <<stage, clock, polltm, wake, mark, active, readable, hungUp, reported,
              index, complete, touches, pending, pushed, fired>>

Forever == 0
NotFired == [whole |-> TRUE, ahead |-> FALSE, overlooked |-> {}]

\* A mark as a signed time: making a timer due can put it before the clock's start.
Signed(m) == IF 2 * m >= Wrap THEN m - Wrap ELSE m

Subscribed == readable \cup (hungUp \cap Disconnecting)

PollTypeOK ==
    /\ stage \in {"choose", "wait", "latch", "poll", "files", "timers",
                  "done", "failed", "aborted"}
    /\ {clock, polltm, wake} \subseteq Times
    /\ mark \in [Timers -> Times]
    /\ active \subseteq Timers
    /\ readable \cup hungUp \cup reported \cup pending \subseteq PollFiles
    /\ index \in Timers \cup {Cardinality(Timers) + 1}
    /\ complete \in BOOLEAN
    /\ touches \in 0 .. MaxTouches
    /\ pushed \subseteq Timers
    /\ fired.overlooked \subseteq PollFiles

PollInit ==
    /\ stage = "choose" /\ clock = FirstTime /\ polltm = FirstTime /\ wake = Forever
    /\ mark = [t \in Timers |-> NoMark] /\ active = Timers
    /\ readable = {} /\ hungUp = {} /\ reported = {} /\ index = 1
    /\ complete = FALSE /\ touches = 0
    /\ pending = {} /\ pushed = {} /\ fired = NotFired

-----------------------------------------------------------------------------
(* The world.                                                              *)

Tick ==
    /\ clock < MaxClock /\ clock' = clock + 1
    /\ UNCHANGED <<stage, polltm, wake, mark, active, readable, hungUp, reported, index,
                   complete, touches, pending, pushed, fired>>

Arrive(f) ==
    /\ f \notin readable /\ readable' = readable \cup {f}
    /\ UNCHANGED <<stage, clock, polltm, wake, mark, active, hungUp, reported, index,
                   complete, touches, pending, pushed, fired>>

HangUp(f) ==
    /\ f \notin hungUp /\ hungUp' = hungUp \cup {f}
    /\ UNCHANGED <<stage, clock, polltm, wake, mark, active, readable, reported, index,
                   complete, touches, pending, pushed, fired>>

-----------------------------------------------------------------------------
(* The loop.                                                               *)

Expired(t, time) == t \in active /\ DeadlineTimeExpired(mark[t], Period, time)

\* The timers the choice looks at: it ends with the first that expired.
Considered(time) ==
    {t \in active : \A s \in active : Expired(s, time) => t <= s}

Timeout(time) ==
    IF \E t \in active : Expired(t, time) THEN 0
    ELSE Min({Remaining(mark[t], Period, time) : t \in active})

Choose ==
    /\ stage = "choose" /\ ~complete
    /\ stage' = "wait" /\ polltm' = clock
    /\ mark' = [t \in Timers |-> IF t \in Considered(clock)
                                 THEN Marked(mark[t], clock) ELSE mark[t]]
    /\ wake' = IF active = {} THEN Forever
               ELSE clock + ScaleDown(Timeout(clock), TickScale) * TickScale
    /\ fired' = NotFired
    /\ UNCHANGED <<clock, active, readable, hungUp, reported, index, complete, touches,
                   pending, pushed>>

Complete ==
    /\ stage = "choose" /\ complete /\ stage' = "done" /\ fired' = NotFired
    /\ UNCHANGED <<clock, polltm, wake, mark, active, readable, hungUp, reported, index,
                   complete, touches, pending, pushed>>

\* The first poll(2) ends with any event, subscribed or not, with its timeout, or
\* with a signal, and only its failure is looked at.
Wait ==
    /\ stage = "wait" /\ stage' = "latch"
    /\ UNCHANGED <<clock, polltm, wake, mark, active, readable, hungUp, reported, index,
                   complete, touches, pending, pushed, fired>>

Latch ==
    /\ stage = "latch" /\ stage' = "poll" /\ polltm' = clock
    /\ pending' = Subscribed
    /\ pushed' = {t \in pushed : Signed(mark[t]) > clock}
    /\ UNCHANGED <<clock, wake, mark, active, readable, hungUp, reported, index,
                   complete, touches, fired>>

\* A bug: a wait that ended with its timeout goes to the timers without another poll.
BugPollAgain ==
    /\ stage = "poll" /\ reported' = {} /\ stage' = "files"
    /\ UNCHANGED <<clock, polltm, wake, mark, active, readable, hungUp, index,
                   complete, touches, pending, pushed, fired>>

\* A disconnection is reported to whoever polls the file, but it counts as an
\* event of the loop only where it is subscribed to.
PollAgain ==
    /\ stage = "poll"
    /\ reported' = Subscribed
    /\ stage' = IF readable \cup hungUp # {} /\ Subscribed = {} THEN "aborted" ELSE "files"
    /\ UNCHANGED <<clock, polltm, wake, mark, active, readable, hungUp, index,
                   complete, touches, pending, pushed, fired>>

\* What a callback does to the timers.
Touch(marks) ==
    \/ UNCHANGED <<active, touches, pushed>> /\ mark' = marks
    \/ /\ touches < MaxTouches /\ touches' = touches + 1
       /\ \E t \in Timers :
            \/ active' = active \ {t} /\ mark' = marks /\ pushed' = pushed \ {t}
            \/ /\ active' = active \cup {t}
               /\ mark' = [marks EXCEPT ![t] = LapTimeTrigger(Period, polltm)]
               /\ pushed' = pushed \ {t}
            \/ /\ marks[t] # NoMark /\ UNCHANGED active
               /\ \E m \in {LapTimeRestart(polltm), LapTimeRestart(clock),
                            LapTimeDelay(marks[t], 1)} :
                    /\ mark' = [marks EXCEPT ![t] = m]
                    /\ pushed' = IF m > polltm THEN pushed \cup {t} ELSE pushed

Callback(marks, next) ==
    /\ Touch(marks)
    /\ \/ stage' = next /\ complete' \in {complete, TRUE}
       \/ stage' = "failed" /\ UNCHANGED complete

CallFile ==
    /\ stage = "files" /\ reported # {}
    /\ LET f == Min(reported)
       IN  /\ reported' = reported \ {f} /\ pending' = pending \ {f}
           /\ readable' \in {readable, readable \ {f}}
           /\ Callback(mark, "files")
    /\ UNCHANGED <<clock, polltm, wake, hungUp, index, fired>>

EndFiles ==
    /\ stage = "files" /\ reported = {} /\ stage' = "timers" /\ index' = 1
    /\ UNCHANGED <<clock, polltm, wake, mark, active, readable, hungUp, reported, complete,
                   touches, pending, pushed, fired>>

PassTimer ==
    /\ stage = "timers" /\ index \in Timers /\ ~Expired(index, polltm)
    /\ index' = index + 1
    /\ mark' = IF index \in active
               THEN [mark EXCEPT ![index] = Marked(mark[index], polltm)] ELSE mark
    /\ UNCHANGED <<stage, clock, polltm, wake, active, readable, hungUp, reported, complete,
                   touches, pending, pushed, fired>>

FireTimer ==
    /\ stage = "timers" /\ index \in Timers /\ Expired(index, polltm)
    /\ index' = index + 1
    /\ fired' = [ahead |-> index \in pushed, whole |-> Signed(mark[index]) + Period <= polltm,
                 overlooked |-> pending \cap Subscribed]
    /\ Callback([mark EXCEPT ![index] = LapTimeSince(@, Period, polltm)], "timers")
    /\ UNCHANGED <<clock, polltm, wake, readable, hungUp, reported, pending>>

EndTimers ==
    /\ stage = "timers" /\ index \notin Timers /\ stage' = "choose" /\ index' = 1
    /\ UNCHANGED <<clock, polltm, wake, mark, active, readable, hungUp, reported, complete,
                   touches, pending, pushed, fired>>

PollNext ==
    \/ Tick
    \/ \E f \in PollFiles : Arrive(f) \/ HangUp(f)
    \/ Choose \/ Complete \/ Wait \/ Latch \/ PollAgain
    \/ CallFile \/ EndFiles \/ PassTimer \/ FireTimer \/ EndTimers

-----------------------------------------------------------------------------
\* A timer never expires over a file that was ready, and had not been served, when
\* the time it expired by was read: however long the process was stopped, input
\* that came in time is seen first.
FilesFirst == fired.overlooked = {}

\* A timer expires before its period is over only after a callback moved its mark
\* past the time latched, by a delay or a fresh reading: the difference of the two
\* then wraps.
EarlyOnlyIfAhead == fired.whole \/ fired.ahead

\* The loop never sleeps past the unit of poll(2) in which a timer is due, whichever
\* timers were cancelled, restarted or not yet marked when it chose.
NoTimerSlept ==
    stage = "wait" =>
        /\ wake = Forever <=> active = {}
        /\ \A t \in active :
             \/ wake = polltm
             \/ wake < Signed(mark[t]) + Period + TickScale

\* What the callbacks of the loop may rely on.
PollLoopKept == FilesFirst /\ EarlyOnlyIfAhead /\ NoTimerSlept

PollSpec == PollInit /\ [][PollNext]_pollVars

-----------------------------------------------------------------------------
\* What makes this inductive (FilesProofs).

ClockInv ==
    /\ clock \in 1 .. MaxClock /\ polltm \in 1 .. clock
    /\ mark \in [Timers -> Times] /\ active \subseteq Timers

\* A file that was ready when the time was latched is reported until it is served, and
\* the timers have their turn when all are.
ServedInv ==
    /\ stage = "poll" => pending \subseteq Subscribed
    /\ stage = "files" => pending \subseteq reported
    /\ stage = "timers" => pending = {}

\* The mark of a timer is ahead of the time latched only if a callback moved it there.
MarkInv == \A t \in active \ pushed : Signed(mark[t]) <= polltm

PollLoopInv == ClockInv /\ ServedInv /\ MarkInv /\ PollLoopKept
=============================================================================
