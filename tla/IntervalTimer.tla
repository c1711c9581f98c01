----------------------------- MODULE IntervalTimer -----------------------------
(***************************************************************************)
(* Times that the library measures itself: interval timers that are taken  *)
(* from the system and given back later (ert_shortenIntervalTime() of      *)
(* timescale.c), and deadlines on the monotonic clock of timekeeping.c.    *)
(* A program uses one of them while the clock runs.  The clock counts      *)
(* nanoseconds, the timers of the system microseconds.                     *)
(***************************************************************************)
EXTENDS Timekeeping

CONSTANTS
    MicroScale,     \* nanoseconds in a microsecond
    MaxMicros,      \* bound on the times of a timer
    MaxNow          \* bound on the clock

ASSUME IntervalAssumption ==
    MicroScale \in Nat \ {0} /\ MaxMicros \in Nat /\ MaxNow \in Nat /\ MaxNow < Wrap

VARIABLES
    nanos,          \* ert_monotonicTime()
    timing,         \* what the program measures, and since when
    expiry,         \* struct Ert_MonotonicDeadline, the period, and history: its checks
    lastCheck,      \* [expired, remaining] of the last check
    ideal           \* history: the time, and the interval, of a timer that was not taken

intervalVars == <<nanos, timing, expiry, lastCheck, ideal>>

NotTiming == [do |-> "none", since |-> 0, value |-> 0, interval |-> 0]
Since(time) == [made |-> TRUE, time |-> time]
NoSince == [made |-> FALSE, time |-> 0]
NotYet == -1
NoMonoDeadline == [since |-> NoSince, period |-> 0, first |-> NotYet, again |-> FALSE]
NoAnswer == [expired |-> FALSE, remaining |-> 0]
Stopped == [left |-> 0, interval |-> 0]
Micros == 0 .. MaxMicros
Nanos == 0 .. MicroScale * MaxMicros

IntervalTypeOK ==
    /\ nanos \in 0 .. MaxNow
    /\ timing.do \in {"none", "timer", "deadline"}
    /\ timing.value \in Micros /\ timing.interval \in Micros
    /\ expiry.period \in Nanos /\ expiry.since.time \in Times
    /\ lastCheck.remaining \in Nanos
    /\ ideal.left \in Nanos /\ ideal.interval \in Nanos

IntervalInit ==
    /\ nanos = 0 /\ timing = NotTiming /\ expiry = NoMonoDeadline /\ lastCheck = NoAnswer
    /\ ideal = Stopped

-----------------------------------------------------------------------------
(* The clock, and a timer of the system that runs on.                      *)

RunOn(timer) == [timer EXCEPT !.left = IF @ = 1 THEN timer.interval ELSE IF @ = 0 THEN 0 ELSE @ - 1]

TickTime ==
    /\ nanos < MaxNow /\ nanos' = nanos + 1
    /\ ideal' = RunOn(ideal)
    /\ UNCHANGED <<timing, expiry, lastCheck>>

\* The program takes the timer from the system, or stops measuring.
TakeTimer ==
    /\ timing = NotTiming
    /\ \E value, interval \in Micros :
         /\ timing' = [NotTiming EXCEPT !.do = "timer", !.since = nanos, !.value = value,
                                        !.interval = interval]
         /\ ideal' = [left |-> MicroScale * value, interval |-> MicroScale * interval]
    /\ UNCHANGED <<nanos, expiry, lastCheck>>

EndTiming ==
    /\ timing # NotTiming /\ timing' = NotTiming
    /\ expiry' = NoMonoDeadline /\ lastCheck' = NoAnswer /\ ideal' = Stopped
    /\ UNCHANGED nanos

\* A bug: the time beyond the first alarm is taken off the interval without its whole turns.
BugAlarmAfter(alarm, period, elapsed) == period - (elapsed - alarm)

AlarmAfter(alarm, period, elapsed) == period - ((elapsed - alarm) % period)

\* ert_shortenIntervalTime(): what is left of the timer, rounded down to microseconds.
ShortenIntervalTime(value, interval, elapsed) ==
    LET alarm == MicroScale * value
        period == MicroScale * interval
    IN  IF alarm > elapsed THEN (alarm - elapsed) \div MicroScale
        ELSE IF alarm = 0 THEN value
        ELSE IF period = 0 THEN interval
        ELSE AlarmAfter(alarm, period, elapsed) \div MicroScale

-----------------------------------------------------------------------------
(* Deadlines.                                                              *)

BeginDeadline ==
    /\ timing = NotTiming /\ timing' = [NotTiming EXCEPT !.do = "deadline", !.since = nanos]
    /\ \E period \in Nanos : expiry' = [NoMonoDeadline EXCEPT !.period = period]
    /\ UNCHANGED <<nanos, lastCheck, ideal>>

\* A bug: a mark at zero is taken for none.
BugMarkedSince(time) == IF expiry.since.time # 0 THEN expiry.since ELSE Since(time)

MarkedSince(time) == IF expiry.since.made THEN expiry.since ELSE Since(time)

\* ert_monotonicDeadlineTimeExpired(), the first check of which makes the mark, with the
\* time of now or with one that was read before.
CheckMonotonic ==
    /\ timing.do = "deadline"
    /\ \E time \in {nanos, timing.since} :
         LET marked == expiry.since.made
             elapsed == Elapsed(expiry.since.time, time)
         IN  /\ lastCheck' = [expired |-> marked /\ elapsed >= expiry.period,
                           remaining |-> IF ~marked THEN expiry.period
                                         ELSE IF elapsed >= expiry.period THEN 0
                                              ELSE expiry.period - elapsed]
             /\ expiry' = [expiry EXCEPT !.since = MarkedSince(time),
                                             !.first = IF @ = NotYet THEN time ELSE @,
                                             !.again = expiry.first # NotYet]
             /\ timing' = [timing EXCEPT !.since = time]
    /\ UNCHANGED <<nanos, ideal>>

IntervalNext ==
    \/ TickTime \/ TakeTimer \/ EndTiming \/ BeginDeadline \/ CheckMonotonic

IntervalSpec == IntervalInit /\ [][IntervalNext]_intervalVars

-----------------------------------------------------------------------------
\* A timer that is given back has the time left that it would have if it had not been taken,
\* rounded down to microseconds, whatever turns of its interval have passed.  With less than
\* a microsecond left the time is zero: the timer is given back stopped.
TimersGivenBack ==
    timing.do = "timer" =>
        ShortenIntervalTime(timing.value, timing.interval, nanos - timing.since)
            = ideal.left \div MicroScale

\* The first check of a deadline gives the caller a chance, even with no time at all; the
\* others tell that it has passed exactly from then on, and how much is left until then.
DeadlinesTold ==
    expiry.first # NotYet =>
        LET left == expiry.first + expiry.period - timing.since
        IN  /\ lastCheck.expired = (expiry.again /\ left <= 0)
            /\ lastCheck.remaining = IF left <= 0 THEN 0 ELSE left

\* What the users of these times may rely on.
IntervalsKept == TimersGivenBack /\ DeadlinesTold

-----------------------------------------------------------------------------
\* What makes this inductive (FilesProofs).

\* What is left of a timer that runs on, some time after it was set.
LeftAfter(alarm, period, elapsed) ==
    IF alarm > elapsed THEN alarm - elapsed
    ELSE IF alarm = 0 \/ period = 0 THEN 0
    ELSE AlarmAfter(alarm, period, elapsed)

TimerInv ==
    /\ nanos \in 0 .. MaxNow
    /\ timing \in [do : {"none", "timer", "deadline"}, since : 0 .. nanos,
                   value : Micros, interval : Micros]
    /\ ideal \in [left : Nat, interval : Nat]
    /\ timing.do = "timer" =>
         /\ ideal.interval = MicroScale * timing.interval
         /\ ideal.left = LeftAfter(MicroScale * timing.value, ideal.interval,
                                   nanos - timing.since)

\* A deadline counts from its first check.
CheckedInv ==
    /\ expiry \in [since : [made : BOOLEAN, time : Nat], period : Nat,
                   first : Nat \cup {NotYet}, again : BOOLEAN]
    /\ expiry.since.made <=> expiry.first # NotYet
    /\ expiry.first # NotYet =>
         /\ timing.do = "deadline"
         /\ expiry.since.time = expiry.first /\ expiry.first <= timing.since

IntervalInv == TimerInv /\ CheckedInv /\ IntervalsKept
=============================================================================
