---------------------------- MODULE Timekeeping ----------------------------
(***************************************************************************)
(* The arithmetic of timekeeping.c and timescale.c.  A mark is the reading *)
(* of the event clock from which a period is measured, and the clock never *)
(* reads zero (eventclockTime_init_() starts it one tick early), so a mark *)
(* of zero is one not made yet.  Times are unsigned and their differences  *)
(* wrap at Wrap, which is 2^64 in the code.                                *)
(***************************************************************************)
EXTENDS Integers

CONSTANT Wrap       \* number of values of an unsigned time

ASSUME WrapAssumption == Wrap \in Nat \ {0}

Times == 0 .. Wrap - 1

NoMark == 0

FirstTime == 1

Elapsed(mark, time) == (time - mark) % Wrap

\* ert_deadlineTimeExpired(): the first call only makes the mark.
DeadlineTimeExpired(mark, period, time) ==
    mark # NoMark /\ Elapsed(mark, time) >= period

Marked(mark, time) == IF mark = NoMark THEN time ELSE mark

Remaining(mark, period, time) ==
    IF mark = NoMark THEN period
    ELSE IF DeadlineTimeExpired(mark, period, time) THEN 0
         ELSE period - Elapsed(mark, time)

\* ert_lapTimeSince(): the mark moves to the last whole multiple of the period.
LapTimeSince(mark, period, time) ==
    IF mark = NoMark THEN time
    ELSE IF period # 0 /\ Elapsed(mark, time) >= period
         THEN (time - (Elapsed(mark, time) % period)) % Wrap
         ELSE mark

LapTimeTrigger(period, time) == (time - period) % Wrap

LapTimeRestart(time) == time

LapTimeDelay(mark, delay) == (mark + delay) % Wrap

\* changeTimeScale_() to the coarser scale of poll(2) rounds up.
ScaleDown(time, scale) == time \div scale + (IF time % scale = 0 THEN 0 ELSE 1)

============================================================================
