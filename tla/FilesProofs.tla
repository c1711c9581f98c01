------------------------------ MODULE FilesProofs ------------------------------
(***************************************************************************)
(* Proofs about the parts of MCFiles.  One lemma per action shows that the *)
(* invariant of its part is kept; the parts are independent, so the step   *)
(* of any other part leaves it alone.  Sockets are proved about in          *)
(* SocketsProofs.                                                          *)
(***************************************************************************)
EXTENDS MCFiles, SocketsProofs, SequenceTheorems, FiniteSetTheorems, WellFoundedInduction, TLAPS

----------------------------------------------------------------------------
\* Division (Timekeeping)

\* Division by a positive number.
LEMMA DivMod ==
    ASSUME NEW x \in Int, NEW w \in Nat \ {0}
    PROVE  /\ x \div w \in Int /\ x % w \in 0 .. w - 1
           /\ x = w * (x \div w) + (x % w)
OBVIOUS

\* Quotient and remainder are unique.
LEMMA Quotient ==
    ASSUME NEW w \in Nat \ {0}, NEW q \in Int, NEW r \in 0 .. w - 1,
           NEW s \in 0 .. w - 1, NEW p \in Int, w * q + r = w * p + s
    PROVE  q = p /\ r = s
<1>1. w * (q - p) = s - r
  OBVIOUS
<1>2. q - p >= 1 => w * (q - p) >= w
  OBVIOUS
<1>3. q - p <= -1 => w * (q - p) <= -w
  OBVIOUS
<1>4. q - p = 0
  BY <1>1, <1>2, <1>3
<1> QED  BY <1>1, <1>4

LEMMA ModUnique ==
    ASSUME NEW x \in Int, NEW w \in Nat \ {0}, NEW q \in Int, NEW r \in 0 .. w - 1,
           x = w * q + r
    PROVE  x % w = r /\ x \div w = q
BY DivMod, Quotient

\* A difference of two times wraps once at most.
LEMMA ModWrap ==
    ASSUME NEW w \in Nat \ {0}, NEW x \in -w .. w - 1
    PROVE  x % w = IF x < 0 THEN x + w ELSE x
<1>1. x = w * 0 + x /\ x = w * (-1) + (x + w)
  OBVIOUS
<1> QED  BY <1>1, ModUnique

\* The remainder of the next number.
LEMMA ModStep ==
    ASSUME NEW x \in Int, NEW w \in Nat \ {0}
    PROVE  (x + 1) % w = IF x % w = w - 1 THEN 0 ELSE (x % w) + 1
<1> DEFINE q == x \div w
           r == x % w
<1>1. q \in Int /\ r \in 0 .. w - 1 /\ x = w * q + r
  BY DivMod
<1>a. r = x % w
  OBVIOUS
<1> HIDE DEF q, r
<1>2. CASE r = w - 1
  <2>1. x + 1 = w * (q + 1) + 0
    BY <1>1, <1>2
  <2>2. (x + 1) % w = 0
    BY <1>1, <2>1, ModUnique
  <2> QED  BY <1>a, <1>2, <2>2
<1>3. CASE r # w - 1
  <2>1. x + 1 = w * q + (r + 1)
    BY <1>1
  <2>2. r + 1 \in 0 .. w - 1 /\ x + 1 \in Int
    BY <1>1, <1>3
  <2>3. (x + 1) % w = r + 1
    BY <1>1, <2>1, <2>2, ModUnique
  <2> QED  BY <1>a, <1>3, <2>3
<1> QED  BY <1>2, <1>3

\* Scaling down rounds up to less than one unit more.
LEMMA ScaledUp ==
    ASSUME NEW x \in Nat, NEW s \in Nat \ {0}
    PROVE  /\ ScaleDown(x, s) * s \in Nat
           /\ ScaleDown(x, s) * s < x + s
           /\ x = 0 => ScaleDown(x, s) * s = 0
<1>1. x \div s \in Int /\ x % s \in 0 .. s - 1 /\ x = s * (x \div s) + (x % s)
  BY DivMod
<1> QED  BY <1>1 DEF ScaleDown


----------------------------------------------------------------------------
\* The poll loop (PollLoop)

LEMMA PollConstants ==
    /\ Period \in Nat \ {0} /\ TickScale \in Nat \ {0} /\ MaxClock \in Nat \ {0}
    /\ Wrap \in Nat \ {0} /\ 2 * Period <= Wrap /\ 2 * MaxClock < Wrap
    /\ 1 .. MaxClock \subseteq Times
BY PollAssumption, WrapAssumption DEF Times

LEMMA SignedMark ==
    ASSUME NEW m \in Times
    PROVE  Signed(m) \in Int /\ Signed(m) <= m /\ Signed(m) \in {m, m - Wrap}
BY WrapAssumption DEF Signed, Times

LEMMA ElapsedTime ==
    ASSUME NEW m \in Times, NEW time \in Times
    PROVE  Elapsed(m, time) = IF m <= time THEN time - m ELSE (time - m) + Wrap
<1>1. time - m \in -Wrap .. Wrap - 1
  BY WrapAssumption DEF Times
<1>2. (time - m) % Wrap = IF time - m < 0 THEN (time - m) + Wrap ELSE time - m
  BY <1>1, WrapAssumption, ModWrap
<1> QED  BY <1>2, WrapAssumption DEF Elapsed, Times

\* A time that is at most a period back.
LEMMA Back ==
    ASSUME NEW time \in 1 .. MaxClock, NEW r \in 0 .. Period
    PROVE  (time - r) % Wrap \in Times /\ Signed((time - r) % Wrap) <= time
<1>1. time - r \in -Wrap .. Wrap - 1
  BY PollConstants
<1>2. (time - r) % Wrap = IF time - r < 0 THEN (time - r) + Wrap ELSE time - r
  BY <1>1, WrapAssumption, ModWrap
<1> QED  BY <1>2, PollConstants DEF Signed, Times

\* A timer whose mark is not ahead of the time expires when its period is over.
LEMMA ExpiredWhole ==
    ASSUME NEW m \in Times, NEW time \in 1 .. MaxClock, Signed(m) <= time,
           DeadlineTimeExpired(m, Period, time)
    PROVE  Signed(m) + Period <= time
<1>1. time \in Times
  BY PollConstants
<1>2. Elapsed(m, time) >= Period
  BY DEF DeadlineTimeExpired
<1>3. CASE m <= time
  BY <1>1, <1>2, <1>3, ElapsedTime, SignedMark, PollConstants DEF Times
<1>4. CASE time < m
  <2>1. Signed(m) = m - Wrap
    BY <1>4, SignedMark DEF Times
  <2> QED  BY <1>1, <1>2, <1>4, <2>1, ElapsedTime, PollConstants DEF Times
<1> QED  BY <1>1, <1>3, <1>4 DEF Times

\* The mark that an expiry leaves.
LEMMA SinceMark ==
    ASSUME NEW m \in Times, NEW time \in 1 .. MaxClock,
           DeadlineTimeExpired(m, Period, time)
    PROVE  /\ LapTimeSince(m, Period, time) \in Times
           /\ Signed(LapTimeSince(m, Period, time)) <= time
<1> DEFINE e == Elapsed(m, time)
<1>1. e \in Nat /\ e >= Period
  BY PollConstants, ElapsedTime DEF DeadlineTimeExpired, Times
<1>2. e % Period \in 0 .. Period
  <2> HIDE DEF e
  <2>1. e % Period \in 0 .. Period - 1
    BY <1>1, PollConstants
  <2> QED  BY <2>1, PollConstants
<1>3. LapTimeSince(m, Period, time) = (time - (e % Period)) % Wrap
  BY <1>1, PollConstants DEF LapTimeSince, DeadlineTimeExpired
<1> HIDE DEF e
<1> QED  BY <1>2, <1>3, Back

LEMMA MarkedMark ==
    ASSUME NEW m \in Times, NEW time \in 1 .. MaxClock
    PROVE  /\ Marked(m, time) \in Times
           /\ m = NoMark => Signed(Marked(m, time)) <= time
           /\ m # NoMark => Marked(m, time) = m
BY PollConstants, SignedMark DEF Marked, Times

\* What is left of a period, seen from the mark that is made at the time.
LEMMA RemainingTime ==
    ASSUME NEW m \in Times, NEW time \in 1 .. MaxClock,
           ~DeadlineTimeExpired(m, Period, time)
    PROVE  /\ Remaining(m, Period, time) \in Nat
           /\ time + Remaining(m, Period, time)
                <= Signed(Marked(m, time)) + Period
<1>1. time \in Times /\ 2 * time < Wrap
  BY PollConstants
<1>2. CASE m = NoMark
  BY <1>1, <1>2, PollConstants DEF Remaining, Marked, Signed, Times
<1>3. CASE m # NoMark
  <2>1. Elapsed(m, time) \in Nat /\ Elapsed(m, time) < Period
    BY SMTT(20), <1>1, <1>3, ElapsedTime, PollConstants DEF DeadlineTimeExpired, Times
  <2>2. Remaining(m, Period, time) = Period - Elapsed(m, time) /\ Marked(m, time) = m
    BY <1>3 DEF Remaining, Marked
  <2>3. time - Signed(m) <= Elapsed(m, time)
    <3>1. CASE m <= time
      BY <1>1, <3>1, ElapsedTime, WrapAssumption DEF Signed, Times
    <3>2. CASE time < m
      BY <1>1, <3>2, ElapsedTime, SignedMark, PollConstants DEF Times
    <3> QED  BY <1>1, <3>1, <3>2 DEF Times
  <2> QED  BY <1>1, <2>1, <2>2, <2>3, SignedMark, PollConstants DEF Times
<1> QED  BY <1>2, <1>3

LEMMA PollInitInv == PollInit => PollLoopInv
<1> SUFFICES ASSUME PollInit PROVE PollLoopInv
  OBVIOUS
<1>1. ClockInv
  BY PollConstants DEF PollInit, ClockInv, FirstTime, NoMark, Times
<1>2. ServedInv
  BY DEF PollInit, ServedInv
<1>3. MarkInv
  BY PollConstants DEF PollInit, MarkInv, Signed, NoMark, FirstTime
<1>4. PollLoopKept
  BY DEF PollInit, PollLoopKept, FilesFirst, EarlyOnlyIfAhead, NoTimerSlept, NotFired
<1> QED  BY <1>1, <1>2, <1>3, <1>4 DEF PollLoopInv

\* The world moves on: time passes, and files become ready.
LEMMA WorldInv ==
    ASSUME PollLoopInv, clock' \in clock .. MaxClock,
           readable \subseteq readable', hungUp \subseteq hungUp',
           UNCHANGED <<stage, polltm, wake, mark, active, reported, pending, pushed,
                       fired>>
    PROVE  PollLoopInv'
<1>1. ClockInv'
  BY PollConstants DEF PollLoopInv, ClockInv
<1>2. Subscribed \subseteq Subscribed'
  BY DEF Subscribed
<1>3. ServedInv'
  BY <1>2 DEF PollLoopInv, ServedInv
<1>4. MarkInv'
  BY DEF PollLoopInv, MarkInv
<1>5. PollLoopKept'
  BY DEF PollLoopInv, PollLoopKept, FilesFirst, EarlyOnlyIfAhead, NoTimerSlept
<1> QED  BY <1>1, <1>3, <1>4, <1>5 DEF PollLoopInv

LEMMA TickInv ==
    ASSUME PollLoopInv, Tick
    PROVE  PollLoopInv'
<1>1. clock' \in clock .. MaxClock
  BY PollConstants DEF Tick, PollLoopInv, ClockInv
<1> QED  BY <1>1, WorldInv DEF Tick

LEMMA ArriveInv ==
    ASSUME PollLoopInv, NEW f \in PollFiles, Arrive(f)
    PROVE  PollLoopInv'
<1>1. clock' \in clock .. MaxClock
  BY PollConstants DEF Arrive, PollLoopInv, ClockInv
<1> QED  BY <1>1, WorldInv DEF Arrive

LEMMA HangUpInv ==
    ASSUME PollLoopInv, NEW f \in PollFiles, HangUp(f)
    PROVE  PollLoopInv'
<1>1. clock' \in clock .. MaxClock
  BY PollConstants DEF HangUp, PollLoopInv, ClockInv
<1> QED  BY <1>1, WorldInv DEF HangUp

LEMMA ChooseInv ==
    ASSUME PollLoopInv, Choose
    PROVE  PollLoopInv'
<1>a. /\ clock \in 1 .. MaxClock /\ polltm \in 1 .. clock
      /\ mark \in [Timers -> Times] /\ active \subseteq Timers
  BY DEF PollLoopInv, ClockInv
<1>b. /\ stage' = "wait" /\ polltm' = clock /\ fired' = NotFired
      /\ mark' = [t \in Timers |-> IF t \in Considered(clock)
                                   THEN Marked(mark[t], clock) ELSE mark[t]]
      /\ wake' = IF active = {} THEN Forever
                 ELSE clock + ScaleDown(Timeout(clock), TickScale) * TickScale
      /\ UNCHANGED <<clock, active, pushed>>
  BY DEF Choose
<1>1. ClockInv'
  <2>1. \A t \in Timers : mark[t] \in Times /\ Marked(mark[t], clock) \in Times
    BY <1>a, MarkedMark
  <2>2. clock \in 1 .. clock
    BY <1>a, PollConstants
  <2> QED  BY <1>a, <1>b, <2>1, <2>2 DEF ClockInv
<1>2. ServedInv'
  BY <1>b DEF ServedInv
<1>3. MarkInv'
  <2>1. ASSUME NEW t \in active \ pushed
        PROVE  Signed(mark'[t]) <= clock
    <3>1. t \in Timers /\ mark[t] \in Times /\ Signed(mark[t]) <= polltm
      BY <1>a DEF PollLoopInv, MarkInv
    <3>2. Signed(mark[t]) <= clock
      BY <1>a, <3>1, SignedMark, PollConstants
    <3>3. Signed(Marked(mark[t], clock)) <= clock
      BY <1>a, <3>1, <3>2, MarkedMark
    <3> QED  BY <1>b, <3>1, <3>2, <3>3
  <2> QED  BY <1>b, <2>1 DEF MarkInv
<1>4. NoTimerSlept'
  <2>1. CASE active = {}
    BY <1>b, <2>1 DEF NoTimerSlept
  <2>2. CASE \E t \in active : Expired(t, clock)
    <3>1. Timeout(clock) = 0
      BY <2>2 DEF Timeout
    <3>2. ScaleDown(0, TickScale) * TickScale = 0
      BY PollConstants, ScaledUp
    <3>3. wake' = clock /\ wake' # Forever
      BY <1>a, <1>b, <2>2, <3>1, <3>2, PollConstants DEF Forever
    <3> QED  BY <1>b, <2>2, <3>3 DEF NoTimerSlept
  <2>3. CASE active # {} /\ \A t \in active : ~Expired(t, clock)
    <3> DEFINE left == {Remaining(mark[t], Period, clock) : t \in active}
    <3>1. \A t \in active : t \in Timers /\ mark[t] \in Times
                            /\ ~DeadlineTimeExpired(mark[t], Period, clock)
      BY <1>a, <2>3 DEF Expired
    <3>2. left \in SUBSET Nat /\ left # {}
      BY <1>a, <2>3, <3>1, RemainingTime
    <3>3. Timeout(clock) = Min(left)
      BY <2>3 DEF Timeout
    <3>4. Min(left) \in left /\ \A k \in left : Min(left) <= k
      <4> HIDE DEF left
      <4> QED  BY <3>2, LeastNumber DEF Min
    <3>5. Timeout(clock) \in Nat
      BY <3>2, <3>3, <3>4
    <3>6. /\ ScaleDown(Timeout(clock), TickScale) * TickScale \in Nat
          /\ ScaleDown(Timeout(clock), TickScale) * TickScale
               < Timeout(clock) + TickScale
      BY <3>5, PollConstants, ScaledUp
    <3>7. wake' = clock + ScaleDown(Timeout(clock), TickScale) * TickScale
      BY <1>b, <2>3
    <3>8. wake' \in Int /\ wake' # Forever /\ wake' < clock + Timeout(clock) + TickScale
      <4> DEFINE d == ScaleDown(Timeout(clock), TickScale) * TickScale
      <4>1. d \in Nat /\ d < Timeout(clock) + TickScale /\ wake' = clock + d
        BY <3>6, <3>7
      <4> HIDE DEF d
      <4> QED  BY <1>a, <3>5, <4>1, PollConstants DEF Forever
    <3>9. ASSUME NEW t \in active
          PROVE  wake' < Signed(mark'[t]) + Period + TickScale
      <4>1. Timeout(clock) <= Remaining(mark[t], Period, clock)
        BY <3>3, <3>4
      <4>2. t \in Considered(clock)
        BY <2>3 DEF Considered
      <4>3. mark'[t] = Marked(mark[t], clock)
        BY <1>b, <3>1, <4>2
      <4>4. /\ Remaining(mark[t], Period, clock) \in Nat
            /\ clock + Remaining(mark[t], Period, clock)
                 <= Signed(mark'[t]) + Period
        BY <1>a, <3>1, <4>3, RemainingTime
      <4>5. Signed(mark'[t]) \in Int
        BY <1>a, <3>1, <4>3, MarkedMark, SignedMark
      <4> QED  BY <1>a, <3>5, <3>8, <4>1, <4>4, <4>5, PollConstants
    <3> QED  BY <1>b, <2>3, <3>8, <3>9 DEF NoTimerSlept
  <2> QED  BY <2>1, <2>2, <2>3
<1>5. FilesFirst' /\ EarlyOnlyIfAhead'
  BY <1>b DEF FilesFirst, EarlyOnlyIfAhead, NotFired
<1> QED  BY <1>1, <1>2, <1>3, <1>4, <1>5 DEF PollLoopInv, PollLoopKept

\* A step of the loop between its waits, in which no callback runs.
LEMMA PlainStep ==
    ASSUME PollLoopInv, stage' # "wait", ServedInv', MarkInv',
           polltm' \in {polltm, clock}, mark' \in [Timers -> Times],
           UNCHANGED <<clock, active>>, fired' \in {fired, NotFired}
    PROVE  PollLoopInv'
<1>1. clock \in 1 .. clock
  BY PollConstants DEF PollLoopInv, ClockInv
<1>2. ClockInv'
  BY <1>1 DEF PollLoopInv, ClockInv
<1>3. PollLoopKept'
  BY DEF PollLoopInv, PollLoopKept, FilesFirst, EarlyOnlyIfAhead, NoTimerSlept, NotFired
<1> QED  BY <1>2, <1>3 DEF PollLoopInv

LEMMA CompleteInv ==
    ASSUME PollLoopInv, Complete
    PROVE  PollLoopInv'
<1>1. ServedInv' /\ MarkInv'
  BY DEF Complete, PollLoopInv, ServedInv, MarkInv
<1> QED  BY <1>1, PlainStep DEF Complete, PollLoopInv, ClockInv

LEMMA WaitInv ==
    ASSUME PollLoopInv, Wait
    PROVE  PollLoopInv'
<1>1. ServedInv' /\ MarkInv'
  BY DEF Wait, PollLoopInv, ServedInv, MarkInv
<1> QED  BY <1>1, PlainStep DEF Wait, PollLoopInv, ClockInv

LEMMA LatchInv ==
    ASSUME PollLoopInv, Latch
    PROVE  PollLoopInv'
<1>1. ServedInv'
  BY DEF Latch, ServedInv, Subscribed
<1>2. MarkInv'
  <2>1. ASSUME NEW t \in active' \ pushed' PROVE Signed(mark'[t]) <= polltm'
    <3>1. t \in active /\ (t \notin pushed \/ ~(Signed(mark[t]) > clock))
          /\ mark' = mark /\ polltm' = clock
      BY <2>1 DEF Latch
    <3>2. t \notin pushed => Signed(mark[t]) <= polltm
      BY <3>1 DEF PollLoopInv, MarkInv
    <3>3. Signed(mark[t]) \in Int
      BY <3>1, SignedMark DEF PollLoopInv, ClockInv
    <3> QED  BY <3>1, <3>2, <3>3, PollConstants DEF PollLoopInv, ClockInv
  <2> QED  BY <2>1 DEF MarkInv
<1> QED  BY <1>1, <1>2, PlainStep DEF Latch, PollLoopInv, ClockInv

LEMMA PollAgainInv ==
    ASSUME PollLoopInv, PollAgain
    PROVE  PollLoopInv'
<1>1. ServedInv' /\ MarkInv'
  BY DEF PollAgain, PollLoopInv, ServedInv, MarkInv, Subscribed
<1> QED  BY <1>1, PlainStep DEF PollAgain, PollLoopInv, ClockInv

LEMMA EndFilesInv ==
    ASSUME PollLoopInv, EndFiles
    PROVE  PollLoopInv'
<1>1. ServedInv' /\ MarkInv'
  BY DEF EndFiles, PollLoopInv, ServedInv, MarkInv
<1> QED  BY <1>1, PlainStep DEF EndFiles, PollLoopInv, ClockInv

LEMMA EndTimersInv ==
    ASSUME PollLoopInv, EndTimers
    PROVE  PollLoopInv'
<1>1. ServedInv' /\ MarkInv'
  BY DEF EndTimers, PollLoopInv, ServedInv, MarkInv
<1> QED  BY <1>1, PlainStep DEF EndTimers, PollLoopInv, ClockInv

LEMMA PassTimerInv ==
    ASSUME PollLoopInv, PassTimer
    PROVE  PollLoopInv'
<1>a. /\ stage = "timers" /\ index \in Timers
      /\ mark' = IF index \in active
                 THEN [mark EXCEPT ![index] = Marked(mark[index], polltm)] ELSE mark
      /\ UNCHANGED <<stage, clock, polltm, active, pending, pushed, fired>>
  BY DEF PassTimer
<1>b. /\ polltm \in 1 .. MaxClock /\ mark \in [Timers -> Times]
  BY PollConstants DEF PollLoopInv, ClockInv
<1>1. ServedInv'
  BY <1>a DEF PollLoopInv, ServedInv
<1>2. mark' \in [Timers -> Times]
  BY <1>a, <1>b, MarkedMark
<1>3. MarkInv'
  <2>1. ASSUME NEW t \in active \ pushed PROVE Signed(mark'[t]) <= polltm
    <3>1. Signed(mark[t]) <= polltm /\ t \in Timers
      BY DEF PollLoopInv, MarkInv, ClockInv
    <3>2. mark[t] \in Times /\ Signed(Marked(mark[t], polltm)) <= polltm
      BY <1>b, <3>1, MarkedMark
    <3> QED  BY <1>a, <1>b, <3>1, <3>2
  <2> QED  BY <1>a, <2>1 DEF MarkInv
<1> QED  BY <1>a, <1>1, <1>2, <1>3, PlainStep

\* Whatever a callback does to the timers, no mark gets ahead of the time unnoticed.
LEMMA TouchMarks ==
    ASSUME PollLoopInv, NEW marks \in [Timers -> Times],
           \A t \in active \ pushed : Signed(marks[t]) <= polltm,
           Touch(marks), UNCHANGED <<clock, polltm>>
    PROVE  ClockInv' /\ MarkInv'
<1>a. /\ polltm \in 1 .. MaxClock /\ clock \in 1 .. MaxClock /\ polltm \in 1 .. clock
      /\ active \subseteq Timers /\ polltm \in Times /\ clock \in Times
  BY PollConstants DEF PollLoopInv, ClockInv
<1>1. CASE UNCHANGED <<active, touches, pushed>> /\ mark' = marks
  BY <1>1, <1>a DEF ClockInv, MarkInv
<1>2. ASSUME NEW t \in Timers, active' = active \ {t}, mark' = marks,
             pushed' = pushed \ {t}
      PROVE  ClockInv' /\ MarkInv'
  BY <1>2, <1>a DEF ClockInv, MarkInv
<1>3. ASSUME NEW t \in Timers, active' = active \cup {t}, pushed' = pushed \ {t},
             mark' = [marks EXCEPT ![t] = LapTimeTrigger(Period, polltm)]
      PROVE  ClockInv' /\ MarkInv'
  <2>1. /\ LapTimeTrigger(Period, polltm) \in Times
        /\ Signed(LapTimeTrigger(Period, polltm)) <= polltm
    BY <1>a, Back, PollConstants DEF LapTimeTrigger
  <2>2. /\ mark' \in [Timers -> Times] /\ mark'[t] = LapTimeTrigger(Period, polltm)
        /\ \A u \in Timers \ {t} : mark'[u] = marks[u]
    BY <1>3, <2>1
  <2> QED  BY <1>3, <1>a, <2>1, <2>2 DEF ClockInv, MarkInv
<1>4. ASSUME NEW t \in Timers, UNCHANGED active,
             NEW m \in {LapTimeRestart(polltm), LapTimeRestart(clock),
                        LapTimeDelay(marks[t], 1)},
             mark' = [marks EXCEPT ![t] = m],
             pushed' = IF m > polltm THEN pushed \cup {t} ELSE pushed
      PROVE  ClockInv' /\ MarkInv'
  <2>1. m \in Times
    <3>a. marks[t] + 1 \in Int /\ Wrap \in Nat \ {0}
      BY PollConstants DEF Times
    <3>1. (marks[t] + 1) % Wrap \in Times
      BY <3>a, DivMod DEF Times
    <3> QED  BY <1>4, <1>a, <3>1 DEF LapTimeRestart, LapTimeDelay
  <2>2. /\ mark' \in [Timers -> Times] /\ mark'[t] = m
        /\ \A u \in Timers \ {t} : mark'[u] = marks[u]
    BY <1>4, <2>1
  <2>3. t \notin pushed' => Signed(m) <= polltm
    BY <1>4, <1>a, <2>1, SignedMark DEF Times
  <2> QED  BY <1>4, <1>a, <2>2, <2>3 DEF ClockInv, MarkInv
<1> QED  BY <1>1, <1>2, <1>3, <1>4 DEF Touch

LEMMA CallFileInv ==
    ASSUME PollLoopInv, CallFile
    PROVE  PollLoopInv'
<1>1. PICK f : /\ reported' = reported \ {f} /\ pending' = pending \ {f}
               /\ stage = "files" /\ Callback(mark, "files")
               /\ UNCHANGED <<clock, polltm, fired>>
  BY DEF CallFile
<1>2. ClockInv' /\ MarkInv'
  BY <1>1, TouchMarks DEF Callback, PollLoopInv, ClockInv, MarkInv
<1>3. stage' \in {"files", "failed"}
  BY <1>1 DEF Callback
<1>4. ServedInv'
  BY <1>1, <1>3 DEF PollLoopInv, ServedInv
<1>5. PollLoopKept'
  BY <1>1, <1>3 DEF PollLoopInv, PollLoopKept, FilesFirst, EarlyOnlyIfAhead,
                    NoTimerSlept
<1> QED  BY <1>2, <1>4, <1>5 DEF PollLoopInv

LEMMA FireTimerInv ==
    ASSUME PollLoopInv, FireTimer
    PROVE  PollLoopInv'
<1> DEFINE marks == [mark EXCEPT ![index] = LapTimeSince(@, Period, polltm)]
<1>a. /\ stage = "timers" /\ index \in Timers /\ index \in active
      /\ DeadlineTimeExpired(mark[index], Period, polltm)
      /\ fired' = [ahead |-> index \in pushed,
                   whole |-> Signed(mark[index]) + Period <= polltm,
                   overlooked |-> pending \cap Subscribed]
      /\ Callback(marks, "timers")
      /\ UNCHANGED <<clock, polltm, reported, pending>>
  BY DEF FireTimer, Expired
<1>b. /\ polltm \in 1 .. MaxClock /\ mark \in [Timers -> Times]
      /\ mark[index] \in Times
  BY <1>a, PollConstants DEF PollLoopInv, ClockInv
<1>c. /\ marks \in [Timers -> Times]
      /\ \A t \in active \ pushed : Signed(marks[t]) <= polltm
  <2>1. /\ LapTimeSince(mark[index], Period, polltm) \in Times
        /\ Signed(LapTimeSince(mark[index], Period, polltm)) <= polltm
    BY <1>a, <1>b, SinceMark
  <2>2. marks \in [Timers -> Times]
    BY <1>b, <2>1
  <2>3. ASSUME NEW t \in active \ pushed PROVE Signed(marks[t]) <= polltm
    <3>1. t \in Timers /\ Signed(mark[t]) <= polltm
      BY DEF PollLoopInv, ClockInv, MarkInv
    <3> QED  BY <1>b, <2>1, <3>1
  <2> QED  BY <2>2, <2>3
<1> HIDE DEF marks
<1>1. ClockInv' /\ MarkInv'
  BY <1>a, <1>c, TouchMarks DEF Callback
<1>2. stage' \in {"timers", "failed"}
  BY <1>a DEF Callback
<1>3. ServedInv'
  BY <1>a, <1>2 DEF PollLoopInv, ServedInv
<1>4. fired'.overlooked = {}
  BY <1>a DEF PollLoopInv, ServedInv
<1>5. fired'.whole \/ fired'.ahead
  <2>1. index \notin pushed => Signed(mark[index]) + Period <= polltm
    BY <1>a, <1>b, ExpiredWhole DEF PollLoopInv, MarkInv
  <2>2. /\ fired'.whole <=> Signed(mark[index]) + Period <= polltm
        /\ fired'.ahead <=> index \in pushed
    BY <1>a
  <2> QED  BY <2>1, <2>2
<1>6. PollLoopKept'
  BY <1>2, <1>4, <1>5 DEF PollLoopKept, FilesFirst, EarlyOnlyIfAhead, NoTimerSlept
<1> QED  BY <1>1, <1>3, <1>6 DEF PollLoopInv

LEMMA PollNextInv == PollLoopInv /\ PollNext => PollLoopInv'
BY TickInv, ArriveInv, HangUpInv, ChooseInv, CompleteInv, WaitInv, LatchInv,
   PollAgainInv, CallFileInv, EndFilesInv, PassTimerInv, FireTimerInv, EndTimersInv
   DEF PollNext

LEMMA PollStutterInv == PollLoopInv /\ UNCHANGED pollVars => PollLoopInv'
BY DEF pollVars, PollLoopInv, ClockInv, ServedInv, MarkInv, PollLoopKept, FilesFirst,
       EarlyOnlyIfAhead, NoTimerSlept, Subscribed

----------------------------------------------------------------------------
\* Interval timers and deadlines (IntervalTimer)

LEMMA IntervalConstants ==
    /\ MicroScale \in Nat \ {0} /\ MaxMicros \in Nat /\ MaxNow \in Nat
    /\ Wrap \in Nat \ {0} /\ MaxNow < Wrap
BY IntervalAssumption, WrapAssumption

LEMMA ScaledMicros ==
    ASSUME NEW m \in Micros
    PROVE  /\ m \in Nat /\ MicroScale * m \in Nat
           /\ MicroScale * m = 0 <=> m = 0
BY IntervalConstants DEF Micros

\* The alarm that comes after the first, and the one a moment later.
LEMMA NextAlarm ==
    ASSUME NEW alarm \in Nat, NEW period \in Nat \ {0}, NEW e \in Nat, alarm <= e
    PROVE  /\ AlarmAfter(alarm, period, e) \in 1 .. period
           /\ AlarmAfter(alarm, period, e + 1) =
                IF AlarmAfter(alarm, period, e) = 1 THEN period
                ELSE AlarmAfter(alarm, period, e) - 1
<1> DEFINE x == e - alarm
<1>1. x \in Int /\ (e + 1) - alarm = x + 1
  OBVIOUS
<1>2. /\ AlarmAfter(alarm, period, e) = period - (x % period)
      /\ AlarmAfter(alarm, period, e + 1) = period - ((x + 1) % period)
  BY <1>1 DEF AlarmAfter
<1> HIDE DEF x
<1>3. x % period \in 0 .. period - 1
  BY <1>1, DivMod
<1>4. (x + 1) % period = IF x % period = period - 1 THEN 0 ELSE (x % period) + 1
  BY <1>1, ModStep
<1> QED  BY <1>2, <1>3, <1>4

LEMMA FirstAlarm ==
    ASSUME NEW alarm \in Nat, NEW period \in Nat \ {0}
    PROVE  AlarmAfter(alarm, period, alarm) = period
<1>1. 0 % period = 0
  BY ModWrap
<1> QED  BY <1>1 DEF AlarmAfter

LEMMA LeftIsTime ==
    ASSUME NEW alarm \in Nat, NEW period \in Nat, NEW e \in Nat
    PROVE  LeftAfter(alarm, period, e) \in Nat
BY NextAlarm DEF LeftAfter

\* A timer that runs on for one tick.
LEMMA LeftNext ==
    ASSUME NEW alarm \in Nat, NEW period \in Nat, NEW e \in Nat,
           NEW left, left = LeftAfter(alarm, period, e)
    PROVE  LeftAfter(alarm, period, e + 1) =
             IF left = 1 THEN period ELSE IF left = 0 THEN 0 ELSE left - 1
<1>1. CASE alarm > e + 1
  BY <1>1 DEF LeftAfter
<1>2. CASE alarm = e + 1
  <2>1. left = 1
    BY <1>2 DEF LeftAfter
  <2>2. period # 0 => AlarmAfter(alarm, period, e + 1) = period
    BY <1>2, FirstAlarm
  <2> QED  BY <1>2, <2>1, <2>2 DEF LeftAfter
<1>3. CASE alarm <= e
  <2>1. CASE alarm = 0 \/ period = 0
    BY <1>3, <2>1 DEF LeftAfter
  <2>2. CASE ~(alarm = 0 \/ period = 0)
    <3>1. /\ left = AlarmAfter(alarm, period, e)
          /\ LeftAfter(alarm, period, e + 1) = AlarmAfter(alarm, period, e + 1)
      BY <1>3, <2>2 DEF LeftAfter
    <3>2. /\ left \in 1 .. period
          /\ AlarmAfter(alarm, period, e + 1) = IF left = 1 THEN period ELSE left - 1
      BY ZenonT(40), <1>3, <2>2, <3>1, NextAlarm
    <3> QED  BY <3>1, <3>2
  <2> QED  BY <2>1, <2>2
<1> QED  BY <1>1, <1>2, <1>3

\* What is given back is what is left, in microseconds.
LEMMA GivenBack ==
    ASSUME NEW value \in Micros, NEW interval \in Micros, NEW e \in Nat
    PROVE  ShortenIntervalTime(value, interval, e) =
             LeftAfter(MicroScale * value, MicroScale * interval, e) \div MicroScale
<1>1. 0 \div MicroScale = 0
  <2>1. 0 = MicroScale * 0 + 0
    BY IntervalConstants
  <2> QED  BY <2>1, IntervalConstants, ModUnique
<1> QED  BY <1>1, ScaledMicros, IntervalConstants DEF ShortenIntervalTime, LeftAfter

LEMMA IntervalInitInv == IntervalInit => IntervalInv
<1> SUFFICES ASSUME IntervalInit PROVE IntervalInv
  OBVIOUS
<1>1. TimerInv
  BY IntervalConstants DEF IntervalInit, TimerInv, NotTiming, Stopped, Micros
<1>2. CheckedInv
  BY DEF IntervalInit, CheckedInv, NoMonoDeadline, NoSince, NotYet
<1>3. IntervalsKept
  BY DEF IntervalInit, IntervalsKept, TimersGivenBack, DeadlinesTold, NotTiming,
         NoMonoDeadline
<1> QED  BY <1>1, <1>2, <1>3 DEF IntervalInv

\* The timer that is measured tells what is given back.
LEMMA TimersFollow ==
    ASSUME TimerInv
    PROVE  TimersGivenBack
<1> SUFFICES ASSUME timing.do = "timer"
             PROVE  ShortenIntervalTime(timing.value, timing.interval,
                                        nanos - timing.since)
                      = ideal.left \div MicroScale
  BY DEF TimersGivenBack
<1>1. timing.value \in Micros /\ timing.interval \in Micros
      /\ nanos - timing.since \in Nat
  BY IntervalConstants DEF TimerInv
<1>2. ideal.left = LeftAfter(MicroScale * timing.value, MicroScale * timing.interval,
                             nanos - timing.since)
  BY DEF TimerInv
<1> QED  BY <1>1, <1>2, GivenBack

LEMMA TickTimeInv ==
    ASSUME IntervalInv, TickTime
    PROVE  IntervalInv'
<1>a. /\ nanos \in 0 .. MaxNow /\ nanos < MaxNow /\ nanos' = nanos + 1
      /\ ideal' = RunOn(ideal) /\ UNCHANGED <<timing, expiry, lastCheck>>
  BY DEF TickTime, IntervalInv, TimerInv
<1>b. /\ ideal \in [left : Nat, interval : Nat]
      /\ timing \in [do : {"none", "timer", "deadline"}, since : 0 .. nanos,
                     value : Micros, interval : Micros]
  BY DEF IntervalInv, TimerInv
<1>c. /\ ideal' \in [left : Nat, interval : Nat] /\ ideal'.interval = ideal.interval
      /\ ideal'.left = IF ideal.left = 1 THEN ideal.interval
                       ELSE IF ideal.left = 0 THEN 0 ELSE ideal.left - 1
  BY <1>a, <1>b DEF RunOn
<1>1. nanos' \in 0 .. MaxNow
      /\ timing' \in [do : {"none", "timer", "deadline"}, since : 0 .. nanos',
                      value : Micros, interval : Micros]
  BY <1>a, <1>b, IntervalConstants
<1>2. ASSUME timing'.do = "timer"
      PROVE  /\ ideal'.interval = MicroScale * timing'.interval
             /\ ideal'.left = LeftAfter(MicroScale * timing'.value, ideal'.interval,
                                        nanos' - timing'.since)
  <2> DEFINE e == nanos - timing.since
             alarm == MicroScale * timing.value
  <2>1. /\ e \in Nat /\ nanos' - timing'.since = e + 1
        /\ alarm \in Nat /\ alarm = MicroScale * timing'.value
    BY <1>a, <1>b, ScaledMicros
  <2>2. /\ ideal.interval = MicroScale * timing.interval
        /\ ideal.left = LeftAfter(alarm, ideal.interval, e)
    BY <1>a, <1>2 DEF IntervalInv, TimerInv
  <2> HIDE DEF e, alarm
  <2>3. LeftAfter(alarm, ideal.interval, e + 1) = ideal'.left
    <3>1. ideal.interval \in Nat
      BY <1>b
    <3>2. LeftAfter(alarm, ideal.interval, e + 1)
            = IF ideal.left = 1 THEN ideal.interval
              ELSE IF ideal.left = 0 THEN 0 ELSE ideal.left - 1
      BY <2>1, <2>2, <3>1, LeftNext
    <3> QED  BY <1>c, <3>2
  <2> QED  BY <1>a, <1>c, <2>1, <2>2, <2>3
<1>3. TimerInv'
  BY <1>c, <1>1, <1>2 DEF TimerInv
<1>4. CheckedInv'
  BY <1>a DEF IntervalInv, CheckedInv
<1>5. DeadlinesTold'
  BY <1>a DEF IntervalInv, IntervalsKept, DeadlinesTold
<1>6. TimersGivenBack'
  BY <1>3, TimersFollow, PTL
<1> QED  BY <1>3, <1>4, <1>5, <1>6 DEF IntervalInv, IntervalsKept

LEMMA TakeTimerInv ==
    ASSUME IntervalInv, TakeTimer
    PROVE  IntervalInv'
<1>a. PICK value \in Micros, interval \in Micros :
        /\ timing' = [NotTiming EXCEPT !.do = "timer", !.since = nanos,
                                       !.value = value, !.interval = interval]
        /\ ideal' = [left |-> MicroScale * value, interval |-> MicroScale * interval]
  BY DEF TakeTimer
<1>b. timing' = [do |-> "timer", since |-> nanos, value |-> value,
                 interval |-> interval]
  BY <1>a DEF NotTiming
<1>c. UNCHANGED <<nanos, expiry, lastCheck>> /\ timing.do # "deadline"
  BY DEF TakeTimer, NotTiming
<1>1. TimerInv'
  <2>1. nanos \in 0 .. MaxNow /\ nanos - nanos = 0
    BY DEF IntervalInv, TimerInv
  <2>2. /\ MicroScale * value \in Nat /\ MicroScale * interval \in Nat
    BY ScaledMicros
  <2>3. MicroScale * value = LeftAfter(MicroScale * value, MicroScale * interval, 0)
    BY <2>2 DEF LeftAfter
  <2> QED  BY <1>a, <1>b, <1>c, <2>1, <2>2, <2>3 DEF TimerInv
<1>2. expiry.first = NotYet
  BY <1>c DEF IntervalInv, CheckedInv
<1>3. CheckedInv'
  BY <1>c, <1>2 DEF IntervalInv, CheckedInv
<1>4. DeadlinesTold'
  BY <1>c, <1>2 DEF DeadlinesTold
<1>5. TimersGivenBack'
  BY <1>1, TimersFollow, PTL
<1> QED  BY <1>1, <1>3, <1>4, <1>5 DEF IntervalInv, IntervalsKept

LEMMA EndTimingInv ==
    ASSUME IntervalInv, EndTiming
    PROVE  IntervalInv'
<1>1. TimerInv'
  BY IntervalConstants DEF EndTiming, IntervalInv, TimerInv, NotTiming, Stopped, Micros
<1>2. CheckedInv'
  BY DEF EndTiming, CheckedInv, NoMonoDeadline, NoSince, NotYet
<1>3. IntervalsKept'
  BY DEF EndTiming, IntervalsKept, TimersGivenBack, DeadlinesTold, NotTiming,
         NoMonoDeadline
<1> QED  BY <1>1, <1>2, <1>3 DEF IntervalInv

LEMMA BeginDeadlineInv ==
    ASSUME IntervalInv, BeginDeadline
    PROVE  IntervalInv'
<1>a. PICK period \in Nanos : expiry' = [NoMonoDeadline EXCEPT !.period = period]
  BY DEF BeginDeadline
<1>b. expiry' = [since |-> NoSince, period |-> period, first |-> NotYet,
                 again |-> FALSE]
  BY <1>a DEF NoMonoDeadline
<1>c. /\ timing' = [do |-> "deadline", since |-> nanos, value |-> 0, interval |-> 0]
      /\ UNCHANGED <<nanos, lastCheck, ideal>>
  BY DEF BeginDeadline, NotTiming
<1>1. TimerInv'
  BY <1>c, IntervalConstants DEF IntervalInv, TimerInv, Micros
<1>2. CheckedInv'
  <2>1. period \in Nat
    BY IntervalConstants DEF Nanos
  <2> QED  BY <1>b, <2>1 DEF CheckedInv, NoSince, NotYet
<1>3. IntervalsKept'
  BY <1>b, <1>c DEF IntervalsKept, TimersGivenBack, DeadlinesTold
<1> QED  BY <1>1, <1>2, <1>3 DEF IntervalInv

LEMMA CheckMonotonicInv ==
    ASSUME IntervalInv, CheckMonotonic
    PROVE  IntervalInv'
<1> DEFINE marked == expiry.since.made
           E(time) == Elapsed(expiry.since.time, time)
<1>a. PICK time \in {nanos, timing.since} :
        /\ lastCheck' = [expired |-> marked /\ E(time) >= expiry.period,
                         remaining |-> IF ~marked THEN expiry.period
                                       ELSE IF E(time) >= expiry.period THEN 0
                                            ELSE expiry.period - E(time)]
        /\ expiry' = [expiry EXCEPT !.since = MarkedSince(time),
                                    !.first = IF @ = NotYet THEN time ELSE @,
                                    !.again = expiry.first # NotYet]
        /\ timing' = [timing EXCEPT !.since = time]
  BY DEF CheckMonotonic
<1>b. /\ timing.do = "deadline" /\ UNCHANGED <<nanos, ideal>>
      /\ nanos \in 0 .. MaxNow /\ timing.since \in 0 .. nanos
      /\ timing \in [do : {"none", "timer", "deadline"}, since : 0 .. nanos,
                     value : Micros, interval : Micros]
  BY DEF CheckMonotonic, IntervalInv, TimerInv
<1>c. /\ time \in 0 .. nanos /\ timing.since <= time /\ time \in Nat
  BY <1>a, <1>b
<1>d. /\ timing' \in [do : {"none", "timer", "deadline"}, since : 0 .. nanos,
                      value : Micros, interval : Micros]
      /\ timing'.do = "deadline" /\ timing'.since = time
  BY <1>a, <1>b, <1>c
<1>e. /\ expiry \in [since : [made : BOOLEAN, time : Nat], period : Nat,
                     first : Nat \cup {NotYet}, again : BOOLEAN]
      /\ marked <=> expiry.first # NotYet
      /\ marked => expiry.since.time = expiry.first /\ expiry.first <= timing.since
  BY DEF IntervalInv, CheckedInv
<1>f. /\ MarkedSince(time) \in [made : BOOLEAN, time : Nat]
      /\ MarkedSince(time).made
      /\ MarkedSince(time).time = IF marked THEN expiry.first ELSE time
  BY <1>c, <1>e DEF MarkedSince, Since
<1>g. /\ expiry'.since = MarkedSince(time) /\ expiry'.period = expiry.period
      /\ expiry'.first = IF marked THEN expiry.first ELSE time
      /\ expiry'.again <=> marked
      /\ expiry' \in [since : [made : BOOLEAN, time : Nat], period : Nat,
                      first : Nat \cup {NotYet}, again : BOOLEAN]
  BY <1>a, <1>c, <1>e, <1>f
<1>h. marked => E(time) = time - expiry.first
  <2>1. ASSUME marked
        PROVE  expiry.first \in 0 .. time /\ time - expiry.first \in 0 .. Wrap - 1
    BY <2>1, <1>b, <1>c, <1>e, IntervalConstants DEF NotYet
  <2>2. ASSUME marked PROVE (time - expiry.first) % Wrap = time - expiry.first
    BY <2>1, <2>2, IntervalConstants, ModWrap
  <2> QED  BY <2>2, <1>e DEF Elapsed
<1>1. TimerInv'
  BY <1>b, <1>d DEF IntervalInv, TimerInv
<1>2. CheckedInv'
  <2>1. expiry'.since.made <=> expiry'.first # NotYet
    BY <1>c, <1>e, <1>f, <1>g DEF NotYet
  <2>2. expiry'.since.time = expiry'.first /\ expiry'.first <= timing'.since
    BY <1>b, <1>c, <1>d, <1>e, <1>f, <1>g DEF NotYet
  <2> QED  BY <1>d, <1>g, <2>1, <2>2 DEF CheckedInv
<1>3. DeadlinesTold'
  <2> DEFINE left == expiry'.first + expiry'.period - timing'.since
  <2>1. left = IF marked THEN (expiry.first + expiry.period) - time ELSE expiry.period
    BY <1>c, <1>d, <1>e, <1>g DEF NotYet
  <2>2. /\ lastCheck'.expired <=> marked /\ E(time) >= expiry.period
        /\ lastCheck'.remaining = IF ~marked THEN expiry.period
                                  ELSE IF E(time) >= expiry.period THEN 0
                                       ELSE expiry.period - E(time)
    BY <1>a
  <2>3. /\ lastCheck'.expired <=> expiry'.again /\ left <= 0
        /\ lastCheck'.remaining = IF left <= 0 THEN 0 ELSE left
    <3> HIDE DEF left
    <3> QED  BY <1>c, <1>e, <1>g, <1>h, <2>1, <2>2 DEF NotYet
  <2>4. lastCheck'.expired = (expiry'.again /\ left <= 0)
    BY <1>a, <2>3
  <2> QED  BY <2>3, <2>4, Zenon DEF DeadlinesTold
<1>4. TimersGivenBack'
  BY <1>d DEF TimersGivenBack
<1> QED  BY <1>1, <1>2, <1>3, <1>4 DEF IntervalInv, IntervalsKept

LEMMA IntervalNextInv == IntervalInv /\ IntervalNext => IntervalInv'
BY TickTimeInv, TakeTimerInv, EndTimingInv, BeginDeadlineInv, CheckMonotonicInv
   DEF IntervalNext

LEMMA IntervalStutterInv == IntervalInv /\ UNCHANGED intervalVars => IntervalInv'
BY DEF intervalVars, IntervalInv, TimerInv, CheckedInv, IntervalsKept,
       TimersGivenBack, DeadlinesTold

----------------------------------------------------------------------------
\* Reading and writing (FdTransfer)

LEMMA TransferConstants ==
    /\ Length \in Nat /\ Wrap \in Nat \ {0}
    /\ TransferPeriods \subseteq Int /\ NoTimeout \in Int
BY TransferAssumption, WrapAssumption DEF NoTimeout

LEMMA RemainingInt ==
    ASSUME NEW m \in Int, NEW period \in Int, NEW time \in Int
    PROVE  Remaining(m, period, time) \in Int
<1>1. Elapsed(m, time) \in Int
  BY WrapAssumption DEF Elapsed
<1> QED  BY <1>1 DEF Remaining

LEMMA NoneYet ==
    ASSUME NEW count \in Nat
    PROVE  /\ [NoDeadline EXCEPT !.resumed = count] \in Deadlines
           /\ [NoDeadline EXCEPT !.resumed = count].mark = NoMark
<1>1. NoDeadline \in Deadlines /\ NoDeadline.mark = NoMark
  BY DEF NoDeadline, Deadlines, NoMark
<1> QED  BY <1>1 DEF Deadlines

LEMMA NewMark ==
    ASSUME NEW d \in Deadlines, NEW m \in Int, NEW r \in Nat
    PROVE  /\ [d EXCEPT !.mark = m, !.resumed = r] \in Deadlines
           /\ [d EXCEPT !.mark = m, !.resumed = r].mark = m
<1> DEFINE e == [d EXCEPT !.mark = m]
<1>1. e \in Deadlines /\ e.mark = m
  BY DEF Deadlines
<1>2. [d EXCEPT !.mark = m, !.resumed = r] = [e EXCEPT !.resumed = r]
  BY DEF Deadlines
<1> HIDE DEF e
<1>3. [e EXCEPT !.resumed = r] \in Deadlines /\ [e EXCEPT !.resumed = r].mark = m
  BY <1>1 DEF Deadlines
<1> QED  BY <1>2, <1>3

LEMMA Entered ==
    ASSUME NEW by \in Waiters, NEW timeout \in Int, resumed \in Nat, Enter(by, timeout)
    PROVE  /\ at' = "latch" /\ polling' \in Polls
           /\ polling'.by = by /\ polling'.ready = FALSE
<1>1. NoPolling \in Polls /\ NoPolling.ready = FALSE
  BY DEF NoPolling, Polls, NoMark, Waiters
<1> QED  BY <1>1 DEF Enter, Polls

\* What the caller of waitFdReady_() does with the answer, by caller.
Answered(ready) ==
    /\ unready' <=> unready \/ ~ready
    /\ \/ polling.by = "check" /\ at' = "decide"
       \/ polling.by = "wait" /\ ready /\ purpose = "before" /\ at' = "io"
       \/ polling.by = "wait" /\ (ready => purpose # "before") /\ at' = "loop"
       \/ polling.by = "again" /\ at' = "loop"

LEMMA AnswerCases ==
    ASSUME polling.by \in Waiters, NEW ready \in BOOLEAN, Answer(ready)
    PROVE  Answered(ready)
<1>1. CASE polling.by = "check"
  BY <1>1 DEF Answer, Answered
<1>2. CASE polling.by = "wait"
  BY <1>2 DEF Answer, Answered, Ready, NotReady
<1>3. CASE polling.by = "again"
  BY <1>3 DEF Answer, Answered
<1> QED  BY <1>1, <1>2, <1>3 DEF Waiters

\* What Poll does with what it found.
PollFound(ready) ==
    IF polling.timeout = NoTimeout
    THEN /\ at' = "sleep" /\ UNCHANGED unready
         /\ polling' = [polling EXCEPT !.ready = ready]
    ELSE IF DeadlineTimeExpired(polling.mark, polling.timeout, polling.time)
    THEN IF polling.resumed # resumed
         THEN /\ at' = "latch" /\ UNCHANGED unready
              /\ polling' = [polling EXCEPT !.ready = ready, !.mark = NoMark,
                                            !.resumed = resumed]
         ELSE /\ polling' = [polling EXCEPT !.ready = ready]
              /\ Answer(ready)
    ELSE /\ at' = "sleep" /\ UNCHANGED unready
         /\ polling' = [polling EXCEPT
               !.ready = ready, !.mark = Marked(@, polling.time),
               !.wake = now + Remaining(polling.mark, polling.timeout, polling.time)]

LEMMA TransferInitInv == TransferInit => TransferInv
BY TransferConstants
   DEF TransferInit, TransferInv, MovedInv, ChanceInv, RaceInv, TransfersKept,
       NoUnitLost, FairChance, BlockedByRace, Polling, FileReady, Timed, NoCall,
       NoDeadline, NoPolling, NoMark, Waiters, FirstTime, Polls, Deadlines

LEMMA PassInv ==
    ASSUME TransferInv, Pass
    PROVE  TransferInv'
<1> USE DEF TransferInv
<1>1. MovedInv'
  BY TransferConstants DEF MovedInv, Waiters, Polls, Deadlines, Pass, callVars,
     worldVars, transferFileVars
<1>2. ChanceInv'
  BY TransferConstants DEF ChanceInv, Polling, MovedInv, Pass, callVars,
     worldVars, transferFileVars
<1>3. RaceInv'
  BY TransferConstants DEF RaceInv, Polling, FileReady, Timed, MovedInv, Pass,
     callVars, worldVars, transferFileVars
<1>4. TransfersKept'
  BY TransferConstants DEF MovedInv, ChanceInv, RaceInv, TransfersKept, Polling,
     FileReady, Timed, NoUnitLost, FairChance, BlockedByRace, Pass, callVars,
     worldVars, transferFileVars
<1>5. now' \in Nat /\ resumed' \in Nat
  BY TransferConstants DEF Pass, callVars, worldVars, transferFileVars
<1> QED  BY <1>1, <1>2, <1>3, <1>4, <1>5

LEMMA SupplyInv ==
    ASSUME TransferInv, Supply
    PROVE  TransferInv'
<1> USE DEF TransferInv
<1>1. MovedInv'
  BY TransferConstants DEF MovedInv, Waiters, Polls, Deadlines, Supply,
     callVars, worldVars, transferFileVars
<1>2. ChanceInv'
  BY TransferConstants DEF ChanceInv, Polling, MovedInv, Supply, callVars,
     worldVars, transferFileVars
<1>3. RaceInv'
  BY TransferConstants DEF RaceInv, Polling, FileReady, Timed, MovedInv, Supply,
     callVars, worldVars, transferFileVars
<1>4. TransfersKept'
  BY TransferConstants DEF MovedInv, ChanceInv, RaceInv, TransfersKept, Polling,
     FileReady, Timed, NoUnitLost, FairChance, BlockedByRace, Supply, callVars,
     worldVars, transferFileVars
<1>5. now' \in Nat /\ resumed' \in Nat
  BY TransferConstants DEF Supply, callVars, worldVars, transferFileVars
<1> QED  BY <1>1, <1>2, <1>3, <1>4, <1>5

LEMMA StealInv ==
    ASSUME TransferInv, Steal
    PROVE  TransferInv'
<1> USE DEF TransferInv
<1>1. MovedInv'
  BY TransferConstants DEF MovedInv, Waiters, Polls, Deadlines, Steal, callVars,
     worldVars, transferFileVars
<1>2. ChanceInv'
  BY TransferConstants DEF ChanceInv, Polling, MovedInv, Steal, callVars,
     worldVars, transferFileVars
<1>3. RaceInv'
  BY TransferConstants DEF RaceInv, Polling, FileReady, Timed, MovedInv, Steal,
     callVars, worldVars, transferFileVars
<1>4. TransfersKept'
  BY TransferConstants DEF MovedInv, ChanceInv, RaceInv, TransfersKept, Polling,
     FileReady, Timed, NoUnitLost, FairChance, BlockedByRace, Steal, callVars,
     worldVars, transferFileVars
<1>5. now' \in Nat /\ resumed' \in Nat
  BY TransferConstants DEF Steal, callVars, worldVars, transferFileVars
<1> QED  BY <1>1, <1>2, <1>3, <1>4, <1>5

LEMMA LeaveInv ==
    ASSUME TransferInv, Leave
    PROVE  TransferInv'
<1> USE DEF TransferInv
<1>1. MovedInv'
  BY TransferConstants DEF MovedInv, Waiters, Polls, Deadlines, Leave, callVars,
     worldVars, transferFileVars
<1>2. ChanceInv'
  BY TransferConstants DEF ChanceInv, Polling, MovedInv, Leave, callVars,
     worldVars, transferFileVars
<1>3. RaceInv'
  BY TransferConstants DEF RaceInv, Polling, FileReady, Timed, MovedInv, Leave,
     callVars, worldVars, transferFileVars
<1>4. TransfersKept'
  BY TransferConstants DEF MovedInv, ChanceInv, RaceInv, TransfersKept, Polling,
     FileReady, Timed, NoUnitLost, FairChance, BlockedByRace, Leave, callVars,
     worldVars, transferFileVars
<1>5. now' \in Nat /\ resumed' \in Nat
  BY TransferConstants DEF Leave, callVars, worldVars, transferFileVars
<1> QED  BY <1>1, <1>2, <1>3, <1>4, <1>5

LEMMA StopContinueInv ==
    ASSUME TransferInv, StopContinue
    PROVE  TransferInv'
<1> USE DEF TransferInv
<1>1. MovedInv'
  BY TransferConstants DEF MovedInv, Waiters, Polls, Deadlines, StopContinue,
     callVars, worldVars, transferFileVars
<1>2. ChanceInv'
  BY TransferConstants DEF ChanceInv, Polling, MovedInv, StopContinue, callVars,
     worldVars, transferFileVars
<1>3. RaceInv'
  BY TransferConstants DEF RaceInv, Polling, FileReady, Timed, MovedInv,
     StopContinue, callVars, worldVars, transferFileVars
<1>4. TransfersKept'
  BY TransferConstants DEF MovedInv, ChanceInv, RaceInv, TransfersKept, Polling,
     FileReady, Timed, NoUnitLost, FairChance, BlockedByRace, StopContinue,
     callVars, worldVars, transferFileVars
<1>5. now' \in Nat /\ resumed' \in Nat
  BY TransferConstants DEF StopContinue, callVars, worldVars, transferFileVars
<1> QED  BY <1>1, <1>2, <1>3, <1>4, <1>5

LEMMA BeginTransferInv ==
    ASSUME TransferInv, BeginTransfer
    PROVE  TransferInv'
<1> USE DEF TransferInv
<1>a. /\ deadline' \in Deadlines /\ deadline'.mark = NoMark
      /\ at = "idle" /\ at' = "loop"
      /\ UNCHANGED <<worldVars, moved, purpose, polling, result, transferred, unready,
                     why>>
  BY NoneYet DEF BeginTransfer
<1>1. MovedInv'
  BY <1>a, TransferConstants DEF MovedInv, Waiters, Polls, Deadlines,
     BeginTransfer, callVars, worldVars, transferFileVars
<1>2. ChanceInv'
  BY <1>a, TransferConstants DEF ChanceInv, Polling, MovedInv, BeginTransfer,
     callVars, worldVars, transferFileVars
<1>3. RaceInv'
  BY <1>a, TransferConstants DEF RaceInv, Polling, FileReady, Timed, MovedInv,
     BeginTransfer, callVars, worldVars, transferFileVars
<1>4. TransfersKept'
  BY <1>a, TransferConstants DEF MovedInv, ChanceInv, RaceInv, TransfersKept,
     Polling, FileReady, Timed, NoUnitLost, FairChance, BlockedByRace,
     BeginTransfer, callVars, worldVars, transferFileVars
<1>5. now' \in Nat /\ resumed' \in Nat
  BY <1>a, TransferConstants DEF BeginTransfer, callVars, worldVars,
     transferFileVars
<1> QED  BY <1>1, <1>2, <1>3, <1>4, <1>5

LEMMA TransferLoopInv ==
    ASSUME TransferInv, TransferLoop
    PROVE  TransferInv'
<1> USE DEF TransferInv
<1>1. MovedInv'
  BY TransferConstants DEF MovedInv, Waiters, Polls, Deadlines, TransferLoop,
     Return, callVars, worldVars, transferFileVars
<1>2. ChanceInv'
  BY TransferConstants DEF ChanceInv, Polling, MovedInv, TransferLoop, Return,
     callVars, worldVars, transferFileVars
<1>3. RaceInv'
  BY TransferConstants DEF RaceInv, Polling, FileReady, Timed, MovedInv,
     TransferLoop, Return, callVars, worldVars, transferFileVars
<1>4. TransfersKept'
  BY TransferConstants DEF MovedInv, ChanceInv, RaceInv, TransfersKept, Polling,
     FileReady, Timed, NoUnitLost, FairChance, BlockedByRace, TransferLoop,
     Return, callVars, worldVars, transferFileVars
<1>5. now' \in Nat /\ resumed' \in Nat
  BY TransferConstants DEF TransferLoop, Return, callVars, worldVars,
     transferFileVars
<1> QED  BY <1>1, <1>2, <1>3, <1>4, <1>5

LEMMA CheckDeadlineInv ==
    ASSUME TransferInv, CheckDeadline
    PROVE  TransferInv'
<1> USE DEF TransferInv
<1>a. /\ at = "check" /\ at' = "latch"
      /\ deadline' \in Deadlines /\ deadline'.mark = deadline.mark
      /\ polling' \in Polls /\ polling'.by = "check" /\ polling'.ready = FALSE
      /\ UNCHANGED <<worldVars, call, moved, purpose, result, transferred, unready, why>>
  <2>1. deadline' = [deadline EXCEPT !.time = now] /\ Enter("check", 0)
    BY DEF CheckDeadline
  <2>a. "check" \in Waiters /\ 0 \in Int /\ resumed \in Nat
    BY DEF Waiters
  <2>2. polling' \in Polls /\ polling'.by = "check" /\ polling'.ready = FALSE
    BY ONLY <2>1, <2>a, Entered
  <2>3. deadline' \in Deadlines /\ deadline'.mark = deadline.mark
    BY <2>1 DEF MovedInv, Deadlines
  <2> QED  BY <2>2, <2>3 DEF CheckDeadline, Enter
<1>1. MovedInv'
  BY <1>a, TransferConstants DEF MovedInv, Waiters, Polls, Deadlines, callVars,
     worldVars, transferFileVars
<1>2. ChanceInv'
  BY <1>a, TransferConstants DEF ChanceInv, Polling, MovedInv, callVars,
     worldVars, transferFileVars
<1>3. RaceInv'
  BY <1>a, TransferConstants DEF RaceInv, Polling, FileReady, Timed, MovedInv,
     callVars, worldVars, transferFileVars
<1>4. TransfersKept'
  BY <1>a, TransferConstants DEF MovedInv, ChanceInv, RaceInv, TransfersKept,
     Polling, FileReady, Timed, NoUnitLost, FairChance, BlockedByRace, callVars,
     worldVars, transferFileVars
<1>5. now' \in Nat /\ resumed' \in Nat
  BY <1>a, TransferConstants DEF callVars, worldVars, transferFileVars
<1> QED  BY <1>1, <1>2, <1>3, <1>4, <1>5

LEMMA DecideDeadlineInv ==
    ASSUME TransferInv, DecideDeadline
    PROVE  TransferInv'
<1> USE DEF TransferInv
<1>a. /\ at = "decide"
      /\ UNCHANGED <<worldVars, call, moved, purpose, transferred>>
      /\ \/ /\ deadline' \in Deadlines /\ deadline'.mark = NoMark
            /\ at' = "loop" /\ unready' = FALSE
            /\ UNCHANGED <<polling, result, why>>
         \/ /\ deadline.mark # NoMark /\ at' = "done" /\ why' = "timeout"
            /\ result' = (IF moved = 0 THEN -1 ELSE moved)
            /\ UNCHANGED <<deadline, polling>> /\ (unready' <=> unready)
         \/ /\ deadline' \in Deadlines /\ polling.ready /\ Ready
            /\ UNCHANGED <<polling, result, why>> /\ (unready' <=> unready)
         \/ /\ deadline' \in Deadlines /\ at' = "latch" /\ polling' \in Polls
            /\ polling'.by = "wait" /\ polling'.ready = FALSE
            /\ UNCHANGED <<result, why>> /\ (unready' <=> unready)
  <2>1. CASE ~DeadlineExpired
    <3>1. /\ deadline' = [deadline EXCEPT !.mark = Marked(@, deadline.time)]
          /\ IF polling.ready THEN Ready /\ UNCHANGED polling
             ELSE Enter("wait", Remaining(deadline.mark, call.period, deadline.time))
      BY <2>1 DEF DecideDeadline
    <3>2. deadline' \in Deadlines
      BY <3>1 DEF MovedInv, Deadlines, Marked
    <3>3. Remaining(deadline.mark, call.period, deadline.time) \in Int
      BY RemainingInt DEF MovedInv, Deadlines
    <3>4. \/ polling.ready /\ Ready /\ UNCHANGED polling
          \/ /\ at' = "latch" /\ polling' \in Polls /\ polling'.by = "wait"
             /\ polling'.ready = FALSE
      BY <3>1, <3>3, Entered DEF MovedInv, Waiters
    <3> QED  BY <2>1, <3>2, <3>4 DEF DecideDeadline
  <2>2. CASE DeadlineExpired
    <3>1. /\ [deadline EXCEPT !.mark = NoMark, !.resumed = resumed] \in Deadlines
          /\ [deadline EXCEPT !.mark = NoMark, !.resumed = resumed].mark = NoMark
      <4>1. deadline \in Deadlines /\ NoMark \in Int /\ resumed \in Nat
        BY DEF MovedInv, NoMark
      <4> QED  BY ONLY <4>1, NewMark
    <3>3. deadline.mark # NoMark
      BY <2>2 DEF DeadlineExpired, DeadlineTimeExpired
    <3> QED  BY <2>2, <3>1, <3>3
             DEF DecideDeadline, Fail, Return, NotReady
  <2> QED  BY <2>1, <2>2
<1>1. MovedInv'
  BY <1>a, TransferConstants DEF MovedInv, Waiters, Polls, Deadlines, Ready,
     callVars, worldVars, transferFileVars
<1>2. ChanceInv'
  <2>1. /\ purpose' = purpose /\ moved' = moved /\ at = "decide" /\ ~Polling
        /\ (purpose = "again" => unready) /\ (deadline.mark # NoMark /\ moved = 0 => unready)
    BY <1>a DEF ChanceInv, Polling
  <2>a. at' = "loop" /\ deadline'.mark # NoMark => unready'
    BY <1>a, <2>1 DEF Ready, MovedInv
  <2>2. CASE at' \in {"loop", "done"}
    BY <1>a, <2>1, <2>a, <2>2 DEF ChanceInv, Polling
  <2>3. CASE at' \in {"latch", "io"} /\ (unready' <=> unready)
    BY <1>a, <2>1, <2>3 DEF ChanceInv, Polling, Ready
  <2> QED  BY <1>a, <2>2, <2>3 DEF Ready
<1>3. RaceInv'
  BY <1>a, TransferConstants DEF RaceInv, Polling, FileReady, Timed, MovedInv,
     Ready, callVars, worldVars, transferFileVars
<1>4. TransfersKept'
  BY <1>a, TransferConstants DEF MovedInv, ChanceInv, RaceInv, TransfersKept,
     Polling, FileReady, Timed, NoUnitLost, FairChance, BlockedByRace, Ready,
     callVars, worldVars, transferFileVars
<1>5. now' \in Nat /\ resumed' \in Nat
  BY <1>a, TransferConstants DEF Ready, callVars, worldVars, transferFileVars
<1> QED  BY <1>1, <1>2, <1>3, <1>4, <1>5

LEMMA LatchPollInv ==
    ASSUME TransferInv, LatchPoll
    PROVE  TransferInv'
<1> USE DEF TransferInv
<1>1. MovedInv'
  BY TransferConstants DEF MovedInv, Waiters, Polls, Deadlines, LatchPoll,
     callVars, worldVars, transferFileVars
<1>2. ChanceInv'
  BY TransferConstants DEF ChanceInv, Polling, MovedInv, LatchPoll, callVars,
     worldVars, transferFileVars
<1>3. RaceInv'
  BY TransferConstants DEF RaceInv, Polling, FileReady, Timed, MovedInv,
     LatchPoll, callVars, worldVars, transferFileVars
<1>4. TransfersKept'
  BY TransferConstants DEF MovedInv, ChanceInv, RaceInv, TransfersKept, Polling,
     FileReady, Timed, NoUnitLost, FairChance, BlockedByRace, LatchPoll,
     callVars, worldVars, transferFileVars
<1>5. now' \in Nat /\ resumed' \in Nat
  BY TransferConstants DEF LatchPoll, callVars, worldVars, transferFileVars
<1> QED  BY <1>1, <1>2, <1>3, <1>4, <1>5

LEMMA PollInv ==
    ASSUME TransferInv, Poll
    PROVE  TransferInv'
<1> USE DEF TransferInv
<1>a. PICK ready \in {FileReady, polling.ready} :
        /\ polling' \in Polls /\ polling'.by = polling.by /\ polling'.ready = ready
        /\ \/ at' \in {"sleep", "latch"} /\ unready' = unready
           \/ Answered(ready)
  <2>1. PICK ready \in {FileReady, polling.ready} : PollFound(ready)
    BY DEF Poll, PollFound
  <2>2. ready \in BOOLEAN
    BY DEF FileReady, MovedInv, Polls
  <2>3. /\ Marked(polling.mark, polling.time) \in Int
        /\ now + Remaining(polling.mark, polling.timeout, polling.time) \in Int
    <3>1. /\ polling.mark \in Int /\ polling.timeout \in Int /\ polling.time \in Int
          /\ now \in Int
      BY DEF MovedInv, Polls
    <3>2. Remaining(polling.mark, polling.timeout, polling.time) \in Int
      BY <3>1, RemainingInt
    <3> QED  BY <3>1, <3>2 DEF Marked
  <2>4. /\ [polling EXCEPT !.ready = ready] \in Polls
        /\ [polling EXCEPT !.ready = ready].by = polling.by
        /\ [polling EXCEPT !.ready = ready].ready = ready
    BY <2>2 DEF MovedInv, Polls
  <2>5. ASSUME polling' = [polling EXCEPT !.ready = ready, !.mark = NoMark,
                                          !.resumed = resumed]
        PROVE  polling' \in Polls /\ polling'.by = polling.by /\ polling'.ready = ready
    <3>1. polling \in Polls /\ NoMark \in Int /\ resumed \in Nat
      BY DEF MovedInv, NoMark
    <3>2. polling' \in Polls
      BY <2>2, <2>5, <3>1 DEF Polls
    <3>3. polling'.by = polling.by
      BY <2>5, <3>1 DEF Polls
    <3>4. polling'.ready = ready
      BY <2>5, <3>1 DEF Polls
    <3> QED  BY <3>2, <3>3, <3>4
  <2>6. ASSUME NEW m \in Int, NEW w \in Int,
               polling' = [polling EXCEPT !.ready = ready, !.mark = m, !.wake = w]
        PROVE  polling' \in Polls /\ polling'.by = polling.by /\ polling'.ready = ready
    BY <2>2, <2>6 DEF MovedInv, Polls
  <2>7. Answer(ready) => Answered(ready)
    BY <2>2, AnswerCases DEF MovedInv, Polls
  <2> QED  BY <2>1, <2>3, <2>4, <2>5, <2>6, <2>7 DEF PollFound
<1>b. /\ at = "poll"
      /\ UNCHANGED <<worldVars, call, moved, deadline, purpose, result, transferred, why>>
  BY DEF Poll
<1>1. MovedInv'
  BY <1>a, <1>b, TransferConstants DEF MovedInv, Waiters, Polls, Deadlines,
     Answered, callVars, worldVars, transferFileVars
<1>2. ChanceInv'
  <2>1. /\ purpose' = purpose /\ deadline' = deadline /\ moved' = moved
        /\ Polling /\ at \notin {"idle", "io", "blocked", "done"}
    BY <1>b DEF Polling
  <2>2. purpose = "again" => unready
    BY <2>1 DEF ChanceInv
  <2>3. CASE at' \in {"sleep", "latch"} /\ (unready' <=> unready)
    BY <1>a, <2>1, <2>2, <2>3 DEF ChanceInv, Polling
  <2>4. ASSUME NEW found \in BOOLEAN, Answered(found)
        PROVE  ChanceInv'
    BY <1>a, <2>1, <2>2, <2>4 DEF ChanceInv, Polling, Answered, MovedInv, Polls, Waiters
  <2> QED  BY <1>a, <2>3, <2>4 DEF FileReady, MovedInv, Polls
<1>3. RaceInv'
  BY <1>a, <1>b, TransferConstants DEF RaceInv, Polling, FileReady, Timed,
     MovedInv, Answered, callVars, worldVars, transferFileVars
<1>4. TransfersKept'
  BY <1>a, <1>b, TransferConstants DEF MovedInv, ChanceInv, RaceInv,
     TransfersKept, Polling, FileReady, Timed, NoUnitLost, FairChance,
     BlockedByRace, Answered, callVars, worldVars, transferFileVars
<1>5. now' \in Nat /\ resumed' \in Nat
  BY <1>a, <1>b, TransferConstants DEF Answered, callVars, worldVars,
     transferFileVars
<1> QED  BY <1>1, <1>2, <1>3, <1>4, <1>5

LEMMA PollFailsInv ==
    ASSUME TransferInv, PollFails
    PROVE  TransferInv'
<1> USE DEF TransferInv
<1>1. MovedInv'
  BY TransferConstants DEF MovedInv, Waiters, Polls, Deadlines, PollFails, Fail,
     Return, callVars, worldVars, transferFileVars
<1>2. ChanceInv'
  BY TransferConstants DEF ChanceInv, Polling, MovedInv, PollFails, Fail,
     Return, callVars, worldVars, transferFileVars
<1>3. RaceInv'
  BY TransferConstants DEF RaceInv, Polling, FileReady, Timed, MovedInv,
     PollFails, Fail, Return, callVars, worldVars, transferFileVars
<1>4. TransfersKept'
  BY TransferConstants DEF MovedInv, ChanceInv, RaceInv, TransfersKept, Polling,
     FileReady, Timed, NoUnitLost, FairChance, BlockedByRace, PollFails, Fail,
     Return, callVars, worldVars, transferFileVars
<1>5. now' \in Nat /\ resumed' \in Nat
  BY TransferConstants DEF PollFails, Fail, Return, callVars, worldVars,
     transferFileVars
<1> QED  BY <1>1, <1>2, <1>3, <1>4, <1>5

LEMMA SleepInv ==
    ASSUME TransferInv, Sleep
    PROVE  TransferInv'
<1> USE DEF TransferInv
<1>a. /\ polling' \in Polls /\ polling'.by = polling.by
      /\ \/ FileReady /\ polling'.ready = TRUE /\ Answered(TRUE)
         \/ at' = "latch" /\ (unready' <=> unready)
            /\ polling'.ready \in {FALSE, polling.ready}
  <2>1. Answer(TRUE) => Answered(TRUE)
    BY AnswerCases DEF MovedInv, Polls
  <2>2. CASE FileReady /\ polling' = [polling EXCEPT !.ready = TRUE] /\ Answer(TRUE)
    BY <2>1, <2>2 DEF MovedInv, Polls
  <2>3. CASE polling' = [polling EXCEPT !.ready = FALSE] /\ at' = "latch"
             /\ UNCHANGED unready
    BY <2>3 DEF MovedInv, Polls
  <2>4. CASE at' = "latch" /\ UNCHANGED <<polling, unready>>
    BY <2>4 DEF MovedInv, Polls
  <2> QED  BY <2>2, <2>3, <2>4 DEF Sleep
<1>b. /\ at = "sleep"
      /\ UNCHANGED <<worldVars, call, moved, deadline, purpose, result, transferred, why>>
  BY DEF Sleep
<1>1. MovedInv'
  BY <1>a, <1>b, TransferConstants DEF MovedInv, Waiters, Polls, Deadlines,
     Answered, callVars, worldVars, transferFileVars
<1>2. ChanceInv'
  <2>1. /\ purpose' = purpose /\ deadline' = deadline /\ moved' = moved
        /\ Polling /\ at \notin {"idle", "io", "blocked", "done"}
    BY <1>b DEF Polling
  <2>2. purpose = "again" => unready
    BY <2>1 DEF ChanceInv
  <2>3. CASE at' \in {"sleep", "latch"} /\ (unready' <=> unready)
    BY <1>a, <2>1, <2>2, <2>3 DEF ChanceInv, Polling
  <2>4. ASSUME NEW found \in BOOLEAN, Answered(found)
        PROVE  ChanceInv'
    BY <1>a, <2>1, <2>2, <2>4 DEF ChanceInv, Polling, Answered, MovedInv, Polls, Waiters
  <2> QED  BY <1>a, <2>3, <2>4
<1>3. RaceInv'
  BY <1>a, <1>b, TransferConstants DEF RaceInv, Polling, FileReady, Timed,
     MovedInv, Answered, callVars, worldVars, transferFileVars
<1>4. TransfersKept'
  BY <1>a, <1>b, TransferConstants DEF MovedInv, ChanceInv, RaceInv,
     TransfersKept, Polling, FileReady, Timed, NoUnitLost, FairChance,
     BlockedByRace, Answered, callVars, worldVars, transferFileVars
<1>5. now' \in Nat /\ resumed' \in Nat
  BY <1>a, <1>b, TransferConstants DEF Answered, callVars, worldVars,
     transferFileVars
<1> QED  BY <1>1, <1>2, <1>3, <1>4, <1>5

LEMMA MoveInv ==
    ASSUME TransferInv, Move
    PROVE  TransferInv'
<1> USE DEF TransferInv
<1>1. MovedInv'
  BY TransferConstants DEF MovedInv, Waiters, Polls, Deadlines, Move, Movable,
     callVars, worldVars, transferFileVars
<1>2. ChanceInv'
  BY TransferConstants DEF ChanceInv, Polling, MovedInv, Move, Movable,
     callVars, worldVars, transferFileVars
<1>3. RaceInv'
  BY TransferConstants DEF RaceInv, Polling, FileReady, Timed, MovedInv, Move,
     Movable, callVars, worldVars, transferFileVars
<1>4. TransfersKept'
  BY TransferConstants DEF MovedInv, ChanceInv, RaceInv, TransfersKept, Polling,
     FileReady, Timed, NoUnitLost, FairChance, BlockedByRace, Move, Movable,
     callVars, worldVars, transferFileVars
<1>5. now' \in Nat /\ resumed' \in Nat
  BY TransferConstants DEF Move, Movable, callVars, worldVars, transferFileVars
<1> QED  BY <1>1, <1>2, <1>3, <1>4, <1>5

LEMMA MeetEndInv ==
    ASSUME TransferInv, MeetEnd
    PROVE  TransferInv'
<1> USE DEF TransferInv
<1>1. MovedInv'
  BY TransferConstants DEF MovedInv, Waiters, Polls, Deadlines, MeetEnd, Fail,
     Return, callVars, worldVars, transferFileVars
<1>2. ChanceInv'
  BY TransferConstants DEF ChanceInv, Polling, MovedInv, MeetEnd, Fail, Return,
     callVars, worldVars, transferFileVars
<1>3. RaceInv'
  BY TransferConstants DEF RaceInv, Polling, FileReady, Timed, MovedInv,
     MeetEnd, Fail, Return, callVars, worldVars, transferFileVars
<1>4. TransfersKept'
  BY TransferConstants DEF MovedInv, ChanceInv, RaceInv, TransfersKept, Polling,
     FileReady, Timed, NoUnitLost, FairChance, BlockedByRace, MeetEnd, Fail,
     Return, callVars, worldVars, transferFileVars
<1>5. now' \in Nat /\ resumed' \in Nat
  BY TransferConstants DEF MeetEnd, Fail, Return, callVars, worldVars,
     transferFileVars
<1> QED  BY <1>1, <1>2, <1>3, <1>4, <1>5

LEMMA BlockInv ==
    ASSUME TransferInv, Block
    PROVE  TransferInv'
<1> USE DEF TransferInv
<1>1. MovedInv'
  BY TransferConstants DEF MovedInv, Waiters, Polls, Deadlines, Block, callVars,
     worldVars, transferFileVars
<1>2. ChanceInv'
  BY TransferConstants DEF ChanceInv, Polling, MovedInv, Block, callVars,
     worldVars, transferFileVars
<1>3. RaceInv'
  BY TransferConstants DEF RaceInv, Polling, FileReady, Timed, MovedInv, Block,
     callVars, worldVars, transferFileVars
<1>4. TransfersKept'
  BY TransferConstants DEF MovedInv, ChanceInv, RaceInv, TransfersKept, Polling,
     FileReady, Timed, NoUnitLost, FairChance, BlockedByRace, Block, callVars,
     worldVars, transferFileVars
<1>5. now' \in Nat /\ resumed' \in Nat
  BY TransferConstants DEF Block, callVars, worldVars, transferFileVars
<1> QED  BY <1>1, <1>2, <1>3, <1>4, <1>5

LEMMA InterruptTransferInv ==
    ASSUME TransferInv, InterruptTransfer
    PROVE  TransferInv'
<1> USE DEF TransferInv
<1>1. MovedInv'
  BY TransferConstants DEF MovedInv, Waiters, Polls, Deadlines,
     InterruptTransfer, callVars, worldVars, transferFileVars
<1>2. ChanceInv'
  BY TransferConstants DEF ChanceInv, Polling, MovedInv, InterruptTransfer,
     callVars, worldVars, transferFileVars
<1>3. RaceInv'
  BY TransferConstants DEF RaceInv, Polling, FileReady, Timed, MovedInv,
     InterruptTransfer, callVars, worldVars, transferFileVars
<1>4. TransfersKept'
  BY TransferConstants DEF MovedInv, ChanceInv, RaceInv, TransfersKept, Polling,
     FileReady, Timed, NoUnitLost, FairChance, BlockedByRace, InterruptTransfer,
     callVars, worldVars, transferFileVars
<1>5. now' \in Nat /\ resumed' \in Nat
  BY TransferConstants DEF InterruptTransfer, callVars, worldVars,
     transferFileVars
<1> QED  BY <1>1, <1>2, <1>3, <1>4, <1>5

LEMMA TryAgainInv ==
    ASSUME TransferInv, TryAgain
    PROVE  TransferInv'
<1> USE DEF TransferInv
<1>a. /\ at = "io" /\ unready' = TRUE
      /\ \/ at' = "check" /\ UNCHANGED polling
         \/ /\ at' = "latch" /\ polling' \in Polls
            /\ polling'.by = "again" /\ polling'.ready = FALSE
      /\ UNCHANGED <<worldVars, call, moved, deadline, result, transferred, why>>
  BY TransferConstants, Entered DEF TryAgain, MovedInv, Waiters
<1>1. MovedInv'
  BY <1>a, TransferConstants DEF MovedInv, Waiters, Polls, Deadlines, TryAgain,
     callVars, worldVars, transferFileVars
<1>2. ChanceInv'
  BY <1>a, TransferConstants DEF ChanceInv, Polling, MovedInv, TryAgain,
     callVars, worldVars, transferFileVars
<1>3. RaceInv'
  BY <1>a, TransferConstants DEF RaceInv, Polling, FileReady, Timed, MovedInv,
     TryAgain, callVars, worldVars, transferFileVars
<1>4. TransfersKept'
  BY <1>a, TransferConstants DEF MovedInv, ChanceInv, RaceInv, TransfersKept,
     Polling, FileReady, Timed, NoUnitLost, FairChance, BlockedByRace, TryAgain,
     callVars, worldVars, transferFileVars
<1>5. now' \in Nat /\ resumed' \in Nat
  BY <1>a, TransferConstants DEF TryAgain, callVars, worldVars,
     transferFileVars
<1> QED  BY <1>1, <1>2, <1>3, <1>4, <1>5

LEMMA TransferFailsInv ==
    ASSUME TransferInv, TransferFails
    PROVE  TransferInv'
<1> USE DEF TransferInv
<1>1. MovedInv'
  BY TransferConstants DEF MovedInv, Waiters, Polls, Deadlines, TransferFails,
     Fail, Return, callVars, worldVars, transferFileVars
<1>2. ChanceInv'
  BY TransferConstants DEF ChanceInv, Polling, MovedInv, TransferFails, Fail,
     Return, callVars, worldVars, transferFileVars
<1>3. RaceInv'
  BY TransferConstants DEF RaceInv, Polling, FileReady, Timed, MovedInv,
     TransferFails, Fail, Return, callVars, worldVars, transferFileVars
<1>4. TransfersKept'
  BY TransferConstants DEF MovedInv, ChanceInv, RaceInv, TransfersKept, Polling,
     FileReady, Timed, NoUnitLost, FairChance, BlockedByRace, TransferFails,
     Fail, Return, callVars, worldVars, transferFileVars
<1>5. now' \in Nat /\ resumed' \in Nat
  BY TransferConstants DEF TransferFails, Fail, Return, callVars, worldVars,
     transferFileVars
<1> QED  BY <1>1, <1>2, <1>3, <1>4, <1>5

LEMMA TransferNextInv == TransferInv /\ TransferNext => TransferInv'
BY PassInv, SupplyInv, StealInv, LeaveInv, StopContinueInv, BeginTransferInv,
   TransferLoopInv, CheckDeadlineInv, DecideDeadlineInv, LatchPollInv, PollInv,
   PollFailsInv, SleepInv, MoveInv, MeetEndInv, BlockInv, InterruptTransferInv,
   TryAgainInv, TransferFailsInv
   DEF TransferNext

LEMMA TransferStutterInv == TransferInv /\ UNCHANGED transferVars => TransferInv'
BY DEF transferVars, TransferInv, MovedInv, ChanceInv, RaceInv, TransfersKept,
       NoUnitLost, FairChance, BlockedByRace, Polling, FileReady, Timed

----------------------------------------------------------------------------
\* Files that are read to their end (FullReads)

LEMMA MinOfTwo ==
    ASSUME NEW a \in Int, NEW b \in Int
    PROVE  Min({a, b}) = IF a <= b THEN a ELSE b
BY DEF Min

\* Any file is a sequence of letters.
LEMMA FilesAreSequences ==
    ASSUME NEW n \in Nat, NEW s \in [1 .. n -> FileLetters]
    PROVE  s \in Seq(FileLetters)
BY SeqDef

\* What comes after a set of numbers is not its least, unless there is no other.
LEMMA MinWithEnd ==
    ASSUME NEW n \in Nat, NEW S \in SUBSET (1 .. n)
    PROVE  /\ S = {} => Min(S \cup {n + 1}) = n + 1
           /\ S # {} => Min(S \cup {n + 1}) = Min(S)
<1>1. CASE S = {}
  <2>1. S \cup {n + 1} = {n + 1}
    BY <1>1
  <2>2. Min({n + 1}) = n + 1
    BY DEF Min
  <2> QED  BY <1>1, <2>1, <2>2
<1>2. CASE S # {}
  <2>1. PICK m \in S : \A k \in S : m <= k
    BY <1>2, LeastNumber
  <2>2. \A x \in S \cup {n + 1} : (\A y \in S \cup {n + 1} : x <= y) <=> x = m
    BY <2>1
  <2>3. \A x \in S : (\A y \in S : x <= y) <=> x = m
    BY <2>1
  <2>4. Min(S \cup {n + 1}) = m
    BY <2>1, <2>2 DEF Min
  <2>5. Min(S) = m
    BY <2>1, <2>3 DEF Min
  <2> QED  BY <1>2, <2>4, <2>5
<1> QED  BY <1>1, <1>2

LEMMA ReadsInitInv == FullReadsInit => ReadsInv
<1> SUFFICES ASSUME FullReadsInit PROVE ReadsInv
  OBVIOUS
<1>1. bootFile \in Seq(FileLetters) /\ Len(bootFile) = 0 /\ buffer.data = <<>>
  BY DEF FullReadsInit, NoBuffer
<1>2. BufferInv
  BY <1>1 DEF FullReadsInit, BufferInv, NoBuffer
<1>3. OnceInv
  BY DEF FullReadsInit, OnceInv
<1>4. FullReadsKept
  BY DEF FullReadsInit, FullReadsKept
<1> QED  BY <1>2, <1>3, <1>4 DEF ReadsInv

LEMMA BeginOnceInv ==
    ASSUME ReadsInv, NEW t \in FetchThreads, BeginOnce(t)
    PROVE  ReadsInv'
BY DEF BeginOnce, ReadsInv, BufferInv, OnceInv, FullReadsKept

LEMMA OpenBootInv ==
    ASSUME ReadsInv, OpenBoot
    PROVE  ReadsInv'
<1>1. bootFile' \in Seq(FileLetters)
  BY FullReadsAssumption, FilesAreSequences DEF OpenBoot
<1>2. readAt = 0 /\ buffer = NoBuffer /\ buffer.data = <<>>
  BY DEF OpenBoot, ReadsInv, BufferInv, NoBuffer
<1>3. Len(bootFile') \in Nat /\ SubSeq(bootFile', 1, 0) = <<>>
  BY <1>1, LenProperties, SubSeqEmpty
<1>4. BufferInv'
  BY <1>1, <1>2, <1>3 DEF OpenBoot, ReadsInv, BufferInv
<1>5. OnceInv'
  BY DEF OpenBoot, ReadsInv, OnceInv
<1>6. FullReadsKept'
  BY <1>2, <1>3 DEF OpenBoot, ReadsInv, OnceInv, FullReadsKept
<1> QED  BY <1>4, <1>5, <1>6 DEF ReadsInv

LEMMA GrowInv ==
    ASSUME ReadsInv, Grow
    PROVE  ReadsInv'
<1>1. buffer \in [size : Nat, data : Seq(FileLetters)]
  BY DEF ReadsInv, BufferInv
<1>2. /\ buffer' \in [size : Nat, data : Seq(FileLetters)]
      /\ buffer'.data = buffer.data
  BY <1>1, FullReadsAssumption DEF Grow, Grown
<1>3. /\ step = "read" /\ UNCHANGED <<bootFile, readAt, step, incarnation, fetched>>
  BY DEF Grow
<1>4. BufferInv'
  BY <1>2, <1>3 DEF ReadsInv, BufferInv
<1>5. OnceInv'
  BY <1>3 DEF ReadsInv, OnceInv
<1>6. FullReadsKept'
  BY <1>2, <1>3 DEF ReadsInv, OnceInv, FullReadsKept
<1> QED  BY <1>4, <1>5, <1>6 DEF ReadsInv

LEMMA ReadSomeInv ==
    ASSUME ReadsInv, ReadSome
    PROVE  ReadsInv'
<1>1. /\ bootFile \in Seq(FileLetters) /\ readAt \in 0 .. Len(bootFile)
      /\ buffer \in [size : Nat, data : Seq(FileLetters)] /\ Len(bootFile) \in Nat
      /\ buffer.data = SubSeq(bootFile, 1, readAt) /\ Len(buffer.data) \in Nat
  BY LenProperties DEF ReadSome, ReadsInv, BufferInv, FullReadsKept
<1>2. PICK n \in 1 .. Min({Available, Len(bootFile) - readAt}) :
         /\ readAt' = readAt + n
         /\ buffer' = [buffer EXCEPT
               !.data = @ \o SubSeq(bootFile, readAt + 1, readAt + n)]
  BY DEF ReadSome
<1>3. n \in Nat /\ n >= 1 /\ readAt + n <= Len(bootFile)
  <2>1. Available \in Int /\ Len(bootFile) - readAt \in Int
    BY <1>1 DEF Available
  <2> DEFINE left == Len(bootFile) - readAt
  <2> HIDE DEF left
  <2>2. left \in Int /\ left <= Len(bootFile) - readAt
    BY <2>1 DEF left
  <2>3. n \in 1 .. Min({Available, left})
    BY <1>2 DEF left
  <2>4. Min({Available, left}) = IF Available <= left THEN Available ELSE left
    BY <2>1, <2>2, MinOfTwo
  <2>5. Min({Available, left}) \in Int /\ Min({Available, left}) <= left
    BY <2>1, <2>2, <2>4
  <2> QED  BY <2>2, <2>3, <2>5, <1>1
<1> DEFINE piece == SubSeq(bootFile, readAt + 1, readAt + n)
<1>4. buffer.data \o piece = SubSeq(bootFile, 1, readAt + n)
  BY <1>1, <1>3, ConcatAdjacentSubSeq
<1>5. SubSeq(bootFile, 1, readAt + n) \in Seq(FileLetters)
  <2>1. \A i \in 1 .. readAt + n : bootFile[i] \in FileLetters
    BY <1>1, <1>3, ElementOfSeq
  <2> QED  BY <2>1, <1>1, <1>3, SubSeqProperties
<1>6. /\ buffer' \in [size : Nat, data : Seq(FileLetters)]
      /\ buffer'.data = SubSeq(bootFile, 1, readAt + n)
  BY <1>1, <1>2, <1>4, <1>5
<1>7. UNCHANGED <<bootFile, step, incarnation, fileOpen, fetched>> /\ step = "read"
  BY DEF ReadSome
<1>8. BufferInv'
  BY <1>1, <1>2, <1>3, <1>6, <1>7 DEF BufferInv
<1>9. OnceInv'
  BY <1>7 DEF ReadsInv, OnceInv
<1>10. FullReadsKept'
  BY <1>2, <1>6, <1>7 DEF ReadsInv, OnceInv, FullReadsKept
<1> QED  BY <1>8, <1>9, <1>10 DEF ReadsInv

\* The end, with what is told: the first line of the file, or an error.
FirstLine(line) ==
    LET lines == {i \in 1 .. Len(bootFile) : bootFile[i] = "newline"}
    IN  line = SubSeq(bootFile, 1, Min(lines \cup {Len(bootFile) + 1}) - 1)

LEMMA EndOnceInv ==
    ASSUME ReadsInv, NEW end, EndOnce(end), step \in {"open", "read", "copy"},
           end.err = "none" => FirstLine(end.text)
    PROVE  ReadsInv'
<1>1. /\ step' = "done" /\ incarnation' = end /\ ~fileOpen' /\ buffer' = NoBuffer
      /\ UNCHANGED <<bootFile, readAt, fetched>>
  BY DEF EndOnce
<1>2. \A t \in FetchThreads : fetched[t] = NotTold
  BY DEF ReadsInv, OnceInv
<1>3. BufferInv'
  <2>1. buffer' \in [size : Nat, data : Seq(FileLetters)]
    BY <1>1 DEF NoBuffer
  <2> QED  BY <1>1, <2>1 DEF ReadsInv, BufferInv
<1>4. OnceInv'
  BY <1>1, <1>2 DEF ReadsInv, OnceInv
<1>5. FullReadsKept'
  BY <1>1, <1>2 DEF FullReadsKept, FirstLine
<1> QED  BY <1>3, <1>4, <1>5 DEF ReadsInv

LEMMA ReadEndInv ==
    ASSUME ReadsInv, ReadEnd
    PROVE  ReadsInv'
<1>1. CASE buffer.data = <<>>
  BY <1>1, EndOnceInv DEF ReadEnd
<1>2. CASE buffer.data # <<>>
  <2>1. /\ step = "read" /\ step' = "copy" /\ readAt = Len(bootFile)
        /\ UNCHANGED <<bootFile, readAt, buffer, incarnation, fileOpen, fetched>>
    BY <1>2 DEF ReadEnd
  <2>2. BufferInv'
    BY <2>1 DEF ReadsInv, BufferInv
  <2>3. OnceInv'
    BY <2>1 DEF ReadsInv, OnceInv
  <2>4. FullReadsKept'
    BY <2>1 DEF ReadsInv, OnceInv, FullReadsKept
  <2> QED  BY <2>2, <2>3, <2>4 DEF ReadsInv
<1> QED  BY <1>1, <1>2

LEMMA CopyBootInv ==
    ASSUME ReadsInv, CopyBoot
    PROVE  ReadsInv'
<1>1. bootFile \in Seq(FileLetters) /\ Len(bootFile) \in Nat /\ step = "copy"
  BY LenProperties DEF CopyBoot, ReadsInv, BufferInv
<1>2. buffer.data = bootFile
  BY <1>1, SubSeqFull DEF ReadsInv, BufferInv, FullReadsKept
<1> DEFINE newlines == {i \in 1 .. Len(bootFile) : bootFile[i] = "newline"}
           end == IF newlines = {} THEN Len(bootFile) ELSE Min(newlines) - 1
<1>3. end = Min(newlines \cup {Len(bootFile) + 1}) - 1
  <2>1. newlines \in SUBSET (1 .. Len(bootFile))
    OBVIOUS
  <2>2. /\ newlines = {} => Min(newlines \cup {Len(bootFile) + 1}) = Len(bootFile) + 1
        /\ newlines # {} => Min(newlines \cup {Len(bootFile) + 1}) = Min(newlines)
    <3> HIDE DEF newlines
    <3> QED  BY <1>1, <2>1, MinWithEnd
  <2> HIDE DEF newlines
  <2> QED  BY <1>1, <2>2
<1>4. EndOnce([text |-> SubSeq(bootFile, 1, end), err |-> "none"])
  BY <1>2 DEF CopyBoot
<1>5. FirstLine(SubSeq(bootFile, 1, end))
  BY <1>3 DEF FirstLine
<1> HIDE DEF end
<1> QED  BY <1>1, <1>4, <1>5, EndOnceInv

LEMMA StepFailsInv ==
    ASSUME ReadsInv, StepFails
    PROVE  ReadsInv'
BY EndOnceInv DEF StepFails

LEMMA FetchIncarnationInv ==
    ASSUME ReadsInv, NEW t \in FetchThreads, FetchIncarnation(t)
    PROVE  ReadsInv'
<1>1. /\ step = "done" /\ fetched' = [fetched EXCEPT ![t] = incarnation]
      /\ UNCHANGED <<bootFile, readAt, buffer, step, incarnation, fileOpen>>
  BY DEF FetchIncarnation
<1>2. BufferInv'
  BY <1>1 DEF ReadsInv, BufferInv
<1>3. OnceInv'
  BY <1>1 DEF ReadsInv, OnceInv
<1>4. FullReadsKept'
  BY <1>1 DEF ReadsInv, OnceInv, FullReadsKept
<1> QED  BY <1>2, <1>3, <1>4 DEF ReadsInv

LEMMA ReadsNextInv == ReadsInv /\ FullReadsNext => ReadsInv'
BY BeginOnceInv, FetchIncarnationInv, OpenBootInv, GrowInv, ReadSomeInv, ReadEndInv,
   CopyBootInv, StepFailsInv DEF FullReadsNext

LEMMA ReadsStutterInv == ReadsInv /\ UNCHANGED fullVars => ReadsInv'
BY DEF fullVars, ReadsInv, BufferInv, OnceInv, FullReadsKept

----------------------------------------------------------------------------
\* Temporary files (TemporaryFile)

\* What the socket pair holds after the descriptor was sent.
LEMMA SentAlone == Append(<<>>, "fd") = <<"fd">>
<1> DEFINE S == {"ok", "fd"}
<1>1. /\ <<>> \in Seq(S) /\ "fd" \in S /\ <<"fd">> \in Seq(S)
      /\ Len(<<>>) = 0 /\ Len(<<"fd">>) = 1 /\ <<"fd">>[1] = "fd"
  OBVIOUS
<1>2. /\ Append(<<>>, "fd") \in Seq(S) /\ Len(Append(<<>>, "fd")) = 1
      /\ Append(<<>>, "fd")[1] = "fd"
  BY <1>1, AppendProperties
<1> HIDE DEF S
<1> QED  BY <1>1, <1>2, SeqEqual

LEMMA SentAfter == Append(<<"ok">>, "fd") = <<"ok", "fd">>
<1> DEFINE S == {"ok", "fd"}
           s == Append(<<"ok">>, "fd")
           r == <<"ok", "fd">>
<1>1. <<"ok">> \in Seq(S) /\ "fd" \in S /\ r \in Seq(S) /\ Len(<<"ok">>) = 1
  OBVIOUS
<1>2. Len(r) = 2 /\ r[1] = "ok" /\ r[2] = "fd" /\ <<"ok">>[1] = "ok"
  OBVIOUS
<1>3. s \in Seq(S) /\ Len(s) = 2 /\ s[1] = "ok" /\ s[2] = "fd"
  BY <1>1, <1>2, AppendProperties
<1> HIDE DEF S, s, r
<1>4. \A i \in 1 .. 2 : s[i] = r[i]
  BY <1>2, <1>3
<1>5. s = r
  BY <1>1, <1>2, <1>3, <1>4, SeqEqual
<1> QED  BY <1>5 DEF s, r

\* The states of the socket pair are different.
LEMMA Sent ==
    /\ <<>> # <<"ok">> /\ <<>> # <<"error">> /\ <<>> # <<"ok", "fd">> /\ <<>> # <<"fd">>
    /\ <<"ok">> # <<"error">> /\ <<"ok">> # <<"ok", "fd">> /\ <<"ok">> # <<"fd">>
    /\ <<"error">> # <<"ok", "fd">> /\ <<"error">> # <<"fd">>
    /\ <<"ok", "fd">> # <<"fd">>
    /\ Append(<<>>, "fd") = <<"fd">> /\ Append(<<"ok">>, "fd") = <<"ok", "fd">>
<1>1. <<>> # <<"ok">> /\ <<>> # <<"error">> /\ <<>> # <<"ok", "fd">> /\ <<>> # <<"fd">>
  OBVIOUS
<1>2. <<"ok">> # <<"error">> /\ <<"ok">> # <<"ok", "fd">> /\ <<"ok">> # <<"fd">>
  OBVIOUS
<1>3. <<"error">> # <<"ok", "fd">> /\ <<"error">> # <<"fd">> /\ <<"ok", "fd">> # <<"fd">>
  OBVIOUS
<1> QED  BY <1>1, <1>2, <1>3, SentAlone, SentAfter

LEMMA TempInitInv == TempInit => TempInv
BY DEF TempInit, TempInv, TempTypeOK, TemporaryKept, NoLitter, FileOrCause, ChildGone,
   PlacesInv, ChildInv, MessagesInv

LEMMA OpenUnnamedInv ==
    ASSUME TempInv, OpenUnnamed
    PROVE  TempInv'
<1>1. TempTypeOK'
  BY Sent DEF OpenUnnamed, Finish, TempInv, TempTypeOK, MessagesInv
<1>2. TemporaryKept'
  BY DEF OpenUnnamed, Finish, TempInv, TempTypeOK, TemporaryKept, NoLitter,
     FileOrCause, ChildGone, PlacesInv, ChildInv, MessagesInv
<1>3. PlacesInv'
  BY DEF OpenUnnamed, Finish, TempInv, TempTypeOK, PlacesInv, ChildInv
<1>4. ChildInv'
  BY DEF OpenUnnamed, Finish, TempInv, TempTypeOK, PlacesInv, ChildInv
<1>5. MessagesInv'
  BY Sent DEF OpenUnnamed, Finish, TempInv, TempTypeOK, PlacesInv, ChildInv, MessagesInv
<1> QED  BY <1>1, <1>2, <1>3, <1>4, <1>5 DEF TempInv

LEMMA PrepareSocketInv ==
    ASSUME TempInv, PrepareSocket
    PROVE  TempInv'
<1>1. TempTypeOK'
  BY Sent DEF PrepareSocket, Finish, TempInv, TempTypeOK, MessagesInv
<1>2. TemporaryKept'
  BY DEF PrepareSocket, Finish, TempInv, TempTypeOK, TemporaryKept, NoLitter,
     FileOrCause, ChildGone, PlacesInv, ChildInv, MessagesInv
<1>3. PlacesInv'
  BY DEF PrepareSocket, Finish, TempInv, TempTypeOK, PlacesInv, ChildInv
<1>4. ChildInv'
  BY DEF PrepareSocket, Finish, TempInv, TempTypeOK, PlacesInv, ChildInv
<1>5. MessagesInv'
  BY Sent DEF PrepareSocket, Finish, TempInv, TempTypeOK, PlacesInv, ChildInv, MessagesInv
<1> QED  BY <1>1, <1>2, <1>3, <1>4, <1>5 DEF TempInv

LEMMA ForkTemporaryInv ==
    ASSUME TempInv, ForkTemporary
    PROVE  TempInv'
<1>1. TempTypeOK'
  BY Sent DEF ForkTemporary, TempInv, TempTypeOK, MessagesInv
<1>2. TemporaryKept'
  BY DEF ForkTemporary, TempInv, TempTypeOK, TemporaryKept, NoLitter,
     FileOrCause, ChildGone, PlacesInv, ChildInv, MessagesInv
<1>3. PlacesInv'
  BY DEF ForkTemporary, TempInv, TempTypeOK, PlacesInv, ChildInv
<1>4. ChildInv'
  BY DEF ForkTemporary, TempInv, TempTypeOK, PlacesInv, ChildInv
<1>5. MessagesInv'
  BY Sent DEF ForkTemporary, TempInv, TempTypeOK, PlacesInv, ChildInv, MessagesInv
<1> QED  BY <1>1, <1>2, <1>3, <1>4, <1>5 DEF TempInv

LEMMA ListenInv ==
    ASSUME TempInv, Listen
    PROVE  TempInv'
<1>1. TempTypeOK'
  BY Sent DEF Listen, TempInv, TempTypeOK, MessagesInv
<1>2. TemporaryKept'
  BY DEF Listen, TempInv, TempTypeOK, TemporaryKept, NoLitter,
     FileOrCause, ChildGone, PlacesInv, ChildInv, MessagesInv
<1>3. PlacesInv'
  BY DEF Listen, TempInv, TempTypeOK, PlacesInv, ChildInv
<1>4. ChildInv'
  BY DEF Listen, TempInv, TempTypeOK, PlacesInv, ChildInv
<1>5. MessagesInv'
  BY Sent DEF Listen, TempInv, TempTypeOK, PlacesInv, ChildInv, MessagesInv
<1> QED  BY <1>1, <1>2, <1>3, <1>4, <1>5 DEF TempInv

LEMMA CloseChildEndInv ==
    ASSUME TempInv, CloseChildEnd
    PROVE  TempInv'
<1>1. TempTypeOK'
  BY Sent DEF CloseChildEnd, TempInv, TempTypeOK, MessagesInv
<1>2. TemporaryKept'
  BY DEF CloseChildEnd, TempInv, TempTypeOK, TemporaryKept, NoLitter,
     FileOrCause, ChildGone, PlacesInv, ChildInv, MessagesInv
<1>3. PlacesInv'
  BY DEF CloseChildEnd, TempInv, TempTypeOK, PlacesInv, ChildInv
<1>4. ChildInv'
  BY DEF CloseChildEnd, TempInv, TempTypeOK, PlacesInv, ChildInv
<1>5. MessagesInv'
  BY Sent DEF CloseChildEnd, TempInv, TempTypeOK, PlacesInv, ChildInv, MessagesInv
<1> QED  BY <1>1, <1>2, <1>3, <1>4, <1>5 DEF TempInv

LEMMA JoinReceiverInv ==
    ASSUME TempInv, JoinReceiver
    PROVE  TempInv'
<1>1. TempTypeOK'
  BY Sent DEF JoinReceiver, TempInv, TempTypeOK, MessagesInv
<1>2. TemporaryKept'
  BY DEF JoinReceiver, TempInv, TempTypeOK, TemporaryKept, NoLitter,
     FileOrCause, ChildGone, PlacesInv, ChildInv, MessagesInv
<1>3. PlacesInv'
  BY DEF JoinReceiver, TempInv, TempTypeOK, PlacesInv, ChildInv
<1>4. ChildInv'
  BY DEF JoinReceiver, TempInv, TempTypeOK, PlacesInv, ChildInv
<1>5. MessagesInv'
  BY Sent DEF JoinReceiver, TempInv, TempTypeOK, PlacesInv, ChildInv, MessagesInv
<1> QED  BY <1>1, <1>2, <1>3, <1>4, <1>5 DEF TempInv

LEMMA ReapTemporaryInv ==
    ASSUME TempInv, ReapTemporary
    PROVE  TempInv'
<1>1. TempTypeOK'
  BY Sent DEF ReapTemporary, Finish, TempInv, TempTypeOK, MessagesInv
<1>2. TemporaryKept'
  BY DEF ReapTemporary, Finish, TempInv, TempTypeOK, TemporaryKept, NoLitter,
     FileOrCause, ChildGone, PlacesInv, ChildInv, MessagesInv
<1>3. PlacesInv'
  BY DEF ReapTemporary, Finish, TempInv, TempTypeOK, PlacesInv, ChildInv
<1>4. ChildInv'
  BY DEF ReapTemporary, Finish, TempInv, TempTypeOK, PlacesInv, ChildInv
<1>5. MessagesInv'
  BY Sent DEF ReapTemporary, Finish, TempInv, TempTypeOK, PlacesInv, ChildInv, MessagesInv
<1> QED  BY <1>1, <1>2, <1>3, <1>4, <1>5 DEF TempInv

LEMMA AbandonInv ==
    ASSUME TempInv, Abandon
    PROVE  TempInv'
<1>1. TempTypeOK'
  BY Sent DEF Abandon, Finish, TempInv, TempTypeOK, MessagesInv
<1>2. TemporaryKept'
  BY DEF Abandon, Finish, TempInv, TempTypeOK, TemporaryKept, NoLitter,
     FileOrCause, ChildGone, PlacesInv, ChildInv, MessagesInv
<1>3. PlacesInv'
  BY DEF Abandon, Finish, TempInv, TempTypeOK, PlacesInv, ChildInv
<1>4. ChildInv'
  BY DEF Abandon, Finish, TempInv, TempTypeOK, PlacesInv, ChildInv
<1>5. MessagesInv'
  BY Sent DEF Abandon, Finish, TempInv, TempTypeOK, PlacesInv, ChildInv, MessagesInv
<1> QED  BY <1>1, <1>2, <1>3, <1>4, <1>5 DEF TempInv

LEMMA RecvErrorInv ==
    ASSUME TempInv, RecvError
    PROVE  TempInv'
<1>1. TempTypeOK'
  BY Sent DEF RecvError, Reads, TempInv, TempTypeOK, MessagesInv
<1>2. TemporaryKept'
  BY DEF RecvError, Reads, TempInv, TempTypeOK, TemporaryKept, NoLitter,
     FileOrCause, ChildGone, PlacesInv, ChildInv, MessagesInv
<1>3. PlacesInv'
  BY DEF RecvError, Reads, TempInv, TempTypeOK, PlacesInv, ChildInv, MessagesInv
<1>4. ChildInv'
  BY DEF RecvError, Reads, TempInv, TempTypeOK, PlacesInv, ChildInv
<1>5. MessagesInv'
  BY Sent DEF RecvError, Reads, TempInv, TempTypeOK, PlacesInv, ChildInv, MessagesInv
<1> QED  BY <1>1, <1>2, <1>3, <1>4, <1>5 DEF TempInv

LEMMA RecvFdInv ==
    ASSUME TempInv, RecvFd
    PROVE  TempInv'
<1>1. TempTypeOK'
  BY Sent DEF RecvFd, Reads, TempInv, TempTypeOK, MessagesInv
<1>2. TemporaryKept'
  BY DEF RecvFd, Reads, TempInv, TempTypeOK, TemporaryKept, NoLitter,
     FileOrCause, ChildGone, PlacesInv, ChildInv, MessagesInv
<1>3. PlacesInv'
  <2>1. file' <=> receiver' = "ended"
    BY DEF RecvFd
  <2>2. ~file
    BY DEF RecvFd, TempInv, PlacesInv
  <2> QED  BY <2>1, <2>2 DEF RecvFd, Reads, TempInv, TempTypeOK, PlacesInv, ChildInv,
     MessagesInv
<1>4. ChildInv'
  BY DEF RecvFd, Reads, TempInv, TempTypeOK, PlacesInv, ChildInv
<1>5. MessagesInv'
  BY Sent DEF RecvFd, Reads, TempInv, TempTypeOK, PlacesInv, ChildInv, MessagesInv
<1> QED  BY <1>1, <1>2, <1>3, <1>4, <1>5 DEF TempInv

LEMMA CreateNamedInv ==
    ASSUME TempInv, CreateNamed
    PROVE  TempInv'
<1>1. TempTypeOK'
  BY Sent DEF CreateNamed, TempInv, TempTypeOK, MessagesInv
<1>2. TemporaryKept'
  BY DEF CreateNamed, TempInv, TempTypeOK, TemporaryKept, NoLitter,
     FileOrCause, ChildGone, PlacesInv, ChildInv, MessagesInv
<1>3. PlacesInv'
  BY DEF CreateNamed, TempInv, TempTypeOK, PlacesInv, ChildInv
<1>4. ChildInv'
  BY DEF CreateNamed, TempInv, TempTypeOK, PlacesInv, ChildInv
<1>5. MessagesInv'
  BY Sent DEF CreateNamed, TempInv, TempTypeOK, PlacesInv, ChildInv, MessagesInv
<1> QED  BY <1>1, <1>2, <1>3, <1>4, <1>5 DEF TempInv

LEMMA UnlinkNameInv ==
    ASSUME TempInv, UnlinkName
    PROVE  TempInv'
<1>1. TempTypeOK'
  BY Sent DEF UnlinkName, TempInv, TempTypeOK, MessagesInv
<1>2. TemporaryKept'
  BY DEF UnlinkName, TempInv, TempTypeOK, TemporaryKept, NoLitter,
     FileOrCause, ChildGone, PlacesInv, ChildInv, MessagesInv
<1>3. PlacesInv'
  BY DEF UnlinkName, TempInv, TempTypeOK, PlacesInv, ChildInv
<1>4. ChildInv'
  BY DEF UnlinkName, TempInv, TempTypeOK, PlacesInv, ChildInv
<1>5. MessagesInv'
  BY Sent DEF UnlinkName, TempInv, TempTypeOK, PlacesInv, ChildInv, MessagesInv
<1> QED  BY <1>1, <1>2, <1>3, <1>4, <1>5 DEF TempInv

LEMMA RemoveNameInv ==
    ASSUME TempInv, RemoveName
    PROVE  TempInv'
<1>1. TempTypeOK'
  BY Sent DEF RemoveName, TempInv, TempTypeOK, MessagesInv
<1>2. TemporaryKept'
  BY DEF RemoveName, TempInv, TempTypeOK, TemporaryKept, NoLitter,
     FileOrCause, ChildGone, PlacesInv, ChildInv, MessagesInv
<1>3. PlacesInv'
  BY DEF RemoveName, TempInv, TempTypeOK, PlacesInv, ChildInv
<1>4. ChildInv'
  BY DEF RemoveName, TempInv, TempTypeOK, PlacesInv, ChildInv
<1>5. MessagesInv'
  BY Sent DEF RemoveName, TempInv, TempTypeOK, PlacesInv, ChildInv, MessagesInv
<1> QED  BY <1>1, <1>2, <1>3, <1>4, <1>5 DEF TempInv

LEMMA SendErrorInv ==
    ASSUME TempInv, SendError
    PROVE  TempInv'
<1>1. TempTypeOK'
  BY Sent DEF SendError, TempInv, TempTypeOK, MessagesInv
<1>2. TemporaryKept'
  BY DEF SendError, TempInv, TempTypeOK, TemporaryKept, NoLitter,
     FileOrCause, ChildGone, PlacesInv, ChildInv, MessagesInv
<1>3. PlacesInv'
  BY DEF SendError, TempInv, TempTypeOK, PlacesInv, ChildInv
<1>4. ChildInv'
  BY DEF SendError, TempInv, TempTypeOK, PlacesInv, ChildInv
<1>5. MessagesInv'
  <2>1. CASE child' = "failed"
    BY <2>1 DEF SendError, TempInv, MessagesInv
  <2>2. CASE child = "send" /\ child' = "descriptor"
    <3>1. messages' = <<"ok">> /\ UNCHANGED <<killed, thwarted, receiver>>
      BY <2>2 DEF SendError
    <3>2. ~(killed \/ thwarted) => receiver # "descriptor"
      BY <2>2 DEF TempInv, MessagesInv
    <3> QED  BY <2>2, <3>1, <3>2, Sent DEF MessagesInv
  <2>3. CASE child = "failing" /\ child' = "tell"
    BY <2>3, Sent DEF SendError, TempInv, ChildInv, MessagesInv
  <2> QED  BY <2>1, <2>2, <2>3 DEF SendError
<1> QED  BY <1>1, <1>2, <1>3, <1>4, <1>5 DEF TempInv

LEMMA SendFdInv ==
    ASSUME TempInv, SendFd
    PROVE  TempInv'
<1>1. TempTypeOK'
  BY ZenonT(40), Sent DEF SendFd, TempInv, TempTypeOK, MessagesInv
<1>2. TemporaryKept'
  BY DEF SendFd, TempInv, TempTypeOK, TemporaryKept, NoLitter,
     FileOrCause, ChildGone, PlacesInv, ChildInv, MessagesInv
<1>3. PlacesInv'
  BY DEF SendFd, TempInv, TempTypeOK, PlacesInv, ChildInv
<1>4. ChildInv'
  BY DEF SendFd, TempInv, TempTypeOK, PlacesInv, ChildInv
<1>5. MessagesInv'
  BY Sent DEF SendFd, TempInv, TempTypeOK, PlacesInv, ChildInv, MessagesInv
<1> QED  BY <1>1, <1>2, <1>3, <1>4, <1>5 DEF TempInv

LEMMA TellParentInv ==
    ASSUME TempInv, TellParent
    PROVE  TempInv'
<1>1. TempTypeOK'
  BY Sent DEF TellParent, TempInv, TempTypeOK, MessagesInv
<1>2. TemporaryKept'
  BY DEF TellParent, TempInv, TempTypeOK, TemporaryKept, NoLitter,
     FileOrCause, ChildGone, PlacesInv, ChildInv, MessagesInv
<1>3. PlacesInv'
  BY DEF TellParent, TempInv, TempTypeOK, PlacesInv, ChildInv
<1>4. ChildInv'
  BY DEF TellParent, TempInv, TempTypeOK, PlacesInv, ChildInv
<1>5. MessagesInv'
  BY Sent DEF TellParent, TempInv, TempTypeOK, PlacesInv, ChildInv, MessagesInv
<1> QED  BY <1>1, <1>2, <1>3, <1>4, <1>5 DEF TempInv

LEMMA ExitTemporaryInv ==
    ASSUME TempInv, ExitTemporary
    PROVE  TempInv'
<1>1. TempTypeOK'
  BY Sent DEF ExitTemporary, TempInv, TempTypeOK, MessagesInv
<1>2. TemporaryKept'
  BY DEF ExitTemporary, TempInv, TempTypeOK, TemporaryKept, NoLitter,
     FileOrCause, ChildGone, PlacesInv, ChildInv, MessagesInv
<1>3. PlacesInv'
  BY DEF ExitTemporary, TempInv, TempTypeOK, PlacesInv, ChildInv
<1>4. ChildInv'
  BY DEF ExitTemporary, TempInv, TempTypeOK, PlacesInv, ChildInv
<1>5. MessagesInv'
  BY Sent DEF ExitTemporary, TempInv, TempTypeOK, PlacesInv, ChildInv, MessagesInv
<1> QED  BY <1>1, <1>2, <1>3, <1>4, <1>5 DEF TempInv

LEMMA KillTemporaryInv ==
    ASSUME TempInv, KillTemporary
    PROVE  TempInv'
<1>1. TempTypeOK'
  BY Sent DEF KillTemporary, TempInv, TempTypeOK, MessagesInv
<1>2. TemporaryKept'
  BY DEF KillTemporary, TempInv, TempTypeOK, TemporaryKept, NoLitter,
     FileOrCause, ChildGone, PlacesInv, ChildInv, MessagesInv
<1>3. PlacesInv'
  BY DEF KillTemporary, TempInv, TempTypeOK, PlacesInv, ChildInv
<1>4. ChildInv'
  BY DEF KillTemporary, TempInv, TempTypeOK, PlacesInv, ChildInv
<1>5. MessagesInv'
  BY Sent DEF KillTemporary, TempInv, TempTypeOK, PlacesInv, ChildInv, MessagesInv
<1> QED  BY <1>1, <1>2, <1>3, <1>4, <1>5 DEF TempInv

LEMMA TempNextInv ==
    ASSUME TempInv, TempNext
    PROVE  TempInv'
BY OpenUnnamedInv, PrepareSocketInv, ForkTemporaryInv, ListenInv,
   CloseChildEndInv, JoinReceiverInv, ReapTemporaryInv, AbandonInv,
   RecvErrorInv, RecvFdInv, CreateNamedInv, UnlinkNameInv, RemoveNameInv,
   SendErrorInv, SendFdInv, TellParentInv, ExitTemporaryInv, KillTemporaryInv DEF TempNext

LEMMA TempStutterInv ==
    ASSUME TempInv, UNCHANGED tempVars
    PROVE  TempInv'
BY DEF tempVars, TempInv, TempTypeOK, TemporaryKept, NoLitter, FileOrCause, ChildGone,
   PlacesInv, ChildInv, MessagesInv

----------------------------------------------------------------------------
\* The list of files (FileList)

LEMMA FileListInitInv == FileInit => FileListInv
<1> SUFFICES ASSUME FileInit PROVE FileListInv
  OBVIOUS
<1>1. FileFieldsInv
  <2>1. Idle \in [step : Steps, fd : Fds \cup {NoFd}] /\ Idle.step = "idle"
    BY DEF Idle, Steps
  <2>2. openFds \subseteq Fds /\ purge.fd \in 0 .. LastFd + 1
    BY FileListAssumption DEF FileInit, Fds
  <2>3. /\ fileOp \in [FileThreads -> [step : Steps, fd : Fds \cup {NoFd}]]
        /\ \A t \in FileThreads : fileOp[t].step = "idle"
    BY <2>1 DEF FileInit
  <2> QED  BY <2>2, <2>3 DEF FileInit, FileFieldsInv
<1> QED
  BY <1>1 DEF FileInit, FileListInv, FileListKept, ListedOpen, PurgedExactly,
     FilesOpenInv, PurgeInv, Idle

\* The lowest free number is one that is free.
LEMMA LowestFd ==
    ASSUME Fds \ openFds # {}
    PROVE  Min(Fds \ openFds) \in Fds \ openFds
<1> DEFINE S == Fds \ openFds
<1>1. S \in SUBSET Nat
  BY DEF Fds
<1>2. \E m \in S : \A k \in S : m <= k
  BY <1>1, LeastNumber
<1> QED  BY <1>2 DEF Min

LEMMA OpenFileInv ==
    ASSUME FileListInv, NEW t \in FileThreads, OpenFile(t)
    PROVE  FileListInv'
<1> DEFINE fd == Min(Fds \ openFds)
<1>1. fd \in Fds /\ fd \notin openFds
  BY LowestFd DEF OpenFile
<1>2. /\ openFds' = openFds \cup {fd}
      /\ fileOp' = [fileOp EXCEPT ![t] = [step |-> "opened", fd |-> fd]]
      /\ raced' = (raced \/ Purging) /\ fileOp[t] = Idle
      /\ UNCHANGED <<listed, purge, forkedFiles, changed>> /\ ~forkedFiles
  BY DEF OpenFile, Running
<1> HIDE DEF fd
<1>3. raced \in BOOLEAN /\ Purging \in BOOLEAN
  BY DEF FileListInv, FileFieldsInv, Purging
<1>4. FileFieldsInv'
  BY <1>1, <1>2, <1>3 DEF FileListInv, FileFieldsInv, Steps
<1>5. ListedOpen'
  BY <1>2 DEF FileListInv, FileListKept, ListedOpen
<1>6. PurgedExactly'
  BY <1>2 DEF FileListInv, FileListKept, PurgedExactly, Purging
<1>7. FilesOpenInv'
  <2> SUFFICES ASSUME ~raced' PROVE FilesOpenInv'
    BY DEF FilesOpenInv
  <2>1. ~raced
    BY <1>2
  <2>2. \A u \in FileThreads : fileOp'[u] = IF u = t THEN [step |-> "opened", fd |-> fd]
                                            ELSE fileOp[u]
    BY <1>2 DEF FileListInv, FileFieldsInv
  <2>3. \A u \in FileThreads \ {t} : fileOp[u].step # "idle" => fileOp[u].fd \in openFds
    BY <2>1, <1>2 DEF FileListInv, FilesOpenInv
  <2>4. \A n \in Fds : n \in listed' <=>
           \E u \in FileThreads : fileOp'[u] = [step |-> "listed", fd |-> n]
    BY <2>1, <2>2, <1>2 DEF FileListInv, FilesOpenInv, Idle
  <2>5. ASSUME NEW u \in FileThreads, fileOp'[u].step # "idle"
        PROVE  /\ fileOp'[u].fd \in openFds'
               /\ \A v \in FileThreads \ {u} :
                    fileOp'[v].step # "idle" => fileOp'[v].fd # fileOp'[u].fd
    <3>1. CASE u = t
      BY <3>1, <2>2, <2>3, <1>1, <1>2
    <3>2. CASE u # t
      BY <3>2, <2>5, <2>1, <2>2, <2>3, <1>1, <1>2 DEF FileListInv, FilesOpenInv
    <3> QED  BY <3>1, <3>2
  <2> QED  BY <2>4, <2>5 DEF FilesOpenInv
<1>8. PurgeInv'
  BY <1>2 DEF FileListInv, PurgeInv, Purging
<1> QED  BY <1>4, <1>5, <1>6, <1>7, <1>8 DEF FileListInv, FileListKept

\* What the steps of a thread that has a file have in common.
LEMMA InsertFileInv ==
    ASSUME FileListInv, NEW t \in FileThreads, InsertFile(t)
    PROVE  FileListInv'
<1> DEFINE fd == fileOp[t].fd
<1>1. fd \in Fds /\ fileOp[t] = [step |-> "opened", fd |-> fd]
  BY DEF InsertFile, FileListInv, FileFieldsInv
<1>2. /\ listed' = listed \cup {fd} /\ fileOp' = [fileOp EXCEPT ![t].step = "listed"]
      /\ changed' = (changed \/ purge.step = "collect")
      /\ raced' = (raced \/ purge.step = "close")
      /\ UNCHANGED <<openFds, purge, forkedFiles>> /\ ~forkedFiles
  BY DEF InsertFile, Running, Racing
<1>3. \A u \in FileThreads : fileOp'[u] = IF u = t THEN [step |-> "listed", fd |-> fd]
                                          ELSE fileOp[u]
  BY <1>1, <1>2 DEF FileListInv, FileFieldsInv
<1> HIDE DEF fd
<1>4. FileFieldsInv'
  <2>1. fileOp' \in [FileThreads -> [step : Steps, fd : Fds \cup {NoFd}]]
    BY <1>2 DEF FileListInv, FileFieldsInv, Steps
  <2> QED  BY <1>1, <1>2, <1>3, <2>1 DEF FileListInv, FileFieldsInv
<1>5. ~raced' => fd \in openFds
  <2>1. fileOp[t].step = "opened" /\ fileOp[t].fd = fd
    BY <1>1
  <2> QED  BY <2>1, <1>2 DEF FileListInv, FilesOpenInv
<1>6. ListedOpen'
  BY <1>2, <1>5 DEF FileListInv, FileListKept, ListedOpen
<1>7. PurgedExactly'
  BY <1>2 DEF FileListInv, FileListKept, PurgedExactly
<1>8. FilesOpenInv'
  <2> SUFFICES ASSUME ~raced' PROVE FilesOpenInv'
    BY DEF FilesOpenInv
  <2>1. ~raced
    BY <1>2
  <2>2. \A n \in Fds : n \in listed' <=>
           \E u \in FileThreads : fileOp'[u] = [step |-> "listed", fd |-> n]
    <3> TAKE n \in Fds
    <3>1. CASE n = fd
      BY <3>1, <1>2, <1>3
    <3>2. CASE n # fd
      <4>1. n \in listed' <=> n \in listed
        BY <3>2, <1>2
      <4>2. \A u \in FileThreads : fileOp'[u] = [step |-> "listed", fd |-> n]
                                   <=> fileOp[u] = [step |-> "listed", fd |-> n]
        BY <3>2, <1>1, <1>3
      <4> QED  BY <4>1, <4>2, <2>1 DEF FileListInv, FilesOpenInv
    <3> QED  BY <3>1, <3>2
  <2> QED  BY <2>1, <2>2, <1>1, <1>2, <1>3 DEF FileListInv, FilesOpenInv
<1>9. PurgeInv'
  BY <1>2 DEF FileListInv, PurgeInv
<1> QED  BY <1>4, <1>6, <1>7, <1>8, <1>9 DEF FileListInv, FileListKept

LEMMA RemoveFileInv ==
    ASSUME FileListInv, NEW t \in FileThreads, RemoveFile(t)
    PROVE  FileListInv'
<1> DEFINE fd == fileOp[t].fd
<1>1. fd \in Fds /\ fileOp[t] = [step |-> "listed", fd |-> fd]
  BY DEF RemoveFile, FileListInv, FileFieldsInv
<1>2. /\ listed' = listed \ {fd} /\ fileOp' = [fileOp EXCEPT ![t].step = "unlisted"]
      /\ changed' = (changed \/ purge.step = "collect")
      /\ raced' = (raced \/ purge.step = "close")
      /\ UNCHANGED <<openFds, purge, forkedFiles>> /\ ~forkedFiles
  BY DEF RemoveFile, Running, Racing
<1>3. \A u \in FileThreads : fileOp'[u] = IF u = t THEN [step |-> "unlisted", fd |-> fd]
                                          ELSE fileOp[u]
  BY <1>1, <1>2 DEF FileListInv, FileFieldsInv
<1> HIDE DEF fd
<1>4. FileFieldsInv'
  <2>1. fileOp' \in [FileThreads -> [step : Steps, fd : Fds \cup {NoFd}]]
    BY <1>2 DEF FileListInv, FileFieldsInv, Steps
  <2> QED  BY <1>1, <1>2, <1>3, <2>1 DEF FileListInv, FileFieldsInv
<1>6. ListedOpen'
  BY <1>2 DEF FileListInv, FileListKept, ListedOpen
<1>7. PurgedExactly'
  BY <1>2 DEF FileListInv, FileListKept, PurgedExactly
<1>8. FilesOpenInv'
  <2> SUFFICES ASSUME ~raced' PROVE FilesOpenInv'
    BY DEF FilesOpenInv
  <2>1. ~raced
    BY <1>2
  <2>2. \A n \in Fds : n \in listed' <=>
           \E u \in FileThreads : fileOp'[u] = [step |-> "listed", fd |-> n]
    <3> TAKE n \in Fds
    <3>1. CASE n = fd
      <4>1. \A u \in FileThreads \ {t} : fileOp[u].step = "listed" => fileOp[u].fd # fd
        BY <2>1, <1>1 DEF FileListInv, FilesOpenInv
      <4> QED  BY <3>1, <4>1, <1>2, <1>3
    <3>2. CASE n # fd
      <4>1. n \in listed' <=> n \in listed
        BY <3>2, <1>2
      <4>2. \A u \in FileThreads : fileOp'[u] = [step |-> "listed", fd |-> n]
                                   <=> fileOp[u] = [step |-> "listed", fd |-> n]
        BY <3>2, <1>1, <1>3
      <4> QED  BY <4>1, <4>2, <2>1 DEF FileListInv, FilesOpenInv
    <3> QED  BY <3>1, <3>2
  <2> QED  BY <2>1, <2>2, <1>1, <1>2, <1>3 DEF FileListInv, FilesOpenInv
<1>9. PurgeInv'
  BY <1>2 DEF FileListInv, PurgeInv
<1> QED  BY <1>4, <1>6, <1>7, <1>8, <1>9 DEF FileListInv, FileListKept

LEMMA CloseFileInv ==
    ASSUME FileListInv, NEW t \in FileThreads, CloseFile(t)
    PROVE  FileListInv'
<1> DEFINE fd == fileOp[t].fd
<1>1. fd \in Fds /\ fileOp[t] = [step |-> "unlisted", fd |-> fd]
  BY DEF CloseFile, FileListInv, FileFieldsInv
<1>2. /\ openFds' \in {openFds \ {fd}, openFds} /\ fileOp' = [fileOp EXCEPT ![t] = Idle]
      /\ raced' = (raced \/ Purging)
      /\ UNCHANGED <<listed, purge, forkedFiles, changed>> /\ ~forkedFiles
  BY DEF CloseFile, Running
<1>3. \A u \in FileThreads : fileOp'[u] = IF u = t THEN Idle ELSE fileOp[u]
  BY <1>2 DEF FileListInv, FileFieldsInv
<1> HIDE DEF fd
<1>4. FileFieldsInv'
  <2>1. fileOp' \in [FileThreads -> [step : Steps, fd : Fds \cup {NoFd}]]
    BY <1>2 DEF FileListInv, FileFieldsInv, Steps, Idle
  <2> QED  BY <1>1, <1>2, <1>3, <2>1 DEF FileListInv, FileFieldsInv, Purging, Idle
<1>5. ~raced => \A n \in listed : n # fd
  <2> SUFFICES ASSUME ~raced, NEW n \in listed PROVE n # fd
    OBVIOUS
  <2>1. PICK u \in FileThreads : fileOp[u] = [step |-> "listed", fd |-> n]
    BY DEF FileListInv, FileFieldsInv, FilesOpenInv
  <2>2. u # t /\ fileOp[u].step = "listed" /\ fileOp[u].fd = n
    BY <2>1, <1>1
  <2>3. fileOp[t].step = "unlisted" /\ fileOp[t].fd = fd
    BY <1>1
  <2> QED  BY <2>2, <2>3 DEF FileListInv, FilesOpenInv
<1>6. ListedOpen'
  BY <1>2, <1>5 DEF FileListInv, FileListKept, ListedOpen
<1>7. PurgedExactly'
  BY <1>2 DEF FileListInv, FileListKept, PurgedExactly, Purging
<1>8. FilesOpenInv'
  <2> SUFFICES ASSUME ~raced' PROVE FilesOpenInv'
    BY DEF FilesOpenInv
  <2>1. ~raced
    BY <1>2
  <2>2. \A n \in Fds : n \in listed' <=>
           \E u \in FileThreads : fileOp'[u] = [step |-> "listed", fd |-> n]
    BY <2>1, <1>1, <1>2, <1>3 DEF FileListInv, FilesOpenInv, Idle
  <2>3. ASSUME NEW u \in FileThreads, fileOp'[u].step # "idle"
        PROVE  /\ fileOp'[u].fd \in openFds'
               /\ \A v \in FileThreads \ {u} :
                    fileOp'[v].step # "idle" => fileOp'[v].fd # fileOp'[u].fd
    <3>1. u # t /\ fileOp'[u] = fileOp[u] /\ fileOp[u].step # "idle"
      BY <2>3, <1>3 DEF Idle
    <3>2. fileOp[u].fd \in openFds /\ fileOp[u].fd # fd
      BY <3>1, <2>1, <1>1, <1>2 DEF FileListInv, FilesOpenInv
    <3> QED  BY <3>1, <3>2, <2>1, <1>2, <1>3 DEF FileListInv, FilesOpenInv, Idle
  <2> QED  BY <2>2, <2>3 DEF FilesOpenInv
<1>9. PurgeInv'
  BY <1>2 DEF FileListInv, PurgeInv, Purging
<1> QED  BY <1>4, <1>6, <1>7, <1>8, <1>9 DEF FileListInv, FileListKept

LEMMA ForkFilesInv ==
    ASSUME FileListInv, ForkFiles
    PROVE  FileListInv'
BY DEF ForkFiles, FileListInv, FileFieldsInv, FileListKept, ListedOpen, PurgedExactly,
   FilesOpenInv, PurgeInv

LEMMA CountFilesInv ==
    ASSUME FileListInv, CountFiles
    PROVE  FileListInv'
<1>1. /\ purge' = [step |-> "collect", count |-> Cardinality(listed), white |-> purge.white,
                   fd |-> purge.fd]
      /\ UNCHANGED <<fileOp, openFds, listed, forkedFiles, changed, raced>>
      /\ purge.step = "idle"
  BY DEF CountFiles, FileListInv, FileFieldsInv
<1> QED
  BY <1>1 DEF FileListInv, FileFieldsInv, FileListKept, ListedOpen, PurgedExactly,
     FilesOpenInv, PurgeInv

LEMMA CollectFilesInv ==
    ASSUME FileListInv, CollectFiles
    PROVE  FileListInv'
<1>1. CASE Cardinality(listed) = purge.count
  <2>1. /\ purge' = [step |-> "close", count |-> purge.count,
                     white |-> listed \cup StandardFds, fd |-> purge.fd]
        /\ UNCHANGED <<fileOp, openFds, listed, forkedFiles, changed, raced>>
        /\ purge.step = "collect"
    BY <1>1 DEF CollectFiles, FileListInv, FileFieldsInv
  <2>2. purge.fd = 0 /\ openFds \subseteq Nat
    BY <2>1 DEF FileListInv, FileFieldsInv, PurgeInv, Fds
  <2> QED
    BY <2>1, <2>2, FileListAssumption
    DEF FileListInv, FileFieldsInv, FileListKept, ListedOpen, PurgedExactly, FilesOpenInv,
        PurgeInv
<1>2. CASE Cardinality(listed) # purge.count
  <2>1. /\ purge' = [step |-> "aborted", count |-> purge.count, white |-> purge.white,
                     fd |-> purge.fd]
        /\ UNCHANGED <<fileOp, openFds, listed, forkedFiles, changed, raced>>
        /\ changed
    BY <1>2 DEF CollectFiles, FileListInv, FileFieldsInv, PurgeInv
  <2> QED
    BY <2>1 DEF FileListInv, FileFieldsInv, FileListKept, ListedOpen, PurgedExactly,
       FilesOpenInv, PurgeInv
<1> QED  BY <1>1, <1>2

\* The purge looks at one descriptor: what is on the list is in the white list.
LEMMA PurgeFdInv ==
    ASSUME FileListInv, PurgeFd
    PROVE  FileListInv'
<1>1. CASE purge.fd > LastFd
  <2>1. /\ purge' = [step |-> "done", count |-> purge.count, white |-> purge.white,
                     fd |-> purge.fd]
        /\ UNCHANGED <<fileOp, openFds, listed, forkedFiles, changed>>
        /\ raced => raced'
        /\ purge.step = "close" /\ raced' \in BOOLEAN
        /\ forkedFiles => raced' = raced
    BY <1>1 DEF PurgeFd, FileListInv, FileFieldsInv
  <2> QED
    BY <2>1 DEF FileListInv, FileFieldsInv, FileListKept, ListedOpen, PurgedExactly,
       FilesOpenInv, PurgeInv
<1>2. CASE ~(purge.fd > LastFd)
  <2> DEFINE n == purge.fd
  <2>1. /\ purge' = [step |-> "close", count |-> purge.count, white |-> purge.white,
                     fd |-> n + 1]
        /\ UNCHANGED <<fileOp, listed, forkedFiles, changed>>
        /\ openFds' = (IF n \in purge.white THEN openFds ELSE openFds \ {n})
        /\ raced => raced'
        /\ purge.step = "close" /\ raced' \in BOOLEAN
        /\ forkedFiles => raced' = raced
    BY <1>2 DEF PurgeFd, FileListInv, FileFieldsInv
  <2>2. ~raced' /\ ~forkedFiles =>
           \A t \in FileThreads :
              ~(fileOp[t].fd = n /\ fileOp[t].step \in {"opened", "unlisted"})
    BY DEF PurgeFd
  <2>3. n \in Fds /\ n + 1 \in 0 .. LastFd + 1 /\ n \in Nat
    BY <1>2, FileListAssumption DEF FileListInv, FileFieldsInv, Fds
  <2>4. openFds \subseteq Fds /\ Fds \subseteq Nat
    BY DEF FileListInv, FileFieldsInv, Fds
  <2> HIDE DEF n
  <2>5. FileFieldsInv'
    BY <2>1, <2>3, <2>4 DEF FileListInv, FileFieldsInv
  <2>6. ASSUME ~raced'
        PROVE  /\ listed \subseteq openFds' /\ purge.white = listed \cup StandardFds
               /\ \A k \in openFds' : k < n + 1 => k \in purge.white
    <3>1. /\ purge.white = listed \cup StandardFds /\ listed \subseteq openFds
          /\ \A k \in openFds : k < n => k \in purge.white
      BY <2>6, <2>1 DEF FileListInv, FileListKept, ListedOpen, PurgeInv, n
    <3>2. \A k \in openFds' : k \in Nat /\ k \in openFds /\ (k = n => n \in purge.white)
      BY <2>1, <2>4
    <3> QED  BY <3>1, <3>2, <2>1, <2>3
  <2>7. ListedOpen'
    BY <2>1, <2>6 DEF ListedOpen
  <2>8. PurgedExactly'
    <3>1. ASSUME purge'.fd > LastFd, ~raced'
          PROVE  openFds' = (openFds' \cap StandardFds) \cup listed'
      <4>1. \A k \in openFds' : k \in Fds /\ k < n + 1
        BY <3>1, <2>1, <2>3, <2>4, FileListAssumption DEF Fds
      <4> QED  BY <4>1, <2>1, <2>6, <3>1
    <3> QED  BY <3>1, <2>1 DEF FileListInv, FileListKept, PurgedExactly
  <2>9. FilesOpenInv'
    <3> SUFFICES ASSUME ~raced' PROVE FilesOpenInv'
      BY DEF FilesOpenInv
    <3>1. ~raced
      BY <2>1
    <3>2. ASSUME NEW t \in FileThreads, fileOp[t].step # "idle",
                 fileOp[t].step = "listed" \/ ~forkedFiles
          PROVE  fileOp[t].fd \in openFds'
      <4>1. fileOp[t].fd \in openFds
        BY <3>1, <3>2 DEF FileListInv, FilesOpenInv
      <4>2. CASE fileOp[t].step = "listed"
        <5>1. fileOp[t].fd \in listed
          BY <3>1, <4>2 DEF FileListInv, FileFieldsInv, FilesOpenInv
        <5> QED  BY <5>1, <2>6
      <4>3. CASE fileOp[t].step # "listed"
        <5>1. fileOp[t].step \in {"opened", "unlisted"}
          BY <3>2, <4>3 DEF FileListInv, FileFieldsInv, Steps
        <5>2. fileOp[t].fd # n
          BY <5>1, <4>3, <3>2, <2>2
        <5> QED  BY <4>1, <5>2, <2>1
      <4> QED  BY <4>2, <4>3
    <3> QED  BY <3>1, <3>2, <2>1 DEF FileListInv, FilesOpenInv
  <2>10. PurgeInv'
    BY <2>1, <2>6 DEF FileListInv, PurgeInv
  <2> QED  BY <2>5, <2>7, <2>8, <2>9, <2>10 DEF FileListInv, FileListKept
<1> QED  BY <1>1, <1>2

LEMMA FileListNextInv ==
    ASSUME FileListInv, FileNext
    PROVE  FileListInv'
BY OpenFileInv, InsertFileInv, RemoveFileInv, CloseFileInv, ForkFilesInv, CountFilesInv,
   CollectFilesInv, PurgeFdInv DEF FileNext

LEMMA FileListStutterInv ==
    ASSUME FileListInv, UNCHANGED fileVars
    PROVE  FileListInv'
BY DEF fileVars, FileListInv, FileFieldsInv, FileListKept, ListedOpen, PurgedExactly,
   FilesOpenInv, PurgeInv

----------------------------------------------------------------------------
\* Locks on files (FileLocks)

LEMMA FileLocksInitInv == FileLocksInit => LocksInv
<1> SUFFICES ASSUME FileLocksInit PROVE LocksInv
  OBVIOUS
<1>1. FileLocksTypeOK
  BY FileLocksAssumption
     DEF FileLocksInit, FileLocksTypeOK, LockTypes, NoWait, Fdn, Nothing, Descriptions
<1>2. WaiterInv /\ BytesInv /\ WholeInv
  BY DEF FileLocksInit, WaiterInv, BytesInv, WholeInv, NoWait, Conflict
<1> QED  BY <1>1, <1>2 DEF LocksInv

\* The numbers of a process stand for descriptions that were made.
LEMMA DescsMade ==
    ASSUME FileLocksTypeOK, NEW p \in Lockers
    PROVE  Descs(p) \subseteq Descriptions
BY FileLocksAssumption DEF FileLocksTypeOK, Descs, Descriptions, Nothing, Fdn

\* The locks of descriptions, when process p alone changes what it has or was told.
LEMMA WholeKept ==
    ASSUME LocksInv, NEW p \in Lockers, UNCHANGED <<whole, toldWhole, shared>>,
           \A q \in Lockers : Descs(q) \subseteq Descs(q)'
    PROVE  WholeInv'
BY DEF LocksInv, WholeInv

LEMMA DescribeInv ==
    ASSUME LocksInv, NEW p \in Lockers, NEW n \in Fdn, NEW d \in 1 .. described',
           describes[p][n] = Nothing, Describe(p, n, d), NotWaiting(p),
           described' \in described .. MaxDescriptions,
           UNCHANGED <<locking, whole, bytes, waiting, told, toldWhole, forsaken, shared>>
    PROVE  LocksInv'
<1>1. /\ described \in Nat /\ described <= MaxDescriptions /\ MaxDescriptions \in Nat
      /\ describes \in [Lockers -> [Fdn -> 0 .. described]]
  BY FileLocksAssumption DEF LocksInv, FileLocksTypeOK
<1>2. \A q \in Lockers : \A k \in Fdn :
         describes'[q][k] = IF q = p /\ k = n THEN d ELSE describes[q][k]
  BY <1>1 DEF Describe
<1>3. describes' \in [Lockers -> [Fdn -> 0 .. described']]
  <2>1. 0 .. described \subseteq 0 .. described' /\ d \in 0 .. described'
    BY <1>1
  <2>2. \A q \in Lockers : describes[q] \in [Fdn -> 0 .. described']
    BY <1>1, <2>1
  <2>3. [describes[p] EXCEPT ![n] = d] \in [Fdn -> 0 .. described']
    BY <2>1, <2>2
  <2>4. describes' = [describes EXCEPT ![p] = [describes[p] EXCEPT ![n] = d]]
    BY DEF Describe
  <2> QED  BY <2>2, <2>3, <2>4, <1>1
<1>4. \A q \in Lockers : Descs(q) \subseteq Descs(q)'
  BY <1>2 DEF Descs, Nothing
<1>5. FileLocksTypeOK'
  BY <1>1, <1>3 DEF LocksInv, FileLocksTypeOK
<1>6. WaiterInv'
  BY <1>4 DEF LocksInv, WaiterInv
<1>7. BytesInv'
  BY DEF LocksInv, BytesInv
<1>8. WholeInv'
  BY <1>4, WholeKept
<1> QED  BY <1>5, <1>6, <1>7, <1>8 DEF LocksInv

LEMMA OpenAgainInv ==
    ASSUME LocksInv, NEW p \in Lockers, OpenAgain(p)
    PROVE  LocksInv'
<1>1. PICK n \in Fdn : describes[p][n] = Nothing /\ Describe(p, n, described + 1)
  BY DEF OpenAgain
<1>2. described \in Nat /\ described < MaxDescriptions /\ described' = described + 1
  BY DEF OpenAgain, LocksInv, FileLocksTypeOK
<1>3. described + 1 \in 1 .. described' /\ described' \in described .. MaxDescriptions
  BY <1>2, FileLocksAssumption
<1> QED  BY <1>1, <1>3, DescribeInv DEF OpenAgain

LEMMA InheritInv ==
    ASSUME LocksInv, NEW p \in Lockers, NEW q \in Lockers, Inherit(p, q)
    PROVE  LocksInv'
<1>1. PICK n \in Fdn, k \in Fdn :
         /\ describes[p][n] = Nothing /\ describes[q][k] # Nothing
         /\ Describe(p, n, describes[q][k])
  BY DEF Inherit
<1>2. /\ described \in Nat /\ described <= MaxDescriptions
      /\ describes[q][k] \in 0 .. described /\ described' = described
  BY DEF Inherit, LocksInv, FileLocksTypeOK
<1>3. describes[q][k] \in 1 .. described' /\ described' \in described .. MaxDescriptions
  BY <1>1, <1>2, FileLocksAssumption DEF Nothing
<1> QED  BY <1>1, <1>3, DescribeInv DEF Inherit

LEMMA CloseLockedInv ==
    ASSUME LocksInv, NEW p \in Lockers, CloseLocked(p)
    PROVE  LocksInv'
<1>1. PICK n \in Fdn :
         LET d == describes[p][n]
             last == \A q \in Lockers, k \in Fdn : describes[q][k] = d => q = p /\ k = n
         IN  /\ d # Nothing /\ Describe(p, n, Nothing)
             /\ whole' = IF last THEN [whole EXCEPT ![d] = "unlocked"] ELSE whole
             /\ toldWhole' = IF \A k \in Fdn \ {n} : describes[p][k] # d
                             THEN [toldWhole EXCEPT ![p][d] = "unlocked"] ELSE toldWhole
  BY DEF CloseLocked
<1> DEFINE d == describes[p][n]
           last == \A q \in Lockers, k \in Fdn : describes[q][k] = d => q = p /\ k = n
           only == \A k \in Fdn \ {n} : describes[p][k] # d
<1>2. /\ d # Nothing /\ Describe(p, n, Nothing)
      /\ whole' = (IF last THEN [whole EXCEPT ![d] = "unlocked"] ELSE whole)
      /\ toldWhole' = (IF only THEN [toldWhole EXCEPT ![p][d] = "unlocked"] ELSE toldWhole)
  BY <1>1
<1>3. /\ bytes' = [bytes EXCEPT ![p] = [b \in Bytes |-> "unlocked"]]
      /\ forsaken' = (IF bytes[p] = bytes'[p] THEN forsaken ELSE forsaken \cup {p})
      /\ UNCHANGED <<locking, described, waiting, told, shared>> /\ waiting[p] = NoWait
  BY DEF CloseLocked, NotWaiting
<1>4. /\ described \in Nat /\ described <= MaxDescriptions /\ MaxDescriptions \in Nat
      /\ describes \in [Lockers -> [Fdn -> 0 .. described]]
      /\ whole \in [Descriptions -> LockTypes]
      /\ bytes \in [Lockers -> [Bytes -> LockTypes]]
      /\ toldWhole \in [Lockers -> [Descriptions -> LockTypes]]
  BY FileLocksAssumption DEF LocksInv, FileLocksTypeOK
<1>5. d \in Descriptions /\ d \in Descs(p)
  BY <1>2, <1>4 DEF Descriptions, Nothing, Descs
<1>6. last => only /\ \A q \in Lockers \ {p} : d \notin Descs(q)
  BY <1>2 DEF Descs, Fdn
<1>7. \A q \in Lockers : \A k \in Fdn :
         describes'[q][k] = IF q = p /\ k = n THEN Nothing ELSE describes[q][k]
  BY <1>2, <1>4 DEF Describe
<1>8. /\ \A q \in Lockers \ {p} : Descs(q)' = Descs(q)
      /\ \A e \in Descs(p) : e # d \/ ~only => e \in Descs(p)'
  BY <1>5, <1>7 DEF Descs
<1>9. /\ \A e \in Descriptions : whole'[e] = IF last /\ e = d THEN "unlocked" ELSE whole[e]
      /\ \A q \in Lockers, e \in Descriptions :
           toldWhole'[q][e] = IF only /\ q = p /\ e = d THEN "unlocked" ELSE toldWhole[q][e]
  BY <1>2, <1>4, <1>5
<1>10. FileLocksTypeOK'
  <2>1. describes' \in [Lockers -> [Fdn -> 0 .. described']]
    <3>1. [describes[p] EXCEPT ![n] = Nothing] \in [Fdn -> 0 .. described]
      BY <1>4 DEF Nothing
    <3>2. describes' = [describes EXCEPT ![p] = [describes[p] EXCEPT ![n] = Nothing]]
      BY <1>2 DEF Describe
    <3> QED  BY <3>1, <3>2, <1>3, <1>4
  <2>2. whole' \in [Descriptions -> LockTypes]
    BY <1>2, <1>4 DEF LockTypes
  <2>3. toldWhole' \in [Lockers -> [Descriptions -> LockTypes]]
    BY <1>2, <1>4, <1>5 DEF LockTypes
  <2>4. bytes' \in [Lockers -> [Bytes -> LockTypes]]
    BY <1>3, <1>4 DEF LockTypes
  <2> QED  BY <2>1, <2>2, <2>3, <2>4, <1>3 DEF LocksInv, FileLocksTypeOK
<1> HIDE DEF d, last, only
<1>11. WaiterInv'
  <2>1. \A q \in Lockers : waiting[q].for = "whole" => q # p
    BY <1>3 DEF NoWait
  <2> QED  BY <2>1, <1>3, <1>8 DEF LocksInv, WaiterInv
<1>12. BytesInv'
  <2>1. \A q \in Lockers : bytes'[q] = IF q = p THEN [b \in Bytes |-> "unlocked"] ELSE bytes[q]
    BY <1>3, <1>4
  <2>2. \A q \in Lockers \ forsaken' : told'[q] = bytes'[q]
    BY <2>1, <1>3 DEF LocksInv, BytesInv
  <2>3. \A q, r \in Lockers : q # r =>
           \A b \in Bytes : ~Conflict(bytes'[q][b], bytes'[r][b])
    BY <2>1 DEF LocksInv, BytesInv, Conflict
  <2> QED  BY <2>2, <2>3 DEF BytesInv, Conflict
<1>13. WholeInv'
  <2>1. \A e, f \in Descriptions : e # f => ~Conflict(whole'[e], whole'[f])
    BY <1>9 DEF LocksInv, WholeInv, Conflict
  <2>2. ASSUME NEW q \in Lockers, NEW e \in Descriptions, toldWhole'[q][e] # "unlocked"
        PROVE  e \in Descs(q)' /\ (e \in shared' \/ toldWhole'[q][e] = whole'[e])
    <3>1. /\ toldWhole'[q][e] = toldWhole[q][e] /\ ~(only /\ q = p /\ e = d)
          /\ e \in Descs(q) /\ (e \in shared \/ toldWhole[q][e] = whole[e])
      BY <2>2, <1>9 DEF LocksInv, WholeInv
    <3>2. e \in Descs(q)'
      BY <3>1, <1>8
    <3>3. ~(last /\ e = d)
      BY <3>1, <1>6
    <3> QED  BY <3>1, <3>2, <3>3, <1>3, <1>9
  <2> QED  BY <2>1, <2>2 DEF WholeInv, Conflict
<1> QED  BY <1>10, <1>11, <1>12, <1>13 DEF LocksInv

LEMMA LockBytesInv ==
    ASSUME LocksInv, NEW p \in Lockers, LockBytes(p)
    PROVE  LocksInv'
<1>1. PICK set \in SUBSET Bytes \ {{}}, type \in {"read", "write"} :
         waiting' = [waiting EXCEPT ![p] =
                        [for |-> "bytes", type |-> type, bytes |-> set, of |-> Nothing]]
  BY DEF LockBytes
<1>2. /\ UNCHANGED <<describes, described, whole, bytes, told, toldWhole, forsaken, shared>>
      /\ locking' = "bytes"
  BY DEF LockBytes, Locking
<1>3. \A q \in Lockers : waiting'[q] =
         IF q = p THEN [for |-> "bytes", type |-> type, bytes |-> set, of |-> Nothing]
         ELSE waiting[q]
  BY <1>1 DEF LocksInv, FileLocksTypeOK
<1>4. FileLocksTypeOK'
  <2>1. [for |-> "bytes", type |-> type, bytes |-> set, of |-> Nothing]
           \in [for : {"nothing", "bytes", "whole"}, type : LockTypes, bytes : SUBSET Bytes,
                of : 0 .. MaxDescriptions]
    BY FileLocksAssumption DEF LockTypes, Nothing
  <2> QED  BY <2>1, <1>1, <1>2 DEF LocksInv, FileLocksTypeOK
<1>5. WaiterInv'
  BY <1>2, <1>3 DEF LocksInv, WaiterInv, Descs
<1>6. BytesInv' /\ WholeInv'
  BY <1>2 DEF LocksInv, BytesInv, WholeInv, Descs
<1> QED  BY <1>4, <1>5, <1>6 DEF LocksInv

LEMMA LockWholeInv ==
    ASSUME LocksInv, NEW p \in Lockers, LockWhole(p)
    PROVE  LocksInv'
<1>1. PICK d \in Descs(p), type \in {"read", "write"} :
         /\ waiting' = [waiting EXCEPT ![p] =
                            [for |-> "whole", type |-> type, bytes |-> {}, of |-> d]]
         /\ IF whole[d] = type THEN UNCHANGED <<whole, toldWhole, shared>>
            ELSE /\ whole' = [whole EXCEPT ![d] = "unlocked"]
                 /\ toldWhole' = [toldWhole EXCEPT ![p][d] = "unlocked"]
                 /\ shared' = IF whole[d] = "unlocked" \/ Sharers(d) = {p} THEN shared
                              ELSE shared \cup {d}
  BY DEF LockWhole
<1>2. /\ UNCHANGED <<describes, described, bytes, told, forsaken>> /\ locking' = "whole"
  BY DEF LockWhole, Locking
<1>3. \A q \in Lockers : waiting'[q] =
         IF q = p THEN [for |-> "whole", type |-> type, bytes |-> {}, of |-> d]
         ELSE waiting[q]
  BY <1>1 DEF LocksInv, FileLocksTypeOK
<1>4. /\ d \in Descriptions /\ whole \in [Descriptions -> LockTypes]
      /\ toldWhole \in [Lockers -> [Descriptions -> LockTypes]]
      /\ waiting \in [Lockers -> [for : {"nothing", "bytes", "whole"}, type : LockTypes,
                                  bytes : SUBSET Bytes, of : 0 .. MaxDescriptions]]
  BY DescsMade DEF LocksInv, FileLocksTypeOK
<1>5. FileLocksTypeOK'
  <2>1. waiting' \in [Lockers -> [for : {"nothing", "bytes", "whole"}, type : LockTypes,
                                  bytes : SUBSET Bytes, of : 0 .. MaxDescriptions]]
    BY <1>1, <1>4, FileLocksAssumption DEF LockTypes, Descriptions
  <2>2. /\ whole' \in [Descriptions -> LockTypes] /\ shared' \subseteq Descriptions
        /\ toldWhole' \in [Lockers -> [Descriptions -> LockTypes]]
    <3>1. shared \subseteq Descriptions /\ "unlocked" \in LockTypes
      BY DEF LocksInv, FileLocksTypeOK, LockTypes
    <3>2. CASE whole[d] = type
      BY <3>1, <3>2, <1>1, <1>4
    <3>3. CASE whole[d] # type
      <4>1. shared' \subseteq Descriptions
        BY <3>1, <3>3, <1>1, <1>4
      <4>2. whole' \in [Descriptions -> LockTypes]
        BY <3>1, <3>3, <1>1, <1>4
      <4>3. toldWhole' \in [Lockers -> [Descriptions -> LockTypes]]
        <5>1. toldWhole' = [toldWhole EXCEPT ![p] = [toldWhole[p] EXCEPT ![d] = "unlocked"]]
          BY <3>3, <1>1
        <5>2. [toldWhole[p] EXCEPT ![d] = "unlocked"] \in [Descriptions -> LockTypes]
          BY <3>1, <1>4
        <5> QED  BY <5>1, <5>2, <1>4
      <4> QED  BY <4>1, <4>2, <4>3
    <3> QED  BY <3>2, <3>3
  <2> QED  BY <2>1, <2>2, <1>2 DEF LocksInv, FileLocksTypeOK
<1>6. WaiterInv'
  BY <1>2, <1>3 DEF LocksInv, WaiterInv, Descs
<1>7. BytesInv'
  BY <1>2 DEF LocksInv, BytesInv
<1>8. WholeInv'
  <2>1. CASE whole[d] = type
    BY <2>1, <1>1, <1>2 DEF LocksInv, WholeInv, Descs
  <2>2. CASE whole[d] # type
    <3>1. /\ \A e \in Descriptions : whole'[e] = IF e = d THEN "unlocked" ELSE whole[e]
          /\ \A q \in Lockers, e \in Descriptions :
               toldWhole'[q][e] = IF q = p /\ e = d THEN "unlocked" ELSE toldWhole[q][e]
      BY <2>2, <1>1, <1>4
    <3>2. shared \subseteq shared' /\ (d \in shared' \/ whole[d] = "unlocked" \/ Sharers(d) = {p})
      BY <2>2, <1>1
    <3>3. ASSUME NEW q \in Lockers, q # p, toldWhole[q][d] # "unlocked" PROVE d \in shared'
      <4>1. d \in Descs(q) /\ (d \in shared \/ whole[d] # "unlocked")
        BY <3>3, <1>4 DEF LocksInv, WholeInv
      <4>2. q \in Sharers(d)
        BY <4>1 DEF Sharers
      <4> QED  BY <4>1, <4>2, <3>2, <3>3
    <3>4. \A e, f \in Descriptions : e # f => ~Conflict(whole'[e], whole'[f])
      BY <3>1 DEF LocksInv, WholeInv, Conflict
    <3>5. ASSUME NEW q \in Lockers, NEW e \in Descriptions, toldWhole'[q][e] # "unlocked"
          PROVE  e \in Descs(q)' /\ (e \in shared' \/ toldWhole'[q][e] = whole'[e])
      BY <3>5, <3>1, <3>2, <3>3, <1>2 DEF LocksInv, WholeInv, Descs
    <3> QED  BY <3>4, <3>5 DEF WholeInv, Conflict
  <2> QED  BY <2>1, <2>2
<1> QED  BY <1>5, <1>6, <1>7, <1>8 DEF LocksInv

LEMMA GrantBytesInv ==
    ASSUME LocksInv, NEW p \in Lockers, GrantBytes(p)
    PROVE  LocksInv'
<1> DEFINE set == waiting[p].bytes
           type == waiting[p].type
<1>1. /\ waiting[p].for = "bytes" /\ waiting' = [waiting EXCEPT ![p] = NoWait]
      /\ told' = [told EXCEPT ![p] = [b \in Bytes |-> IF b \in set THEN type ELSE @[b]]]
      /\ bytes' = [bytes EXCEPT ![p] = [b \in Bytes |-> IF b \in set THEN type ELSE @[b]]]
      /\ forsaken' = forsaken \ {q \in {p} : set = Bytes}
      /\ UNCHANGED <<locking, describes, described, whole, toldWhole, shared>>
  BY DEF GrantBytes, Locked
<1>2. \A q \in Lockers \ {p}, b \in set : ~Conflict(type, bytes[q][b])
  BY <1>1 DEF GrantBytes, Blockers, Owners
<1>3. /\ waiting \in [Lockers -> [for : {"nothing", "bytes", "whole"}, type : LockTypes,
                                  bytes : SUBSET Bytes, of : 0 .. MaxDescriptions]]
      /\ bytes \in [Lockers -> [Bytes -> LockTypes]] /\ told \in [Lockers -> [Bytes -> LockTypes]]
  BY DEF LocksInv, FileLocksTypeOK
<1>4. type \in LockTypes /\ set \subseteq Bytes
  BY <1>3
<1> HIDE DEF set, type
<1>5. \A q \in Lockers : /\ waiting'[q] = IF q = p THEN NoWait ELSE waiting[q]
                         /\ q # p => told'[q] = told[q] /\ bytes'[q] = bytes[q]
  BY <1>1, <1>3
<1>6. /\ told'[p] = [b \in Bytes |-> IF b \in set THEN type ELSE told[p][b]]
      /\ bytes'[p] = [b \in Bytes |-> IF b \in set THEN type ELSE bytes[p][b]]
  BY <1>1, <1>3
<1>7. FileLocksTypeOK'
  <2>1. NoWait \in [for : {"nothing", "bytes", "whole"}, type : LockTypes,
                    bytes : SUBSET Bytes, of : 0 .. MaxDescriptions]
    BY FileLocksAssumption DEF NoWait, LockTypes, Nothing
  <2>2. waiting' \in [Lockers -> [for : {"nothing", "bytes", "whole"}, type : LockTypes,
                                  bytes : SUBSET Bytes, of : 0 .. MaxDescriptions]]
    BY <2>1, <1>1, <1>3
  <2>3. told' \in [Lockers -> [Bytes -> LockTypes]] /\ bytes' \in [Lockers -> [Bytes -> LockTypes]]
    BY <1>1, <1>3, <1>4
  <2> QED  BY <2>2, <2>3, <1>1 DEF LocksInv, FileLocksTypeOK
<1>8. WaiterInv'
  <2>1. \A q \in Lockers : Descs(q)' = Descs(q)
    BY <1>1 DEF Descs
  <2>2. NoWait.for = "nothing"
    BY DEF NoWait
  <2> QED  BY <2>1, <2>2, <1>5 DEF LocksInv, WaiterInv
<1>9. BytesInv'
  <2>1. \A q \in Lockers \ forsaken' : told'[q] = bytes'[q]
    <3>1. \A q \in Lockers \ {p} : q \notin forsaken' => q \notin forsaken
      BY <1>1
    <3>2. p \notin forsaken' => p \notin forsaken \/ set = Bytes
      BY <1>1
    <3> QED  BY <3>1, <3>2, <1>5, <1>6 DEF LocksInv, BytesInv
  <2>2. \A q \in Lockers, b \in Bytes : q # p => /\ ~Conflict(bytes'[q][b], bytes'[p][b])
                                                 /\ ~Conflict(bytes'[p][b], bytes'[q][b])
    BY <1>2, <1>5, <1>6 DEF LocksInv, BytesInv, Conflict
  <2>3. \A q, r \in Lockers : q # r =>
           \A b \in Bytes : ~Conflict(bytes'[q][b], bytes'[r][b])
    BY <2>2, <1>5 DEF LocksInv, BytesInv
  <2> QED  BY <2>1, <2>3 DEF BytesInv, Conflict
<1>10. WholeInv'
  BY <1>1 DEF LocksInv, WholeInv, Descs
<1> QED  BY <1>7, <1>8, <1>9, <1>10 DEF LocksInv

LEMMA GrantWholeInv ==
    ASSUME LocksInv, NEW p \in Lockers, GrantWhole(p)
    PROVE  LocksInv'
<1> DEFINE d == waiting[p].of
           type == waiting[p].type
<1>1. /\ waiting[p].for = "whole" /\ waiting' = [waiting EXCEPT ![p] = NoWait]
      /\ told' = [told EXCEPT ![p] =
                     [b \in Bytes |-> IF b \in waiting[p].bytes THEN type ELSE @[b]]]
      /\ toldWhole' = [toldWhole EXCEPT ![p][d] = type]
      /\ whole' = [whole EXCEPT ![d] = type]
      /\ shared' = (IF Sharers(d) = {p} THEN shared \ {d} ELSE shared \cup {d})
      /\ UNCHANGED <<locking, describes, described, bytes, forsaken>>
      /\ Rivals(d, type) = {}
  BY DEF GrantWhole, Locked
<1>2. d \in Descs(p) /\ waiting[p].bytes = {}
  BY <1>1 DEF LocksInv, WaiterInv
<1>3. /\ d \in Descriptions /\ whole \in [Descriptions -> LockTypes]
      /\ toldWhole \in [Lockers -> [Descriptions -> LockTypes]]
      /\ told \in [Lockers -> [Bytes -> LockTypes]]
      /\ waiting \in [Lockers -> [for : {"nothing", "bytes", "whole"}, type : LockTypes,
                                  bytes : SUBSET Bytes, of : 0 .. MaxDescriptions]]
  BY <1>2, DescsMade DEF LocksInv, FileLocksTypeOK
<1>4. type \in LockTypes
  BY <1>3
<1>5. told' = told
  <2>1. [b \in Bytes |-> IF b \in waiting[p].bytes THEN type ELSE told[p][b]] = told[p]
    BY <1>2, <1>3
  <2> QED  BY <2>1, <1>1, <1>3
<1> HIDE DEF d, type
<1>6. /\ \A q \in Lockers : waiting'[q] = IF q = p THEN NoWait ELSE waiting[q]
      /\ \A e \in Descriptions : whole'[e] = IF e = d THEN type ELSE whole[e]
      /\ \A q \in Lockers, e \in Descriptions :
           toldWhole'[q][e] = IF q = p /\ e = d THEN type ELSE toldWhole[q][e]
  BY <1>1, <1>3
<1>7. FileLocksTypeOK'
  <2>1. NoWait \in [for : {"nothing", "bytes", "whole"}, type : LockTypes,
                    bytes : SUBSET Bytes, of : 0 .. MaxDescriptions]
    BY FileLocksAssumption DEF NoWait, LockTypes, Nothing
  <2>2. waiting' \in [Lockers -> [for : {"nothing", "bytes", "whole"}, type : LockTypes,
                                  bytes : SUBSET Bytes, of : 0 .. MaxDescriptions]]
    BY <2>1, <1>1, <1>3
  <2>3. /\ whole' \in [Descriptions -> LockTypes] /\ shared' \subseteq Descriptions
        /\ toldWhole' \in [Lockers -> [Descriptions -> LockTypes]]
    BY <1>1, <1>3, <1>4 DEF LocksInv, FileLocksTypeOK
  <2> QED  BY <2>2, <2>3, <1>1, <1>5 DEF LocksInv, FileLocksTypeOK
<1>8. WaiterInv'
  <2>1. \A q \in Lockers : Descs(q)' = Descs(q)
    BY <1>1 DEF Descs
  <2>2. NoWait.for = "nothing"
    BY DEF NoWait
  <2> QED  BY <2>1, <2>2, <1>6 DEF LocksInv, WaiterInv
<1>9. BytesInv'
  BY <1>1, <1>5 DEF LocksInv, BytesInv
<1>10. WholeInv'
  <2>1. \A e \in Descriptions \ {d} : ~Conflict(type, whole[e])
    BY <1>1 DEF Rivals
  <2>2. \A e, f \in Descriptions : e # f => ~Conflict(whole'[e], whole'[f])
    BY <2>1, <1>6 DEF LocksInv, WholeInv, Conflict
  <2>3. ASSUME NEW q \in Lockers, NEW e \in Descriptions, toldWhole'[q][e] # "unlocked"
        PROVE  e \in Descs(q)' /\ (e \in shared' \/ toldWhole'[q][e] = whole'[e])
    <3>1. CASE e # d
      BY <3>1, <2>3, <1>1, <1>6 DEF LocksInv, WholeInv, Descs
    <3>2. CASE e = d /\ q = p
      BY <3>2, <1>1, <1>2, <1>6 DEF Descs
    <3>3. CASE e = d /\ q # p
      <4>1. d \in Descs(q)
        BY <3>3, <2>3, <1>6 DEF LocksInv, WholeInv
      <4>2. q \in Sharers(d)
        BY <4>1 DEF Sharers
      <4> QED  BY <4>1, <4>2, <3>3, <1>1 DEF Descs
    <3> QED  BY <3>1, <3>2, <3>3
  <2> QED  BY <2>2, <2>3 DEF WholeInv, Conflict
<1> QED  BY <1>7, <1>8, <1>9, <1>10 DEF LocksInv

LEMMA SignalWaiterInv ==
    ASSUME LocksInv, NEW p \in Lockers, SignalWaiter(p)
    PROVE  LocksInv'
BY DEF SignalWaiter, Interrupted, LocksInv, FileLocksTypeOK, WaiterInv, BytesInv, WholeInv, Descs

LEMMA UnlockBytesInv ==
    ASSUME LocksInv, NEW p \in Lockers, UnlockBytes(p)
    PROVE  LocksInv'
<1>1. PICK set \in SUBSET Bytes \ {{}} :
         /\ bytes' = [bytes EXCEPT ![p] =
                         [b \in Bytes |-> IF b \in set THEN "unlocked" ELSE @[b]]]
         /\ told' = [told EXCEPT ![p] =
                         [b \in Bytes |-> IF b \in set THEN "unlocked" ELSE @[b]]]
         /\ forsaken' = forsaken \ {q \in {p} : set = Bytes}
  BY DEF UnlockBytes
<1>2. /\ UNCHANGED <<describes, described, whole, waiting, toldWhole, shared>>
      /\ locking' = "bytes"
  BY DEF UnlockBytes, Locking
<1>3. bytes \in [Lockers -> [Bytes -> LockTypes]] /\ told \in [Lockers -> [Bytes -> LockTypes]]
  BY DEF LocksInv, FileLocksTypeOK
<1>4. \A q \in Lockers : q # p => told'[q] = told[q] /\ bytes'[q] = bytes[q]
  BY <1>1, <1>3
<1>5. /\ told'[p] = [b \in Bytes |-> IF b \in set THEN "unlocked" ELSE told[p][b]]
      /\ bytes'[p] = [b \in Bytes |-> IF b \in set THEN "unlocked" ELSE bytes[p][b]]
  BY <1>1, <1>3
<1>6. FileLocksTypeOK'
  <2>1. told' \in [Lockers -> [Bytes -> LockTypes]] /\ bytes' \in [Lockers -> [Bytes -> LockTypes]]
    BY <1>1, <1>3 DEF LockTypes
  <2> QED  BY <2>1, <1>1, <1>2 DEF LocksInv, FileLocksTypeOK
<1>7. WaiterInv' /\ WholeInv'
  BY <1>2 DEF LocksInv, WaiterInv, WholeInv, Descs
<1>8. BytesInv'
  <2>1. \A q \in Lockers \ forsaken' : told'[q] = bytes'[q]
    <3>1. \A q \in Lockers \ {p} : q \notin forsaken' => q \notin forsaken
      BY <1>1
    <3>2. p \notin forsaken' => p \notin forsaken \/ set = Bytes
      BY <1>1
    <3> QED  BY <3>1, <3>2, <1>4, <1>5 DEF LocksInv, BytesInv
  <2>2. \A q \in Lockers, b \in Bytes : q # p => /\ ~Conflict(bytes'[q][b], bytes'[p][b])
                                                 /\ ~Conflict(bytes'[p][b], bytes'[q][b])
    BY <1>4, <1>5 DEF LocksInv, BytesInv, Conflict
  <2>3. \A q, r \in Lockers : q # r =>
           \A b \in Bytes : ~Conflict(bytes'[q][b], bytes'[r][b])
    BY <2>2, <1>4 DEF LocksInv, BytesInv
  <2> QED  BY <2>1, <2>3 DEF BytesInv, Conflict
<1> QED  BY <1>6, <1>7, <1>8 DEF LocksInv

LEMMA UnlockWholeInv ==
    ASSUME LocksInv, NEW p \in Lockers, UnlockWhole(p)
    PROVE  LocksInv'
<1>1. PICK d \in Descs(p) :
         /\ whole' = [whole EXCEPT ![d] = "unlocked"]
         /\ toldWhole' = [toldWhole EXCEPT ![p][d] = "unlocked"]
         /\ shared' = IF Sharers(d) = {p} THEN shared ELSE shared \cup {d}
  BY DEF UnlockWhole
<1>2. UNCHANGED <<locking, describes, described, bytes, waiting, told, forsaken>>
  BY DEF UnlockWhole
<1>3. /\ d \in Descriptions /\ whole \in [Descriptions -> LockTypes]
      /\ toldWhole \in [Lockers -> [Descriptions -> LockTypes]]
  BY DescsMade DEF LocksInv, FileLocksTypeOK
<1>4. /\ \A e \in Descriptions : whole'[e] = IF e = d THEN "unlocked" ELSE whole[e]
      /\ \A q \in Lockers, e \in Descriptions :
           toldWhole'[q][e] = IF q = p /\ e = d THEN "unlocked" ELSE toldWhole[q][e]
  BY <1>1, <1>3
<1>5. FileLocksTypeOK'
  <2>1. /\ whole' \in [Descriptions -> LockTypes] /\ shared' \subseteq Descriptions
        /\ toldWhole' \in [Lockers -> [Descriptions -> LockTypes]]
    BY <1>1, <1>3 DEF LockTypes, LocksInv, FileLocksTypeOK
  <2> QED  BY <2>1, <1>2 DEF LocksInv, FileLocksTypeOK
<1>6. WaiterInv' /\ BytesInv'
  BY <1>2 DEF LocksInv, WaiterInv, BytesInv, Descs
<1>7. WholeInv'
  <2>1. \A e, f \in Descriptions : e # f => ~Conflict(whole'[e], whole'[f])
    BY <1>4 DEF LocksInv, WholeInv, Conflict
  <2>2. ASSUME NEW q \in Lockers, q # p, toldWhole[q][d] # "unlocked" PROVE d \in shared'
    <3>1. q \in Sharers(d)
      BY <2>2, <1>3 DEF LocksInv, WholeInv, Sharers
    <3> QED  BY <3>1, <2>2, <1>1
  <2>3. ASSUME NEW q \in Lockers, NEW e \in Descriptions, toldWhole'[q][e] # "unlocked"
        PROVE  e \in Descs(q)' /\ (e \in shared' \/ toldWhole'[q][e] = whole'[e])
    BY <2>3, <2>2, <1>1, <1>2, <1>4 DEF LocksInv, WholeInv, Descs
  <2> QED  BY <2>1, <2>3 DEF WholeInv, Conflict
<1> QED  BY <1>5, <1>6, <1>7 DEF LocksInv

LEMMA LocksNextInv ==
    ASSUME LocksInv, FileLocksNext
    PROVE  LocksInv'
BY OpenAgainInv, CloseLockedInv, InheritInv, LockBytesInv, LockWholeInv, GrantBytesInv,
   GrantWholeInv, SignalWaiterInv, UnlockBytesInv, UnlockWholeInv DEF FileLocksNext

LEMMA LocksStutterInv ==
    ASSUME LocksInv, UNCHANGED lockVars
    PROVE  LocksInv'
BY DEF lockVars, LocksInv, FileLocksTypeOK, WaiterInv, BytesInv, WholeInv, Descs

\* Locks that exclude each other are seen, and told apart.
LEMMA LocksAreKept == LocksInv => FileLocksKept
<1> SUFFICES ASSUME LocksInv PROVE FileLocksKept
  OBVIOUS
<1>1. bytes \in [Lockers -> [Bytes -> LockTypes]]
  BY DEF LocksInv, FileLocksTypeOK
<1>2. BytesSeen
  <2> SUFFICES ASSUME NEW p \in Lockers, NEW q \in Lockers, NEW b \in Bytes,
                      p # q, told[q][b] # "unlocked", q \notin forsaken
               PROVE  /\ "unlocked" \notin RegionLocked(p, {b})
                      /\ told[q][b] = "write" => RegionLocked(p, {b}) = {"write"}
    BY DEF BytesSeen
  <2>1. bytes[q][b] = told[q][b]
    BY DEF LocksInv, BytesInv
  <2>2. Owners(p, "write", {b}) = {r \in Lockers \ {p} : bytes[r][b] # "unlocked"}
    BY <1>1 DEF Owners, Conflict
  <2>3. q \in Owners(p, "write", {b})
    BY <2>1, <2>2
  <2> DEFINE found == {bytes[r][c] : r \in Owners(p, "write", {b}), c \in {b}}
  <2>4. RegionLocked(p, {b}) = found \ {"unlocked"}
    BY SMTT(20), <2>3 DEF RegionLocked
  <2>5. told[q][b] = "write" => found = {"write"}
    <3> SUFFICES ASSUME told[q][b] = "write" PROVE found = {"write"}
      OBVIOUS
    <3>1. \A r \in Owners(p, "write", {b}) : r = q
      BY <2>1, <2>2 DEF LocksInv, BytesInv, Conflict
    <3> QED  BY <3>1, <2>1, <2>3
  <2> HIDE DEF found
  <2> QED  BY <2>4, <2>5
<1>3. ToldApart
  <2> SUFFICES ASSUME NEW p \in Lockers, NEW q \in Lockers, p # q
               PROVE  /\ {p, q} \cap forsaken = {} =>
                           \A b \in Bytes : ~Conflict(told[p][b], told[q][b])
                      /\ \A d, e \in Descriptions \ shared :
                           Sharers(d) = {p} /\ Sharers(e) = {q} =>
                              ~Conflict(toldWhole[p][d], toldWhole[q][e])
    BY DEF ToldApart
  <2>1. {p, q} \cap forsaken = {} => \A b \in Bytes : ~Conflict(told[p][b], told[q][b])
    BY DEF LocksInv, BytesInv
  <2>2. ASSUME NEW d \in Descriptions \ shared, NEW e \in Descriptions \ shared,
               Sharers(d) = {p}, Sharers(e) = {q}
        PROVE  ~Conflict(toldWhole[p][d], toldWhole[q][e])
    <3>1. d # e
      BY <2>2
    <3>2. ~Conflict(whole[d], whole[e])
      BY <3>1 DEF LocksInv, WholeInv
    <3>3. /\ toldWhole[p][d] \in {"unlocked", whole[d]}
          /\ toldWhole[q][e] \in {"unlocked", whole[e]}
      BY DEF LocksInv, WholeInv
    <3> QED  BY <3>2, <3>3 DEF Conflict
  <2> QED  BY <2>1, <2>2
<1> QED  BY <1>2, <1>3 DEF FileLocksKept

----------------------------------------------------------------------------
\* Flags of descriptors (FdFlags)

LEMMA NoFlagCallTyped == NoFlagCall \in FlagCalls
BY DEF NoFlagCall, FlagCalls, NoNumber

\* The numbers that a call uses.
LEMMA UsedNumbers ==
    ASSUME NEW c \in FlagCalls
    PROVE  /\ Used(c) \subseteq FdNumbers
           /\ \A n \in FdNumbers :
                n \in Used(c) <=> n = c.fd \/ n = c.got \/ (c.rest # <<>> /\ n = Head(c.rest))
           /\ c.rest # <<>> => Head(c.rest) \in FdNumbers
<1>1. /\ c.fd \in FdNumbers \cup {NoNumber} /\ c.got \in FdNumbers \cup {NoNumber}
      /\ c.rest = <<>> \/ \E n \in FdNumbers : c.rest = <<n>>
      /\ NoNumber \notin FdNumbers
  BY DEF FlagCalls, NoNumber, FdNumbers
<1>2. CASE c.rest = <<>>
  <2>1. {c.rest[i] : i \in 1 .. Len(c.rest)} = {}
    BY <1>2
  <2> QED  BY <1>1, <1>2, <2>1 DEF Used
<1>3. CASE \E n \in FdNumbers : c.rest = <<n>>
  <2>1. PICK k \in FdNumbers : c.rest = <<k>>
    BY <1>3
  <2>2. {c.rest[i] : i \in 1 .. Len(c.rest)} = {k} /\ Head(c.rest) = k /\ c.rest # <<>>
    BY <2>1
  <2> QED  BY <1>1, <2>1, <2>2 DEF Used
<1> QED  BY <1>1, <1>2, <1>3

\* Calls that use the same numbers, the one with the other marked, replace the same.
LEMMA NoFlagCallUses == Used(NoFlagCall) = {} /\ Private(NoFlagCall) = {}
<1>1. NoFlagCall.rest = <<>> /\ NoFlagCall.fd = NoNumber /\ NoFlagCall.got = NoNumber
      /\ NoFlagCall.do = "none"
  BY DEF NoFlagCall
<1>2. NoNumber \notin FdNumbers
  BY DEF NoNumber, FdNumbers
<1> QED  BY <1>1, <1>2, NoFlagCallTyped, UsedNumbers DEF Private, Replaced

LEMMA PrivateUsed ==
    ASSUME NEW c \in FlagCalls
    PROVE  Private(c) \subseteq Used(c)
<1>1. c.got \in FdNumbers \cup {NoNumber}
  BY DEF FlagCalls
<1> QED  BY <1>1, UsedNumbers DEF Private, Replaced

\* What a call uses refers to a file.
LEMMA UsedInTable ==
    ASSUME FlagsInv, NEW t \in FlagThreads
    PROVE  Used(flagCall[t]) \subseteq InTable
<1>1. flagCall[t] \in FlagCalls /\ handed \subseteq InTable /\ CallOwns(t)
  BY DEF FlagsInv, FlagFieldsInv
<1>2. CASE flagCall[t].do # "nullify"
  BY <1>1, <1>2 DEF CallOwns
<1>3. CASE flagCall[t].do = "nullify"
  <2>1. flagCall[t].rest = <<>> /\ flagCall[t].fd \in handed
    BY <1>1, <1>3 DEF CallOwns
  <2> QED  BY <1>1, <1>3, <2>1, UsedNumbers DEF CallOwns, NoNumber, FdNumbers
<1> QED  BY <1>2, <1>3

LEMMA LowestFreeFree ==
    ASSUME InTable # FdNumbers
    PROVE  LowestFree \in FdNumbers \ InTable
<1>1. FdNumbers \ InTable \in SUBSET Nat /\ FdNumbers \ InTable # {}
  BY FlagsAssumption DEF FdNumbers, InTable
<1>2. \E m \in FdNumbers \ InTable : \A k \in FdNumbers \ InTable : m <= k
  BY <1>1, LeastNumber
<1> QED  BY <1>2 DEF LowestFree, Min

\* A call of another thread keeps what it has and knows, when nothing happens to its
\* numbers and files of which it is not told.
LEMMA OtherCall ==
    ASSUME FlagsInv, NEW u \in FlagThreads, flagCall'[u] = flagCall[u],
           handed \subseteq handed', lax \subseteq lax', torn \subseteq torn',
           refers' \in [FdNumbers -> OpenFiles \cup {DevNull, "free"}],
           flagCall[u].got \notin InTable \ handed \/ flagCall[u].got \notin handed',
           \A n \in Used(flagCall[u]) : refers'[n] = refers[n],
           flagCall[u].beside
             \/ \A n \in Used(flagCall[u]) : n \in closeOnExec' <=> n \in closeOnExec,
           flagCall[u].do = "nullify" =>
             \A n \in Used(flagCall[u]) : n \in closeOnExec' <=> n \in closeOnExec,
           flagCall[u].do = "block" =>
             /\ \A n \in Used(flagCall[u]) :
                  /\ \/ refers[n] \in lax' \/ n \notin closeOnExec \/ n \in closeOnExec'
                  /\ \/ flagCall[u].beside
                     \/ status'[refers[n]].nonBlocking <=> status[refers[n]].nonBlocking
                  /\ refers[n] \in torn' \/ (append'[refers[n]] <=> append[refers[n]])
    PROVE  CallOwns(u)' /\ CallKnows(u)'
<1> DEFINE c == flagCall[u]
<1>1. /\ c \in FlagCalls /\ CallOwns(u) /\ CallKnows(u)
      /\ Used(c) \subseteq InTable /\ Used(c) \subseteq FdNumbers
  BY UsedInTable, UsedNumbers DEF FlagsInv, FlagFieldsInv
<1>2. /\ c.got # NoNumber => c.got \in Used(c)
      /\ c.fd # NoNumber => c.fd \in Used(c)
  BY <1>1, UsedNumbers DEF FlagCalls
<1>3. c.do # "none" => c.fd \in Used(c)
  BY <1>1, <1>2, UsedInTable DEF CallOwns, FlagsInv, FlagFieldsInv, InTable, NoNumber, FdNumbers
<1>4. \A n \in Used(c) : n \in InTable'
  BY <1>1 DEF InTable
<1>5. CallOwns(u)'
  BY <1>1, <1>2, <1>3, <1>4 DEF CallOwns
<1>6. CallKnows(u)'
  <2>1. CASE c.do = "exec"
    BY <1>1, <1>2, <1>3, <2>1 DEF CallKnows
  <2>2. CASE c.do = "block"
    BY <1>1, <1>2, <1>3, <2>2 DEF CallKnows
  <2>3. CASE c.do = "duplicate"
    <3>1. c.step = "done" => c.got \in Used(c)
      BY <1>1, <1>2, <2>3 DEF CallOwns
    <3> QED  BY <1>1, <1>3, <2>3, <3>1 DEF CallKnows
  <2>4. CASE c.do = "nullify"
    <3>1. c.step = "replace" => c.got \in Used(c)
      BY <1>1, <1>2, <2>4 DEF CallOwns
    <3> QED  BY <1>1, <1>3, <2>4, <3>1 DEF CallKnows
  <2>5. CASE c.do = "none"
    BY <2>5 DEF CallKnows
  <2> QED  BY <1>1, <2>1, <2>2, <2>3, <2>4, <2>5 DEF FlagCalls
<1> QED  BY <1>5, <1>6

\* Calls stay apart when one goes on with its numbers, or with new ones.
LEMMA StayApart ==
    ASSUME FlagsInv, NEW t \in FlagThreads,
           \A u \in FlagThreads \ {t} : flagCall'[u] = flagCall[u],
           \A u \in FlagThreads \ {t} :
             /\ Used(flagCall'[t]) \cap Used(flagCall[u]) \subseteq Used(flagCall[t])
             /\ Private(flagCall'[t]) \cap Used(flagCall[u]) \subseteq Private(flagCall[t])
             /\ \A n \in Used(flagCall[u]) : refers'[n] = refers[n],
           flagCall'[t].do \in {flagCall[t].do, "none"},
           flagCall'[t].do # "none" => flagCall'[t].beside = flagCall[t].beside,
           flagCall'[t].do = "block" =>
             /\ Used(flagCall'[t]) \subseteq Used(flagCall[t])
             /\ \A n \in Used(flagCall[t]) : refers'[n] = refers[n],
           flagCall'[t].do = "none" => Used(flagCall'[t]) = {},
           flagCall' \in [FlagThreads -> FlagCalls]
    PROVE  \A u, v \in FlagThreads : u # v => CallsApart(u, v)'
<1> SUFFICES ASSUME NEW u \in FlagThreads, NEW v \in FlagThreads, u # v
             PROVE  CallsApart(u, v)'
  OBVIOUS
<1>1. /\ \A w \in FlagThreads : flagCall[w] \in FlagCalls
      /\ CallsApart(u, v) /\ CallsApart(v, u)
  BY DEF FlagsInv, FlagFieldsInv
<1>2. /\ Private(flagCall[u]) \subseteq Used(flagCall[u])
      /\ Private(flagCall[v]) \subseteq Used(flagCall[v])
  BY <1>1, PrivateUsed
<1>3. CASE u = t
  <2>1. FilesOf(flagCall[v])' = FilesOf(flagCall[v])
    BY <1>3 DEF FilesOf
  <2>2. flagCall'[u].do = "block" => FilesOf(flagCall[u])' \subseteq FilesOf(flagCall[u])
    BY <1>3 DEF FilesOf
  <2> QED  BY <1>1, <1>2, <1>3, <2>1, <2>2 DEF CallsApart
<1>4. CASE v = t
  <2>1. FilesOf(flagCall[u])' = FilesOf(flagCall[u])
    BY <1>4 DEF FilesOf
  <2>2. flagCall'[v].do = "block" => FilesOf(flagCall[v])' \subseteq FilesOf(flagCall[v])
    BY <1>4 DEF FilesOf
  <2> QED  BY <1>1, <1>2, <1>4, <2>1, <2>2 DEF CallsApart
<1>5. CASE u # t /\ v # t
  <2>1. /\ FilesOf(flagCall[u])' = FilesOf(flagCall[u])
        /\ FilesOf(flagCall[v])' = FilesOf(flagCall[v])
    BY <1>5 DEF FilesOf
  <2> QED  BY <1>1, <1>5, <2>1 DEF CallsApart
<1> QED  BY <1>3, <1>4, <1>5

\* A step of a call that changes no flag and no number.
LEMMA CallGoesOn ==
    ASSUME FlagsInv, NEW t \in FlagThreads, NEW d \in FlagCalls,
           flagCall' = [flagCall EXCEPT ![t] = d],
           UNCHANGED <<refers, closeOnExec, status, handed, programs, lax, append, torn>>,
           Used(d) \subseteq Used(flagCall[t]), Private(d) \subseteq Private(flagCall[t]),
           d.do \in {flagCall[t].do, "none"}, d.do # "none" => d.beside = flagCall[t].beside,
           d.do = "none" => Used(d) = {},
           flagCall[t].do = "nullify" /\ flagCall[t].got # NoNumber =>
             d.do = "nullify" /\ d.got = flagCall[t].got,
           CallOwns(t)', CallKnows(t)'
    PROVE  FlagsInv'
<1>1. /\ flagCall' \in [FlagThreads -> FlagCalls] /\ flagCall'[t] = d
      /\ \A u \in FlagThreads \ {t} : flagCall'[u] = flagCall[u]
  BY DEF FlagsInv, FlagFieldsInv
<1>2. FlagFieldsInv' /\ ProgramsBlock' /\ OthersKept' /\ InTable' = InTable
  BY <1>1 DEF FlagsInv, FlagFieldsInv, ProgramsBlock, OthersKept, InTable
<1>3. \A u \in FlagThreads \ {t} : CallOwns(u)' /\ CallKnows(u)'
  <2> SUFFICES ASSUME NEW u \in FlagThreads \ {t} PROVE CallOwns(u)' /\ CallKnows(u)'
    OBVIOUS
  <2>1. CallOwns(u) /\ CallKnows(u)
    BY DEF FlagsInv
  <2>2. flagCall'[u] = flagCall[u] /\ InTable' = InTable
    BY <1>1, <1>2
  <2>3. CallOwns(u)'
    BY <2>1, <2>2 DEF CallOwns
  <2>4. CallKnows(u)'
    BY <2>1, <2>2 DEF CallKnows
  <2> QED  BY <2>3, <2>4
<1>4. \A u, v \in FlagThreads : u # v => CallsApart(u, v)'
  BY <1>1, StayApart
<1>5. TableInv'
  BY <1>1, <1>2 DEF FlagsInv, TableInv, NoNumber, FdNumbers, InTable
<1>6. \A f \in OpenFiles \ lax' : FileInv(f)'
  BY <1>2 DEF FlagsInv, FileInv
<1> QED  BY <1>2, <1>3, <1>4, <1>5, <1>6 DEF FlagsInv

LEMMA FlagsInitInv == FdFlagsInit => FlagsInv
<1> SUFFICES ASSUME FdFlagsInit PROVE FlagsInv
  OBVIOUS
<1>1. /\ \A n \in FdNumbers : n \in InTable <=> n \in {0, 1}
      /\ {0, 1} \subseteq FdNumbers /\ InTable = {0, 1}
      /\ refers[0] = "one" /\ refers[1] = "two"
      /\ refers \in [FdNumbers -> OpenFiles \cup {DevNull, "free"}]
  BY FlagsAssumption DEF FdFlagsInit, FdNumbers, OpenFiles, DevNull, InTable
<1>2. \A t \in FlagThreads : flagCall[t] = NoFlagCall
  BY DEF FdFlagsInit
<1>3. FlagFieldsInv
  BY <1>1, <1>2, NoFlagCallTyped DEF FdFlagsInit, FlagFieldsInv
<1>4. ProgramsBlock /\ OthersKept /\ TableInv
  BY <1>1 DEF FdFlagsInit, ProgramsBlock, OthersKept, TableInv
<1>5. /\ NoFlagCall.do = "none" /\ NoFlagCall.rest = <<>> /\ NoFlagCall.got = NoNumber
      /\ NoFlagCall.step = "none"
  BY DEF NoFlagCall
<1>6. \A t \in FlagThreads : CallOwns(t) /\ CallKnows(t)
  BY <1>2, <1>5, NoFlagCallUses DEF CallOwns, CallKnows
<1>8. \A t, u \in FlagThreads : t # u => CallsApart(t, u)
  BY <1>2, <1>5, NoFlagCallUses DEF CallsApart
<1>7. \A f \in OpenFiles \ lax : FileInv(f)
  BY <1>1 DEF FdFlagsInit, FileInv, OpenFiles
<1> QED  BY <1>3, <1>4, <1>6, <1>7, <1>8 DEF FlagsInv

LEMMA SameNumbers ==
    ASSUME NEW c, NEW d, d.fd = c.fd, d.got = c.got, d.rest = c.rest, d.do = c.do
    PROVE  /\ Used(d) = Used(c) /\ FilesOf(d) = FilesOf(c)
           /\ Replaced(d) = Replaced(c) /\ Private(d) = Private(c)
<1>1. Used(d) = Used(c) /\ Replaced(d) = Replaced(c)
  BY DEF Used, Replaced
<1> QED  BY <1>1 DEF FilesOf, Private

LEMMA FlagsMarked ==
    ASSUME NEW c \in FlagCalls, NEW b \in BOOLEAN
    PROVE  LET d == [c EXCEPT !.beside = b]
           IN  /\ d \in FlagCalls /\ Used(d) = Used(c) /\ FilesOf(d) = FilesOf(c)
               /\ Replaced(d) = Replaced(c) /\ Private(d) = Private(c)
               /\ d.do = c.do /\ d.step = c.step /\ d.fd = c.fd /\ d.got = c.got
               /\ d.rest = c.rest /\ d.want = c.want /\ d.read = c.read
               /\ d.kept = c.kept /\ d.before = c.before /\ (d.beside <=> b)
<1> DEFINE d == [c EXCEPT !.beside = b]
<1>1. /\ d \in FlagCalls
      /\ d.do = c.do /\ d.step = c.step /\ d.fd = c.fd /\ d.got = c.got
      /\ d.rest = c.rest /\ d.want = c.want /\ d.read = c.read
      /\ d.kept = c.kept /\ d.before = c.before /\ (d.beside <=> b)
  BY DEF FlagCalls
<1> HIDE DEF d
<1>2. /\ Used(d) = Used(c) /\ FilesOf(d) = FilesOf(c)
      /\ Replaced(d) = Replaced(c) /\ Private(d) = Private(c)
  BY <1>1, SameNumbers
<1> QED  BY <1>1, <1>2 DEF d

\* Where a call begins, both calls on a file know of each other.
LEMMA BeginInv ==
    ASSUME FlagsInv, NEW t \in FlagThreads, NEW c \in FlagCalls, Begin(t, c),
           c.do \in {"exec", "block", "duplicate", "nullify"}, c.step = "read",
           Used(c) \subseteq handed, c.fd \in handed,
           c.rest # <<>> => c.do \in {"exec", "block"},
           c.do # "duplicate" => c.got = NoNumber, c.got # c.fd,
           c.do = "block" => \A n \in Used(c) : refers[n] # DevNull,
           c.do = "nullify" => (c.before <=> c.fd \in closeOnExec)
    PROVE  FlagsInv'
<1> DEFINE d == [c EXCEPT !.beside = Beside(t, c) # {}]
<1>1. /\ d \in FlagCalls /\ Used(d) = Used(c) /\ FilesOf(d) = FilesOf(c)
      /\ Private(d) = Private(c) /\ d.do = c.do /\ d.step = "read"
      /\ d.fd = c.fd /\ d.got = c.got /\ d.rest = c.rest /\ d.before = c.before
      /\ d.want = c.want /\ d.beside <=> Beside(t, c) # {}
  <2>1. (Beside(t, c) # {}) \in BOOLEAN
    OBVIOUS
  <2> QED  BY ZenonT(40), <2>1, FlagsMarked
<1>2. \A u \in FlagThreads : flagCall[u] \in FlagCalls /\ Used(flagCall[u]) \subseteq InTable
  BY UsedInTable DEF FlagsInv, FlagFieldsInv
<1>3. \A u \in FlagThreads \ {t} :
        LET e == flagCall[u]
            g == flagCall'[u]
        IN  /\ g \in FlagCalls /\ Used(g) = Used(e) /\ FilesOf(g) = FilesOf(e)
            /\ Private(g) = Private(e) /\ Replaced(g) = Replaced(e)
            /\ g.do = e.do /\ g.got = e.got /\ (e.beside => g.beside)
            /\ \/ g = e
               \/ g = [e EXCEPT !.beside = TRUE] /\ u \in Beside(t, c)
            /\ u \in Beside(t, c) => g.beside
  <2> SUFFICES ASSUME NEW u \in FlagThreads \ {t}
               PROVE  LET e == flagCall[u]
                          g == flagCall'[u]
                      IN  /\ g \in FlagCalls /\ Used(g) = Used(e) /\ FilesOf(g) = FilesOf(e)
                          /\ Private(g) = Private(e) /\ Replaced(g) = Replaced(e)
                          /\ g.do = e.do /\ g.got = e.got /\ (e.beside => g.beside)
                          /\ \/ g = e
                             \/ g = [e EXCEPT !.beside = TRUE] /\ u \in Beside(t, c)
                          /\ u \in Beside(t, c) => g.beside
    OBVIOUS
  <2>1. CASE u \in Beside(t, c)
    <3>1. flagCall'[u] = [flagCall[u] EXCEPT !.beside = TRUE]
      BY <2>1 DEF Begin
    <3>2. flagCall[u] \in FlagCalls /\ TRUE \in BOOLEAN
      BY <1>2
    <3> DEFINE m == [flagCall[u] EXCEPT !.beside = TRUE]
    <3>3. /\ m \in FlagCalls /\ Used(m) = Used(flagCall[u])
          /\ FilesOf(m) = FilesOf(flagCall[u]) /\ Private(m) = Private(flagCall[u])
          /\ Replaced(m) = Replaced(flagCall[u])
          /\ m.do = flagCall[u].do /\ m.got = flagCall[u].got /\ m.beside
      BY <3>2, FlagsMarked
    <3>4. flagCall'[u] = m
      BY <3>1
    <3> HIDE DEF m
    <3> QED  BY <2>1, <3>1, <3>3, <3>4
  <2>2. CASE u \notin Beside(t, c)
    BY <1>2, <2>2 DEF Begin
  <2> QED  BY <2>1, <2>2
<1>4. flagCall'[t] = d /\ flagCall' \in [FlagThreads -> FlagCalls]
  <2>1. flagCall'[t] = d /\ flagCall' = [u \in FlagThreads |-> flagCall'[u]]
    BY DEF Begin
  <2>2. \A u \in FlagThreads : flagCall'[u] \in FlagCalls
    BY <1>1, <1>3, <2>1
  <2> QED  BY <2>1, <2>2
<1>5. /\ UNCHANGED <<refers, closeOnExec, status, handed, programs, lax, append, torn>>
      /\ flagCall[t] = NoFlagCall /\ InTable' = InTable
  BY DEF Begin, Calling, InTable
<1> HIDE DEF d
<1>6. FlagFieldsInv' /\ ProgramsBlock' /\ OthersKept'
  BY <1>4, <1>5 DEF FlagsInv, FlagFieldsInv, ProgramsBlock, OthersKept
<1>7. CallOwns(t)' /\ CallKnows(t)'
  <2>1. c.do = "block" => \A n \in Used(c) : refers[n] \in OpenFiles
    BY UsedNumbers DEF FlagsInv, FlagFieldsInv, InTable
  <2> QED  BY <1>1, <1>4, <1>5, <2>1 DEF CallOwns, CallKnows
<1>8. \A u \in FlagThreads \ {t} : CallOwns(u)' /\ CallKnows(u)'
  <2> SUFFICES ASSUME NEW u \in FlagThreads \ {t} PROVE CallOwns(u)' /\ CallKnows(u)'
    OBVIOUS
  <2> DEFINE e == flagCall[u]
             g == flagCall'[u]
  <2>1. CallOwns(u) /\ CallKnows(u) /\ e \in FlagCalls /\ g \in FlagCalls /\ Used(g) = Used(e)
    BY <1>2, <1>3 DEF FlagsInv
  <2>2. CASE g = e
    BY <1>5, <2>1, <2>2 DEF CallOwns, CallKnows
  <2>3. CASE g = [e EXCEPT !.beside = TRUE] /\ u \in Beside(t, c)
    <3>1. /\ g.do = e.do /\ g.step = e.step /\ g.fd = e.fd /\ g.got = e.got /\ g.rest = e.rest
          /\ g.kept = e.kept /\ g.want = e.want /\ g.read = e.read /\ g.before = e.before
          /\ g.beside
      BY <2>1, <2>3 DEF FlagCalls
    <3>2. e.do # "none"
      BY <2>1, <2>3 DEF CallOwns, Beside, Calling
    <3>3. CallOwns(u)'
      BY <1>5, <2>1, <3>1, <3>2 DEF CallOwns
    <3>4. CallKnows(u)'
      BY <1>5, <2>1, <3>1 DEF CallKnows
    <3> QED  BY <3>3, <3>4
  <2> QED  BY <1>3, <2>2, <2>3
<1>9. \A u, v \in FlagThreads : u # v => CallsApart(u, v)'
  <2>1. \A u \in FlagThreads \ {t} :
          LET g == flagCall'[u]
          IN  /\ Private(g) \cap Used(d) = {} /\ Private(d) \cap Used(g) = {}
              /\ Used(g) \cap Used(d) # {} \/ FilesOf(g) \cap FilesOf(d) # {} =>
                   g.beside /\ d.beside
    <3> SUFFICES ASSUME NEW u \in FlagThreads \ {t}
                 PROVE  LET g == flagCall'[u]
                        IN  /\ Private(g) \cap Used(d) = {} /\ Private(d) \cap Used(g) = {}
                            /\ Used(g) \cap Used(d) # {} \/ FilesOf(g) \cap FilesOf(d) # {} =>
                                 g.beside /\ d.beside
      OBVIOUS
    <3> DEFINE e == flagCall[u]
               g == flagCall'[u]
    <3>1. /\ Used(g) = Used(e) /\ FilesOf(g) = FilesOf(e) /\ Private(g) = Private(e)
          /\ e \in FlagCalls /\ CallOwns(u) /\ Used(e) \subseteq InTable
          /\ u \in Beside(t, c) => g.beside
      BY <1>2, <1>3 DEF FlagsInv
    <3>2. Replaced(e) \cap Used(c) = {} /\ Used(e) \cap Replaced(c) = {}
      BY DEF Begin
    <3>3. Private(e) \cap Used(c) = {}
      <4>1. CASE e.do = "nullify"
        <5>1. /\ e.rest = <<>> /\ (e.got = NoNumber \/ e.got \notin handed)
              /\ e.fd \notin Used(c)
          BY <3>1, <3>2, <4>1 DEF CallOwns, Replaced
        <5>2. \A n \in Used(c) : n \in FdNumbers /\ n # NoNumber
          BY UsedNumbers DEF NoNumber, FdNumbers
        <5> QED  BY <3>1, <4>1, <5>1, <5>2, UsedNumbers DEF Private
      <4>2. CASE e.do # "nullify"
        BY <3>2, <4>2 DEF Private
      <4> QED  BY <4>1, <4>2
    <3>4. Private(c) \cap Used(e) = {}
      <4>1. CASE c.do = "nullify"
        <5>1. \A n \in Used(c) : n = c.fd
          BY <4>1, UsedNumbers DEF NoNumber, FdNumbers
        <5> QED  BY <3>2, <4>1, <5>1 DEF Private, Replaced
      <4>2. CASE c.do # "nullify"
        BY <3>2, <4>2 DEF Private
      <4> QED  BY <4>1, <4>2
    <3>5. Used(e) \cap Used(c) # {} => FilesOf(e) \cap FilesOf(c) # {}
      <4>1. \A n \in Used(e) \cap Used(c) : refers[n] \in FilesOf(e) \cap FilesOf(c)
        BY <3>1 DEF FilesOf, InTable
      <4> QED  BY <4>1
    <3>6. FilesOf(e) \cap FilesOf(c) # {} => u \in Beside(t, c)
      <4>1. Used(NoFlagCall) = {}
        BY NoFlagCallUses
      <4>2. FilesOf(e) # {} => e # NoFlagCall
        BY <4>1 DEF FilesOf
      <4> QED  BY <4>2 DEF Beside, Calling
    <3> QED  BY <1>1, <3>1, <3>3, <3>4, <3>5, <3>6
  <2>2. \A u, v \in FlagThreads \ {t} : u # v => CallsApart(u, v)'
    <3> SUFFICES ASSUME NEW u \in FlagThreads \ {t}, NEW v \in FlagThreads \ {t}, u # v
                 PROVE  CallsApart(u, v)'
      OBVIOUS
    <3>1. CallsApart(u, v)
      BY DEF FlagsInv
    <3>2. \A w \in FlagThreads \ {t} : FilesOf(flagCall[w])' = FilesOf(flagCall'[w])
      BY <1>5 DEF FilesOf
    <3>3. \A w \in {u, v} :
            LET e == flagCall[w]
                g == flagCall'[w]
            IN  /\ Used(g) = Used(e) /\ Private(g) = Private(e) /\ g.do = e.do
                /\ FilesOf(flagCall[w])' = FilesOf(e) /\ (e.beside => g.beside)
      BY <1>3, <3>2
    <3> QED  BY <3>1, <3>3 DEF CallsApart
  <2>3. \A w \in FlagThreads : FilesOf(flagCall[w])' = FilesOf(flagCall'[w])
    BY <1>5 DEF FilesOf
  <2>4. \A u \in FlagThreads \ {t} : CallsApart(u, t)' /\ CallsApart(t, u)'
    BY <1>4, <2>1, <2>3 DEF CallsApart
  <2> QED  BY <2>2, <2>4
<1>10. TableInv'
  <2>1. \A u \in FlagThreads : flagCall[u].do = "nullify" =>
           flagCall'[u].do = "nullify" /\ flagCall'[u].got = flagCall[u].got
    <3>1. NoFlagCall.do # "nullify"
      BY DEF NoFlagCall
    <3>2. \A u \in FlagThreads \ {t} :
            flagCall'[u].do = flagCall[u].do /\ flagCall'[u].got = flagCall[u].got
      BY <1>3
    <3> QED  BY <1>5, <3>1, <3>2
  <2> QED  BY <1>5, <2>1 DEF FlagsInv, TableInv
<1>11. \A f \in OpenFiles \ lax' : FileInv(f)'
  BY <1>5 DEF FlagsInv, FileInv
<1> QED  BY <1>6, <1>7, <1>8, <1>9, <1>10, <1>11 DEF FlagsInv

LEMMA BeginFlagInv ==
    ASSUME FlagsInv, NEW t \in FlagThreads, BeginFlag(t)
    PROVE  FlagsInv'
<1>1. PICK do \in {"exec", "block"}, n \in handed, want \in BOOLEAN,
           rest \in {<<>>} \cup {<<k>> : k \in handed} :
        /\ do = "block" => DevNull \notin {refers[n]} \cup {refers[rest[i]] : i \in 1 .. Len(rest)}
        /\ Begin(t, [NoFlagCall EXCEPT !.do = do, !.step = "read", !.fd = n, !.rest = rest,
                                       !.want = want])
  BY DEF BeginFlag
<1> DEFINE c == [NoFlagCall EXCEPT !.do = do, !.step = "read", !.fd = n, !.rest = rest,
                                   !.want = want]
<1>2. handed \subseteq FdNumbers /\ n \in FdNumbers /\ NoNumber \notin FdNumbers
  BY DEF FlagsInv, FlagFieldsInv, InTable, NoNumber, FdNumbers
<1>3. rest \in {<<>>} \cup {<<k>> : k \in FdNumbers}
  BY <1>2
<1>4. /\ c \in FlagCalls /\ c.do = do /\ c.step = "read" /\ c.fd = n /\ c.rest = rest
      /\ c.got = NoNumber
  BY <1>2, <1>3 DEF NoFlagCall, FlagCalls
<1>5. Begin(t, c)
  BY <1>1
<1> HIDE DEF c
<1>6. rest # <<>> => Len(rest) = 1 /\ Head(rest) = rest[1] /\ rest[1] \in handed
  BY <1>2
<1>7. \A k \in Used(c) : k = n \/ (rest # <<>> /\ k = rest[1])
  BY <1>2, <1>4, <1>6, UsedNumbers
<1>8. \A k \in Used(c) : k \in handed /\ (do = "block" => refers[k] # DevNull)
  BY <1>1, <1>6, <1>7
<1> QED  BY <1>2, <1>4, <1>5, <1>8, BeginInv

LEMMA BeginDuplicateInv ==
    ASSUME FlagsInv, NEW t \in FlagThreads, BeginDuplicate(t)
    PROVE  FlagsInv'
<1>1. PICK n \in handed, target \in handed \cup {NoNumber} :
        n # target /\ Begin(t, [NoFlagCall EXCEPT !.do = "duplicate", !.step = "read", !.fd = n,
                                                  !.got = target])
  BY DEF BeginDuplicate
<1> DEFINE c == [NoFlagCall EXCEPT !.do = "duplicate", !.step = "read", !.fd = n,
                                   !.got = target]
<1>2. handed \subseteq FdNumbers /\ n \in FdNumbers /\ NoNumber \notin FdNumbers
  BY DEF FlagsInv, FlagFieldsInv, InTable, NoNumber, FdNumbers
<1>3. /\ c \in FlagCalls /\ c.do = "duplicate" /\ c.step = "read" /\ c.fd = n /\ c.rest = <<>>
      /\ c.got = target
  BY <1>2 DEF NoFlagCall, FlagCalls
<1>4. Begin(t, c) /\ n # target
  BY <1>1
<1> HIDE DEF c
<1>5. \A k \in Used(c) : k \in handed
  BY <1>2, <1>3, UsedNumbers
<1> QED  BY <1>2, <1>3, <1>4, <1>5, BeginInv

LEMMA BeginNullifyInv ==
    ASSUME FlagsInv, NEW t \in FlagThreads, BeginNullify(t)
    PROVE  FlagsInv'
<1>1. PICK n \in handed :
        Begin(t, [NoFlagCall EXCEPT !.do = "nullify", !.step = "read", !.fd = n,
                                    !.before = n \in closeOnExec])
  BY DEF BeginNullify
<1> DEFINE c == [NoFlagCall EXCEPT !.do = "nullify", !.step = "read", !.fd = n,
                                   !.before = n \in closeOnExec]
<1>2. handed \subseteq FdNumbers /\ n \in FdNumbers /\ NoNumber \notin FdNumbers
  BY DEF FlagsInv, FlagFieldsInv, InTable, NoNumber, FdNumbers
<1>3. (n \in closeOnExec) \in BOOLEAN
  OBVIOUS
<1>4. /\ c \in FlagCalls /\ c.do = "nullify" /\ c.step = "read" /\ c.fd = n /\ c.rest = <<>>
      /\ c.got = NoNumber
  BY <1>2, <1>3 DEF NoFlagCall, FlagCalls
<1>5. c.before <=> n \in closeOnExec
  BY DEF NoFlagCall
<1>6. Begin(t, c)
  BY <1>1
<1> HIDE DEF c
<1>7. \A k \in Used(c) : k \in handed
  BY <1>2, <1>4, UsedNumbers
<1> QED  BY <1>2, <1>4, <1>5, <1>6, <1>7, BeginInv

LEMMA ReturnFlagInv ==
    ASSUME FlagsInv, NEW t \in FlagThreads, ReturnFlag(t)
    PROVE  FlagsInv'
<1>1. /\ flagCall \in [FlagThreads -> FlagCalls] /\ CallOwns(t)
      /\ flagCall' = [flagCall EXCEPT ![t] = NoFlagCall] /\ flagCall'[t] = NoFlagCall
      /\ flagCall[t].step \in {"done", "failed"}
  BY DEF ReturnFlag, FlagsInv, FlagFieldsInv
<1>2. NoFlagCall.do = "none" /\ NoFlagCall.rest = <<>>
  BY DEF NoFlagCall
<1>3. CallOwns(t)' /\ CallKnows(t)'
  BY <1>1, <1>2, NoFlagCallUses DEF CallOwns, CallKnows
<1>4. ~(flagCall[t].do = "nullify" /\ flagCall[t].got # NoNumber)
  BY <1>1 DEF CallOwns
<1> QED  BY <1>1, <1>2, <1>3, <1>4, NoFlagCallTyped, NoFlagCallUses, CallGoesOn
         DEF ReturnFlag

\* The call of t with another step.
LEMMA Stepped ==
    ASSUME NEW c \in FlagCalls,
           NEW came \in {"read", "check", "write", "open", "replace", "close", "drop", "done",
                         "failed"}
    PROVE  LET d == [c EXCEPT !.step = came]
           IN  /\ d \in FlagCalls /\ Used(d) = Used(c) /\ Private(d) = Private(c)
               /\ d.do = c.do /\ d.fd = c.fd /\ d.got = c.got /\ d.rest = c.rest
               /\ d.want = c.want /\ d.read = c.read /\ d.kept = c.kept
               /\ d.before = c.before /\ d.beside = c.beside /\ d.step = came
<1> DEFINE d == [c EXCEPT !.step = came]
<1>1. /\ d \in FlagCalls
      /\ d.do = c.do /\ d.fd = c.fd /\ d.got = c.got /\ d.rest = c.rest
      /\ d.want = c.want /\ d.read = c.read /\ d.kept = c.kept
      /\ d.before = c.before /\ d.beside = c.beside /\ d.step = came
  BY DEF FlagCalls
<1> HIDE DEF d
<1>2. Used(d) = Used(c) /\ Private(d) = Private(c)
  BY <1>1, SameNumbers
<1> QED  BY <1>1, <1>2 DEF d

LEMMA GoesInv ==
    ASSUME FlagsInv, NEW t \in FlagThreads,
           NEW came \in {"read", "check", "write", "open", "replace", "close", "drop", "done",
                         "failed"},
           Goes(t, came),
           UNCHANGED <<refers, closeOnExec, status, handed, programs, lax, append, torn>>,
           \/ /\ came = "failed" /\ flagCall[t].do # "none"
              /\ flagCall[t].do = "nullify" => flagCall[t].got = NoNumber
           \/ CallAt(t, "nullify", "replace") /\ came = "drop"
           \/ /\ CallAt(t, "exec", "read") /\ came = "write"
           \/ /\ CallAt(t, "block", "check") /\ came = "write" /\ MayNotBlock(t)
    PROVE  FlagsInv'
<1> DEFINE c == flagCall[t]
           d == [c EXCEPT !.step = came]
<1>1. /\ c \in FlagCalls /\ CallOwns(t) /\ CallKnows(t) /\ flagCall' = [flagCall EXCEPT ![t] = d]
      /\ flagCall'[t] = d
  BY DEF FlagsInv, FlagFieldsInv, Goes
<1>2. /\ d \in FlagCalls /\ Used(d) = Used(c) /\ Private(d) = Private(c)
      /\ d.do = c.do /\ d.fd = c.fd /\ d.got = c.got /\ d.rest = c.rest
      /\ d.want = c.want /\ d.read = c.read /\ d.kept = c.kept
      /\ d.before = c.before /\ d.beside = c.beside /\ d.step = came
  BY ZenonT(40), <1>1, Stepped
<1> HIDE DEF d
<1>3. InTable' = InTable
  BY DEF InTable
<1>4. CallOwns(t)'
  BY <1>1, <1>2, <1>3 DEF CallOwns, CallAt
<1>5. CallKnows(t)'
  BY <1>1, <1>2 DEF CallOwns, CallKnows, CallAt, MayNotBlock, This
<1>6. d.do # "none"
  BY <1>2 DEF CallAt
<1> QED  BY <1>1, <1>2, <1>4, <1>5, <1>6, CallGoesOn

LEMMA FlagFailsInv ==
    ASSUME FlagsInv, NEW t \in FlagThreads, FlagFails(t)
    PROVE  FlagsInv'
<1>1. CallOwns(t)
  BY DEF FlagsInv
<1>2. flagCall[t].do # "none"
  BY <1>1 DEF FlagFails, CallOwns, NoFlagCall
<1>3. CASE CallAt(t, "nullify", "replace")
  BY <1>3, GoesInv DEF FlagFails
<1>4. CASE ~CallAt(t, "nullify", "replace")
  <2>1. flagCall[t].do = "nullify" => flagCall[t].got = NoNumber
    BY <1>1, <1>4 DEF CallAt, CallOwns, FlagFails
  <2> QED  BY <1>2, <1>4, <2>1, GoesInv DEF FlagFails
<1> QED  BY <1>3, <1>4

\* What is set is set: the call is done, or goes on with the other end.
LEMMA Settled ==
    ASSUME FlagsInv, NEW t \in FlagThreads, Settle(t), flagCall[t].do \in {"exec", "block"}
    PROVE  LET c == flagCall[t]
               d == flagCall'[t]
           IN  /\ flagCall' = [flagCall EXCEPT ![t] = d] /\ d \in FlagCalls
               /\ Used(d) = Used(c) /\ Private(d) = Private(c)
               /\ d.do = c.do /\ d.want = c.want /\ d.beside = c.beside /\ d.rest = <<>>
               /\ c.rest = <<>> => d.step = "done" /\ d.fd = c.fd /\ d.got = c.got
               /\ c.rest # <<>> => d.step = "read" /\ d.got = c.fd /\ d.fd \in handed
<1> DEFINE c == flagCall[t]
<1>1. /\ c \in FlagCalls /\ CallOwns(t) /\ handed \subseteq FdNumbers
      /\ flagCall \in [FlagThreads -> FlagCalls]
  BY DEF FlagsInv, FlagFieldsInv, InTable
<1>2. c.fd \in FdNumbers /\ NoNumber \notin FdNumbers /\ c.fd # NoNumber
  <2>1. c.fd \in handed
    BY <1>1 DEF CallOwns
  <2>2. c.fd \in FdNumbers
    BY <1>1, <2>1
  <2>3. NoNumber \notin FdNumbers
    BY DEF NoNumber, FdNumbers
  <2> QED  BY <2>2, <2>3
<1>3. CASE c.rest = <<>>
  <2> DEFINE d == [c EXCEPT !.step = "done"]
  <2>1. flagCall' = [flagCall EXCEPT ![t] = d]
    BY <1>3 DEF Settle
  <2>2. /\ d \in FlagCalls /\ Used(d) = Used(c) /\ Private(d) = Private(c)
        /\ d.do = c.do /\ d.want = c.want /\ d.beside = c.beside /\ d.rest = c.rest
        /\ d.step = "done" /\ d.fd = c.fd /\ d.got = c.got
    BY <1>1, Stepped
  <2> HIDE DEF d
  <2>3. flagCall'[t] = d
    BY <1>1, <2>1
  <2> QED  BY <1>3, <2>1, <2>2, <2>3
<1>4. CASE c.rest # <<>>
  <2> DEFINE d == [c EXCEPT !.step = "read", !.fd = Head(c.rest), !.got = c.fd, !.rest = <<>>]
  <2>1. flagCall' = [flagCall EXCEPT ![t] = d]
    BY <1>4 DEF Settle, This
  <2>2. Head(c.rest) \in FdNumbers /\ Head(c.rest) \in handed /\ c.got = NoNumber
    BY <1>1, <1>4, UsedNumbers DEF CallOwns
  <2>3. /\ d \in FlagCalls /\ d.do = c.do /\ d.want = c.want /\ d.beside = c.beside
        /\ d.step = "read" /\ d.got = c.fd /\ d.fd = Head(c.rest) /\ d.rest = <<>>
    BY <1>1, <1>2, <2>2 DEF FlagCalls
  <2> HIDE DEF d
  <2>4. Used(d) = Used(c)
    <3>1. \A n \in FdNumbers : n \in Used(d) <=> n \in Used(c)
      BY <1>1, <1>2, <1>4, <2>2, <2>3, UsedNumbers
    <3> QED  BY <1>1, <2>3, <3>1, UsedNumbers
  <2>5. Private(d) = Private(c)
    BY <2>3 DEF Private, Replaced
  <2>6. flagCall'[t] = d
    BY <1>1, <2>1
  <2> QED  BY <1>4, <2>1, <2>2, <2>3, <2>4, <2>5, <2>6
<1> QED  BY <1>3, <1>4

LEMMA ReadExecInv ==
    ASSUME FlagsInv, NEW t \in FlagThreads, ReadExec(t)
    PROVE  FlagsInv'
<1> DEFINE c == flagCall[t]
           d == flagCall'[t]
<1>1. c \in FlagCalls /\ CallOwns(t) /\ CallKnows(t)
  BY DEF FlagsInv, FlagFieldsInv
<1>2. CASE ~(This(t) \in closeOnExec <=> c.want)
  BY <1>2, GoesInv DEF ReadExec
<1>3. CASE This(t) \in closeOnExec <=> c.want
  <2>1. Settle(t) /\ c.do = "exec" /\ c.step = "read" /\ (c.fd \in closeOnExec <=> c.want)
    BY <1>3 DEF ReadExec, CallAt, This
  <2>2. /\ flagCall' = [flagCall EXCEPT ![t] = d] /\ d \in FlagCalls
        /\ Used(d) = Used(c) /\ Private(d) = Private(c)
        /\ d.do = c.do /\ d.want = c.want /\ d.beside = c.beside /\ d.rest = <<>>
        /\ c.rest = <<>> => d.step = "done" /\ d.fd = c.fd /\ d.got = c.got
        /\ c.rest # <<>> => d.step = "read" /\ d.got = c.fd /\ d.fd \in handed
    BY <2>1, Settled
  <2>3. CallOwns(t)'
    BY <1>1, <2>1, <2>2 DEF CallOwns, ReadExec
  <2>4. CallKnows(t)'
    BY <1>1, <1>3, <2>1, <2>2 DEF CallKnows, ReadExec, This
  <2> QED  BY <2>1, <2>2, <2>3, <2>4, CallGoesOn DEF ReadExec
<1> QED  BY <1>2, <1>3

LEMMA ReadBlockInv ==
    ASSUME FlagsInv, NEW t \in FlagThreads, ReadBlock(t)
    PROVE  FlagsInv'
<1> DEFINE c == flagCall[t]
           d == flagCall'[t]
           f == refers[c.fd]
<1>1. /\ c \in FlagCalls /\ CallOwns(t) /\ CallKnows(t) /\ c.do = "block" /\ c.step = "read"
      /\ flagCall \in [FlagThreads -> FlagCalls]
      /\ status \in [OpenFiles -> [nonBlocking : BOOLEAN, append : BOOLEAN]]
  BY DEF FlagsInv, FlagFieldsInv, ReadBlock, CallAt
<1>2. c.fd \in Used(c) /\ f \in OpenFiles
  <2>1. c.fd \in handed /\ handed \subseteq FdNumbers
    BY <1>1 DEF CallOwns, FlagsInv, FlagFieldsInv, InTable
  <2>2. c.fd \in Used(c)
    BY <1>1, <2>1, UsedNumbers
  <2> QED  BY <1>1, <2>2 DEF CallOwns
<1>3. CASE status[f].nonBlocking <=> c.want
  <2>1. Settle(t)
    BY <1>3 DEF ReadBlock, This
  <2>2. /\ flagCall' = [flagCall EXCEPT ![t] = d] /\ d \in FlagCalls
        /\ Used(d) = Used(c) /\ Private(d) = Private(c)
        /\ d.do = c.do /\ d.want = c.want /\ d.beside = c.beside /\ d.rest = <<>>
        /\ c.rest = <<>> => d.step = "done" /\ d.fd = c.fd /\ d.got = c.got
        /\ c.rest # <<>> => d.step = "read" /\ d.got = c.fd /\ d.fd \in handed
    BY <1>1, <2>1, Settled
  <2>3. CallOwns(t)'
    BY <1>1, <2>2 DEF CallOwns, ReadBlock
  <2>4. CallKnows(t)'
    BY <1>1, <1>3, <2>2 DEF CallKnows, ReadBlock
  <2> QED  BY <1>1, <2>2, <2>3, <2>4, CallGoesOn DEF ReadBlock
<1>4. CASE ~(status[f].nonBlocking <=> c.want)
  <2> DEFINE s == IF c.want THEN "check" ELSE "write"
             e == [c EXCEPT !.step = s, !.kept = status[f].append]
  <2>1. flagCall' = [flagCall EXCEPT ![t] = e]
    BY <1>4 DEF ReadBlock, This
  <2>2. status[f].append \in BOOLEAN
    BY <1>1, <1>2
  <2>3. /\ e \in FlagCalls /\ e.do = c.do /\ e.fd = c.fd /\ e.got = c.got /\ e.rest = c.rest
        /\ e.want = c.want /\ e.beside = c.beside
        /\ e.step = s /\ (e.kept <=> status[f].append)
    BY <1>1, <2>2 DEF FlagCalls
  <2> HIDE DEF e
  <2>4. Used(e) = Used(c) /\ Private(e) = Private(c)
    BY <2>3, SameNumbers
  <2>5. flagCall'[t] = e
    BY <1>1, <2>1
  <2>6. f \in torn \/ (e.kept <=> append[f])
    BY <1>2, <2>3 DEF FlagsInv, OthersKept
  <2>7. CallOwns(t)'
    BY <1>1, <2>3, <2>4, <2>5 DEF CallOwns, ReadBlock
  <2>8. CallKnows(t)'
    BY <1>1, <2>3, <2>5, <2>6 DEF CallKnows, ReadBlock
  <2> QED  BY <1>1, <2>1, <2>3, <2>4, <2>7, <2>8, CallGoesOn DEF ReadBlock
<1> QED  BY <1>3, <1>4

LEMMA CheckBlockInv ==
    ASSUME FlagsInv, NEW t \in FlagThreads, CheckBlock(t)
    PROVE  FlagsInv'
<1>1. CASE MayNotBlock(t)
  BY <1>1, GoesInv DEF CheckBlock
<1>2. CASE ~MayNotBlock(t)
  BY <1>2, GoesInv DEF CheckBlock, CallAt
<1> QED  BY <1>1, <1>2

LEMMA ReadDuplicateInv ==
    ASSUME FlagsInv, NEW t \in FlagThreads, ReadDuplicate(t)
    PROVE  FlagsInv'
<1> DEFINE c == flagCall[t]
           s == IF c.do = "nullify" THEN "open" ELSE "replace"
           d == [c EXCEPT !.read = This(t) \in closeOnExec, !.step = s]
<1>1. /\ c \in FlagCalls /\ CallOwns(t) /\ CallKnows(t)
      /\ c.do \in {"duplicate", "nullify"} /\ c.step = "read"
      /\ flagCall' = [flagCall EXCEPT ![t] = d] /\ flagCall'[t] = d
  BY DEF FlagsInv, FlagFieldsInv, ReadDuplicate
<1>2. (This(t) \in closeOnExec) \in BOOLEAN
  OBVIOUS
<1>3. /\ d \in FlagCalls /\ d.do = c.do /\ d.fd = c.fd /\ d.got = c.got /\ d.rest = c.rest
      /\ d.want = c.want /\ d.beside = c.beside /\ d.before = c.before /\ d.step = s
  BY <1>1, <1>2 DEF FlagCalls
<1>4. d.read <=> c.fd \in closeOnExec
  BY <1>1 DEF FlagCalls, This
<1> HIDE DEF d
<1>5. Used(d) = Used(c) /\ Private(d) = Private(c)
  BY <1>3, SameNumbers
<1>6. CallOwns(t)'
  BY <1>1, <1>3, <1>5 DEF CallOwns, ReadDuplicate, InTable
<1>7. CallKnows(t)'
  BY <1>1, <1>3, <1>4 DEF CallKnows, ReadDuplicate
<1>8. c.do = "nullify" => c.got = NoNumber
  BY <1>1 DEF CallOwns
<1> QED  BY <1>1, <1>3, <1>5, <1>6, <1>7, <1>8, CallGoesOn DEF ReadDuplicate

\* A number and its flag, when a number gets a flag or loses it.
LEMMA FlaggedIs ==
    ASSUME NEW n, NEW flag \in BOOLEAN, NEW k
    PROVE  k \in Flagged(n, flag) <=> (IF k = n THEN flag ELSE k \in closeOnExec)
BY DEF Flagged

\* Where the flags of a file differ, it is among those of which no more is said.
LEMMA NotMixed ==
    ASSUME Mixed \subseteq lax', NEW f \in OpenFiles \ lax', NEW n \in InTable', NEW k \in InTable',
           refers'[n] = f, refers'[k] = f
    PROVE  n \in closeOnExec' <=> k \in closeOnExec'
BY DEF Mixed

LEMMA WriteExecInv ==
    ASSUME FlagsInv, NEW t \in FlagThreads, WriteExec(t)
    PROVE  FlagsInv'
<1> DEFINE c == flagCall[t]
           d == flagCall'[t]
           S == IF c.want THEN {refers[c.fd]} \cap programs ELSE {refers[c.fd]} \ {DevNull}
<1>1. /\ c \in FlagCalls /\ CallOwns(t) /\ CallKnows(t) /\ c.do = "exec" /\ c.step = "write"
      /\ flagCall \in [FlagThreads -> FlagCalls]
      /\ UNCHANGED <<refers, status, handed, programs, append, torn>>
      /\ lax' = lax \cup Mixed \cup S
  BY DEF FlagsInv, FlagFieldsInv, WriteExec, CallAt, This
<1>2. /\ flagCall' = [flagCall EXCEPT ![t] = d] /\ d \in FlagCalls
      /\ Used(d) = Used(c) /\ Private(d) = Private(c)
      /\ d.do = c.do /\ d.want = c.want /\ d.beside = c.beside /\ d.rest = <<>>
      /\ c.rest = <<>> => d.step = "done" /\ d.fd = c.fd /\ d.got = c.got
      /\ c.rest # <<>> => d.step = "read" /\ d.got = c.fd /\ d.fd \in handed
  BY <1>1, Settled DEF WriteExec
<1>3. \A u \in FlagThreads \ {t} : flagCall'[u] = flagCall[u]
  BY <1>1, <1>2
<1>4. InTable' = InTable
  BY <1>1 DEF InTable
<1>5. c.fd \in handed /\ handed \subseteq InTable /\ InTable \subseteq FdNumbers
      /\ c.fd \in Used(c) /\ c.want \in BOOLEAN
  <2>1. c.fd \in handed /\ handed \subseteq InTable /\ InTable \subseteq FdNumbers
    BY <1>1 DEF CallOwns, FlagsInv, FlagFieldsInv, InTable
  <2>2. c.want \in BOOLEAN
    BY <1>1 DEF FlagCalls
  <2> QED  BY <1>1, <2>1, <2>2, UsedNumbers
<1>6. \A n \in FdNumbers :
        n \in closeOnExec' <=> (IF n = c.fd THEN c.want ELSE n \in closeOnExec)
  BY <1>5, FlaggedIs DEF WriteExec, This
<1>7. Mixed \subseteq OpenFiles /\ S \subseteq OpenFiles
  <2>1. refers[c.fd] \in OpenFiles \cup {DevNull} /\ programs \subseteq OpenFiles
    BY <1>5 DEF FlagsInv, FlagFieldsInv, InTable
  <2> QED  BY <2>1 DEF Mixed
<1>8. FlagFieldsInv'
  <2>1. closeOnExec' \subseteq InTable
    BY <1>5 DEF FlagsInv, FlagFieldsInv, WriteExec, Flagged, This
  <2> HIDE DEF S
  <2> QED  BY <1>1, <1>2, <1>4, <1>7, <2>1 DEF FlagsInv, FlagFieldsInv
<1>9. CallOwns(t)'
  BY <1>1, <1>2, <1>4 DEF CallOwns
<1>10. CallKnows(t)'
  <2>1. c.got \in FdNumbers \cup {NoNumber}
    BY <1>1 DEF FlagCalls
  <2> QED  BY <1>1, <1>2, <1>5, <1>6, <2>1 DEF CallKnows
<1>11. \A u \in FlagThreads \ {t} : CallOwns(u)' /\ CallKnows(u)'
  <2> SUFFICES ASSUME NEW u \in FlagThreads \ {t} PROVE CallOwns(u)' /\ CallKnows(u)'
    OBVIOUS
  <2> DEFINE e == flagCall[u]
  <2>1. /\ e \in FlagCalls /\ Used(e) \subseteq FdNumbers /\ CallsApart(u, t) /\ CallOwns(u)
    BY UsedNumbers DEF FlagsInv, FlagFieldsInv
  <2>2. c.fd \in Used(e) => e.beside /\ e.do # "nullify"
    BY <1>5, <2>1 DEF CallsApart, Private
  <2>3. e.beside \/ \A n \in Used(e) : n \in closeOnExec' <=> n \in closeOnExec
    BY <1>6, <2>1, <2>2
  <2>4. e.do = "nullify" => \A n \in Used(e) : n \in closeOnExec' <=> n \in closeOnExec
    BY <1>6, <2>1, <2>2
  <2>5. e.do = "block" => \A n \in Used(e) :
          refers[n] \in lax' \/ n \notin closeOnExec \/ n \in closeOnExec'
    <3>1. e.do = "block" => \A n \in Used(e) : refers[n] \in OpenFiles
      BY <2>1 DEF CallOwns
    <3>2. DevNull \notin OpenFiles
      BY DEF DevNull, OpenFiles
    <3> QED  BY <1>1, <1>6, <2>1, <3>1, <3>2
  <2>6. /\ refers' \in [FdNumbers -> OpenFiles \cup {DevNull, "free"}]
        /\ lax \subseteq lax'
    BY <1>1, <1>8 DEF FlagFieldsInv
  <2>7. e.got \notin InTable \ handed \/ e.got \notin handed'
    BY <1>1
  <2> QED  BY <1>1, <1>3, <2>3, <2>4, <2>5, <2>6, <2>7, OtherCall
<1>12. \A u, v \in FlagThreads : u # v => CallsApart(u, v)'
  BY <1>1, <1>2, <1>3, StayApart
<1>13. TableInv'
  <2>1. \A u \in FlagThreads : flagCall[u].do = "nullify" => flagCall'[u] = flagCall[u]
    BY <1>1, <1>3
  <2> QED  BY <1>1, <1>4, <2>1 DEF FlagsInv, TableInv
<1>14. ProgramsBlock' /\ OthersKept'
  BY <1>1 DEF FlagsInv, ProgramsBlock, OthersKept
<1>15. \A f \in OpenFiles \ lax' : FileInv(f)'
  <2> SUFFICES ASSUME NEW f \in OpenFiles \ lax' PROVE FileInv(f)'
    OBVIOUS
  <2>1. f \notin lax /\ FileInv(f) /\ f # DevNull
    BY <1>1 DEF FlagsInv, DevNull, OpenFiles
  <2>2. \A n, k \in InTable : refers[n] = f /\ refers[k] = f =>
          (n \in closeOnExec' <=> k \in closeOnExec')
    BY <1>1, <1>4, NotMixed
  <2>3. refers[c.fd] = f => c.want /\ f \notin programs
    BY <1>1, <2>1
  <2>4. \A n \in InTable : refers[n] = f =>
          /\ f \in programs => n \notin closeOnExec'
          /\ status[f].nonBlocking => n \in closeOnExec'
    <3> SUFFICES ASSUME NEW n \in InTable, refers[n] = f
                 PROVE  /\ f \in programs => n \notin closeOnExec'
                        /\ status[f].nonBlocking => n \in closeOnExec'
      OBVIOUS
    <3>1. CASE refers[c.fd] = f
      <4>1. c.fd \in closeOnExec' /\ f \notin programs
        BY <1>5, <1>6, <2>3, <3>1
      <4> QED  BY <1>5, <2>2, <3>1, <4>1
    <3>2. CASE refers[c.fd] # f
      BY <1>5, <1>6, <2>1, <3>2 DEF FileInv
    <3> QED  BY <3>1, <3>2
  <2> QED  BY <1>1, <1>4, <2>2, <2>4 DEF FileInv
<1> QED  BY <1>8, <1>9, <1>10, <1>11, <1>12, <1>13, <1>14, <1>15 DEF FlagsInv

LEMMA WriteBlockInv ==
    ASSUME FlagsInv, NEW t \in FlagThreads, WriteBlock(t)
    PROVE  FlagsInv'
<1> DEFINE c == flagCall[t]
           d == flagCall'[t]
           g == refers[c.fd]
           s == [nonBlocking |-> c.want, append |-> c.kept]
<1>1. /\ c \in FlagCalls /\ CallOwns(t) /\ CallKnows(t) /\ c.do = "block" /\ c.step = "write"
      /\ flagCall \in [FlagThreads -> FlagCalls]
      /\ UNCHANGED <<refers, closeOnExec, handed, programs, lax, append, torn>>
      /\ status' = [status EXCEPT ![g] = s]
      /\ status \in [OpenFiles -> [nonBlocking : BOOLEAN, append : BOOLEAN]]
  BY DEF FlagsInv, FlagFieldsInv, WriteBlock, CallAt, This, NextStatus
<1>2. /\ flagCall' = [flagCall EXCEPT ![t] = d] /\ d \in FlagCalls
      /\ Used(d) = Used(c) /\ Private(d) = Private(c)
      /\ d.do = c.do /\ d.want = c.want /\ d.beside = c.beside /\ d.rest = <<>>
      /\ c.rest = <<>> => d.step = "done" /\ d.fd = c.fd /\ d.got = c.got
      /\ c.rest # <<>> => d.step = "read" /\ d.got = c.fd /\ d.fd \in handed
  BY <1>1, Settled DEF WriteBlock
<1>3. \A u \in FlagThreads \ {t} : flagCall'[u] = flagCall[u]
  BY <1>1, <1>2
<1>4. InTable' = InTable
  BY <1>1 DEF InTable
<1>5. c.fd \in handed /\ c.fd \in Used(c) /\ c.fd \in InTable /\ g \in OpenFiles
  <2>1. c.fd \in handed /\ handed \subseteq InTable /\ InTable \subseteq FdNumbers
    BY <1>1 DEF CallOwns, FlagsInv, FlagFieldsInv, InTable
  <2>2. c.fd \in Used(c)
    BY <1>1, <2>1, UsedNumbers
  <2> QED  BY <1>1, <2>1, <2>2 DEF CallOwns
<1>6. s \in [nonBlocking : BOOLEAN, append : BOOLEAN] /\ s.nonBlocking = c.want
      /\ s.append = c.kept
  BY <1>1 DEF FlagCalls
<1> HIDE DEF s
<1>7. /\ status' \in [OpenFiles -> [nonBlocking : BOOLEAN, append : BOOLEAN]]
      /\ \A f \in OpenFiles : status'[f] = IF f = g THEN s ELSE status[f]
  BY <1>1, <1>5, <1>6
<1>8. FlagFieldsInv'
  BY <1>1, <1>2, <1>4, <1>7 DEF FlagsInv, FlagFieldsInv
<1>9. CallOwns(t)'
  BY <1>1, <1>2, <1>4 DEF CallOwns
<1>10. CallKnows(t)'
  <2>1. c.got # NoNumber => c.got \in Used(c)
    BY <1>1, UsedNumbers DEF FlagCalls
  <2>2. \A n \in Used(c) : refers[n] \in OpenFiles
    BY <1>1 DEF CallOwns
  <2>3. status'[g].nonBlocking <=> c.want
    BY <1>5, <1>6, <1>7
  <2>4. c.rest = <<>> \/ c.rest # <<>>
    OBVIOUS
  <2>5. c.got # NoNumber /\ ~c.beside => (status'[refers[c.got]].nonBlocking <=> c.want)
    <3>1. c.got # NoNumber /\ ~c.beside => (status[refers[c.got]].nonBlocking <=> c.want)
      BY <1>1 DEF CallKnows
    <3> QED  BY <1>5, <1>7, <2>1, <2>2, <2>3, <3>1
  <2> QED  BY <1>1, <1>2, <2>3, <2>4, <2>5 DEF CallKnows
<1>11. \A u \in FlagThreads \ {t} : CallOwns(u)' /\ CallKnows(u)'
  <2> SUFFICES ASSUME NEW u \in FlagThreads \ {t} PROVE CallOwns(u)' /\ CallKnows(u)'
    OBVIOUS
  <2> DEFINE e == flagCall[u]
  <2>1. /\ e \in FlagCalls /\ CallsApart(u, t) /\ CallOwns(u)
        /\ refers' \in [FdNumbers -> OpenFiles \cup {DevNull, "free"}]
    BY <1>8 DEF FlagsInv, FlagFieldsInv
  <2>2. e.do = "block" => \A n \in Used(e) : refers[n] \in OpenFiles
    BY <2>1 DEF CallOwns
  <2>3. e.do = "block" => \A n \in Used(e) : refers[n] = g => e.beside
    <3>1. g \in FilesOf(c)
      BY <1>5 DEF FilesOf, OpenFiles
    <3>2. e.do = "block" => \A n \in Used(e) : refers[n] \in FilesOf(e)
      BY <2>2 DEF FilesOf, OpenFiles
    <3> QED  BY <1>1, <2>1, <3>1, <3>2 DEF CallsApart
  <2>4. e.do = "block" => \A n \in Used(e) :
          e.beside \/ (status'[refers[n]].nonBlocking <=> status[refers[n]].nonBlocking)
    BY <1>7, <2>2, <2>3
  <2>5. e.got \notin InTable \ handed \/ e.got \notin handed'
    BY <1>1
  <2> QED  BY <1>1, <1>3, <2>1, <2>4, <2>5, OtherCall
<1>12. \A u, v \in FlagThreads : u # v => CallsApart(u, v)'
  BY <1>1, <1>2, <1>3, StayApart
<1>13. TableInv'
  <2>1. \A u \in FlagThreads : flagCall[u].do = "nullify" => flagCall'[u] = flagCall[u]
    BY <1>1, <1>3
  <2> QED  BY <1>1, <1>4, <2>1 DEF FlagsInv, TableInv
<1>14. c.want => g \in lax \/ c.fd \in closeOnExec
  BY <1>1 DEF CallKnows
<1>15. ProgramsBlock'
  <2>1. g \in programs /\ c.want => g \in lax
    BY <1>5, <1>14 DEF FlagsInv, FileInv
  <2>2. programs \subseteq OpenFiles
    BY DEF FlagsInv, FlagFieldsInv
  <2> QED  BY <1>1, <1>6, <1>7, <2>1, <2>2 DEF FlagsInv, ProgramsBlock
<1>16. OthersKept'
  <2>1. g \in torn \/ (c.kept <=> append[g])
    BY <1>1 DEF CallKnows
  <2> QED  BY <1>1, <1>6, <1>7, <2>1 DEF FlagsInv, OthersKept
<1>17. \A f \in OpenFiles \ lax' : FileInv(f)'
  <2> SUFFICES ASSUME NEW f \in OpenFiles \ lax' PROVE FileInv(f)'
    OBVIOUS
  <2>1. f \notin lax /\ FileInv(f)
    BY <1>1 DEF FlagsInv
  <2>2. f = g /\ c.want => c.fd \in closeOnExec
    BY <1>14, <2>1
  <2> QED  BY <1>1, <1>4, <1>5, <1>6, <1>7, <2>1, <2>2 DEF FileInv
<1> QED  BY <1>8, <1>9, <1>10, <1>11, <1>12, <1>13, <1>15, <1>16, <1>17 DEF FlagsInv

LEMMA DuplicateNumberInv ==
    ASSUME FlagsInv, NEW t \in FlagThreads, DuplicateNumber(t)
    PROVE  FlagsInv'
<1> DEFINE c == flagCall[t]
           given == c.got # NoNumber
           n == IF given THEN c.got ELSE LowestFree
           d == [c EXCEPT !.step = "done", !.got = n]
<1>1. /\ c \in FlagCalls /\ CallOwns(t) /\ CallKnows(t) /\ c.do = "duplicate"
      /\ c.step = "replace" /\ flagCall \in [FlagThreads -> FlagCalls]
      /\ UNCHANGED <<status, programs, append, torn>>
      /\ lax' = lax \cup Mixed /\ (given \/ InTable # FdNumbers)
      /\ refers \in [FdNumbers -> OpenFiles \cup {DevNull, "free"}]
      /\ refers' = [refers EXCEPT ![n] = refers[c.fd]] /\ closeOnExec' = Flagged(n, c.read)
      /\ handed' = handed \cup {n} /\ flagCall' = [flagCall EXCEPT ![t] = d]
  BY DEF FlagsInv, FlagFieldsInv, DuplicateNumber, CallAt, This
<1>2. /\ c.fd \in handed /\ handed \subseteq InTable /\ InTable \subseteq FdNumbers
      /\ c.fd \in InTable /\ c.fd \in FdNumbers /\ c.fd # c.got /\ c.rest = <<>>
      /\ c.read \in BOOLEAN /\ NoNumber \notin FdNumbers
  <2>1. /\ c.fd \in handed /\ handed \subseteq InTable /\ InTable \subseteq FdNumbers
        /\ c.fd # c.got /\ c.rest = <<>>
    BY <1>1 DEF CallOwns, FlagsInv, FlagFieldsInv, InTable
  <2>2. c.read \in BOOLEAN
    BY <1>1 DEF FlagCalls
  <2>3. NoNumber \notin FdNumbers
    BY DEF NoNumber, FdNumbers
  <2> QED  BY <2>1, <2>2, <2>3
<1>3. n \in FdNumbers /\ n # c.fd /\ (given => n \in handed) /\ (~given => n \notin InTable)
  <2>1. CASE given
    <3>1. c.got \in Used(c) /\ Used(c) \subseteq handed
      BY <1>1, <2>1, UsedNumbers DEF CallOwns, FlagCalls
    <3> QED  BY <1>2, <2>1, <3>1
  <2>2. CASE ~given
    BY <1>1, <1>2, <2>2, LowestFreeFree
  <2> QED  BY <2>1, <2>2
<1> HIDE DEF n
<1>4. /\ d \in FlagCalls /\ d.do = c.do /\ d.fd = c.fd /\ d.got = n /\ d.rest = <<>>
      /\ d.step = "done" /\ d.beside = c.beside
  BY <1>1, <1>2, <1>3 DEF FlagCalls
<1> HIDE DEF d
<1>5. /\ \A u \in FlagThreads \ {t} : flagCall'[u] = flagCall[u]
      /\ flagCall'[t] = d /\ flagCall' \in [FlagThreads -> FlagCalls]
  BY <1>1, <1>4
<1>6. \A k \in FdNumbers :
        /\ refers'[k] = IF k = n THEN refers[c.fd] ELSE refers[k]
        /\ k \in closeOnExec' <=> (IF k = n THEN c.read ELSE k \in closeOnExec)
  BY <1>1, <1>2, <1>3, FlaggedIs
<1>7. InTable' = InTable \cup {n} /\ refers[c.fd] # "free"
  <2>1. refers[c.fd] # "free"
    BY <1>2 DEF InTable
  <2> QED  BY <1>3, <1>6, <2>1 DEF InTable
<1>8. FlagFieldsInv'
  <2>1. closeOnExec' \subseteq InTable'
    BY <1>1, <1>7 DEF FlagsInv, FlagFieldsInv, Flagged
  <2>2. refers' \in [FdNumbers -> OpenFiles \cup {DevNull, "free"}]
    BY <1>1, <1>2, <1>3
  <2>3. lax' \subseteq OpenFiles
    BY <1>1 DEF FlagsInv, FlagFieldsInv, Mixed
  <2> QED  BY <1>1, <1>2, <1>5, <1>7, <2>1, <2>2, <2>3 DEF FlagsInv, FlagFieldsInv
<1>9. CallOwns(t)'
  <2>1. \A k \in Used(d) : k = c.fd \/ k = n
    BY <1>4, UsedNumbers
  <2> QED  BY <1>1, <1>2, <1>3, <1>4, <1>5, <2>1 DEF CallOwns
<1>10. CallKnows(t)'
  <2>1. ~c.beside => (c.read <=> c.fd \in closeOnExec)
    BY <1>1 DEF CallKnows
  <2> QED  BY <1>1, <1>2, <1>3, <1>4, <1>5, <1>6, <2>1 DEF CallKnows
<1>11. \A u \in FlagThreads \ {t} : n \notin Used(flagCall[u])
  <2> SUFFICES ASSUME NEW u \in FlagThreads \ {t} PROVE n \notin Used(flagCall[u])
    OBVIOUS
  <2>1. Private(c) \cap Used(flagCall[u]) = {} /\ Used(flagCall[u]) \subseteq InTable
    BY UsedInTable DEF FlagsInv, CallsApart
  <2>2. given => n \in Private(c)
    BY <1>1 DEF n, Private, Replaced
  <2> QED  BY <1>3, <2>1, <2>2
<1>12. \A u \in FlagThreads \ {t} : CallOwns(u)' /\ CallKnows(u)'
  <2> SUFFICES ASSUME NEW u \in FlagThreads \ {t} PROVE CallOwns(u)' /\ CallKnows(u)'
    OBVIOUS
  <2> DEFINE e == flagCall[u]
  <2>1. e \in FlagCalls /\ Used(e) \subseteq FdNumbers
    BY UsedNumbers DEF FlagsInv, FlagFieldsInv
  <2>2. \A k \in Used(e) : /\ refers'[k] = refers[k]
                           /\ k \in closeOnExec' <=> k \in closeOnExec
    BY <1>6, <1>11, <2>1
  <2>3. e.got \notin InTable \ handed \/ e.got \notin handed'
    BY <1>1, <1>2, <1>3
  <2>4. /\ refers' \in [FdNumbers -> OpenFiles \cup {DevNull, "free"}]
        /\ lax \subseteq lax' /\ handed \subseteq handed' /\ torn \subseteq torn'
    BY <1>1, <1>8 DEF FlagFieldsInv
  <2> QED  BY <1>1, <1>5, <2>2, <2>3, <2>4, OtherCall
<1>13. \A u, v \in FlagThreads : u # v => CallsApart(u, v)'
  <2>1. \A k \in Used(d) : k = n \/ k \in Used(c)
    BY <1>1, <1>2, <1>4, UsedNumbers
  <2>2. Private(d) \subseteq {n}
    BY <1>1, <1>4 DEF Private, Replaced
  <2>3. \A u \in FlagThreads \ {t} :
             /\ Used(d) \cap Used(flagCall[u]) \subseteq Used(c)
             /\ Private(d) \cap Used(flagCall[u]) \subseteq Private(c)
             /\ \A k \in Used(flagCall[u]) : refers'[k] = refers[k]
    BY <1>1, <1>6, <1>11, <2>1, <2>2, UsedNumbers
  <2> QED  BY <1>1, <1>4, <1>5, <2>3, StayApart
<1>14. TableInv'
  <2>1. \A u \in FlagThreads : flagCall[u].do = "nullify" => flagCall'[u] = flagCall[u]
    BY <1>1, <1>5
  <2> QED  BY <1>1, <1>7, <2>1 DEF FlagsInv, TableInv
<1>15. ProgramsBlock' /\ OthersKept'
  BY <1>1 DEF FlagsInv, ProgramsBlock, OthersKept
<1>16. \A f \in OpenFiles \ lax' : FileInv(f)'
  <2> SUFFICES ASSUME NEW f \in OpenFiles \ lax' PROVE FileInv(f)'
    OBVIOUS
  <2>1. f \notin lax /\ FileInv(f)
    BY <1>1 DEF FlagsInv
  <2>2. \A j, k \in InTable' : refers'[j] = f /\ refers'[k] = f =>
          (j \in closeOnExec' <=> k \in closeOnExec')
    BY <1>1, NotMixed
  <2>3. \A k \in InTable' : refers'[k] = f =>
          /\ f \in programs => k \notin closeOnExec'
          /\ status[f].nonBlocking => k \in closeOnExec'
    <3> SUFFICES ASSUME NEW k \in InTable', refers'[k] = f
                 PROVE  /\ f \in programs => k \notin closeOnExec'
                        /\ status[f].nonBlocking => k \in closeOnExec'
      OBVIOUS
    <3>1. CASE k = n
      <4>1. refers[c.fd] = f /\ refers'[c.fd] = f /\ c.fd \in InTable'
            /\ (c.fd \in closeOnExec' <=> c.fd \in closeOnExec)
        BY <1>2, <1>3, <1>6, <1>7, <3>1
      <4>2. k \in closeOnExec' <=> c.fd \in closeOnExec
        BY <2>2, <4>1
      <4> QED  BY <1>2, <2>1, <4>1, <4>2 DEF FileInv
    <3>2. CASE k # n
      <4>1. k \in InTable /\ refers[k] = f /\ (k \in closeOnExec' <=> k \in closeOnExec)
        BY <1>2, <1>6, <1>7, <3>2
      <4> QED  BY <2>1, <4>1 DEF FileInv
    <3> QED  BY <3>1, <3>2
  <2> QED  BY <1>1, <2>2, <2>3 DEF FileInv
<1> QED  BY <1>8, <1>9, <1>10, <1>12, <1>13, <1>14, <1>15, <1>16 DEF FlagsInv

LEMMA OpenNullInv ==
    ASSUME FlagsInv, NEW t \in FlagThreads, OpenNull(t)
    PROVE  FlagsInv'
<1> DEFINE c == flagCall[t]
           n == LowestFree
           d == [c EXCEPT !.step = "replace", !.got = n]
<1>1. /\ c \in FlagCalls /\ CallOwns(t) /\ CallKnows(t) /\ c.do = "nullify"
      /\ c.step = "open" /\ flagCall \in [FlagThreads -> FlagCalls]
      /\ UNCHANGED <<status, handed, programs, lax, append, torn>>
      /\ InTable # FdNumbers
      /\ refers \in [FdNumbers -> OpenFiles \cup {DevNull, "free"}]
      /\ refers' = [refers EXCEPT ![n] = DevNull]
      /\ closeOnExec' = IF c.read THEN closeOnExec \cup {n} ELSE closeOnExec
      /\ flagCall' = [flagCall EXCEPT ![t] = d]
  BY DEF FlagsInv, FlagFieldsInv, OpenNull, CallAt
<1>2. n \in FdNumbers \ InTable
  BY <1>1, LowestFreeFree
<1> HIDE DEF n
<1>3. /\ d \in FlagCalls /\ d.do = c.do /\ d.fd = c.fd /\ d.got = n /\ d.rest = c.rest
      /\ d.step = "replace" /\ d.beside = c.beside /\ d.before = c.before
  BY <1>1, <1>2 DEF FlagCalls
<1> HIDE DEF d
<1>4. /\ \A u \in FlagThreads \ {t} : flagCall'[u] = flagCall[u]
      /\ flagCall'[t] = d /\ flagCall' \in [FlagThreads -> FlagCalls]
  BY <1>1, <1>3
<1>5. /\ c.fd \in handed /\ handed \subseteq InTable /\ c.rest = <<>> /\ c.got = NoNumber
      /\ closeOnExec \subseteq InTable /\ InTable \subseteq FdNumbers
      /\ c.fd \in Used(c) /\ NoNumber \notin FdNumbers
  <2>1. /\ c.fd \in handed /\ handed \subseteq InTable /\ c.rest = <<>> /\ c.got = NoNumber
        /\ closeOnExec \subseteq InTable /\ InTable \subseteq FdNumbers
    BY <1>1 DEF CallOwns, FlagsInv, FlagFieldsInv, InTable
  <2>2. c.fd \in Used(c)
    BY <1>1, <2>1, UsedNumbers
  <2>3. NoNumber \notin FdNumbers
    BY DEF NoNumber, FdNumbers
  <2> QED  BY <2>1, <2>2, <2>3
<1>6. InTable' = InTable \cup {n}
  BY <1>1, <1>2 DEF InTable, DevNull
<1>7. \A k \in InTable : refers'[k] = refers[k] /\ (k \in closeOnExec' <=> k \in closeOnExec)
  BY <1>1, <1>2, <1>5
<1>8. FlagFieldsInv'
  <2>1. refers' \in [FdNumbers -> OpenFiles \cup {DevNull, "free"}]
    BY <1>1, <1>2
  <2>2. closeOnExec' \subseteq InTable' /\ handed' \subseteq InTable'
    BY <1>1, <1>5, <1>6
  <2> QED  BY <1>1, <1>4, <2>1, <2>2 DEF FlagsInv, FlagFieldsInv
<1>9. CallOwns(t)'
  BY <1>1, <1>2, <1>3, <1>4, <1>5, <1>6 DEF CallOwns
<1>10. CallKnows(t)'
  <2>1. n \in closeOnExec' <=> c.read
    BY <1>1, <1>2, <1>5
  <2>2. c.read <=> c.before
    BY <1>1 DEF CallKnows
  <2> QED  BY <1>1, <1>3, <1>4, <2>1, <2>2 DEF CallKnows
<1>11. \A u \in FlagThreads \ {t} : Used(flagCall[u]) \subseteq InTable
  BY UsedInTable
<1>12. \A u \in FlagThreads \ {t} : CallOwns(u)' /\ CallKnows(u)'
  <2> SUFFICES ASSUME NEW u \in FlagThreads \ {t} PROVE CallOwns(u)' /\ CallKnows(u)'
    OBVIOUS
  <2>1. \A k \in Used(flagCall[u]) : /\ refers'[k] = refers[k]
                                     /\ k \in closeOnExec' <=> k \in closeOnExec
    BY <1>7, <1>11
  <2>2. flagCall[u].got \notin InTable \ handed \/ flagCall[u].got \notin handed'
    BY <1>1
  <2>3. refers' \in [FdNumbers -> OpenFiles \cup {DevNull, "free"}]
    BY <1>8 DEF FlagFieldsInv
  <2> QED  BY <1>1, <1>4, <2>1, <2>2, <2>3, OtherCall
<1>13. \A u, v \in FlagThreads : u # v => CallsApart(u, v)'
  <2>1. \A k \in Used(d) : k = n \/ k \in Used(c)
    BY <1>1, <1>3, <1>5, UsedNumbers
  <2>2. Private(d) = Used(d) /\ Private(c) = Used(c)
    BY <1>1, <1>3 DEF Private
  <2>3. \A u \in FlagThreads \ {t} :
             /\ Used(d) \cap Used(flagCall[u]) \subseteq Used(c)
             /\ Private(d) \cap Used(flagCall[u]) \subseteq Private(c)
             /\ \A k \in Used(flagCall[u]) : refers'[k] = refers[k]
    BY <1>2, <1>7, <1>11, <2>1, <2>2
  <2> QED  BY <1>1, <1>3, <1>4, <2>3, StayApart
<1>14. TableInv'
  <2>1. \A k \in InTable \ handed : \E u \in FlagThreads :
          flagCall'[u].do = "nullify" /\ flagCall'[u].got = k
    <3> SUFFICES ASSUME NEW k \in InTable \ handed
                 PROVE  \E u \in FlagThreads :
                          flagCall'[u].do = "nullify" /\ flagCall'[u].got = k
      OBVIOUS
    <3>1. PICK u \in FlagThreads : flagCall[u].do = "nullify" /\ flagCall[u].got = k
      BY DEF FlagsInv, TableInv
    <3>2. u # t
      BY <1>5, <3>1
    <3> QED  BY <1>4, <3>1, <3>2
  <2> QED  BY <1>1, <1>3, <1>4, <1>6, <2>1 DEF TableInv
<1>15. ProgramsBlock' /\ OthersKept'
  BY <1>1 DEF FlagsInv, ProgramsBlock, OthersKept
<1>16. \A f \in OpenFiles \ lax' : FileInv(f)'
  <2> SUFFICES ASSUME NEW f \in OpenFiles \ lax' PROVE FileInv(f)'
    OBVIOUS
  <2>1. f \notin lax /\ FileInv(f) /\ f # DevNull
    BY <1>1 DEF FlagsInv, OpenFiles, DevNull
  <2>2. \A k \in InTable' : refers'[k] = f => k \in InTable /\ refers[k] = f
    BY <1>1, <1>2, <1>6, <1>7, <2>1
  <2> QED  BY <1>1, <1>7, <2>1, <2>2 DEF FileInv
<1> QED  BY <1>8, <1>9, <1>10, <1>12, <1>13, <1>14, <1>15, <1>16 DEF FlagsInv

LEMMA ReplaceByNullInv ==
    ASSUME FlagsInv, NEW t \in FlagThreads, ReplaceByNull(t)
    PROVE  FlagsInv'
<1> DEFINE c == flagCall[t]
           n == c.fd
           d == [c EXCEPT !.step = "close"]
<1>1. /\ c \in FlagCalls /\ CallOwns(t) /\ CallKnows(t) /\ c.do = "nullify"
      /\ c.step = "replace" /\ flagCall \in [FlagThreads -> FlagCalls]
      /\ UNCHANGED <<status, handed, programs, append, torn>> /\ lax' = lax \cup Mixed
      /\ refers \in [FdNumbers -> OpenFiles \cup {DevNull, "free"}]
      /\ refers' = [refers EXCEPT ![n] = DevNull]
      /\ closeOnExec' = Flagged(n, c.got \in closeOnExec)
      /\ flagCall' = [flagCall EXCEPT ![t] = d]
  BY DEF FlagsInv, FlagFieldsInv, ReplaceByNull, CallAt, This, Goes
<1>2. /\ n \in handed /\ handed \subseteq InTable /\ InTable \subseteq FdNumbers
      /\ c.got \in InTable \ handed /\ n \in Used(c)
  <2>1. /\ n \in handed /\ handed \subseteq InTable /\ InTable \subseteq FdNumbers
        /\ c.got \in InTable \ handed
    BY <1>1 DEF CallOwns, FlagsInv, FlagFieldsInv, InTable
  <2> QED  BY <1>1, <2>1, UsedNumbers
<1>3. /\ d \in FlagCalls /\ Used(d) = Used(c) /\ Private(d) = Private(c)
      /\ d.do = c.do /\ d.fd = c.fd /\ d.got = c.got /\ d.rest = c.rest
      /\ d.before = c.before /\ d.beside = c.beside /\ d.step = "close"
  BY ZenonT(40), <1>1, Stepped
<1> HIDE DEF d
<1>4. /\ \A u \in FlagThreads \ {t} : flagCall'[u] = flagCall[u]
      /\ flagCall'[t] = d /\ flagCall' \in [FlagThreads -> FlagCalls]
  BY <1>1, <1>3
<1>5. \A k \in FdNumbers :
        /\ refers'[k] = IF k = n THEN DevNull ELSE refers[k]
        /\ k \in closeOnExec' <=> (IF k = n THEN c.got \in closeOnExec ELSE k \in closeOnExec)
  <2>1. \A k \in FdNumbers : refers'[k] = IF k = n THEN DevNull ELSE refers[k]
    BY <1>1, <1>2
  <2>2. \A k : k \in closeOnExec' <=>
          (IF k = n THEN c.got \in closeOnExec ELSE k \in closeOnExec)
    BY <1>1 DEF Flagged
  <2> QED  BY <2>1, <2>2
<1>6. InTable' = InTable
  BY <1>2, <1>5 DEF InTable, DevNull
<1>7. FlagFieldsInv'
  <2>1. refers' \in [FdNumbers -> OpenFiles \cup {DevNull, "free"}]
    BY <1>1, <1>2
  <2>2. closeOnExec' \subseteq InTable
    BY <1>1, <1>2 DEF FlagsInv, FlagFieldsInv, Flagged
  <2>3. lax' \subseteq OpenFiles
    BY <1>1 DEF FlagsInv, FlagFieldsInv, Mixed
  <2> QED  BY <1>1, <1>4, <1>6, <2>1, <2>2, <2>3 DEF FlagsInv, FlagFieldsInv
<1>8. CallOwns(t)'
  BY <1>1, <1>2, <1>3, <1>4, <1>6 DEF CallOwns
<1>9. CallKnows(t)'
  <2>1. c.got \in closeOnExec <=> c.before
    BY <1>1 DEF CallKnows
  <2> QED  BY <1>1, <1>2, <1>3, <1>4, <1>5, <2>1 DEF CallKnows
<1>10. \A u \in FlagThreads \ {t} : n \notin Used(flagCall[u])
  BY <1>1, <1>2 DEF FlagsInv, CallsApart, Private
<1>11. \A u \in FlagThreads \ {t} : \A k \in Used(flagCall[u]) :
         refers'[k] = refers[k] /\ (k \in closeOnExec' <=> k \in closeOnExec)
  BY <1>2, <1>5, <1>10, UsedInTable
<1>12. \A u \in FlagThreads \ {t} : CallOwns(u)' /\ CallKnows(u)'
  <2> SUFFICES ASSUME NEW u \in FlagThreads \ {t} PROVE CallOwns(u)' /\ CallKnows(u)'
    OBVIOUS
  <2>1. flagCall[u].got \notin InTable \ handed \/ flagCall[u].got \notin handed'
    BY <1>1
  <2>2. refers' \in [FdNumbers -> OpenFiles \cup {DevNull, "free"}] /\ lax \subseteq lax'
    BY <1>1, <1>7 DEF FlagFieldsInv
  <2> QED  BY <1>1, <1>4, <1>11, <2>1, <2>2, OtherCall
<1>13. \A u, v \in FlagThreads : u # v => CallsApart(u, v)'
  BY <1>1, <1>3, <1>4, <1>11, StayApart
<1>14. TableInv'
  <2>1. \A u \in FlagThreads : flagCall'[u].do = flagCall[u].do
                               /\ flagCall'[u].got = flagCall[u].got
    BY <1>3, <1>4
  <2> QED  BY <1>1, <1>6, <2>1 DEF FlagsInv, TableInv
<1>15. ProgramsBlock' /\ OthersKept'
  BY <1>1 DEF FlagsInv, ProgramsBlock, OthersKept
<1>16. \A f \in OpenFiles \ lax' : FileInv(f)'
  <2> SUFFICES ASSUME NEW f \in OpenFiles \ lax' PROVE FileInv(f)'
    OBVIOUS
  <2>1. f \notin lax /\ FileInv(f) /\ f # DevNull
    BY <1>1 DEF FlagsInv, OpenFiles, DevNull
  <2>2. \A k \in InTable : refers'[k] = f =>
          refers[k] = f /\ (k \in closeOnExec' <=> k \in closeOnExec)
    BY <1>2, <1>5, <2>1
  <2> QED  BY <1>1, <1>6, <2>1, <2>2 DEF FileInv
<1> QED  BY <1>7, <1>8, <1>9, <1>12, <1>13, <1>14, <1>15, <1>16 DEF FlagsInv

LEMMA CloseNullInv ==
    ASSUME FlagsInv, NEW t \in FlagThreads, CloseNull(t)
    PROVE  FlagsInv'
<1> DEFINE c == flagCall[t]
           n == c.got
           s == IF c.step = "close" THEN "done" ELSE "failed"
           d == [c EXCEPT !.step = s, !.got = NoNumber]
<1>1. /\ c \in FlagCalls /\ CallOwns(t) /\ CallKnows(t)
      /\ c.step \in {"close", "drop"} /\ flagCall \in [FlagThreads -> FlagCalls]
      /\ UNCHANGED <<status, handed, programs, lax, append, torn>>
      /\ refers \in [FdNumbers -> OpenFiles \cup {DevNull, "free"}]
      /\ refers' = [refers EXCEPT ![n] = "free"]
      /\ closeOnExec' = closeOnExec \ {n}
      /\ flagCall' = [flagCall EXCEPT ![t] = d]
  BY DEF FlagsInv, FlagFieldsInv, CloseNull
<1>2. c.do = "nullify"
  BY <1>1 DEF CallOwns, FlagCalls, NoFlagCall
<1>3. /\ c.fd \in handed /\ handed \subseteq InTable /\ InTable \subseteq FdNumbers
      /\ n \in InTable \ handed /\ n # NoNumber /\ c.rest = <<>> /\ n \in Used(c)
      /\ NoNumber \notin FdNumbers
  <2>1. /\ c.fd \in handed /\ handed \subseteq InTable /\ InTable \subseteq FdNumbers
        /\ n \in InTable \ handed /\ n # NoNumber /\ c.rest = <<>>
    BY <1>1, <1>2 DEF CallOwns, FlagsInv, FlagFieldsInv, InTable
  <2>2. NoNumber \notin FdNumbers
    BY DEF NoNumber, FdNumbers
  <2> QED  BY <1>1, <2>1, <2>2, UsedNumbers
<1>4. /\ d \in FlagCalls /\ d.do = c.do /\ d.fd = c.fd /\ d.got = NoNumber /\ d.rest = c.rest
      /\ d.step = s /\ d.beside = c.beside /\ d.before = c.before
  BY <1>1 DEF FlagCalls
<1> HIDE DEF d
<1>5. /\ \A u \in FlagThreads \ {t} : flagCall'[u] = flagCall[u]
      /\ flagCall'[t] = d /\ flagCall' \in [FlagThreads -> FlagCalls]
  BY <1>1, <1>4
<1>6. InTable' = InTable \ {n}
  BY <1>1, <1>3 DEF InTable
<1>7. \A k \in FdNumbers \ {n} :
        refers'[k] = refers[k] /\ (k \in closeOnExec' <=> k \in closeOnExec)
  BY <1>1, <1>3
<1>8. FlagFieldsInv'
  <2>1. refers' \in [FdNumbers -> OpenFiles \cup {DevNull, "free"}]
    BY <1>1, <1>3
  <2>2. closeOnExec' \subseteq InTable' /\ handed' \subseteq InTable'
    BY <1>1, <1>3, <1>6 DEF FlagsInv, FlagFieldsInv
  <2> QED  BY <1>1, <1>5, <2>1, <2>2 DEF FlagsInv, FlagFieldsInv
<1>9. CallOwns(t)'
  BY <1>1, <1>2, <1>3, <1>4, <1>5 DEF CallOwns
<1>10. CallKnows(t)'
  <2>1. c.step = "close" => refers[c.fd] = DevNull /\ (c.fd \in closeOnExec <=> c.before)
    BY <1>1, <1>2 DEF CallKnows
  <2>2. refers'[c.fd] = refers[c.fd] /\ (c.fd \in closeOnExec' <=> c.fd \in closeOnExec)
    BY <1>3, <1>7
  <2> QED  BY <1>1, <1>2, <1>4, <1>5, <2>1, <2>2 DEF CallKnows
<1>11. \A u \in FlagThreads \ {t} : n \notin Used(flagCall[u])
  BY <1>2, <1>3 DEF FlagsInv, CallsApart, Private
<1>12. \A u \in FlagThreads \ {t} : \A k \in Used(flagCall[u]) :
         refers'[k] = refers[k] /\ (k \in closeOnExec' <=> k \in closeOnExec)
  BY <1>3, <1>7, <1>11, UsedInTable
<1>13. \A u \in FlagThreads \ {t} : CallOwns(u)' /\ CallKnows(u)'
  <2> SUFFICES ASSUME NEW u \in FlagThreads \ {t} PROVE CallOwns(u)' /\ CallKnows(u)'
    OBVIOUS
  <2>1. flagCall[u].got \notin InTable \ handed \/ flagCall[u].got \notin handed'
    BY <1>1
  <2>2. refers' \in [FdNumbers -> OpenFiles \cup {DevNull, "free"}]
    BY <1>8 DEF FlagFieldsInv
  <2> QED  BY <1>1, <1>5, <1>12, <2>1, <2>2, OtherCall
<1>14. \A u, v \in FlagThreads : u # v => CallsApart(u, v)'
  <2>1. \A k \in Used(d) : k \in Used(c)
    BY <1>1, <1>3, <1>4, UsedNumbers
  <2>2. Private(d) = Used(d) /\ Private(c) = Used(c)
    BY <1>2, <1>4 DEF Private
  <2> QED  BY <1>1, <1>2, <1>4, <1>5, <1>12, <2>1, <2>2, StayApart
<1>15. TableInv'
  <2> SUFFICES ASSUME NEW k \in (InTable \ {n}) \ handed
               PROVE  \E u \in FlagThreads : flagCall'[u].do = "nullify" /\ flagCall'[u].got = k
    BY <1>1, <1>6 DEF TableInv
  <2>1. PICK u \in FlagThreads : flagCall[u].do = "nullify" /\ flagCall[u].got = k
    BY DEF FlagsInv, TableInv
  <2>2. u # t
    BY <2>1
  <2> QED  BY <1>5, <2>1, <2>2
<1>16. ProgramsBlock' /\ OthersKept'
  BY <1>1 DEF FlagsInv, ProgramsBlock, OthersKept
<1>17. \A f \in OpenFiles \ lax' : FileInv(f)'
  <2> SUFFICES ASSUME NEW f \in OpenFiles \ lax' PROVE FileInv(f)'
    OBVIOUS
  <2>1. FileInv(f)
    BY <1>1 DEF FlagsInv
  <2> QED  BY <1>1, <1>3, <1>6, <1>7, <2>1 DEF FileInv
<1> QED  BY <1>8, <1>9, <1>10, <1>13, <1>14, <1>15, <1>16, <1>17 DEF FlagsInv

\* Nothing but what programs have changes.
LEMMA ExecuteProgramInv ==
    ASSUME FlagsInv, ExecuteProgram
    PROVE  FlagsInv'
<1> DEFINE G == {refers[n] : n \in InTable \ closeOnExec} \ {DevNull}
<1>1. /\ UNCHANGED <<refers, closeOnExec, status, flagCall, handed, lax, append, torn>>
      /\ programs' = programs \cup G /\ InTable' = InTable
  BY DEF ExecuteProgram, InTable
<1>2. G \subseteq OpenFiles
  BY DEF FlagsInv, FlagFieldsInv, InTable
<1>3. FlagFieldsInv' /\ TableInv' /\ OthersKept'
  BY <1>1, <1>2 DEF FlagsInv, FlagFieldsInv, TableInv, OthersKept
<1>4. \A t \in FlagThreads : CallOwns(t)' /\ CallKnows(t)'
  BY <1>1 DEF FlagsInv, CallOwns, CallKnows
<1>5. \A t, u \in FlagThreads : t # u => CallsApart(t, u)'
  BY <1>1 DEF FlagsInv, CallsApart, FilesOf
<1>6. \A f \in G \ lax : \A n \in InTable : refers[n] = f => n \notin closeOnExec
  BY <1>2 DEF FlagsInv, FileInv
<1>7. \A f \in OpenFiles \ lax' : FileInv(f)'
  BY <1>1, <1>6 DEF FlagsInv, FileInv
<1>8. ProgramsBlock'
  <2>1. \A f \in G \ lax : ~status[f].nonBlocking
    BY <1>2 DEF FlagsInv, FileInv
  <2> QED  BY <1>1, <2>1 DEF FlagsInv, ProgramsBlock
<1> QED  BY <1>3, <1>4, <1>5, <1>7, <1>8 DEF FlagsInv

LEMMA SetAppendInv ==
    ASSUME FlagsInv, SetAppend
    PROVE  FlagsInv'
<1>1. PICK f \in {refers[n] : n \in handed} \ {DevNull} :
        /\ status' = [status EXCEPT ![f].append = ~@]
        /\ append' = [append EXCEPT ![f] = ~status[f].append]
        /\ torn' = IF \E t \in FlagThreads : flagCall[t].do = "block" /\ f \in FilesOf(flagCall[t])
                   THEN torn \cup {f} ELSE torn
  BY DEF SetAppend
<1>2. /\ UNCHANGED <<refers, closeOnExec, flagCall, handed, programs, lax>>
      /\ InTable' = InTable
  BY DEF SetAppend, InTable
<1>3. f \in OpenFiles
  BY DEF FlagsInv, FlagFieldsInv, InTable
<1>4. /\ status \in [OpenFiles -> [nonBlocking : BOOLEAN, append : BOOLEAN]]
      /\ append \in [OpenFiles -> BOOLEAN] /\ torn \subseteq OpenFiles
  BY DEF FlagsInv, FlagFieldsInv
<1> DEFINE s == [status[f] EXCEPT !.append = ~status[f].append]
<1>5. /\ s \in [nonBlocking : BOOLEAN, append : BOOLEAN]
      /\ s.nonBlocking <=> status[f].nonBlocking
      /\ s.append <=> ~status[f].append
      /\ status' = [status EXCEPT ![f] = s]
  BY <1>1, <1>3, <1>4
<1> HIDE DEF s
<1>6. /\ status' \in [OpenFiles -> [nonBlocking : BOOLEAN, append : BOOLEAN]]
      /\ append' \in [OpenFiles -> BOOLEAN] /\ torn' \subseteq OpenFiles
      /\ \A g \in OpenFiles : /\ status'[g].nonBlocking <=> status[g].nonBlocking
                              /\ g # f => /\ status'[g] = status[g]
                                          /\ append'[g] <=> append[g]
      /\ status'[f].append <=> append'[f]
      /\ torn \subseteq torn'
  <2>1. (~status[f].append) \in BOOLEAN
    BY <1>3, <1>4
  <2>2. append' \in [OpenFiles -> BOOLEAN]
    BY <1>1, <1>3, <1>4, <2>1
  <2>3. append'[f] <=> ~status[f].append
    BY <1>1, <1>3, <1>4
  <2>4. \A g \in OpenFiles \ {f} : append'[g] = append[g] /\ status'[g] = status[g]
    BY <1>1, <1>3, <1>4, <1>5
  <2>5. /\ status' \in [OpenFiles -> [nonBlocking : BOOLEAN, append : BOOLEAN]]
        /\ status'[f] = s
    BY <1>3, <1>4, <1>5
  <2>6. torn' \subseteq OpenFiles /\ torn \subseteq torn'
    BY <1>1, <1>3, <1>4
  <2>7. \A g \in OpenFiles : /\ status'[g].nonBlocking <=> status[g].nonBlocking
                             /\ g # f => /\ status'[g] = status[g]
                                         /\ append'[g] <=> append[g]
    BY <1>5, <2>4, <2>5
  <2> QED  BY <1>5, <2>2, <2>3, <2>5, <2>6, <2>7
<1>7. FlagFieldsInv' /\ TableInv'
  BY <1>2, <1>6 DEF FlagsInv, FlagFieldsInv, TableInv
<1>8. ProgramsBlock' /\ OthersKept'
  <2>1. programs \subseteq OpenFiles
    BY DEF FlagsInv, FlagFieldsInv
  <2>2. ProgramsBlock'
    BY <1>2, <1>6, <2>1 DEF FlagsInv, ProgramsBlock
  <2>3. OthersKept'
    BY <1>6 DEF FlagsInv, OthersKept
  <2> QED  BY <2>2, <2>3
<1>9. \A u \in FlagThreads : CallOwns(u)' /\ CallKnows(u)'
  <2> SUFFICES ASSUME NEW u \in FlagThreads PROVE CallOwns(u)' /\ CallKnows(u)'
    OBVIOUS
  <2> DEFINE c == flagCall[u]
  <2>1. CallOwns(u) /\ refers' \in [FdNumbers -> OpenFiles \cup {DevNull, "free"}]
    BY <1>7 DEF FlagsInv, FlagFieldsInv
  <2>2. c.do = "block" => \A n \in Used(c) : refers[n] \in OpenFiles
    BY <2>1 DEF CallOwns
  <2>3. c.do = "block" => \A n \in Used(c) :
          refers[n] \in torn' \/ (append'[refers[n]] <=> append[refers[n]])
    <3> SUFFICES ASSUME c.do = "block", NEW n \in Used(c)
                 PROVE  refers[n] \in torn' \/ (append'[refers[n]] <=> append[refers[n]])
      OBVIOUS
    <3>1. refers[n] \in FilesOf(c)
      BY <2>2 DEF FilesOf, OpenFiles
    <3>2. CASE refers[n] = f
      BY <1>1, <3>1, <3>2
    <3>3. CASE refers[n] # f
      BY <1>6, <2>2, <3>3
    <3> QED  BY <3>2, <3>3
  <2>4. c.do = "block" => \A n \in Used(c) :
          status'[refers[n]].nonBlocking <=> status[refers[n]].nonBlocking
    BY <1>6, <2>2
  <2>5. c.got \notin InTable \ handed \/ c.got \notin handed'
    BY <1>2
  <2> QED  BY <1>2, <1>6, <2>1, <2>3, <2>4, <2>5, OtherCall
<1>10. \A t, u \in FlagThreads : t # u => CallsApart(t, u)'
  BY <1>2 DEF FlagsInv, CallsApart, FilesOf
<1>11. \A g \in OpenFiles \ lax' : FileInv(g)'
  BY <1>2, <1>6 DEF FlagsInv, FileInv
<1> QED  BY <1>7, <1>8, <1>9, <1>10, <1>11 DEF FlagsInv

LEMMA FlagsNextInv ==
    ASSUME FlagsInv, FdFlagsNext
    PROVE  FlagsInv'
BY ExecuteProgramInv, SetAppendInv, BeginFlagInv, BeginDuplicateInv, BeginNullifyInv,
   ReturnFlagInv, FlagFailsInv, ReadExecInv, WriteExecInv, ReadBlockInv, CheckBlockInv,
   WriteBlockInv, ReadDuplicateInv, DuplicateNumberInv, OpenNullInv, ReplaceByNullInv,
   CloseNullInv DEF FdFlagsNext

LEMMA FlagsStutterInv ==
    ASSUME FlagsInv, UNCHANGED flagVars
    PROVE  FlagsInv'
<1>1. UNCHANGED <<refers, closeOnExec, status, flagCall, handed, programs, lax, append, torn>>
  BY DEF flagVars
<1>2. FlagFieldsInv' /\ TableInv' /\ ProgramsBlock' /\ OthersKept'
  BY <1>1 DEF FlagsInv, FlagFieldsInv, TableInv, ProgramsBlock, OthersKept, InTable
<1>3. \A t \in FlagThreads : CallOwns(t)' /\ CallKnows(t)'
  BY <1>1 DEF FlagsInv, CallOwns, CallKnows, InTable
<1>4. \A t, u \in FlagThreads : t # u => CallsApart(t, u)'
  BY <1>1 DEF FlagsInv, CallsApart, FilesOf
<1>5. \A f \in OpenFiles \ lax' : FileInv(f)'
  BY <1>1 DEF FlagsInv, FileInv, InTable
<1> QED  BY <1>2, <1>3, <1>4, <1>5 DEF FlagsInv

\* What the users of the flags rely on follows.
LEMMA FlagsAreKept ==
    ASSUME FlagsInv
    PROVE  FdFlagsKept
<1>1. ASSUME NEW t \in FlagThreads, flagCall[t].step = "done", ~flagCall[t].beside
      PROVE  LET c == flagCall[t]
             IN  CASE c.do = "exec"      -> \A n \in Used(c) : n \in closeOnExec <=> c.want
                   [] c.do = "block"     -> \A n \in Used(c) :
                                                 status[refers[n]].nonBlocking <=> c.want
                   [] c.do = "duplicate" -> /\ refers[c.got] = refers[c.fd]
                                            /\ c.got \in closeOnExec <=> c.fd \in closeOnExec
                   [] c.do = "nullify"   -> /\ refers[c.fd] = DevNull
                                            /\ c.fd \in closeOnExec <=> c.before
  <2> DEFINE c == flagCall[t]
  <2>1. c \in FlagCalls /\ CallOwns(t) /\ CallKnows(t)
    BY DEF FlagsInv, FlagFieldsInv
  <2>2. c.do \in {"exec", "block", "duplicate", "nullify"}
    BY <1>1, <2>1 DEF CallOwns, FlagCalls, NoFlagCall
  <2>3. c.rest = <<>>
    BY <1>1, <2>1 DEF CallOwns
  <2>4. \A n \in Used(c) : n = c.fd \/ (n = c.got /\ c.got # NoNumber)
    <3>1. NoNumber \notin FdNumbers
      BY DEF NoNumber, FdNumbers
    <3> QED  BY <2>1, <2>3, <3>1, UsedNumbers
  <2>5. CASE c.do = "exec"
    BY <1>1, <2>1, <2>4, <2>5 DEF CallKnows
  <2>6. CASE c.do = "block"
    BY <1>1, <2>1, <2>4, <2>6 DEF CallKnows
  <2>7. CASE c.do = "duplicate"
    BY <1>1, <2>1, <2>7 DEF CallKnows
  <2>8. CASE c.do = "nullify"
    BY <1>1, <2>1, <2>8 DEF CallKnows
  <2> QED  BY <2>2, <2>5, <2>6, <2>7, <2>8
<1>2. InTable = handed \cup {flagCall[t].got : t \in {u \in FlagThreads :
                                flagCall[u].do = "nullify" /\ flagCall[u].got # NoNumber}}
  <2> DEFINE U == {u \in FlagThreads : flagCall[u].do = "nullify" /\ flagCall[u].got # NoNumber}
  <2>1. \A u \in U : flagCall[u].got \in InTable
    BY DEF FlagsInv, CallOwns
  <2>2. handed \subseteq InTable
    BY DEF FlagsInv, FlagFieldsInv
  <2>3. \A n \in InTable \ handed : \E u \in U : flagCall[u].got = n
    <3>1. NoNumber \notin InTable
      BY DEF InTable, NoNumber, FdNumbers
    <3> QED  BY <3>1 DEF FlagsInv, TableInv
  <2> QED  BY <2>1, <2>2, <2>3
<1>3. CallsDone
  BY <1>1, <1>2 DEF CallsDone
<1> QED  BY <1>3 DEF FlagsInv, FdFlagsKept

----------------------------------------------------------------------------
\* Standing in for standard descriptors (StdFds)

LEMMA NumbersFacts ==
    /\ Numbers \subseteq Nat /\ Std = {0, 1, 2} /\ Std \subseteq Numbers /\ IsFiniteSet(Numbers)
    /\ \A S \in SUBSET Numbers : IsFiniteSet(S)
<1>1. TableSize \in Nat /\ TableSize > 3
  BY TableAssumption
<1>2. IsFiniteSet(0 .. TableSize - 1)
  BY <1>1, FS_Interval
<1>3. IsFiniteSet(Numbers) /\ Numbers \subseteq Nat /\ Std = {0, 1, 2} /\ Std \subseteq Numbers
  BY <1>1, <1>2 DEF Numbers, Std
<1>4. \A S \in SUBSET Numbers : IsFiniteSet(S)
  BY <1>3, FS_Subset
<1> QED  BY <1>3, <1>4

\* The kinds of entries are different.
LEMMA EntriesDiffer ==
    /\ NoEntry \in Entries /\ User \in Entries /\ User # NoEntry
    /\ \A end \in {"read", "write"}, pipe \in 0 .. 3, cloexec \in BOOLEAN :
         LET e == End(end, pipe, cloexec)
         IN  /\ e \in Entries /\ e # NoEntry /\ e # User /\ e.end = end /\ e.pipe = pipe
             /\ e.cloexec = cloexec
    /\ User.pipe = 0 /\ NoEntry.end = "none" /\ User.end = "user"
BY DEF NoEntry, User, Entries, End

LEMMA StandingIs ==
    ASSUME NEW n \in Std
    PROVE  /\ Standing(n) \in Entries /\ Standing(n) # NoEntry /\ Standing(n) # User
           /\ Standing(n).end = (IF n = 0 THEN "read" ELSE "write") /\ Standing(n).cloexec
           /\ Standing(n).pipe = IF n = 2 /\ start[1] = NoEntry THEN 2 ELSE n + 1
<1> DEFINE end == IF n = 0 THEN "read" ELSE "write"
           pipe == IF n = 2 /\ start[1] = NoEntry THEN 2 ELSE n + 1
<1>1. end \in {"read", "write"} /\ pipe \in 0 .. 3 /\ TRUE \in BOOLEAN
  BY NumbersFacts
<1>2. Standing(n) = End(end, pipe, TRUE)
  BY DEF Standing
<1> HIDE DEF end, pipe
<1>3. LET e == End(end, pipe, TRUE)
      IN  /\ e \in Entries /\ e # NoEntry /\ e # User /\ e.end = end /\ e.pipe = pipe
          /\ e.cloexec = TRUE
  BY <1>1, EntriesDiffer
<1> QED  BY <1>2, <1>3 DEF end, pipe

LEMMA LeastIs ==
    ASSUME NEW S \in SUBSET Numbers, S # {}
    PROVE  Min(S) \in S /\ \A k \in S : Min(S) <= k
<1>1. PICK m \in S : \A k \in S : m <= k
  BY NumbersFacts, LeastNumber
<1> QED  BY <1>1 DEF Min

\* The lowest number that is free, and the one after it.
LEMMA FreeNumbers ==
    /\ CanOpen(1) => Lowest \in Numbers \ Open /\ \A k \in Numbers \ Open : Lowest <= k
    /\ CanOpen(2) =>
         LET r == Lowest
             w == Min(Numbers \ (Open \cup {r}))
         IN  /\ r \in Numbers \ Open /\ \A k \in Numbers \ Open : r <= k
             /\ w \in Numbers \ Open /\ r < w
             /\ \A k \in Numbers \ Open : k # r => w <= k
<1> DEFINE S == Numbers \ Open
<1>1. IsFiniteSet(S) /\ Cardinality(S) \in Nat /\ (S = {} <=> Cardinality(S) = 0)
  BY NumbersFacts, FS_CardinalityType, FS_EmptySet
<1>2. S # {} => Lowest \in S /\ \A k \in S : Lowest <= k
  BY LeastIs DEF Lowest
<1>3. CanOpen(1) => S # {}
  BY <1>1 DEF CanOpen
<1>4. ASSUME CanOpen(2)
      PROVE  LET r == Lowest
                 w == Min(Numbers \ (Open \cup {r}))
             IN  /\ r \in Numbers \ Open /\ \A k \in Numbers \ Open : r <= k
                 /\ w \in Numbers \ Open /\ r < w
                 /\ \A k \in Numbers \ Open : k # r => w <= k
  <2> DEFINE r == Lowest
             T == Numbers \ (Open \cup {r})
             w == Min(T)
  <2>1. S # {}
    BY <1>1, <1>4 DEF CanOpen
  <2>2. r \in S /\ \A k \in S : r <= k
    BY <1>2, <2>1
  <2>3. T # {}
    <3> SUFFICES ASSUME T = {} PROVE FALSE
      OBVIOUS
    <3>1. S = {r}
      BY <2>2
    <3>2. Cardinality(S) = 1
      BY <3>1, FS_Singleton
    <3> QED  BY <1>4, <3>2 DEF CanOpen
  <2>4. w \in T /\ \A k \in T : w <= k
    BY <2>3, LeastIs
  <2> HIDE DEF w, r
  <2>5. w \in S /\ w # r /\ r <= w /\ w \in Nat /\ r \in Nat
    BY <2>2, <2>4, NumbersFacts
  <2> QED  BY <2>2, <2>4, <2>5 DEF r, w
<1> QED  BY <1>2, <1>3, <1>4

\* The number that is wanted, and the other one.
LEMMA SelectedIs ==
    /\ \A s \in created : table[s].end = Wanted /\ (\A n \in created : table[n].end = Wanted => n = s)
         => Selected = s
    /\ \A s \in created : table[s].end # Wanted /\ (\A n \in created : table[n].end # Wanted => n = s)
         => Other = s
    /\ (\E s \in created : table[s].end = Wanted)
         => Selected \in created /\ table[Selected].end = Wanted
BY DEF Selected, Other

\* Standard descriptors are missing while they are opened, and the lowest is opened next.
LEMMA TargetIs ==
    ASSUME StdTables
    PROVE  /\ filling => Target = 0
           /\ ~filling /\ missing # {} => Target \in missing /\ \A n \in missing : Target <= n
           /\ missing \in SUBSET Std
<1>1. missing \in SUBSET Std /\ missing \in SUBSET Numbers
  BY NumbersFacts DEF StdTables, StdTypeOK
<1> QED  BY <1>1, LeastIs DEF Target

LEMMA StdInitInv == StdInit => StdInv
<1> SUFFICES ASSUME StdInit PROVE StdInv
  OBVIOUS
<1>1. /\ table = [n \in Numbers |-> NoEntry] /\ start = table /\ doing = "none"
      /\ missing = {} /\ created = {} /\ filling = FALSE /\ outcome = "idle"
  BY DEF StdInit
<1>2. StdTables
  <2>1. StdTypeOK
    BY <1>1, EntriesDiffer DEF StdTypeOK, Calls
  <2> QED  BY <1>1, <2>1 DEF StdTables
<1>3. OpeningInv /\ FillingInv /\ StdFdsKept
  BY <1>1 DEF OpeningInv, FillingInv, StdFdsKept, StoodIn, FilledIn, NothingLeft
<1> QED  BY <1>2, <1>3 DEF StdInv

LEMMA StdStutterInv ==
    ASSUME StdInv, UNCHANGED stdVars
    PROVE  StdInv'
<1>1. UNCHANGED <<table, start, doing, missing, created, filling, outcome>>
  BY DEF stdVars
<1>2. StdTables'
  <2>1. StdTypeOK'
    BY <1>1 DEF StdInv, StdTables, StdTypeOK
  <2> QED  BY <1>1, <2>1 DEF StdInv, StdTables
<1>3. OpeningInv'
  BY <1>1 DEF StdInv, OpeningInv, Stood, Standing, Target
<1>4. FillingInv'
  BY <1>1 DEF StdInv, FillingInv
<1>5. StdFdsKept'
  BY <1>1 DEF StdInv, StdFdsKept, StoodIn, FilledIn, NothingLeft, Open
<1> QED  BY <1>2, <1>3, <1>4, <1>5 DEF StdInv

LEMMA BeginStdInv ==
    ASSUME StdInv, BeginStd
    PROVE  StdInv'
<1>1. PICK closed \in SUBSET Std, filler \in BOOLEAN :
         /\ table' = [n \in Numbers |-> IF n \in Std \ closed THEN User ELSE NoEntry]
         /\ start' = table'
         /\ missing' = (IF filler THEN {} ELSE closed)
         /\ doing' = (IF filler THEN "pipe" ELSE Opens(closed))
         /\ filling' = filler
  BY DEF BeginStd
<1>2. outcome' = "busy" /\ created' = {}
  BY DEF BeginStd, StdInv, StdTables
<1>3. /\ table' \in [Numbers -> {NoEntry, User}]
      /\ \A n \in Numbers : table'[n] = IF n \in Std \ closed THEN User ELSE NoEntry
  BY <1>1
<1>4. StdTables'
  <2>1. table' \in [Numbers -> Entries]
    BY <1>3, EntriesDiffer
  <2>2. doing' \in Calls /\ doing' # "none"
    BY <1>1 DEF Opens, Calls
  <2>3. StdTypeOK'
    BY <1>1, <1>2, <2>1, <2>2 DEF StdTypeOK
  <2> QED  BY <1>1, <1>2, <1>3, <2>2, <2>3, NumbersFacts DEF StdTables
<1>5. OpeningInv'
  <2> SUFFICES ASSUME ~filler PROVE OpeningInv'
    BY <1>1 DEF OpeningInv
  <2>1. missing' = closed /\ doing' = (IF closed = {} THEN "end" ELSE "pipe")
    BY <1>1 DEF Opens
  <2>2. \A n \in Std \ missing' : table'[n] = Stood(n)'
    BY <1>1, <1>3, <2>1, EntriesDiffer, NumbersFacts DEF Stood
  <2>3. start'[1] = NoEntry /\ 2 \in missing' => 1 \in missing'
    BY <1>1, <1>3, <2>1, EntriesDiffer, NumbersFacts
  <2> QED  BY <1>2, <1>3, <2>1, <2>2, <2>3 DEF OpeningInv
<1>6. FillingInv'
  BY <1>1, <1>2 DEF FillingInv
<1>7. StdFdsKept'
  BY <1>2 DEF StdFdsKept, StoodIn, FilledIn, NothingLeft
<1> QED  BY <1>4, <1>5, <1>6, <1>7 DEF StdInv

\* A table with one number, and with two numbers, given other entries.
LEMMA OneChanged ==
    ASSUME NEW x \in Numbers, NEW e \in Entries, table \in [Numbers -> Entries],
           table' = [table EXCEPT ![x] = e]
    PROVE  /\ table' \in [Numbers -> Entries] /\ table'[x] = e
           /\ \A n \in Numbers : n # x => table'[n] = table[n]
OBVIOUS

LEMMA TwoChanged ==
    ASSUME NEW x \in Numbers, NEW y \in Numbers, NEW e \in Entries, NEW f \in Entries, x # y,
           table \in [Numbers -> Entries], table' = [table EXCEPT ![x] = e, ![y] = f]
    PROVE  /\ table' \in [Numbers -> Entries] /\ table'[x] = e /\ table'[y] = f
           /\ \A n \in Numbers : n # x /\ n # y => table'[n] = table[n]
<1> DEFINE g == [table EXCEPT ![x] = e]
<1>1. g \in [Numbers -> Entries] /\ g[x] = e /\ \A n \in Numbers : n # x => g[n] = table[n]
  OBVIOUS
<1>2. table' = [g EXCEPT ![y] = f]
  OBVIOUS
<1> HIDE DEF g
<1> QED  BY <1>1, <1>2

\* The facts of an operation that is under way.
LEMMA BusyFacts ==
    ASSUME StdInv, outcome = "busy"
    PROVE  /\ StdTables /\ OpeningInv /\ FillingInv /\ StdTypeOK /\ table \in [Numbers -> Entries]
           /\ created \in SUBSET Numbers /\ missing \in SUBSET Std /\ filling \in BOOLEAN
           /\ \A n \in Numbers : start[n] = NoEntry \/ start[n] = User
           /\ \A n \in Numbers : n \in Open <=> table[n] # NoEntry
           /\ \A n \in Std : Stood(n) # NoEntry /\ Stood(n) \in Entries
           /\ doing \in Calls \ {"none"}
<1>1. StdTables /\ OpeningInv /\ FillingInv /\ StdTypeOK
  BY DEF StdInv, StdTables
<1>2. \A n \in Numbers : start[n] = NoEntry \/ start[n] = User
  BY <1>1 DEF StdTables
<1>3. \A n \in Std : Stood(n) # NoEntry /\ Stood(n) \in Entries
  BY <1>2, StandingIs, EntriesDiffer, NumbersFacts DEF Stood
<1> QED  BY <1>1, <1>2, <1>3 DEF StdTables, StdTypeOK, Open

\* The tables, when an operation goes on to its next call.
LEMMA GoesOn ==
    ASSUME StdInv, outcome = "busy", table' \in [Numbers -> Entries], created' \in SUBSET Numbers,
           missing' \in SUBSET missing, doing' \in Calls \ {"none"},
           UNCHANGED <<start, filling, outcome>>
    PROVE  StdTables' /\ StdFdsKept' /\ (\A n \in Std : Stood(n)' = Stood(n) /\ Standing(n)' = Standing(n))
<1>1. StdTypeOK'
  BY BusyFacts DEF StdTypeOK
<1>2. StdTables'
  <2>1. StdTables
    BY DEF StdInv
  <2> QED  BY <1>1, <2>1 DEF StdTables
<1>3. StdFdsKept'
  BY DEF StdFdsKept, StoodIn, FilledIn, NothingLeft
<1>4. \A n \in Std : Stood(n)' = Stood(n) /\ Standing(n)' = Standing(n)
  BY DEF Stood, Standing
<1> QED  BY <1>2, <1>3, <1>4

LEMMA OpenPipeInv ==
    ASSUME StdInv, OpenPipe
    PROVE  StdInv'
<1> DEFINE r == Lowest
           w == Min(Numbers \ (Open \cup {r}))
           e == End("read", Target + 1, ~filling)
           f == End("write", Target + 1, ~filling)
<1>1. /\ outcome = "busy" /\ doing = "pipe" /\ CanOpen(2) /\ doing' = "close other"
      /\ table' = [table EXCEPT ![r] = e, ![w] = f] /\ created' = created \cup {r, w}
      /\ UNCHANGED <<start, missing, filling, outcome>>
  BY DEF OpenPipe, Doing
<1>2. /\ r \in Numbers \ Open /\ \A k \in Numbers \ Open : r <= k
      /\ w \in Numbers \ Open /\ r < w
      /\ \A k \in Numbers \ Open : k # r => w <= k
  BY <1>1, FreeNumbers
<1>3. /\ StdTables /\ OpeningInv /\ FillingInv /\ table \in [Numbers -> Entries]
      /\ created \in SUBSET Numbers /\ missing \in SUBSET Std /\ filling \in BOOLEAN
      /\ \A n \in Numbers : start[n] = NoEntry \/ start[n] = User
      /\ \A n \in Numbers : n \in Open <=> table[n] # NoEntry
      /\ \A n \in Std : Stood(n) # NoEntry
  BY <1>1, BusyFacts
<1>4. ~filling => Target \in missing /\ missing # {} /\ \A n \in missing : Target <= n
  <2>1. ~filling => missing # {}
    BY <1>1, <1>3 DEF OpeningInv
  <2> QED  BY <1>3, <2>1, TargetIs
<1>5. Target \in {0, 1, 2} /\ (filling => Target = 0)
  BY <1>3, <1>4, TargetIs, NumbersFacts
<1>6. /\ e \in Entries /\ f \in Entries /\ e # NoEntry /\ f # NoEntry
      /\ e.end = "read" /\ f.end = "write"
  <2>1. Target + 1 \in 0 .. 3
    BY <1>5
  <2>2. (~filling) \in BOOLEAN
    BY <1>3
  <2> QED  BY ZenonT(40), <2>1, <2>2, EntriesDiffer
<1> HIDE DEF r, w, e, f
<1>7. /\ table' \in [Numbers -> Entries] /\ table'[r] = e /\ table'[w] = f
      /\ \A n \in Numbers : n # r /\ n # w => table'[n] = table[n]
      /\ r \in Nat /\ w \in Nat /\ r # w
  <2>1. r \in Nat /\ w \in Nat /\ r # w /\ r \in Numbers /\ w \in Numbers
    BY <1>2, NumbersFacts
  <2>2. table' = [table EXCEPT ![r] = e, ![w] = f] /\ table \in [Numbers -> Entries]
    BY <1>1, <1>3
  <2>3. e \in Entries /\ f \in Entries
    BY <1>6
  <2> QED  BY <2>1, <2>2, <2>3, TwoChanged
<1>8. created = {} /\ created' = {r, w}
  BY <1>1, <1>3 DEF OpeningInv, FillingInv
<1>9. /\ StdTables' /\ StdFdsKept'
      /\ \A n \in Std : Stood(n)' = Stood(n) /\ Standing(n)' = Standing(n)
  <2>1. doing' \in Calls \ {"none"} /\ created' \in SUBSET Numbers
    BY <1>1, <1>2, <1>8 DEF Calls
  <2> QED  BY <1>1, <1>7, <2>1, GoesOn
<1>10. Target' = Target
  BY <1>1 DEF Target
<1>11. OpeningInv'
  <2> SUFFICES ASSUME ~filling PROVE OpeningInv'
    BY <1>1 DEF OpeningInv
  <2>1. /\ \A n \in Std \ missing : table[n] = Stood(n) /\ n \notin created
        /\ \A n \in Numbers \ (Std \ missing) : table[n] = NoEntry
        /\ start[1] = NoEntry /\ 2 \in missing => 1 \in missing
    BY <1>1, <1>3, <1>8 DEF OpeningInv
  <2>2. r = Target
    <3>1. Target \in Numbers /\ Target \in missing /\ Target \in Numbers \ Open
      BY <1>3, <1>4, <2>1, NumbersFacts
    <3>2. r \notin Std \ missing
      BY <1>2, <1>3, <2>1
    <3>3. r <= Target
      BY <1>2, <3>1
    <3>4. r \in Std
      BY <1>5, <1>7, <3>3, NumbersFacts
    <3> QED  BY <1>4, <1>5, <1>7, <3>2, <3>3, <3>4
  <2>3. w \notin Std \ missing /\ r \notin Std \ missing /\ w \in Numbers \ {Target}
    BY <1>2, <1>3, <1>7, <2>1, <2>2
  <2>4. \A n \in Std \ missing' : table'[n] = Stood(n)' /\ n \notin created'
    BY ZenonT(40), <1>1, <1>7, <1>8, <1>9, <2>1, <2>3, NumbersFacts
  <2>5. \A n \in Numbers \ (Std \ missing') : n \in created' \/ table'[n] = NoEntry
    BY <1>1, <1>7, <1>8, <2>1
  <2>6. e = End("read", Target + 1, TRUE) /\ f = End("write", Target + 1, TRUE)
    BY <1>3 DEF e, f
  <2>7. \E v \in Numbers \ {Target'} :
           /\ created' = {Target', v} /\ table'[Target'] = End("read", Target' + 1, TRUE)
           /\ table'[v] = End("write", Target' + 1, TRUE)
    BY <1>7, <1>8, <1>10, <2>2, <2>3, <2>6
  <2> QED  BY <1>1, <1>4, <2>1, <2>4, <2>5, <2>7 DEF OpeningInv
<1>12. FillingInv'
  <2> SUFFICES ASSUME filling PROVE FillingInv'
    BY <1>1 DEF FillingInv
  <2>1. \A n \in Numbers : table[n] = start[n]
    BY <1>3, <1>8 DEF FillingInv
  <2>2. \A n \in Numbers \ created' : table'[n] = start'[n]
    BY <1>1, <1>7, <1>8, <2>1
  <2>3. \A n \in created' :
           /\ start'[n] = NoEntry /\ table'[n] # NoEntry
           /\ \A m \in Numbers : m < n /\ start'[m] = NoEntry => m \in created'
    <3>1. start[r] = NoEntry /\ start[w] = NoEntry
      BY <1>2, <1>3, <2>1
    <3>2. \A m \in Numbers : start[m] = NoEntry => m \in Nat /\ r <= m /\ (m # r => w <= m)
      BY <1>2, <1>3, <2>1, NumbersFacts
    <3>3. e # NoEntry /\ f # NoEntry /\ created' = {r, w} /\ start' = start
      BY <1>1, <1>6, <1>8
    <3>4. \A m \in Numbers : m < r /\ start[m] = NoEntry => m \in created'
      BY <1>7, <3>2
    <3>5. \A m \in Numbers : m < w /\ start[m] = NoEntry => m \in created'
      <4> TAKE m \in Numbers
      <4> HAVE m < w /\ start[m] = NoEntry
      <4>1. m \in Nat /\ (m # r => w <= m)
        BY <3>2
      <4>2. m = r
        BY <1>7, <4>1
      <4> QED  BY <3>3, <4>2
    <3> QED  BY <1>7, <3>1, <3>3, <3>4, <3>5
  <2>4. \E a, b \in Numbers : /\ a < b /\ created' = {a, b}
                              /\ table'[a].end = "read" /\ table'[b].end = "write"
    BY <1>2, <1>6, <1>7, <1>8
  <2> QED  BY <1>1, <2>2, <2>3, <2>4 DEF FillingInv
<1> QED  BY <1>9, <1>11, <1>12 DEF StdInv

LEMMA CloseOtherInv ==
    ASSUME StdInv, CloseOther
    PROVE  StdInv'
<1>1. /\ outcome = "busy" /\ doing = "close other"
      /\ doing' = (IF filling THEN "duplicate" ELSE "move")
      /\ table' = [table EXCEPT ![Other] = NoEntry] /\ created' = created \ {Other}
      /\ UNCHANGED <<start, missing, filling, outcome>>
  BY DEF CloseOther, Doing
<1>2. /\ StdTables /\ OpeningInv /\ FillingInv /\ table \in [Numbers -> Entries]
      /\ created \in SUBSET Numbers /\ missing \in SUBSET Std /\ filling \in BOOLEAN
  BY <1>1, BusyFacts
<1>3. doing' \in Calls \ {"none"} /\ created' \in SUBSET Numbers
  BY <1>1, <1>2 DEF Calls
<1>4. Target' = Target
  BY <1>1 DEF Target
<1>5. CASE ~filling
  <2>1. PICK w \in Numbers \ {Target} :
             /\ created = {Target, w} /\ table[Target] = End("read", Target + 1, TRUE)
             /\ table[w] = End("write", Target + 1, TRUE)
    BY <1>1, <1>2, <1>5 DEF OpeningInv
  <2>2. Target \in missing /\ missing # {} /\ (\A n \in missing : Target <= n) /\ Target \in {0, 1, 2}
    <3>1. missing # {}
      BY <1>1, <1>2, <1>5 DEF OpeningInv
    <3> QED  BY <1>2, <1>5, <3>1, TargetIs, NumbersFacts
  <2>3. table[Target].end = "read" /\ table[w].end = "write"
    <3>1. Target + 1 \in 0 .. 3 /\ TRUE \in BOOLEAN
      BY <2>2
    <3>2. PICK p \in 0 .. 3 : p = Target + 1
      BY <3>1
    <3>3. End("read", p, TRUE).end = "read" /\ End("write", p, TRUE).end = "write"
      BY EntriesDiffer
    <3> QED  BY <2>1, <3>2, <3>3
  <2>4. PICK s \in Numbers, o \in Numbers :
          /\ created = {s, o} /\ s # o /\ Other = o
          /\ table[s] = End(IF Target = 0 THEN "read" ELSE "write", Target + 1, TRUE)
    <3>1. CASE Target = 0
      <4>1. Other = w
        BY <2>1, <2>3, <3>1, SelectedIs DEF Wanted
      <4> QED  BY <1>2, <2>1, <3>1, <4>1
    <3>2. CASE Target # 0
      <4>1. Other = Target
        BY <2>1, <2>3, <3>2, SelectedIs DEF Wanted
      <4> QED  BY <1>2, <2>1, <3>2, <4>1
    <3> QED  BY <3>1, <3>2
  <2>5. table[s] = Standing(Target)
    <3>1. ~(Target = 2 /\ start[1] = NoEntry)
      <4>1. start[1] = NoEntry /\ 2 \in missing => 1 \in missing
        BY <1>1, <1>2, <1>5 DEF OpeningInv
      <4> QED  BY <2>2, <4>1
    <3> QED  BY <2>4, <3>1 DEF Standing
  <2>6. /\ created' = {s} /\ table' \in [Numbers -> Entries] /\ table'[o] = NoEntry
        /\ table'[s] = table[s] /\ \A n \in Numbers \ created : table'[n] = table[n]
    <3>1. table' = [table EXCEPT ![o] = NoEntry] /\ created' = created \ {o}
      BY <1>1, <2>4
    <3>2. /\ table' \in [Numbers -> Entries] /\ table'[o] = NoEntry
          /\ \A n \in Numbers : n # o => table'[n] = table[n]
      BY <1>2, <3>1, EntriesDiffer, OneChanged
    <3> QED  BY <2>4, <3>1, <3>2
  <2>7. /\ StdTables' /\ StdFdsKept'
        /\ \A n \in Std : Stood(n)' = Stood(n) /\ Standing(n)' = Standing(n)
    BY <1>1, <1>3, <2>6, GoesOn
  <2>8. OpeningInv'
    <3>1. /\ \A n \in Std \ missing : table[n] = Stood(n) /\ n \notin created
          /\ \A n \in Numbers \ (Std \ missing) : n \in created \/ table[n] = NoEntry
          /\ start[1] = NoEntry /\ 2 \in missing => 1 \in missing
      BY <1>1, <1>2, <1>5 DEF OpeningInv
    <3>2. \A n \in Std \ missing' : table'[n] = Stood(n)' /\ n \notin created'
      BY ZenonT(40), <1>1, <2>4, <2>6, <2>7, <3>1, NumbersFacts
    <3>3. \A n \in Numbers \ (Std \ missing') : n \in created' \/ table'[n] = NoEntry
      BY <1>1, <2>4, <2>6, <3>1
    <3>4. \E v \in Numbers : created' = {v} /\ table'[v] = Standing(Target)'
      <4>1. Standing(Target)' = Standing(Target)
        BY <1>1, <1>4 DEF Standing
      <4> QED  BY <2>5, <2>6, <4>1
    <3>5. doing' = "move" /\ missing' = missing /\ missing' # {} /\ start'[1] = start[1]
      BY <1>1, <1>5, <2>2
    <3>6. start'[1] = NoEntry /\ 2 \in missing' => 1 \in missing'
      BY <3>1, <3>5
    <3> QED  BY <3>2, <3>3, <3>4, <3>5, <3>6 DEF OpeningInv
  <2>9. FillingInv'
    BY <1>1, <1>5 DEF FillingInv
  <2> QED  BY <2>7, <2>8, <2>9 DEF StdInv
<1>6. CASE filling
  <2>1. PICK a, b \in Numbers : /\ a < b /\ created = {a, b}
                                /\ table[a].end = "read" /\ table[b].end = "write"
    BY <1>1, <1>2, <1>6 DEF FillingInv
  <2>2. Other = b
    <3>1. Wanted = "read"
      BY <1>2, <1>6, TargetIs DEF Wanted
    <3> QED  BY <2>1, <3>1, SelectedIs
  <2>3. a # b /\ a \in Nat /\ b \in Nat
    BY <2>1, NumbersFacts
  <2>4. /\ created' = {a} /\ table' \in [Numbers -> Entries] /\ table'[b] = NoEntry
        /\ \A n \in Numbers \ {b} : table'[n] = table[n]
    <3>1. table' = [table EXCEPT ![b] = NoEntry] /\ created' = created \ {b}
      BY <1>1, <2>2
    <3>2. /\ table' \in [Numbers -> Entries] /\ table'[b] = NoEntry
          /\ \A n \in Numbers : n # b => table'[n] = table[n]
      BY <1>2, <3>1, EntriesDiffer, OneChanged
    <3> QED  BY <2>1, <2>3, <3>1, <3>2
  <2>5. StdTables' /\ StdFdsKept'
    BY <1>1, <1>3, <2>4, GoesOn
  <2>6. OpeningInv'
    BY <1>1, <1>6 DEF OpeningInv
  <2>7. FillingInv'
    <3>1. /\ \A n \in Numbers \ created : table[n] = start[n]
          /\ \A n \in created : /\ start[n] = NoEntry /\ table[n] # NoEntry
                                /\ \A m \in Numbers : m < n /\ start[m] = NoEntry => m \in created
      BY <1>2, <1>6 DEF FillingInv
    <3>2. \A n \in Numbers \ created' : table'[n] = start'[n]
      BY <1>1, <2>1, <2>4, <3>1
    <3>3. \A n \in created' :
           /\ start'[n] = NoEntry /\ table'[n] # NoEntry
           /\ \A m \in Numbers : m < n /\ start'[m] = NoEntry => m \in created'
      <4>1. start[a] = NoEntry /\ table'[a] # NoEntry
        BY <2>1, <2>3, <2>4, <3>1
      <4>2. ASSUME NEW m \in Numbers, m < a, start[m] = NoEntry PROVE m = a
        <5>1. m \in {a, b} /\ m \in Nat
          BY <2>1, <3>1, <4>2, NumbersFacts
        <5> QED  BY <2>1, <2>3, <4>2, <5>1
      <4> QED  BY <1>1, <2>4, <4>1, <4>2
    <3>4. \A n \in created' : table'[n].end = "read"
      BY <2>1, <2>3, <2>4
    <3>5. \E c, d \in Numbers : c <= d /\ created' = {c, d}
      <4>1. a <= a /\ created' = {a, a}
        BY <2>3, <2>4
      <4> QED  BY <4>1
    <3> QED  BY <1>1, <1>6, <3>2, <3>3, <3>4, <3>5 DEF FillingInv
  <2> QED  BY <2>5, <2>6, <2>7 DEF StdInv
<1> QED  BY <1>2, <1>5, <1>6

LEMMA MoveFdInv ==
    ASSUME StdInv, MoveFd
    PROVE  StdInv'
<1>1. /\ outcome = "busy" /\ doing = "move" /\ doing' = "close old"
      /\ table' = [table EXCEPT ![Target] = IF Selected = Target THEN @ ELSE table[Selected]]
      /\ UNCHANGED <<start, missing, created, filling, outcome>>
  BY DEF MoveFd, Doing, Copied
<1>2. /\ StdTables /\ OpeningInv /\ FillingInv /\ table \in [Numbers -> Entries]
      /\ created \in SUBSET Numbers /\ missing \in SUBSET Std /\ filling \in BOOLEAN
  BY <1>1, BusyFacts
<1>3. ~filling /\ missing # {}
  BY <1>1, <1>2 DEF FillingInv, OpeningInv
<1>4. PICK t \in Std : t = Target /\ t \in missing
  BY <1>2, <1>3, TargetIs
<1>5. PICK s \in Numbers : created = {s} /\ table[s] = Standing(Target)
  BY <1>1, <1>2, <1>3 DEF OpeningInv
<1>6. PICK e \in Entries : e = Standing(t)
  BY StandingIs
<1>7. table[s] = e /\ e.end = Wanted
  BY <1>4, <1>5, <1>6, StandingIs DEF Wanted
<1>8. Selected = s
  BY <1>5, <1>7, SelectedIs
<1>9. table' = [table EXCEPT ![t] = e] /\ t \in Numbers
  BY <1>1, <1>4, <1>7, <1>8, NumbersFacts
<1>10. table' \in [Numbers -> Entries] /\ table'[t] = e /\ \A n \in Numbers : n # t => table'[n] = table[n]
  BY <1>2, <1>9, OneChanged
<1>11. /\ StdTables' /\ StdFdsKept'
       /\ \A n \in Std : Stood(n)' = Stood(n) /\ Standing(n)' = Standing(n)
  <2>1. doing' \in Calls \ {"none"} /\ created' \in SUBSET Numbers /\ missing' \in SUBSET missing
    BY <1>1, <1>2 DEF Calls
  <2> QED  BY <1>1, <1>10, <2>1, GoesOn
<1>12. Target' = t /\ Standing(Target)' = e
  BY <1>1, <1>4, <1>6 DEF Target, Standing
<1>13. OpeningInv'
  <2>1. /\ \A n \in Std \ missing : table[n] = Stood(n) /\ n \notin created
        /\ \A n \in Numbers \ (Std \ missing) : n \in created \/ table[n] = NoEntry
        /\ (start[1] = NoEntry /\ 2 \in missing => 1 \in missing)
    BY <1>1, <1>2, <1>3 DEF OpeningInv
  <2>2. \A n \in Std \ missing' : table'[n] = Stood(n)' /\ n \notin created'
    BY ZenonT(40), <1>1, <1>4, <1>10, <1>11, <2>1, NumbersFacts
  <2>3. \A n \in Numbers \ (Std \ missing') : n \in created' \/ table'[n] = NoEntry \/ n = Target'
    BY <1>1, <1>10, <1>12, <2>1
  <2>4. \E v \in Numbers : created' = {v} /\ table'[v] = Standing(Target)'
    BY <1>1, <1>5, <1>7, <1>10, <1>12
  <2>5. table'[Target'] = Standing(Target)'
    BY <1>10, <1>12
  <2>6. doing' = "close old" /\ missing' # {} /\ (start'[1] = NoEntry /\ 2 \in missing' => 1 \in missing')
    BY <1>1, <1>3, <2>1
  <2> QED  BY <2>2, <2>3, <2>4, <2>5, <2>6 DEF OpeningInv
<1>14. FillingInv'
  BY <1>1, <1>3 DEF FillingInv
<1> QED  BY <1>11, <1>13, <1>14 DEF StdInv

LEMMA CloseOldInv ==
    ASSUME StdInv, CloseOld
    PROVE  StdInv'
<1>1. /\ outcome = "busy" /\ doing = "close old" /\ missing' = missing \ {Target}
      /\ doing' = (IF missing = {1, 2} THEN "copy" ELSE Opens(missing')) /\ created' = {}
      /\ table' = [table EXCEPT ![Selected] = IF Selected = Target THEN @ ELSE NoEntry]
      /\ UNCHANGED <<start, filling, outcome>>
  BY DEF CloseOld, Doing
<1>2. /\ StdTables /\ OpeningInv /\ FillingInv /\ table \in [Numbers -> Entries]
      /\ created \in SUBSET Numbers /\ missing \in SUBSET Std /\ filling \in BOOLEAN
  BY <1>1, BusyFacts
<1>3. ~filling /\ missing # {}
  BY <1>1, <1>2 DEF FillingInv, OpeningInv
<1>4. PICK t \in Std : t = Target /\ t \in missing /\ \A n \in missing : t <= n
  BY <1>2, <1>3, TargetIs
<1>5. PICK s \in Numbers : created = {s} /\ table[s] = Standing(Target)
  BY <1>1, <1>2, <1>3 DEF OpeningInv
<1>6. PICK e \in Entries : e = Standing(t)
  BY StandingIs
<1>7. table[s] = e /\ table[t] = e /\ e.end = Wanted
  <2>1. table[Target] = Standing(Target)
    BY <1>1, <1>2, <1>3 DEF OpeningInv
  <2> QED  BY <1>4, <1>5, <1>6, <2>1, StandingIs DEF Wanted
<1>8. Selected = s
  BY <1>5, <1>7, SelectedIs
<1>9. /\ table' \in [Numbers -> Entries] /\ \A n \in Numbers : n # s => table'[n] = table[n]
      /\ (s # t => table'[s] = NoEntry) /\ (s = t => table'[s] = table[s])
  <2>1. PICK f \in Entries : f = IF s = t THEN table[t] ELSE NoEntry
    BY <1>6, <1>7, EntriesDiffer
  <2>2. table' = [table EXCEPT ![s] = f]
    BY <1>1, <1>4, <1>8, <2>1
  <2>3. table' \in [Numbers -> Entries] /\ table'[s] = f /\ \A n \in Numbers : n # s => table'[n] = table[n]
    BY <1>2, <2>2, OneChanged
  <2> QED  BY <2>1, <2>3
<1>10. /\ doing' \in {"copy", "pipe", "end"} /\ (doing' = "copy" <=> missing = {1, 2})
       /\ (missing # {1, 2} => (doing' = "end" <=> missing' = {}))
  BY <1>1 DEF Opens
<1>11. /\ StdTables' /\ StdFdsKept'
       /\ \A n \in Std : Stood(n)' = Stood(n) /\ Standing(n)' = Standing(n)
  <2>1. doing' \in Calls \ {"none"}
    BY <1>10 DEF Calls
  <2>2. created' \in SUBSET Numbers /\ missing' \in SUBSET missing
    BY <1>1
  <2> QED  BY <1>1, <1>9, <2>1, <2>2, GoesOn
<1>12. OpeningInv'
  <2>1. /\ \A n \in Std \ missing : table[n] = Stood(n) /\ n \notin created
        /\ \A n \in Numbers \ (Std \ missing) : n \in created \/ table[n] = NoEntry \/ n = t
        /\ (start[1] = NoEntry /\ 2 \in missing => 1 \in missing)
    BY <1>1, <1>2, <1>3, <1>4 DEF OpeningInv
  <2>2. \A n \in missing : start[n] = NoEntry
    BY <1>2 DEF StdTables
  <2>3. table'[t] = Stood(t)
    BY <1>4, <1>6, <1>7, <1>9, <2>2, NumbersFacts DEF Stood
  <2>4. missing' = missing \ {t}
    BY <1>1, <1>4
  <2>5. \A n \in Std \ missing' : table'[n] = Stood(n)' /\ n \notin created'
    <3> TAKE n \in Std \ missing'
    <3>1. Stood(n)' = Stood(n) /\ n \notin created' /\ n \in Numbers
      BY <1>1, <1>11, NumbersFacts
    <3>2. CASE n = t
      BY <2>3, <3>1, <3>2
    <3>3. CASE n # t
      <4>1. n \in Std \ missing
        BY <2>4, <3>3
      <4>2. n # s /\ table[n] = Stood(n)
        BY <1>5, <2>1, <4>1
      <4> QED  BY <1>9, <3>1, <4>2
    <3> QED  BY <3>2, <3>3
  <2>6. \A n \in Numbers \ (Std \ missing') : table'[n] = NoEntry
    <3> TAKE n \in Numbers \ (Std \ missing')
    <3>1. n # t /\ n \in Numbers \ (Std \ missing)
      BY <1>4, <2>4
    <3> QED  BY <1>5, <1>9, <2>1, <3>1
  <2>7. missing \in SUBSET {0, 1, 2} /\ t \in {0, 1, 2}
    BY <1>2, <1>4, NumbersFacts
  <2>8. doing' # "copy" /\ start'[1] = NoEntry /\ 2 \in missing' => 1 \in missing'
    <3> SUFFICES ASSUME missing # {1, 2}, start[1] = NoEntry, 2 \in missing, 2 # t PROVE 1 \in missing /\ 1 # t
      BY <1>1, <1>10, <2>4
    <3>1. 1 \in missing
      BY <2>1
    <3>2. 1 # t
      <4> SUFFICES ASSUME t = 1 PROVE FALSE
        OBVIOUS
      <4>1. 0 \notin missing
        BY <1>4
      <4>2. missing = {1, 2}
        BY <2>7, <3>1, <4>1
      <4> QED  BY <4>2
    <3> QED  BY <3>1, <3>2
  <2>9. missing = {1, 2} => t = 1 /\ missing' = {2} /\ start'[1] = NoEntry
    <3> HAVE missing = {1, 2}
    <3>1. 1 \in missing /\ t <= 1 /\ t \in {1, 2}
      BY <1>4
    <3>2. t = 1
      BY <3>1
    <3>3. missing' = {2}
      BY <2>4, <3>2
    <3>4. start[1] = NoEntry /\ start' = start
      BY <1>1, <2>2, <3>1
    <3> QED  BY <3>2, <3>3, <3>4
  <2>10. doing' \in {"end", "none"} <=> missing' = {}
    BY <1>10, <2>9
  <2>11. doing' = "copy" => missing' = {2} /\ start'[1] = NoEntry
    BY <1>10, <2>9
  <2> QED  BY <1>1, <1>10, <2>5, <2>6, <2>8, <2>10, <2>11 DEF OpeningInv
<1>13. FillingInv'
  BY <1>1, <1>3 DEF FillingInv
<1> QED  BY <1>11, <1>12, <1>13 DEF StdInv

LEMMA CopyStdoutInv ==
    ASSUME StdInv, CopyStdout
    PROVE  StdInv'
<1>1. /\ outcome = "busy" /\ doing = "copy" /\ missing' = {} /\ doing' = "end"
      /\ table' = [table EXCEPT ![2] = table[1]]
      /\ UNCHANGED <<start, created, filling, outcome>>
  BY DEF CopyStdout, Doing, Copied
<1>2. /\ StdTables /\ OpeningInv /\ FillingInv /\ table \in [Numbers -> Entries]
      /\ created \in SUBSET Numbers /\ missing \in SUBSET Std /\ filling \in BOOLEAN
  BY <1>1, BusyFacts
<1>3. ~filling
  BY <1>1, <1>2 DEF FillingInv
<1>4. /\ \A n \in Std \ missing : table[n] = Stood(n) /\ n \notin created
      /\ \A n \in Numbers \ (Std \ missing) : table[n] = NoEntry
      /\ created = {} /\ missing = {2} /\ start[1] = NoEntry
  BY <1>1, <1>2, <1>3 DEF OpeningInv
<1>5. start[2] = NoEntry
  BY <1>2, <1>4 DEF StdTables
<1>6. table[1] = Stood(2) /\ table[1] \in Entries
  <2>1. table[1] = Stood(1) /\ 1 \in Numbers
    BY <1>4, NumbersFacts
  <2>2. Stood(1) = End("write", 2, TRUE) /\ Stood(2) = End("write", 2, TRUE)
    BY <1>4, <1>5 DEF Stood, Standing
  <2> QED  BY <1>2, <2>1, <2>2
<1>7. table' \in [Numbers -> Entries] /\ table'[2] = Stood(2) /\ \A n \in Numbers : n # 2 => table'[n] = table[n]
  <2>1. PICK e \in Entries : e = table[1]
    BY <1>6
  <2>2. table' = [table EXCEPT ![2] = e] /\ 2 \in Numbers
    BY <1>1, <2>1, NumbersFacts
  <2>3. table' \in [Numbers -> Entries] /\ table'[2] = e /\ \A n \in Numbers : n # 2 => table'[n] = table[n]
    BY <1>2, <2>2, OneChanged
  <2> QED  BY <1>6, <2>1, <2>3
<1>8. /\ StdTables' /\ StdFdsKept'
      /\ \A n \in Std : Stood(n)' = Stood(n) /\ Standing(n)' = Standing(n)
  <2>1. doing' \in Calls \ {"none"} /\ created' \in SUBSET Numbers /\ missing' \in SUBSET missing
    BY <1>1, <1>2 DEF Calls
  <2> QED  BY <1>1, <1>7, <2>1, GoesOn
<1>9. OpeningInv'
  <2>1. \A n \in Std \ missing' : table'[n] = Stood(n)' /\ n \notin created'
    BY <1>1, <1>4, <1>7, <1>8, NumbersFacts
  <2>2. \A n \in Numbers \ (Std \ missing') : table'[n] = NoEntry
    BY <1>1, <1>4, <1>7, NumbersFacts
  <2> QED  BY <1>1, <1>4, <2>1, <2>2 DEF OpeningInv
<1>10. FillingInv'
  BY <1>1, <1>3 DEF FillingInv
<1> QED  BY <1>8, <1>9, <1>10 DEF StdInv

LEMMA DuplicateFillerInv ==
    ASSUME StdInv, DuplicateFiller
    PROVE  StdInv'
<1>1. /\ outcome = "busy" /\ doing = "duplicate" /\ CanOpen(1)
      /\ table' = [table EXCEPT ![Lowest] = table[Selected]] /\ created' = created \cup {Lowest}
      /\ doing' = (IF Cardinality(created) = 2 THEN "end" ELSE "duplicate")
      /\ UNCHANGED <<start, missing, filling, outcome>>
  BY DEF DuplicateFiller, Doing, Copied
<1>2. /\ StdTables /\ OpeningInv /\ FillingInv /\ table \in [Numbers -> Entries]
      /\ created \in SUBSET Numbers /\ missing \in SUBSET Std /\ filling \in BOOLEAN
      /\ \A n \in Numbers : n \in Open <=> table[n] # NoEntry
  BY <1>1, BusyFacts
<1>3. filling
  BY <1>1, <1>2 DEF OpeningInv
<1>4. /\ \A n \in Numbers \ created : table[n] = start[n]
      /\ \A n \in created : /\ start[n] = NoEntry /\ table[n] # NoEntry /\ table[n].end = "read"
                            /\ \A m \in Numbers : m < n /\ start[m] = NoEntry => m \in created
  BY <1>1, <1>2, <1>3 DEF FillingInv
<1>5. PICK a, b \in Numbers : a <= b /\ created = {a, b}
  BY <1>1, <1>2, <1>3 DEF FillingInv
<1>6. PICK c \in Numbers : c = Lowest /\ c \notin Open /\ \A k \in Numbers \ Open : c <= k
  BY <1>1, FreeNumbers
<1>7. PICK e \in Entries : e = table[Selected] /\ e # NoEntry /\ e.end = "read"
  <2>1. Wanted = "read"
    BY <1>2, <1>3, TargetIs DEF Wanted
  <2>2. Selected \in created
    BY <1>4, <1>5, <2>1, SelectedIs
  <2> QED  BY <1>2, <1>4, <2>2
<1>8. table' \in [Numbers -> Entries] /\ table'[c] = e /\ \A n \in Numbers : n # c => table'[n] = table[n]
  <2>1. table' = [table EXCEPT ![c] = e]
    BY <1>1, <1>6, <1>7
  <2> QED  BY <1>2, <2>1, OneChanged
<1>9. c \notin created /\ start[c] = NoEntry /\ created' = created \cup {c}
  BY <1>1, <1>2, <1>4, <1>6
<1>10. a \in Nat /\ b \in Nat /\ c \in Nat /\ a < c /\ b < c
  <2>1. a \in Nat /\ b \in Nat /\ c \in Nat
    BY NumbersFacts
  <2>2. c # a /\ c # b /\ ~(c < a) /\ ~(c < b)
    BY <1>4, <1>5, <1>9
  <2> QED  BY <2>1, <2>2
<1>11. StdTables' /\ StdFdsKept'
  <2>1. doing' \in Calls \ {"none"} /\ created' \in SUBSET Numbers /\ missing' \in SUBSET missing
    BY <1>1, <1>2, <1>9 DEF Calls
  <2> QED  BY <1>1, <1>8, <2>1, GoesOn
<1>12. OpeningInv'
  BY <1>1, <1>3 DEF OpeningInv
<1>13. FillingInv'
  <2>1. \A n \in Numbers \ created' : table'[n] = start'[n]
    BY <1>1, <1>4, <1>8, <1>9
  <2>2. \A n \in created' : start'[n] = NoEntry /\ table'[n] # NoEntry /\ table'[n].end = "read"
    BY <1>1, <1>2, <1>4, <1>7, <1>8, <1>9
  <2>3. \A m \in Numbers : m < c /\ start[m] = NoEntry => m \in created
    <3> TAKE m \in Numbers
    <3> HAVE m < c /\ start[m] = NoEntry
    <3> SUFFICES ASSUME m \notin created PROVE FALSE
      OBVIOUS
    <3>1. m \notin Open /\ m \in Nat
      BY <1>2, <1>4, NumbersFacts
    <3> QED  BY <1>6, <1>10, <3>1
  <2>4. \A n \in created' : \A m \in Numbers : m < n /\ start'[m] = NoEntry => m \in created'
    BY <1>1, <1>4, <1>9, <2>3
  <2>5. CASE a = b
    <3>1. created = {a} /\ Cardinality(created) = 1
      BY <1>5, <2>5, FS_Singleton
    <3>2. doing' = "duplicate" /\ created' = {a, c} /\ a <= c
      BY <1>1, <1>9, <1>10, <3>1
    <3>3. \E x, y \in Numbers : x <= y /\ created' = {x, y}
      BY <3>2
    <3> QED  BY <1>1, <1>2, <1>3, <2>1, <2>2, <2>4, <3>2, <3>3 DEF FillingInv
  <2>6. CASE a # b
    <3>1. Cardinality(created) = 2
      <4>1. IsFiniteSet({a}) /\ Cardinality({a}) = 1 /\ b \notin {a} /\ created = {a} \cup {b}
        BY <1>5, <2>6, FS_Singleton
      <4>2. Cardinality({a} \cup {b}) = Cardinality({a}) + 1
        BY <4>1, FS_AddElement
      <4> QED  BY <4>1, <4>2
    <3>2. doing' = "end" /\ created' = {a, b, c} /\ a < b
      BY <1>1, <1>5, <1>9, <1>10, <2>6, <3>1
    <3>3. \E x, y, z \in Numbers : x < y /\ y < z /\ created' = {x, y, z}
      BY <1>10, <3>2
    <3> QED  BY <1>1, <1>2, <1>3, <2>1, <2>2, <2>4, <3>2, <3>3 DEF FillingInv
  <2> QED  BY <2>5, <2>6
<1> QED  BY <1>11, <1>12, <1>13 DEF StdInv

\* Standard descriptors that are stood in for have no one at the other end.
LEMMA NoOneElse ==
    ASSUME StdInv, outcome = "busy", doing = "end", ~filling
    PROVE  /\ Open = Std
           /\ \A n \in Std : start[n] # NoEntry => table[n] = start[n]
           /\ \A n \in Std : start[n] = NoEntry =>
                /\ table[n].end = (IF n = 0 THEN "read" ELSE "write") /\ table[n].cloexec
                /\ \A o \in Open : table[o].pipe = table[n].pipe => table[o].end = table[n].end
<1>1. /\ OpeningInv /\ table \in [Numbers -> Entries]
      /\ \A n \in Numbers : start[n] = NoEntry \/ start[n] = User
      /\ \A n \in Numbers : n \in Open <=> table[n] # NoEntry
      /\ \A n \in Std : Stood(n) # NoEntry
  BY BusyFacts
<1>2. /\ \A n \in Std : table[n] = Stood(n)
      /\ \A n \in Numbers \ Std : table[n] = NoEntry
  BY <1>1 DEF OpeningInv
<1>3. Open = Std
  <2>1. Open \subseteq Numbers
    BY DEF Open
  <2> QED  BY <1>1, <1>2, <2>1, NumbersFacts
<1>4. \A n \in Std : start[n] # NoEntry => table[n] = start[n] /\ start[n] = User
  BY <1>1, <1>2, NumbersFacts DEF Stood
<1>5. \A n \in Std : start[n] = NoEntry => table[n] = Standing(n)
  BY <1>2 DEF Stood
<1>6. ASSUME NEW n \in Std, start[n] = NoEntry
      PROVE  /\ table[n].end = (IF n = 0 THEN "read" ELSE "write") /\ table[n].cloexec
             /\ \A o \in Open : table[o].pipe = table[n].pipe => table[o].end = table[n].end
  <2>1. /\ table[n].end = (IF n = 0 THEN "read" ELSE "write") /\ table[n].cloexec
        /\ table[n].pipe = IF n = 2 /\ start[1] = NoEntry THEN 2 ELSE n + 1
    BY <1>5, <1>6, StandingIs
  <2>2. ASSUME NEW o \in Std, table[o].pipe = table[n].pipe
        PROVE  table[o].end = table[n].end
    <3>1. start[o] = NoEntry
      <4> SUFFICES ASSUME start[o] # NoEntry PROVE FALSE
        OBVIOUS
      <4>1. table[o].pipe = 0
        BY <1>4, EntriesDiffer
      <4> QED  BY <2>1, <2>2, <4>1, NumbersFacts
    <3>2. /\ table[o].end = (IF o = 0 THEN "read" ELSE "write")
          /\ table[o].pipe = IF o = 2 /\ start[1] = NoEntry THEN 2 ELSE o + 1
      BY <1>5, <3>1, StandingIs
    <3> QED  BY <2>1, <2>2, <3>2, NumbersFacts
  <2> QED  BY <1>3, <2>1, <2>2
<1> QED  BY <1>3, <1>4, <1>6

\* The filler has the three standard numbers, or they were open.
LEMMA Filled ==
    ASSUME StdInv, outcome = "busy", doing = "end", filling
    PROVE  Std \subseteq Open
<1>1. /\ FillingInv /\ \A n \in Numbers : n \in Open <=> table[n] # NoEntry
  BY BusyFacts
<1>2. PICK a, b, c \in Numbers : a < b /\ b < c /\ created = {a, b, c}
  BY <1>1 DEF FillingInv
<1>3. a \in Nat /\ b \in Nat /\ c \in Nat
  BY NumbersFacts
<1>4. /\ \A n \in Numbers \ created : table[n] = start[n]
      /\ \A n \in created : table[n] # NoEntry
      /\ \A m \in Numbers : m < c /\ start[m] = NoEntry => m \in created
  BY <1>1, <1>2 DEF FillingInv
<1>5. \A n \in Std : n = c \/ n < c
  BY <1>2, <1>3, NumbersFacts
<1>6. \A n \in Std : table[n] # NoEntry
  BY <1>2, <1>4, <1>5, NumbersFacts
<1> QED  BY <1>1, <1>6, NumbersFacts

LEMMA EndStdInv ==
    ASSUME StdInv, EndStd
    PROVE  StdInv'
<1>1. /\ outcome = "busy" /\ doing = "end" /\ doing' = "none"
      /\ outcome' = (IF filling THEN "filled" ELSE "open")
      /\ UNCHANGED <<table, start, missing, created, filling>>
  BY DEF EndStd, Doing
<1>2. /\ StdTables /\ OpeningInv /\ FillingInv /\ StdTypeOK /\ filling \in BOOLEAN
  BY <1>1, BusyFacts
<1>3. StdTables'
  <2>1. StdTypeOK'
    BY <1>1, <1>2 DEF StdTypeOK, Calls
  <2> QED  BY <1>1, <1>2, <2>1 DEF StdTables
<1>4. OpeningInv'
  <2> SUFFICES ASSUME ~filling PROVE OpeningInv'
    BY <1>1 DEF OpeningInv
  <2>1. /\ \A n \in Std : table[n] = Stood(n) /\ n \notin created
        /\ \A n \in Numbers \ Std : table[n] = NoEntry
        /\ created = {} /\ missing = {}
    BY <1>1, <1>2 DEF OpeningInv
  <2>2. \A n \in Std : Stood(n)' = Stood(n)
    BY <1>1 DEF Stood, Standing
  <2> QED  BY <1>1, <2>1, <2>2 DEF OpeningInv
<1>5. FillingInv'
  BY <1>1, <1>2 DEF FillingInv
<1>6. Open' = Open
  BY <1>1 DEF Open
<1>7. StoodIn'
  <2> SUFFICES ASSUME ~filling PROVE StoodIn'
    BY <1>1 DEF StoodIn
  <2> QED  BY <1>1, <1>6, NoOneElse DEF StoodIn
<1>8. FilledIn' /\ NothingLeft'
  BY <1>1, <1>2, <1>6, Filled DEF FilledIn, NothingLeft
<1> QED  BY <1>3, <1>4, <1>5, <1>7, <1>8 DEF StdInv, StdFdsKept

LEMMA GiveBackInv ==
    ASSUME StdInv, GiveBack
    PROVE  StdInv'
<1>1. /\ outcome = "filled" /\ outcome' = "given back" /\ created' = {} /\ filling' = FALSE
      /\ table' = [n \in Numbers |-> IF n \in created THEN NoEntry ELSE table[n]]
      /\ UNCHANGED <<start, doing, missing>>
  BY DEF GiveBack, CloseCreated
<1>2. StdTables /\ FillingInv /\ StdTypeOK /\ filling
  BY <1>1 DEF StdInv, StdTables
<1>3. /\ \A n \in Numbers \ created : table[n] = start[n]
      /\ \A n \in created : start[n] = NoEntry
  BY <1>2 DEF FillingInv
<1>4. \A n \in Numbers : table'[n] = start[n]
  BY <1>1, <1>3
<1>5. start \in [Numbers -> {NoEntry, User}]
  BY <1>2 DEF StdTables
<1>6. table' = start
  BY <1>1, <1>4, <1>5
<1>7. StdTables'
  <2>1. start \in [Numbers -> Entries]
    BY <1>5, EntriesDiffer
  <2>2. StdTypeOK'
    BY <1>1, <1>2, <1>6, <2>1 DEF StdTypeOK
  <2> QED  BY <1>1, <1>2, <2>2 DEF StdTables
<1>8. OpeningInv' /\ FillingInv'
  BY <1>1 DEF OpeningInv, FillingInv
<1>9. StdFdsKept'
  BY <1>1, <1>6 DEF StdFdsKept, StoodIn, FilledIn, NothingLeft
<1> QED  BY <1>7, <1>8, <1>9 DEF StdInv

LEMMA StdFailsInv ==
    ASSUME StdInv, StdFails
    PROVE  StdInv'
<1>1. /\ outcome = "busy" /\ doing \in {"pipe", "copy", "duplicate", "move"}
      /\ outcome' = "failed" /\ doing' = "none" /\ missing' = {} /\ created' = {} /\ filling' = FALSE
      /\ table' = [n \in Numbers |-> IF n \in created THEN NoEntry ELSE table[n]]
      /\ start' = start
  BY DEF StdFails, CloseCreated, Doing
<1>2. /\ StdTables /\ OpeningInv /\ FillingInv /\ StdTypeOK /\ filling \in BOOLEAN
      /\ table \in [Numbers -> Entries]
  BY <1>1, BusyFacts
<1>3. /\ table' \in [Numbers -> Entries]
      /\ \A n \in Numbers : table'[n] = IF n \in created THEN NoEntry ELSE table[n]
  BY <1>1, <1>2, EntriesDiffer
<1>4. \A n \in Numbers \ Std : table'[n] = NoEntry
  <2>1. CASE filling
    <3>1. \A n \in Numbers \ created : table[n] = start[n]
      BY <1>2, <2>1 DEF FillingInv
    <3>2. \A n \in Numbers \ Std : start[n] = NoEntry
      BY <1>2 DEF StdTables
    <3> QED  BY <1>3, <3>1, <3>2
  <2>2. CASE ~filling
    <3>1. \A n \in Numbers \ (Std \ missing) : n \in created \/ table[n] = NoEntry
      BY <1>1, <1>2, <2>2 DEF OpeningInv
    <3> QED  BY <1>3, <3>1
  <2> QED  BY <2>1, <2>2
<1>5. StdTables'
  <2>1. StdTypeOK'
    BY <1>1, <1>2, <1>3 DEF StdTypeOK, Calls
  <2> QED  BY <1>1, <1>2, <2>1 DEF StdTables
<1>6. OpeningInv' /\ FillingInv'
  BY <1>1 DEF OpeningInv, FillingInv
<1>7. StdFdsKept'
  BY <1>1, <1>4 DEF StdFdsKept, StoodIn, FilledIn, NothingLeft, Open
<1> QED  BY <1>5, <1>6, <1>7 DEF StdInv

LEMMA StdNextInv ==
    ASSUME StdInv, StdNext
    PROVE  StdInv'
BY BeginStdInv, OpenPipeInv, CloseOtherInv, MoveFdInv, CloseOldInv, CopyStdoutInv,
   DuplicateFillerInv, EndStdInv, GiveBackInv, StdFailsInv DEF StdNext

----------------------------------------------------------------------------
\* The parts together (MCFiles)

\* The part in focus keeps its invariant.
PartsInv ==
    /\ focus = "poll" => PollLoopInv
    /\ focus = "intervals" => IntervalInv
    /\ focus = "transfer" => TransferInv
    /\ focus = "reads" => ReadsInv
    /\ focus = "temporary" => TempInv
    /\ focus = "files" => FileListInv
    /\ focus = "locks" => LocksInv
    /\ focus = "flags" => FlagsInv
    /\ focus = "sockets" => SocketsInv
    /\ focus = "standard" => StdInv

LEMMA FilesInitInv == FilesInit => PartsInv
BY PollInitInv, IntervalInitInv, TransferInitInv, ReadsInitInv, TempInitInv,
   FileListInitInv, FileLocksInitInv, FlagsInitInv, SocketsInitInv, StdInitInv
   DEF FilesInit, PartsInv

LEMMA FilesNextInv == PartsInv /\ [FilesNext]_filesVars => PartsInv'
<1> SUFFICES ASSUME PartsInv, [FilesNext]_filesVars PROVE PartsInv'
  OBVIOUS
<1>1. UNCHANGED focus
  BY DEF FilesNext, filesVars, PollRun, TransferRun, TempRun, FileRun, StdRun,
     FrameRun, MessageRun, ArgumentRun, EnvironmentRun, SocketRun, LockRun,
     ReadsRun, FaultsRun, FlagsRun, IntervalRun, TextRun, Others
<1>2. CASE focus = "poll"
  <2>1. PollNext \/ UNCHANGED pollVars
    BY <1>2 DEF FilesNext, filesVars, PollRun, TransferRun, TempRun, FileRun,
       StdRun, FrameRun, MessageRun, ArgumentRun, EnvironmentRun, SocketRun,
       LockRun, ReadsRun, FaultsRun, FlagsRun, IntervalRun, TextRun
  <2> QED  BY <1>1, <1>2, <2>1, PollNextInv, PollStutterInv
      DEF PartsInv
<1>3. CASE focus = "intervals"
  <2>1. IntervalNext \/ UNCHANGED intervalVars
    BY <1>3 DEF FilesNext, filesVars, PollRun, TransferRun, TempRun, FileRun,
       StdRun, FrameRun, MessageRun, ArgumentRun, EnvironmentRun, SocketRun,
       LockRun, ReadsRun, FaultsRun, FlagsRun, IntervalRun, TextRun
  <2> QED  BY <1>1, <1>3, <2>1, IntervalNextInv, IntervalStutterInv
      DEF PartsInv
<1>4. CASE focus = "transfer"
  <2>1. TransferNext \/ UNCHANGED transferVars
    BY <1>4 DEF FilesNext, filesVars, PollRun, TransferRun, TempRun, FileRun,
       StdRun, FrameRun, MessageRun, ArgumentRun, EnvironmentRun, SocketRun,
       LockRun, ReadsRun, FaultsRun, FlagsRun, IntervalRun, TextRun
  <2> QED  BY <1>1, <1>4, <2>1, TransferNextInv, TransferStutterInv
      DEF PartsInv
<1>5. CASE focus = "reads"
  <2>1. FullReadsNext \/ UNCHANGED fullVars
    BY <1>5 DEF FilesNext, filesVars, PollRun, TransferRun, TempRun, FileRun,
       StdRun, FrameRun, MessageRun, ArgumentRun, EnvironmentRun, SocketRun,
       LockRun, ReadsRun, FaultsRun, FlagsRun, IntervalRun, TextRun
  <2> QED  BY <1>1, <1>5, <2>1, ReadsNextInv, ReadsStutterInv
      DEF PartsInv
<1>6. CASE focus = "temporary"
  <2>1. TempNext \/ UNCHANGED tempVars
    BY <1>6 DEF FilesNext, filesVars, PollRun, TransferRun, TempRun, FileRun,
       StdRun, FrameRun, MessageRun, ArgumentRun, EnvironmentRun, SocketRun,
       LockRun, ReadsRun, FaultsRun, FlagsRun, IntervalRun, TextRun
  <2> QED  BY <1>1, <1>6, <2>1, TempNextInv, TempStutterInv
      DEF PartsInv
<1>7. CASE focus = "files"
  <2>1. FileNext \/ UNCHANGED fileVars
    BY <1>7 DEF FilesNext, filesVars, PollRun, TransferRun, TempRun, FileRun,
       StdRun, FrameRun, MessageRun, ArgumentRun, EnvironmentRun, SocketRun,
       LockRun, ReadsRun, FaultsRun, FlagsRun, IntervalRun, TextRun
  <2> QED  BY <1>1, <1>7, <2>1, FileListNextInv, FileListStutterInv
      DEF PartsInv
<1>8. CASE focus = "locks"
  <2>1. FileLocksNext \/ UNCHANGED lockVars
    BY <1>8 DEF FilesNext, filesVars, PollRun, TransferRun, TempRun, FileRun,
       StdRun, FrameRun, MessageRun, ArgumentRun, EnvironmentRun, SocketRun,
       LockRun, ReadsRun, FaultsRun, FlagsRun, IntervalRun, TextRun
  <2> QED  BY <1>1, <1>8, <2>1, LocksNextInv, LocksStutterInv
      DEF PartsInv
<1>9. CASE focus = "flags"
  <2>1. FdFlagsNext \/ UNCHANGED flagVars
    BY <1>9 DEF FilesNext, filesVars, PollRun, TransferRun, TempRun, FileRun,
       StdRun, FrameRun, MessageRun, ArgumentRun, EnvironmentRun, SocketRun,
       LockRun, ReadsRun, FaultsRun, FlagsRun, IntervalRun, TextRun
  <2> QED  BY <1>1, <1>9, <2>1, FlagsNextInv, FlagsStutterInv
      DEF PartsInv
<1>10. CASE focus = "sockets"
  <2>1. SocketsNext \/ UNCHANGED socketVars
    BY <1>10 DEF FilesNext, filesVars, PollRun, TransferRun, TempRun, FileRun,
       StdRun, FrameRun, MessageRun, ArgumentRun, EnvironmentRun, SocketRun,
       LockRun, ReadsRun, FaultsRun, FlagsRun, IntervalRun, TextRun
  <2> QED  BY <1>1, <1>10, <2>1, SocketsNextInv, SocketsStutterInv
      DEF PartsInv
<1>11. CASE focus = "standard"
  <2>1. StdNext \/ UNCHANGED stdVars
    BY <1>11 DEF FilesNext, filesVars, PollRun, TransferRun, TempRun, FileRun,
       StdRun, FrameRun, MessageRun, ArgumentRun, EnvironmentRun, SocketRun,
       LockRun, ReadsRun, FaultsRun, FlagsRun, IntervalRun, TextRun
  <2> QED  BY <1>1, <1>11, <2>1, StdNextInv, StdStutterInv
      DEF PartsInv
<1> QED  BY <1>1, <1>2, <1>3, <1>4, <1>5, <1>6, <1>7, <1>8, <1>9, <1>10, <1>11 DEF PartsInv

\* The invariant of each part that is proved here holds while the part runs.
THEOREM Invariance == FilesSpec => []PartsInv
<1> QED  BY FilesInitInv, FilesNextInv, PTL DEF FilesSpec

\* The poll loop serves a file that was ready when it latched the time before any timer, a
\* timer expires early only if a callback had moved its mark ahead, and no poll sleeps past
\* a timer (pollfd.c, ert_runPollFdLoop()); an interval timer is given back with the time
\* it would have had, and a deadline expires exactly from its first check (timescale.c,
\* ert_shortenIntervalTime(), timekeeping.c, ert_monotonicDeadlineTimeExpired()).
THEOREM PollsInOrder == FilesSpec => []PollKept
<1>1. PartsInv => PollKept
  BY DEF PartsInv, PollKept, PollLoopInv, IntervalInv
<1> QED  BY Invariance, <1>1, PTL

\* A read or a write reports every unit that the kernel moved, times out empty only after
\* it found the file not ready, and blocks under a deadline only after a race (fd.c,
\* readFdDeadline_(), writeFdDeadline_()); a file that is read to its end arrives whole and
\* in order, and every thread is told the same (ert_readFdFully(), system.c,
\* ert_fetchSystemIncarnation()).
THEOREM MovesWhole == FilesSpec => []MovesKept
<1>1. PartsInv => MovesKept
  BY DEF PartsInv, MovesKept, TransferInv, ReadsInv
<1> QED  BY Invariance, <1>1, PTL

\* Descriptors are where they belong when a call ends: a name is left for a temporary file
\* only by a killed child or an unseen failure (file.c, ert_temporaryFile()), a listed file is
\* open and a purge leaves the listed files alone (file.c, fd.c), the standard descriptors are
\* stood in for and given back (fd.c, ert_openStdFds(), stdfdfiller.c), every number has one
\* owner whatever fails and no two sockets share a name (the socket files), no two processes
\* are told of locks that exclude each other (fd.c, file.c), and a call that changes a flag
\* loses no other one (fd.c).
THEOREM DescriptorsKept == FilesSpec => []FilesKept
<1>1. TempInv => TemporaryKept
  BY DEF TempInv
<1>2. FileListInv => FileListKept
  BY DEF FileListInv
<1>3. SocketsInv => SocketsKept
  BY SocketsAreKept
<1>4. LocksInv => FileLocksKept
  BY LocksAreKept
<1>5. FlagsInv => FdFlagsKept
  BY FlagsAreKept
<1>6. StdInv => StdFdsKept
  BY DEF StdInv
<1>7. PartsInv => FilesKept
  BY <1>1, <1>2, <1>3, <1>4, <1>5, <1>6 DEF PartsInv, FilesKept
<1> QED  BY Invariance, <1>7, PTL

=============================================================================
