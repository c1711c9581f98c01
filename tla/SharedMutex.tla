----------------------------- MODULE SharedMutex -----------------------------
(***************************************************************************)
(* Mutexes shared by processes, and the lock attempt under them (thread.c).*)
(*                                                                         *)
(* timedLock_() gives up after ten hours, but tries once more if SIGCONT   *)
(* was counted since it began.  ert_lockSharedMutex() takes any failure of *)
(* it for the death of the owner, and repairs what the mutex protects.     *)
(* Each process has one thread that locks, and others on which the handler *)
(* of SIGCONT may run.  Plain mutexes and reader and writer locks have the *)
(* same attempt, and abort where this one repairs.                         *)
(***************************************************************************)
EXTENDS Integers, FiniteSets

CONSTANTS
    Sharers,            \* the processes
    MaxLapses,          \* bound on attempts that time out
    MaxStops,           \* bound on stops of a process, each followed by SIGCONT
    MaxDeaths           \* bound on processes killed

ASSUME SharerAssumption == {MaxLapses, MaxStops, MaxDeaths} \subseteq Nat

VARIABLES
    place,      \* where each process is
    owner,      \* the process that has the mutex, or {}
    mutexState, \* "consistent", "inconsistent" or, for ENOTRECOVERABLE, "lost"
    whole,      \* is what the mutex protects in order
    conts,      \* processSigCont_.mCount
    tracker,    \* its value when the attempt began
    uncounted,  \* processes whose last SIGCONT is not counted yet
    stopped,    \* processes that were stopped in the attempt that they make
    lapsed,     \* processes whose attempt has timed out for good
    late,       \* those of them with a SIGCONT uncounted then
    refused,    \* processes that ert_waitSharedCond() told of a dead owner
    lapses, stops, deaths   \* so far

sharedVars == <<place, owner, mutexState, whole, conts, tracker, uncounted, lapsed, late, stopped,
                refused, lapses, stops, deaths>>

SharedInit ==
    /\ place = [p \in Sharers |-> "out"]
    /\ owner = {} /\ mutexState = "consistent" /\ whole = TRUE
    /\ conts = [p \in Sharers |-> 0] /\ tracker = conts
    /\ uncounted = {} /\ lapsed = {} /\ late = {} /\ stopped = {} /\ refused = {}
    /\ lapses = 0 /\ stops = 0 /\ deaths = 0

Goto(p, where) == place' = [place EXCEPT ![p] = where]
Attempting(p)  == place[p] \in {"try", "timed"}

LockSharedMutex(p) ==
    /\ place[p] = "out"
    /\ Goto(p, "try")
    /\ tracker' = [tracker EXCEPT ![p] = conts[p]]
    /\ lapsed' = lapsed \ {p} /\ late' = late \ {p} /\ stopped' = stopped \ {p}
    /\ UNCHANGED <<owner, mutexState, whole, conts, uncounted, refused, lapses, stops, deaths>>

\* The lock is taken, or cannot ever be: ert_terminate() ends the process.
\* EOWNERDEAD has it taken, and to be repaired.
TakeMutex(p) ==
    /\ Attempting(p) /\ owner = {}
    /\ IF mutexState = "lost" THEN Goto(p, "dead") /\ UNCHANGED owner
       ELSE owner' = {p} /\ Goto(p, IF mutexState = "inconsistent" THEN "repair" ELSE "in")
    /\ UNCHANGED <<mutexState, whole, conts, tracker, uncounted, lapsed, late, stopped, refused,
                   lapses, stops, deaths>>

\* trylock finds it taken, timedlock waits.
FindTaken(p) ==
    /\ place[p] = "try" /\ owner # {}
    /\ Goto(p, "timed")
    /\ UNCHANGED <<owner, mutexState, whole, conts, tracker, uncounted, lapsed, late, stopped,
                   refused, lapses, stops, deaths>>

\* Mutant: a timeout is final.
BugLapse(p) ==
    /\ place[p] = "timed" /\ owner # {} /\ lapses < MaxLapses
    /\ lapses' = lapses + 1
    /\ Goto(p, "repair") /\ lapsed' = lapsed \cup {p} /\ late' = late \cup ({p} \cap uncounted)
    /\ UNCHANGED <<tracker, stopped>>
    /\ UNCHANGED <<owner, mutexState, whole, conts, uncounted, refused, stops, deaths>>

\* ETIMEDOUT: once more if SIGCONT was counted, else lockMutex_() returns nothing.
Lapse(p) ==
    /\ place[p] = "timed" /\ owner # {} /\ lapses < MaxLapses
    /\ lapses' = lapses + 1
    /\ IF conts[p] # tracker[p]
       THEN /\ tracker' = [tracker EXCEPT ![p] = conts[p]]
            /\ Goto(p, "try") /\ stopped' = stopped \ {p} /\ UNCHANGED <<lapsed, late>>
       ELSE /\ Goto(p, "repair") /\ UNCHANGED <<tracker, stopped>>
            /\ lapsed' = lapsed \cup {p} /\ late' = late \cup ({p} \cap uncounted)
    /\ UNCHANGED <<owner, mutexState, whole, conts, uncounted, refused, stops, deaths>>

\* The process is stopped and continued, and the handler of SIGCONT counts it
\* later, in any of its threads.
StopAndContinue(p) ==
    /\ place[p] # "dead" /\ stops < MaxStops
    /\ stops' = stops + 1
    /\ uncounted' = uncounted \cup {p}
    /\ stopped' = IF Attempting(p) THEN stopped \cup {p} ELSE stopped
    /\ UNCHANGED <<place, owner, mutexState, whole, conts, tracker, lapsed, late, refused,
                   lapses, deaths>>

CountCont(p) ==
    /\ p \in uncounted /\ place[p] # "dead"
    /\ uncounted' = uncounted \ {p}
    /\ conts' = [conts EXCEPT ![p] = @ + 1]
    /\ UNCHANGED <<place, owner, mutexState, whole, tracker, lapsed, late, stopped, refused,
                   lapses, stops, deaths>>

\* ert_callMutexRepairMethod, then pthread_mutex_consistent(), which fails unless
\* the caller has the mutex from a dead owner (POSIX leaves open what happens if
\* another process has it so; the model takes this for a failure too).
CallRepair(p) ==
    /\ place[p] = "repair"
    /\ whole' = TRUE
    /\ Goto(p, "repaired")
    /\ UNCHANGED <<owner, mutexState, conts, tracker, uncounted, lapsed, late, stopped, refused,
                   lapses, stops, deaths>>

MakeConsistent(p) ==
    /\ place[p] = "repaired"
    /\ IF owner = {p} /\ mutexState = "inconsistent"
       THEN mutexState' = "consistent" /\ Goto(p, "in")
       ELSE Goto(p, "dead") /\ UNCHANGED mutexState
    /\ UNCHANGED <<owner, whole, conts, tracker, uncounted, lapsed, late, stopped, refused,
                   lapses, stops, deaths>>

\* The owner changes what the mutex protects, in two steps.
Write(p) ==
    /\ place[p] \in {"in", "writing"} /\ p \notin refused
    /\ whole' = (place[p] = "writing")
    /\ Goto(p, IF place[p] = "in" THEN "writing" ELSE "in")
    /\ UNCHANGED <<owner, mutexState, conts, tracker, uncounted, lapsed, late, stopped, refused,
                   lapses, stops, deaths>>

\* ert_unlockSharedMutex, with or without a signal to those who wait, or
\* ert_waitSharedCond: without repair the mutex cannot be used again.
Release(p, where) ==
    /\ place[p] = "in"
    /\ where = "wait" => p \notin refused
    /\ Goto(p, where)
    /\ owner' = {}
    /\ mutexState' = IF mutexState = "inconsistent" THEN "lost" ELSE mutexState
    /\ UNCHANGED <<whole, conts, tracker, uncounted, lapsed, late, stopped, refused, lapses,
                   stops, deaths>>

\* waitCond_: awake for any reason, with the mutex; a dead owner is reported.
WakeShared(p) ==
    /\ place[p] = "wait" /\ owner = {}
    /\ IF mutexState = "lost" THEN Goto(p, "dead") /\ UNCHANGED <<owner, refused>>
       ELSE /\ owner' = {p} /\ Goto(p, "in")
            /\ refused' = IF mutexState = "inconsistent" THEN refused \cup {p} ELSE refused
    /\ UNCHANGED <<mutexState, whole, conts, tracker, uncounted, lapsed, late, stopped, lapses,
                   stops, deaths>>

\* A robust mutex is free, and inconsistent, when its owner has died.
Die(p) ==
    /\ place[p] # "dead" /\ deaths < MaxDeaths
    /\ deaths' = deaths + 1
    /\ Goto(p, "dead")
    /\ owner' = owner \ {p}
    /\ mutexState' = IF owner = {p} THEN "inconsistent" ELSE mutexState
    /\ UNCHANGED <<whole, conts, tracker, uncounted, lapsed, late, stopped, refused, lapses,
                   stops>>

SharedNext ==
    \E p \in Sharers :
        \/ LockSharedMutex(p) \/ TakeMutex(p) \/ FindTaken(p) \/ Lapse(p)
        \/ StopAndContinue(p) \/ CountCont(p)
        \/ CallRepair(p) \/ MakeConsistent(p) \/ Write(p)
        \/ Release(p, "out") \/ Release(p, "wait") \/ WakeShared(p) \/ Die(p)

SharedSpec == SharedInit /\ [][SharedNext]_sharedVars

----------------------------------------------------------------------------
SharedTypeOK ==
    /\ place \in [Sharers -> {"out", "try", "timed", "repair", "repaired", "in", "writing", "wait", "dead"}]
    /\ owner \subseteq Sharers /\ Cardinality(owner) <= 1
    /\ mutexState \in {"consistent", "inconsistent", "lost"} /\ whole \in BOOLEAN
    /\ UNION {uncounted, lapsed, late, stopped, refused} \subseteq Sharers

(***************************************************************************)
(* What the mutex protects is repaired by its owner after a death, or by a *)
(* process whose attempt timed out, which may be while a live owner writes *)
(* and which then ends.  An attempt in which the process was stopped times *)
(* out for good only if the handler of SIGCONT had not run yet.            *)
(***************************************************************************)
RepairedByOwner ==
    /\ \A p \in Sharers : place[p] \in {"repair", "repaired"} =>
        p \in lapsed \/ (owner = {p} /\ mutexState = "inconsistent")
    /\ lapsed \cap stopped \subseteq late

(***************************************************************************)
(* Whoever has the mutex, and was not told of a death, finds in order what *)
(* it protects, whatever owners and repairers died; the mutex is lost only *)
(* to one who was told by ert_waitSharedCond(), which repairs nothing.     *)
(***************************************************************************)
FoundWhole ==
    /\ \A p \in Sharers : place[p] = "in" /\ p \notin refused => whole /\ mutexState = "consistent"
    /\ mutexState = "lost" => refused # {}

SharedMutexKept == RepairedByOwner /\ FoundWhole
----------------------------------------------------------------------------
\* What makes this inductive (ProcessesProofs).

\* Whoever is between taking the mutex and giving it up is its owner, and alone;
\* a process whose attempt timed out never is, though it repairs.
Owns(p) ==
    \/ place[p] \in {"in", "writing"}
    \/ place[p] \in {"repair", "repaired"} /\ p \notin lapsed
OwnerInv ==
    /\ owner = {p \in Sharers : Owns(p)}
    /\ \A p, q \in owner : p = q
    /\ \A p \in lapsed : place[p] \in {"repair", "repaired", "dead"}

\* What the mutex protects is out of order only while the owner writes, or until
\* the owner after one who died has repaired it.
WholeInv ==
    /\ mutexState = "consistent" /\ ~ whole => \E p \in Sharers : place[p] = "writing"
    /\ mutexState = "lost" => owner = {}
    /\ \A p \in Sharers \ lapsed :
        /\ place[p] \in {"repair", "repaired"} => mutexState = "inconsistent"
        /\ place[p] = "repaired" => whole
    /\ \A p \in Sharers : place[p] = "writing" => mutexState = "consistent"

\* Who was told of a death has the mutex as it was left, unless it is dead or the
\* mutex is lost.
RefusedInv ==
    \A p \in refused :
        \/ place[p] = "dead" \/ mutexState = "lost"
        \/ place[p] = "in" /\ mutexState = "inconsistent"

\* A stop in an attempt is uncounted, or the count has changed since it began.
CountInv ==
    /\ conts \in [Sharers -> Nat] /\ tracker \in [Sharers -> Nat]
    /\ \A p \in Sharers :
        /\ tracker[p] <= conts[p]
        /\ Attempting(p) /\ p \in stopped /\ p \notin uncounted => tracker[p] < conts[p]

SharedInv ==
    /\ SharedTypeOK /\ SharedMutexKept
    /\ OwnerInv /\ WholeInv /\ RefusedInv /\ CountInv
=============================================================================
