--------------------------- MODULE ProcessWatches ---------------------------
(***************************************************************************)
(* Signal actions and what watches them (process.c, jobcontrol.c).         *)
(*                                                                         *)
(* The kernel has an action for each signal.  Where the library has put    *)
(* its dispatcher there, the dispatcher looks up an action of its own      *)
(* (mVector), which may be the handler of a watch; that handler looks up a *)
(* method, which may belong to a job control.  All three are changed while *)
(* other threads are anywhere in between.                                  *)
(*                                                                         *)
(* One thread makes the calls, any thread takes the signals.  A call is    *)
(* what it has left to do, a sequence of steps <<do, on, with>>.           *)
(***************************************************************************)
EXTENDS Integers, Sequences, FiniteSets

CONSTANTS
    WatchThreads,       \* threads that take signals
    WatchCaller,        \* the one of them that makes the calls
    WatchesUsed,        \* the watches that it begins and ends by themselves
    MaxWatchCalls,      \* bound on its calls
    MaxWatchSignals     \* bound on the signals that arrive

ASSUME WatchAssumption ==
    /\ WatchCaller \in WatchThreads
    /\ WatchesUsed \subseteq {"cont", "stop", "chld", "clock", "signals", "pipe"}
    /\ MaxWatchCalls \in Nat /\ MaxWatchSignals \in Nat

VARIABLES
    kernel,     \* the action that the kernel has for a signal
    vector,     \* processSignals_.mVector[...].mAction
    methods,    \* the method of each watch
    saved,      \* mSigAction, processClockTickSigAction_, processSigPipeAction_
    marked,     \* signals with mWatched
    period,     \* is processClockTickPeriod_ more than zero
    timer,      \* is the interval timer running
    job,        \* watches whose method in the job control is set
    todo,       \* what is left of the call
    failed,     \* has a step of the call failed
    running,    \* the signal handler on top of each thread
    broken,     \* why an assertion ended the program, or ""
    on,         \* watches begun, and not ended by an unwatch that succeeded
    twice,      \* signals whose watch was begun, or action restored, twice, or which kept the
                \* library's own action as the one to put back
    users,      \* the action that the program itself gave a signal last
    watchCalls, watchSignals    \* calls made, signals arrived

watchVars == <<kernel, vector, methods, saved, marked, period, timer, job, todo, failed,
               running, broken, on, twice, users, watchCalls, watchSignals>>

\* processWatchedSignals_ has four entries that are treated alike: two stand for them.
ActionWatches == [CONT |-> "cont", TSTP |-> "stop", CHLD |-> "chld", ALRM |-> "clock",
                  HUP |-> "signals", TERM |-> "signals", PIPE |-> "pipe"]
Signals == DOMAIN ActionWatches
Watches == {ActionWatches[s] : s \in Signals}
\* Their methods change under a lock, their actions never.
LockedWatches == {"cont", "stop"}
\* Signals whose previous action a watch keeps and gives back.
SavingSignals == {"ALRM", "HUP", "TERM", "PIPE"}

\* "own" and "restart" are handlers of the program, without and with SA_RESTART;
\* "dispatch" is dispatchSigHandler_ or dispatchSigAction_; "watch" is the handler
\* of the watch: sigCont_, sigStop_, sigChld_, clockTick_ or caughtSignal_.
Actions == {"default", "ignore", "own", "restart", "dispatch", "watch"}
Nobody == [signal |-> "", stage |-> "none"]

Effective(s) == IF kernel[s] = "dispatch" THEN vector[s] ELSE kernel[s]

WatchInit ==
    /\ kernel = [s \in Signals |-> IF ActionWatches[s] \in LockedWatches THEN "dispatch" ELSE "default"]
    /\ vector = [s \in Signals |-> IF ActionWatches[s] \in LockedWatches THEN "watch" ELSE "default"]
    /\ methods = [w \in Watches |-> "nil"]
    /\ saved = [s \in SavingSignals |-> "none"]
    /\ marked = {} /\ period = FALSE /\ timer = FALSE /\ job = {}
    /\ todo = <<>> /\ failed = FALSE
    /\ running = [t \in WatchThreads |-> Nobody]
    /\ broken = ""
    /\ on = {} /\ twice = {} /\ users = [s \in Signals |-> "default"]
    /\ watchCalls = 0 /\ watchSignals = 0

----------------------------------------------------------------------------
\* The calls, as sequences of steps

Update(w, m)        == <<"update", w, m>>
SetMethod(w, m)     == <<"method", w, m>>
Change(s, a)        == <<"change", s, a>>
ChangeKeeping(s, a) == <<"keep", s, a>>
Restore(s)          == <<"restore", s, "">>

WatchCall(w, m) ==
    CASE w \in LockedWatches -> <<Update(w, m)>>
      [] w = "chld" -> <<SetMethod(w, m), Change("CHLD", "watch")>>
      [] w = "clock" ->
               <<SetMethod(w, m), ChangeKeeping("ALRM", "watch"), <<"arm", w, methods[w]>>>>
      [] w = "signals" ->
               <<SetMethod(w, m), ChangeKeeping("HUP", "watch"), ChangeKeeping("TERM", "watch")>>
      [] w = "pipe" -> <<ChangeKeeping("PIPE", "ignore")>>

Ended(w) == <<"ended", w, "">>

\* Mutant: the method is gone before the handlers are.
BugUnwatch(w) ==
    CASE w \in LockedWatches -> <<Update(w, "nil"), Ended(w)>>
      [] w = "chld" -> <<SetMethod(w, "nil"), Change("CHLD", "default"), Ended(w)>>
      [] w = "clock" -> <<<<"disarm", w, "">>, SetMethod(w, "nil"), Restore("ALRM"), Ended(w)>>
      [] w = "signals" -> <<SetMethod(w, "nil"), Restore("HUP"), Restore("TERM"), Ended(w)>>
      [] w = "pipe" -> <<Restore("PIPE"), Ended(w)>>

Unwatch(w) ==
    CASE w \in LockedWatches -> <<Update(w, "nil"), Ended(w)>>
      [] w = "chld" -> <<Change("CHLD", "default"), SetMethod(w, "nil"), Ended(w)>>
      [] w = "clock" ->
            IF saved["ALRM"] = "none" THEN <<Ended(w)>>
            ELSE <<<<"disarm", w, "">>, Restore("ALRM"), SetMethod(w, "nil"), Ended(w)>>
      [] w = "signals" -> <<Restore("HUP"), Restore("TERM"), SetMethod(w, "nil"), Ended(w)>>
      [] w = "pipe" ->
            IF saved["PIPE"] = "none" THEN <<Ended(w)>> ELSE <<Restore("PIPE"), Ended(w)>>

JobWatches == {"cont", "stop", "chld", "signals"}
CloseJobControl ==
    Unwatch("cont") \o Unwatch("stop") \o Unwatch("signals") \o <<<<"ensure", "signals", "">>>>
        \o Unwatch("chld") \o <<<<"closed", "", "">>>>

\* resetSignals_, in its own copy of all this
ResetSignals ==
    Unwatch("stop") \o Unwatch("cont") \o Unwatch("clock") \o <<<<"check", "clock", "">>>>
        \o Unwatch("signals") \o <<<<"check", "signals", "">>>> \o Unwatch("chld")

Begin(sequence) ==
    /\ broken = "" /\ todo = <<>> /\ running[WatchCaller] = Nobody
    /\ watchCalls < MaxWatchCalls
    /\ watchCalls' = watchCalls + 1
    /\ todo' = sequence
    /\ failed' = FALSE

BeginWatch(w) ==
    /\ on' = on \cup {w}
    /\ twice' = twice \cup {s \in Signals : ActionWatches[s] = w /\ w \in on}

CallWatch(w) ==
    /\ Begin(WatchCall(w, "user")) /\ BeginWatch(w)
    /\ UNCHANGED <<kernel, vector, methods, saved, marked, period, timer, job, running, broken,
                   users, watchSignals>>

CallUnwatch(w) ==
    /\ Begin(Unwatch(w))
    /\ UNCHANGED <<kernel, vector, methods, saved, marked, period, timer, job, running, broken,
                   on, twice, users, watchSignals>>

\* ert_watchJobControlSignals and the like: EPERM if the method is set already.
CallJobWatch(w) ==
    /\ w \notin job
    /\ job' = job \cup {w}
    /\ Begin(WatchCall(w, "job")) /\ BeginWatch(w)
    /\ UNCHANGED <<kernel, vector, methods, saved, marked, period, timer, running, broken,
                   users, watchSignals>>

CallJobUnwatch(w) ==
    /\ w \in job
    /\ Begin(Unwatch(w) \o <<<<"job", w, "">>>>)
    /\ UNCHANGED <<kernel, vector, methods, saved, marked, period, timer, job, running, broken,
                   on, twice, users, watchSignals>>

CallReset ==
    /\ \E sequence \in {CloseJobControl, ResetSignals} : Begin(sequence)
    /\ UNCHANGED <<kernel, vector, methods, saved, marked, period, timer, job, running, broken,
                   on, twice, users, watchSignals>>

\* The program changes the action of a signal that it does not watch.
OwnAction(s, a) ==
    /\ ActionWatches[s] \in WatchesUsed \ on
    /\ Begin(<<>>)
    /\ kernel' = [kernel EXCEPT ![s] = a]
    /\ users' = [users EXCEPT ![s] = a]
    /\ UNCHANGED <<vector, methods, saved, marked, period, timer, job, running, broken, on,
                   twice, watchSignals>>

----------------------------------------------------------------------------
\* The steps of a call

InAction(s)  == {t \in WatchThreads : running[t].signal = s /\ running[t].stage \in {"action", "method"}}
InMethod(w)  == {t \in WatchThreads : running[t].stage = "method" /\ ActionWatches[running[t].signal] = w}

Step(do) ==
    /\ broken = "" /\ todo # <<>> /\ running[WatchCaller] = Nobody
    /\ Head(todo)[1] \in do
On   == Head(todo)[2]
With == Head(todo)[3]

\* A method is set, at once or, for SIGCONT and SIGTSTP, under mSigMutex.
StoreMethod ==
    /\ Step({"method", "update"})
    /\ Head(todo)[1] = "update" => InMethod(On) = {}
    /\ methods' = [methods EXCEPT ![On] = With]
    /\ on' = IF Head(todo) = <<"update", On, "nil">> THEN on \ {On} ELSE on
    /\ todo' = Tail(todo)
    /\ UNCHANGED <<kernel, vector, saved, marked, period, timer, job, failed, running, broken,
                   twice, users, watchCalls, watchSignals>>

\* Mutant: the action changes while its handler runs.
BugChanged(s, a) ==
    /\ kernel' = [kernel EXCEPT ![s] = IF a \in {"default", "ignore"} THEN a ELSE "dispatch"]
    /\ vector' = [vector EXCEPT ![s] = a]

\* The effect of changeSigAction_ when it has mActionMutex.
Changed(s, a) ==
    /\ InAction(s) = {}
    /\ kernel' = [kernel EXCEPT ![s] = IF a \in {"default", "ignore"} THEN a ELSE "dispatch"]
    /\ vector' = [vector EXCEPT ![s] = a]

\* The previous action of SIGALRM is kept in a local variable until the timer runs.
ChangeSignalAction ==
    /\ Step({"change", "keep"})
    /\ Changed(On, With)
    /\ IF Head(todo)[1] = "keep" /\ On # "ALRM"
       THEN /\ saved' = [saved EXCEPT ![On] = kernel[On]]
            /\ marked' = IF On = "PIPE" THEN marked ELSE marked \cup {On}
       ELSE UNCHANGED <<saved, marked>>
    /\ todo' = IF Head(todo)[1] = "keep" /\ On = "ALRM"
               THEN <<<<"arm", kernel[On], Head(Tail(todo))[3]>>>> ELSE Tail(todo)
    /\ twice' = IF Head(todo)[1] = "keep" /\ kernel[On] = "dispatch" THEN twice \cup {On} ELSE twice
    /\ UNCHANGED <<methods, period, timer, job, failed, running, broken, on, users,
                   watchCalls, watchSignals>>

\* setitimer() by the period of the watch before: nothing if there was none.
ArmTimer ==
    /\ Step({"arm"}) /\ ~ timer
    /\ timer' = period
    /\ period' = TRUE
    /\ saved' = [saved EXCEPT !["ALRM"] = On]
    /\ todo' = <<>>
    /\ UNCHANGED <<kernel, vector, methods, marked, job, failed, running, broken, on, twice, users,
                   watchCalls, watchSignals>>

\* EPERM, since a timer runs already: back to the action and the method before.
ArmFails ==
    /\ Step({"arm"}) /\ timer
    /\ InAction("ALRM") = {}
    /\ IF On = "restart"
       THEN broken' = "revert" /\ UNCHANGED <<kernel, vector, methods>>
       ELSE Changed("ALRM", On) /\ methods' = [methods EXCEPT !["clock"] = With] /\ UNCHANGED broken
    /\ todo' = <<>>
    /\ UNCHANGED <<saved, marked, period, timer, job, failed, running, on, twice, users,
                   watchCalls, watchSignals>>

Disarm ==
    /\ Step({"disarm"})
    /\ timer' = FALSE
    /\ todo' = Tail(todo)
    /\ UNCHANGED <<kernel, vector, methods, saved, marked, period, job, failed, running, broken,
                   on, twice, users, watchCalls, watchSignals>>

\* changeSigAction_ to the action before.  It refuses SA_RESTART.  Only then
\* does resetProcessSignalsWatch_ clear mWatched.
RestoreAction ==
    /\ Step({"restore"})
    /\ IF On \in {"HUP", "TERM"} /\ On \notin marked
       THEN todo' = Tail(todo) /\ UNCHANGED <<kernel, vector, saved, marked, period, failed,
                                              twice>>
       ELSE IF saved[On] = "restart"
       THEN /\ failed' = TRUE
            /\ marked' = marked \ {On}
            /\ todo' = IF On = "ALRM" THEN Tail(Tail(todo)) ELSE Tail(todo)
            /\ UNCHANGED <<kernel, vector, saved, period, twice>>
       ELSE /\ Changed(On, saved[On])
            /\ twice' = IF ActionWatches[On] \in on THEN twice ELSE twice \cup {On}
            /\ saved' = IF On \in {"ALRM", "PIPE"} THEN [saved EXCEPT ![On] = "none"] ELSE saved
            /\ period' = (period /\ On # "ALRM")
            /\ todo' = Tail(todo)
            /\ UNCHANGED <<marked, failed>>
    /\ UNCHANGED <<methods, timer, job, running, broken, on, users, watchCalls, watchSignals>>

\* What a call does with its result.
CheckResult ==
    /\ Step({"ended", "job", "check", "ensure", "closed"})
    /\ LET do == Head(todo)[1]
       IN  /\ on' = IF do = "ended" /\ ~ failed /\ On \notin LockedWatches THEN on \ {On} ELSE on
           /\ job' = CASE do = "job" /\ ~ failed -> job \ {On}
                       [] do = "closed" -> {}
                       [] OTHER -> job
           /\ broken' = IF do = "ensure" /\ failed THEN "close" ELSE broken
           /\ todo' = IF do = "check" /\ failed THEN <<>> ELSE Tail(todo)
    /\ UNCHANGED <<kernel, vector, methods, saved, marked, period, timer, failed, running,
                   twice, users, watchCalls, watchSignals>>

----------------------------------------------------------------------------
\* Signal handlers

Frames(t, f) == running' = [running EXCEPT ![t] = f]
RestOfWatch  == <<kernel, vector, methods, saved, marked, period, timer, job, todo, failed, on,
                  twice, users, watchCalls>>

\* A signal arrives, sent by anybody, where the dispatcher is the action.
DeliverWatched(t, s) ==
    /\ broken = "" /\ running[t] = Nobody /\ watchSignals < MaxWatchSignals
    /\ kernel[s] = "dispatch"
    /\ Frames(t, [signal |-> s, stage |-> "entered"])
    /\ watchSignals' = watchSignals + 1
    /\ UNCHANGED RestOfWatch /\ UNCHANGED broken

\* runSigAction_, runSigHandler_, with mActionMutex: an action that is the
\* dispatcher itself locks mActionMutex again, which ert_lockMutex() refuses.
RunAction(t) ==
    /\ broken = "" /\ running[t].stage = "entered"
    /\ LET s == running[t].signal
       IN  /\ InAction(s) = {}
           /\ CASE vector[s] = "dispatch" -> broken' = "dispatcher" /\ UNCHANGED running
                [] vector[s] = "watch" -> Frames(t, [running[t] EXCEPT !.stage = "action"]) /\ UNCHANGED broken
                [] OTHER -> Frames(t, Nobody) /\ UNCHANGED broken
    /\ UNCHANGED RestOfWatch /\ UNCHANGED watchSignals

\* sigCont_, sigStop_, sigChld_, clockTick_, caughtSignal_: is there a method?
LookUpMethod(t) ==
    /\ broken = "" /\ running[t].stage = "action"
    /\ LET w == ActionWatches[running[t].signal]
       IN  /\ w \in LockedWatches => InMethod(w) = {}
           /\ Frames(t, IF methods[w] = "nil" THEN Nobody ELSE [running[t] EXCEPT !.stage = "method"])
    /\ UNCHANGED RestOfWatch /\ UNCHANGED <<broken, watchSignals>>

\* The method is called, unless it is gone, and returns.
RunMethod(t) ==
    /\ broken = "" /\ running[t].stage = "method"
    /\ IF methods[ActionWatches[running[t].signal]] = "nil"
       THEN broken' = "method" /\ UNCHANGED running
       ELSE Frames(t, Nobody) /\ UNCHANGED broken
    /\ UNCHANGED RestOfWatch /\ UNCHANGED watchSignals

\* A method that watches or unwatches changes an action, which ert_lockMutex()
\* refuses, except for SIGCONT and SIGTSTP.
MethodWatches(t, w) ==
    /\ broken = "" /\ running[t].stage = "method"
    /\ methods[ActionWatches[running[t].signal]] # "nil"
    /\ IF w \in LockedWatches
       THEN /\ InMethod(w) \subseteq {t}
            /\ methods' = [methods EXCEPT ![w] = "user"] /\ on' = on \cup {w}
            /\ Frames(t, Nobody) /\ UNCHANGED broken
       ELSE broken' = "inMethod" /\ UNCHANGED <<methods, on, running>>
    /\ UNCHANGED <<kernel, vector, saved, marked, period, timer, job, todo, failed,
                   twice, users, watchCalls, watchSignals>>

WatchNext ==
    \/ \E w \in WatchesUsed : CallWatch(w) \/ CallUnwatch(w)
    \/ \E w \in WatchesUsed \cap JobWatches : CallJobWatch(w) \/ CallJobUnwatch(w)
    \/ CallReset
    \/ \E s \in SavingSignals, a \in {"own", "restart"} : OwnAction(s, a)
    \/ StoreMethod \/ ChangeSignalAction \/ ArmTimer \/ ArmFails \/ Disarm
    \/ RestoreAction \/ CheckResult
    \/ \E t \in WatchThreads :
        \/ \E s \in Signals : DeliverWatched(t, s)
        \/ RunAction(t) \/ LookUpMethod(t) \/ RunMethod(t)
        \/ \E w \in WatchesUsed : MethodWatches(t, w)

WatchSpec == WatchInit /\ [][WatchNext]_watchVars

----------------------------------------------------------------------------
\* The steps that a call consists of.
WatchSteps ==
    {"update", "method", "change", "keep", "arm", "disarm", "restore", "ended", "job", "check",
     "ensure", "closed"}
    \X (Signals \cup Watches \cup Actions \cup {""}) \X (Actions \cup {"nil", "user", "job", ""})

WatchTypeOK ==
    /\ kernel \in [Signals -> Actions \ {"watch"}]
    /\ vector \in [Signals -> Actions \ {"restart"}]
    /\ methods \in [Watches -> {"nil", "user", "job"}]
    /\ saved \in [SavingSignals -> (Actions \ {"watch"}) \cup {"none"}]
    /\ marked \subseteq {"HUP", "TERM"} /\ {period, timer, failed} \subseteq BOOLEAN
    /\ job \subseteq JobWatches /\ on \subseteq Watches /\ twice \subseteq Signals
    /\ users \in [Signals -> Actions \ {"watch", "dispatch"}]
    /\ running \in [WatchThreads ->
         {Nobody} \cup [signal : Signals, stage : {"entered", "action", "method"}]]
    /\ todo \in Seq(WatchSteps)

\* The previous action cannot be put back, since it restarts system calls.
Refused(w) == \E s \in SavingSignals : ActionWatches[s] = w /\ "restart" \in {users[s], saved[s]}

(***************************************************************************)
(* When an unwatch has succeeded, no thread calls the method any more, nor *)
(* is about to, however late its signal was dispatched: unless it failed   *)
(* once before, since the action to put back restarts system calls.        *)
(***************************************************************************)
NoCallOnceUnwatched ==
    \A t \in WatchThreads : running[t].stage = "method" =>
        LET w == ActionWatches[running[t].signal]
        IN  w \in on \/ Refused(w)

(***************************************************************************)
(* Between calls, a signal that nothing watches has the action that the    *)
(* program itself gave it last, unless its watch was begun twice, or its   *)
(* action restored once more after it had been, or the action restarts     *)
(* system calls: three errors of the code that users can avoid.  A fourth  *)
(* they cannot: a watch begun again, after one gave the program's own      *)
(* handler back, keeps the dispatcher as the action to put back.           *)
(***************************************************************************)
ActionsRestored ==
    todo = <<>> /\ broken = "" =>
        \A s \in SavingSignals :
            \/ ActionWatches[s] \in on \/ s \in twice \/ Refused(ActionWatches[s])
            \/ Effective(s) = users[s]

WatchesEnd == NoCallOnceUnwatched /\ ActionsRestored

(***************************************************************************)
(* The assertions of locks, methods and unwatching fail for four reasons   *)
(* only: the dispatcher dispatches to itself, once it was put back as an   *)
(* action; a method is gone, or the watches of a job control or of the     *)
(* clock cannot be ended, since the action restarts system calls; or a     *)
(* method watches.                                                         *)
(***************************************************************************)
WatchAborts ==
    /\ broken = "dispatcher" => twice # {}
    /\ broken = "method" => Refused("signals")
    /\ broken \in {"close", "revert"} => \E w \in Watches : Refused(w)

----------------------------------------------------------------------------
\* The inductive invariant of the watches.

\* No handler of the watch runs for s, nor would one.
Stopped(s) == vector[s] # "watch" /\ InAction(s) = {}
\* The action of s was refused, and s is not asked about again.
Refuses(s) == s \in {"HUP", "TERM"} /\ saved[s] = "restart"
OwnKept(s) == users[s] = "restart" \/ Effective(s) = users[s]

\* The watch of s may end now.
EndsWell(s) ==
    ActionWatches[s] \notin LockedWatches =>
        /\ Stopped(s) \/ Refuses(s)
        /\ s \in SavingSignals \ twice => OwnKept(s)
        /\ s \in {"ALRM", "PIPE"} => saved[s] = "none"

Watched(w) == {s \in Signals : ActionWatches[s] = w}

\* What is left of a call that begins watch w.
WatchLeft(w) ==
    \E m \in {"user", "job"}, old \in {"nil", "user", "job"} :
       \/ w \in LockedWatches /\ todo = <<Update(w, m)>>
       \/ w = "chld" /\ todo = <<SetMethod(w, m), Change("CHLD", "watch")>>
       \/ w = "chld" /\ todo = <<Change("CHLD", "watch")>> /\ methods[w] # "nil"
       \/ /\ w = "clock" /\ ("ALRM" \in twice \/ saved["ALRM"] = "none")
          /\ \/ todo = <<SetMethod(w, m), ChangeKeeping("ALRM", "watch"), <<"arm", w, old>>>>
             \/ todo = <<ChangeKeeping("ALRM", "watch"), <<"arm", w, old>>>> /\ methods[w] # "nil"
       \/ w = "signals" /\ todo = <<SetMethod(w, m), ChangeKeeping("HUP", "watch"),
                                    ChangeKeeping("TERM", "watch")>>
       \/ /\ w = "signals" /\ methods[w] # "nil"
          /\ todo \in {<<ChangeKeeping("HUP", "watch"), ChangeKeeping("TERM", "watch")>>,
                       <<ChangeKeeping("TERM", "watch")>>}
       \/ w = "pipe" /\ todo = <<ChangeKeeping("PIPE", "ignore")>>

\* The timer is left to be started.
ArmLeft ==
    \E a \in Actions \ {"watch"}, m \in {"nil", "user", "job"} :
       /\ todo = <<<<"arm", a, m>>>> /\ methods["clock"] # "nil" /\ "clock" \in on
       /\ a = "dispatch" => "ALRM" \in twice
       /\ a = "restart" => users["ALRM"] = "restart"
       /\ "ALRM" \in twice \/ users["ALRM"] = "restart"
            \/ (a = users["ALRM"] /\ saved["ALRM"] = "none")

\* Signal s is given up before step i of sequence q.
Given(q, i, s) == \E j \in 1 .. i - 1 : q[j][1] \in {"change", "restore"} /\ q[j][2] = s

\* Step i of a sequence that ends watches, in a call of which a step has failed, or not.
StepKept(q, i, hasFailed) ==
    LET do == q[i][1]
        x  == q[i][2]
        y  == q[i][3]
    IN  /\ do \in {"update", "method", "change", "restore", "disarm", "ended", "job", "check",
                   "ensure", "closed"}
        /\ do = "update" => x \in LockedWatches /\ y = "nil"
        /\ do = "change" => x = "CHLD" /\ y = "default"
        /\ do = "restore" => x \in SavingSignals
        /\ do = "restore" /\ x = "ALRM" =>
             i < Len(q) /\ q[i + 1] = SetMethod("clock", "nil")
        /\ do = "restore" /\ x \in {"ALRM", "PIPE"} =>
             /\ saved[x] # "none"
             /\ \A j \in 1 .. Len(q) : q[j][1] = "restore" /\ q[j][2] = x => j = i
        /\ do = "method" =>
             /\ x \in {"chld", "clock", "signals"} /\ y = "nil"
             /\ \A s \in Watched(x) :
                  \/ Stopped(s) \/ Refuses(s)
                  \/ IF x = "clock" THEN i > 1 /\ q[i - 1] = Restore(s) ELSE Given(q, i, s)
        /\ do = "ended" => x \in Watches /\ \A s \in Watched(x) :
                                hasFailed \/ Given(q, i, s) \/ EndsWell(s)

UnwatchLeft == \A i \in 1 .. Len(todo) : StepKept(todo, i, failed)

Pending(s) == \E i \in 1 .. Len(todo) : todo[i][1] = "keep" /\ todo[i][2] = s
Arming == \E i \in 1 .. Len(todo) : todo[i][1] = "arm"

TodoInv ==
    \/ ~failed /\ \E w \in on : WatchLeft(w)
    \/ ~failed /\ ArmLeft
    \/ UnwatchLeft

MethodsInv ==
    /\ \A w \in LockedWatches :
         /\ methods[w] # "nil" => w \in on
         /\ InMethod(w) # {} => methods[w] # "nil"
    /\ \A s \in Signals :
         ActionWatches[s] \notin LockedWatches =>
            Stopped(s) \/ Refuses(s) \/ (ActionWatches[s] \in on /\ methods[ActionWatches[s]] # "nil")

SavedInv ==
    /\ Stopped("PIPE")
    /\ \A s \in Signals :
         /\ kernel[s] = "restart" => users[s] = "restart"
         /\ vector[s] = "dispatch" => s \in twice
    /\ \A s \in SavingSignals : saved[s] = "dispatch" => s \in twice
    /\ \A s \in {"HUP", "TERM"} :
         /\ s \notin marked => Stopped(s) \/ Refuses(s)
         /\ s \in marked => saved[s] # "none"
         /\ "signals" \in on /\ ~Pending(s) => s \in marked \/ saved[s] = "restart"
    /\ broken = "" /\ saved["ALRM"] = "none" => Stopped("ALRM") \/ Arming
    /\ \A s \in {"ALRM", "PIPE"} : ActionWatches[s] \notin on => saved[s] = "none"
    /\ failed => \E s \in SavingSignals : saved[s] = "restart"

UsersInv ==
    \A s \in SavingSignals \ twice :
       /\ ActionWatches[s] \notin on \/ Pending(s) => OwnKept(s)
       /\ ActionWatches[s] \in on /\ ~Pending(s) /\ ~(s = "ALRM" /\ Arming) =>
            \/ users[s] = "restart" \/ saved[s] = users[s]
            \/ s \in {"ALRM", "PIPE"} /\ saved[s] = "none" /\ Effective(s) = users[s]

AbortsInv ==
    /\ broken \in {"", "dispatcher", "method", "close", "revert", "inMethod"}
    /\ WatchAborts

WatchInv == WatchTypeOK /\ TodoInv /\ MethodsInv /\ SavedInv /\ UsersInv /\ AbortsInv
=============================================================================
