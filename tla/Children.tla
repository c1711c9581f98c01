------------------------------ MODULE Children ------------------------------
(***************************************************************************)
(* Waiting for children with process.c: a thread asks for any child that   *)
(* has ended (ert_waitProcessChildren()), looks at how one ended           *)
(* (ert_waitProcessChild(), ert_monitorProcessChild()) and takes it away   *)
(* (ert_reapProcessChild()), each by its process id, while children are    *)
(* stopped, continued and end, other threads do the same, and process ids  *)
(* are given out again.  A call repeats a system call that a signal        *)
(* interrupts.                                                             *)
(***************************************************************************)
EXTENDS Naturals, FiniteSets

CONSTANTS
    Parents,        \* threads of the program
    Pids,           \* process ids that the system gives out
    MaxBirths,      \* bound on the children
    MaxTurns        \* bound on stops and continuations

ASSUME ChildAssumption == MaxBirths \in Nat /\ MaxTurns \in Nat

VARIABLES
    family,         \* [pid -> the child that has it, by number, and its state]
    asking,         \* [thread -> the call it is in, or "idle"]
    known,           \* [thread -> the child it knows of: [pid, child, how]]
    births,         \* children so far
    reaped,         \* [child -> how often it was taken away]
    robbed,         \* threads whose child another thread took away
    deceived,         \* threads that were told of one child and found none, or another
    turns           \* stops and continuations so far

childVars == <<family, asking, known, births, reaped, robbed, deceived, turns>>

Living == {"running", "stopped"}
Finished == {"exited", "killed", "dumped"}
Vacant == [child |-> 0, state |-> "none"]
NoChild == [pid |-> 0, child |-> 0, how |-> "none"]
Calls == {"any", "wait", "monitor", "reap"}

ChildTypeOK ==
    /\ family \in [Pids -> [child : 0 .. MaxBirths, state : Living \cup Finished \cup {"none"}]]
    /\ asking \in [Parents -> Calls \cup {"idle"}]
    /\ known \in [Parents -> [pid : Pids \cup {0}, child : 0 .. MaxBirths,
                             how : Living \cup Finished \cup {"none"}]]
    /\ reaped \in [1 .. MaxBirths -> 0 .. MaxBirths]
    /\ robbed \cup deceived \subseteq Parents

ChildInit ==
    /\ family = [p \in Pids |-> Vacant] /\ asking = [t \in Parents |-> "idle"]
    /\ known = [t \in Parents |-> NoChild] /\ births = 0 /\ reaped = [c \in 1 .. MaxBirths |-> 0]
    /\ robbed = {} /\ deceived = {} /\ turns = 0

\* A fork that succeeds; a process id is free again once its child was reaped.
BearChild ==
    \E p \in Pids :
      /\ births < MaxBirths /\ births' = births + 1
      /\ family[p] = Vacant
      /\ family' = [family EXCEPT ![p] = [child |-> births + 1, state |-> "running"]]
      /\ UNCHANGED <<asking, known, reaped, robbed, deceived, turns>>

TurnChild ==
    \E p \in Pids :
      /\ family[p].state \in Living /\ turns < MaxTurns /\ turns' = turns + 1
      /\ family' = [family EXCEPT ![p].state = IF @ = "running" THEN "stopped" ELSE "running"]
      /\ UNCHANGED <<asking, known, births, reaped, robbed, deceived>>

ChildEnds ==
    \E p \in Pids, how \in Finished :
      /\ family[p].state \in Living
      /\ family' = [family EXCEPT ![p].state = how]
      /\ UNCHANGED <<asking, known, births, reaped, robbed, deceived, turns>>

Ask(t, call) ==
    /\ asking[t] = "idle" /\ asking' = [asking EXCEPT ![t] = call]
    /\ call = "any" => known[t] = NoChild
    /\ call # "any" => known[t] # NoChild
    /\ UNCHANGED <<family, known, births, reaped, robbed, deceived, turns>>

Answer(t) == asking' = [asking EXCEPT ![t] = "idle"]

\* A bug: the child is taken away by the call that only looks (no WNOWAIT).
BugLooked(p) == [family EXCEPT ![p] = Vacant]

\* waitid() with WNOWAIT leaves the child as it is.
Looked(p) == family

\* ert_waitProcessChildren(): a child that ended, or no child at all.
WaitProcessChildren(t) ==
    /\ asking[t] = "any" /\ Answer(t)
    /\ \/ \E p \in Pids :
            /\ family[p].state \in Finished /\ family' = Looked(p)
            /\ known' = [known EXCEPT ![t] = [pid |-> p, child |-> family[p].child,
                                            how |-> "none"]]
       \/ /\ \A p \in Pids : family[p] = Vacant
          /\ UNCHANGED <<family, known>>
    /\ UNCHANGED <<births, reaped, robbed, deceived, turns>>

\* The thread is wrong about its child, and nobody else's call is the reason.
Wrong(t) == family[known[t].pid].child # known[t].child
Misled(t) == deceived' = IF Wrong(t) THEN deceived \cup {t} ELSE deceived

\* ert_waitProcessChild() waits for an end, ert_monitorProcessChild() tells what it finds;
\* both fail if nobody has the process id.
LookAtChild(t) ==
    /\ asking[t] \in {"wait", "monitor"}
    /\ LET p == known[t].pid
       IN  /\ asking[t] = "wait" => family[p].state \in Finished \cup {"none"}
           /\ known' = [known EXCEPT ![t].how = family[p].state]
           /\ family' = IF family[p].state \in Finished THEN Looked(p) ELSE family
    /\ Answer(t) /\ Misled(t)
    /\ UNCHANGED <<births, reaped, robbed, turns>>

\* ert_reapProcessChild(): the child is taken away; of the others that were told of it, each
\* will find none or another.
ReapProcessChild(t) ==
    /\ asking[t] = "reap"
    /\ LET p == known[t].pid
           c == family[p].child
       IN  /\ family[p].state \in Finished \cup {"none"}
           /\ family' = [family EXCEPT ![p] = Vacant]
           /\ reaped' = IF c = 0 THEN reaped ELSE [reaped EXCEPT ![c] = @ + 1]
           /\ robbed' = (robbed \ {t})
                        \cup {o \in Parents \ {t} : c # 0 /\ known[o].pid = p /\ known[o].child = c}
           /\ deceived' = IF Wrong(t) /\ t \notin robbed THEN deceived \cup {t} ELSE deceived \ {t}
           /\ known' = [known EXCEPT ![t] = NoChild]
    /\ Answer(t)
    /\ UNCHANGED <<births, turns>>

ChildNext ==
    \/ BearChild \/ TurnChild \/ ChildEnds
    \/ \E t \in Parents :
         \/ \E call \in Calls : Ask(t, call)
         \/ WaitProcessChildren(t) \/ LookAtChild(t) \/ ReapProcessChild(t)

ChildSpec == ChildInit /\ [][ChildNext]_childVars

-----------------------------------------------------------------------------
\* A child that a thread was told of is there, ended and under its process id, whatever the
\* thread and others look at, until somebody reaps it, which happens once; only a thread
\* whose child another one reaped finds none, or a later child of the same process id.
ChildrenKept ==
    /\ \A t \in Parents : known[t] # NoChild /\ t \notin robbed =>
         /\ family[known[t].pid].child = known[t].child
         /\ family[known[t].pid].state \in Finished
         /\ t \notin deceived /\ known[t].how \in Finished \cup {"none"}
    /\ \A c \in 1 .. MaxBirths : reaped[c] <= 1
-----------------------------------------------------------------------------
\* What makes this inductive (ProcessesProofs).

\* A child has one process id until it is taken away, and none after.
FamilyInv ==
    /\ births \in 0 .. MaxBirths
    /\ \A p \in Pids :
        /\ family[p].child = 0 <=> family[p].state = "none"
        /\ family[p].child <= births
        /\ family[p].child # 0 => reaped[family[p].child] = 0
    /\ \A p, q \in Pids : family[p].child = family[q].child /\ family[p].child # 0 => p = q
    /\ \A c \in 1 .. MaxBirths : c > births => reaped[c] = 0

\* A thread asks about a child that it knows of, and only if that was taken away is
\* it told otherwise.
KnownInv ==
    \A t \in Parents :
        /\ known[t] # NoChild => known[t].pid \in Pids /\ known[t].child # 0
        /\ asking[t] = "any" => known[t] = NoChild
        /\ asking[t] \in {"wait", "monitor", "reap"} => known[t] # NoChild
        /\ t \in deceived => t \in robbed
        /\ t \in robbed => known[t] # NoChild

ChildInv == ChildTypeOK /\ ChildrenKept /\ FamilyInv /\ KnownInv
=============================================================================
