---------------------------- MODULE ForkProtocol ----------------------------
(***************************************************************************)
(* ert_forkProcessChild() (process.c): parent and child prepare themselves *)
(* in step with one another and the child runs its method only when both   *)
(* have succeeded. They talk through a channel: a pipe for the result of   *)
(* the child, and a pair of bell sockets, rung by the child for its result *)
(* and by the parent for the acknowledgement. Each side learns of the      *)
(* death of the other from the end of its socket, for as long as no other  *)
(* process holds a copy.                                                   *)
(*                                                                         *)
(* Fork k creates process k. A post fork method, or the pre fork method,   *)
(* of one fork may itself fork, on either side. Any process may be killed. *)
(***************************************************************************)
EXTENDS Naturals, Sequences

CONSTANTS
    MaxForks,   \* calls of ert_forkProcessChild(), by all processes
    MaxFaults,  \* failing system calls, allocations and user methods
    MaxKills,   \* processes killed
    PipeSize,   \* units, codes or frames, that fit into the pipe
    AnyWhitelist  \* may users put all descriptors in their white list?

ASSUME BoundsAssumption ==
    /\ MaxForks \in Nat /\ MaxFaults \in Nat /\ MaxKills \in Nat
    /\ PipeSize \in Nat \ {0}
    /\ AnyWhitelist \in BOOLEAN

Root  == 0
Forks == 1 .. MaxForks
Procs == Forks \cup {Root}

\* End(k, "parent") is the reader of the pipe of k with the parent's socket,
\* End(k, "child") the writer with the child's socket.
Sides == {"parent", "child"}
End(k, side) == <<k, side>>
Ends      == {End(k, side) : k \in Forks, side \in Sides}
EndsOf(k) == {End(k, side) : side \in Sides}

VARIABLES
    caller,   \* who called fork k
    ppc,      \* where the call of fork k is, in its caller
    cpc,      \* where process k is
    fds,      \* the ends that a process holds
    chain,    \* the channels on mChannelList of a process
    black,    \* ends among mBlacklistFds of fork k
    white,    \* ends among mWhitelistFds of fork k
    bell,     \* 1 while the child's ring waits to be read
    ack,      \* 1 while the parent's ring waits to be read
    pipe,     \* what the result pipe of fork k holds
    result,   \* what child k reports, "ok" or "error"
    faults,   \* so far
    kills     \* so far

vars == <<caller, ppc, cpc, fds, chain, black, white, bell, ack, pipe, result,
          faults, kills>>
lists  == <<black, white>>
talk   == <<bell, ack, pipe, result>>
counts == <<faults, kills>>

Done    == {"none", "pid", "error"}
Parent  == Done \cup {"prefork", "channel", "fork", "group", "bell", "code", "thaw",
                      "method", "blacklist", "ring", "acked", "undo", "reap"}
Child   == {"none", "born", "whitelist", "method", "ring", "code", "frames",
            "leave", "await", "run", "gone", "reaped"}

Running(p) == cpc[p] \notin {"none", "gone", "reaped"}

\* Some process holds the end, so its peer sees no end of file and no EPIPE.
Held(k, side) == \E p \in Procs : End(k, side) \in fds[p]

\* Calls nest, and a later call is a call further in.
Active(p) == {k \in Forks : caller[k] = p /\ ppc[k] \notin Done}
Innermost(k) == \A j \in Active(caller[k]) : j <= k

ParentAt(k, pc) == ppc[k] = pc /\ Running(caller[k]) /\ Innermost(k)
ChildAt(k, pc)  == cpc[k] = pc /\ Active(k) = {}

ParentTo(k, pc) == ppc' = [ppc EXCEPT ![k] = pc]
ChildTo(k, pc)  == cpc' = [cpc EXCEPT ![k] = pc]

\* Spares only the channel of the fork itself.
BugChainEnds(p) ==
    UNION {EndsOf(k) : k \in {j \in chain[p] : \A i \in chain[p] : i <= j}}

\* What the list of channels of a process keeps from being closed.
ChainEnds(p) == {end \in Ends : end[1] \in chain[p]}

\* What a child keeps open: what its user wants it to, and its own channel.
Kept(k) == white[k] \cup EndsOf(k)

Fault == faults < MaxFaults /\ faults' = faults + 1

TypeOK ==
    /\ caller \in [Forks -> Procs]
    /\ ppc \in [Forks -> Parent]
    /\ cpc \in [Procs -> Child]
    /\ fds \in [Procs -> SUBSET Ends]
    /\ chain \in [Procs -> SUBSET Forks]
    /\ black \in [Forks -> SUBSET Ends]
    /\ white \in [Forks -> SUBSET Ends]
    /\ bell \in [Forks -> 0 .. 1]
    /\ ack \in [Forks -> 0 .. 1]
    /\ pipe \in [Forks -> Seq({"ok", "error", "frames"})]
    /\ result \in [Forks -> {"ok", "error"}]
    /\ faults \in 0 .. MaxFaults
    /\ kills \in 0 .. MaxKills

Init ==
    /\ caller = [k \in Forks |-> Root]
    /\ ppc = [k \in Forks |-> "none"]
    /\ cpc = [p \in Procs |-> IF p = Root THEN "run" ELSE "none"]
    /\ fds = [p \in Procs |-> {}]
    /\ chain = [p \in Procs |-> {}]
    /\ black = [k \in Forks |-> {}]
    /\ white = [k \in Forks |-> {}]
    /\ bell = [k \in Forks |-> 0]
    /\ ack = [k \in Forks |-> 0]
    /\ pipe = [k \in Forks |-> <<>>]
    /\ result = [k \in Forks |-> "ok"]
    /\ faults = 0
    /\ kills = 0

(* The caller *)

\* A process forks from its own code, or from a method of a fork it is in.
MayFork(p) ==
    /\ Running(p)
    /\ \/ Active(p) = {} /\ cpc[p] \in {"method", "run"}
       \/ \E k \in Active(p) : Innermost(k) /\ ppc[k] \in {"prefork", "method"}

Call(p, k) ==
    /\ MayFork(p)
    /\ ppc[k] = "none" /\ \A j \in 1 .. k - 1 : ppc[j] # "none"
    /\ caller' = [caller EXCEPT ![k] = p]
    /\ ParentTo(k, "prefork")
    /\ UNCHANGED <<cpc, fds, chain, lists, talk, counts>>

\* The method puts nothing into a list, or every descriptor there may be.
PreForkMethod(k) ==
    /\ ParentAt(k, "prefork")
    /\ \E list \in {{}, Ends} : black' = [black EXCEPT ![k] = list]
    /\ \E list \in {{}} \cup IF AnyWhitelist THEN {Ends} ELSE {} :
          white' = [white EXCEPT ![k] = list]
    /\ ParentTo(k, "channel")
    /\ UNCHANGED <<caller, cpc, fds, chain, talk, counts>>

CreateChannel(k) ==
    /\ ParentAt(k, "channel")
    /\ fds' = [fds EXCEPT ![caller[k]] = @ \cup EndsOf(k)]
    /\ chain' = [chain EXCEPT ![caller[k]] = @ \cup {k}]
    /\ ParentTo(k, "fork")
    /\ UNCHANGED <<caller, cpc, lists, talk, counts>>

\* The child leaves the channels of outer forks out of its list.
Fork(k) ==
    /\ ParentAt(k, "fork")
    /\ fds' = [fds EXCEPT ![k] = fds[caller[k]]]
    /\ chain' = [chain EXCEPT ![k] = {k}]
    /\ ChildTo(k, "born")
    /\ ParentTo(k, "group")
    /\ UNCHANGED <<caller, lists, talk, counts>>

\* Keeps the ends of the child.
BugSetGroup(k) ==
    /\ ParentAt(k, "group")
    /\ black' = [black EXCEPT ![k] = @ \ ChainEnds(caller[k])]
    /\ ParentTo(k, "bell")
    /\ UNCHANGED <<caller, cpc, fds, chain, white, talk, counts>>

\* setpgid() with the closing of the child's ends, and the removal of all
\* channels of this process from the black list.
SetGroup(k) ==
    /\ ParentAt(k, "group")
    /\ fds' = [fds EXCEPT ![caller[k]] = @ \ {End(k, "child")}]
    /\ black' = [black EXCEPT ![k] = @ \ ChainEnds(caller[k])]
    /\ ParentTo(k, "bell")
    /\ UNCHANGED <<caller, cpc, chain, white, talk, counts>>

\* Does not wait.
BugHearBell(k) ==
    /\ ParentAt(k, "bell")
    /\ bell' = [bell EXCEPT ![k] = @ - 1]
    /\ ParentTo(k, "code")
    /\ UNCHANGED <<caller, cpc, fds, chain, lists, ack, pipe, result, counts>>

HearBell(k) ==
    /\ ParentAt(k, "bell") /\ bell[k] = 1
    /\ bell' = [bell EXCEPT ![k] = 0]
    /\ ParentTo(k, "code")
    /\ UNCHANGED <<caller, cpc, fds, chain, lists, ack, pipe, result, counts>>

\* Does not look at the code.
BugReadCode(k) ==
    /\ ParentAt(k, "code") /\ pipe[k] # <<>>
    /\ pipe' = [pipe EXCEPT ![k] = Tail(@)]
    /\ ParentTo(k, "method")
    /\ UNCHANGED <<caller, cpc, fds, chain, lists, bell, ack, result, counts>>

ReadCode(k) ==
    /\ ParentAt(k, "code") /\ pipe[k] # <<>>
    /\ pipe' = [pipe EXCEPT ![k] = Tail(@)]
    /\ ParentTo(k, IF Head(pipe[k]) = "ok" THEN "method" ELSE "thaw")
    /\ UNCHANGED <<caller, cpc, fds, chain, lists, bell, ack, result, counts>>

\* Thawed frames are reported as an error.
ThawFrames(k) ==
    /\ ParentAt(k, "thaw") /\ pipe[k] # <<>>
    /\ pipe' = [pipe EXCEPT ![k] = Tail(@)]
    /\ ParentTo(k, "undo")
    /\ UNCHANGED <<caller, cpc, fds, chain, lists, bell, ack, result, counts>>

\* The child has gone: there is nothing to read, nobody to ring.
ParentEof(k) ==
    /\ ~ Held(k, "child")
    /\ \/ ParentAt(k, "bell") /\ bell[k] = 0
       \/ ParentAt(k, "code") /\ pipe[k] = <<>>
       \/ ParentAt(k, "thaw") /\ pipe[k] = <<>>
       \/ ParentAt(k, "ring")
    /\ ParentTo(k, "undo")
    /\ UNCHANGED <<caller, cpc, fds, chain, lists, talk, counts>>

\* Lets the child go on as soon as the method has returned.
BugPostForkParentMethod(k) ==
    /\ ParentAt(k, "method")
    /\ ack' = [ack EXCEPT ![k] = 1]
    /\ ParentTo(k, "blacklist")
    /\ UNCHANGED <<caller, cpc, fds, chain, lists, bell, pipe, result, counts>>

PostForkParentMethod(k) ==
    /\ ParentAt(k, "method")
    /\ ParentTo(k, "blacklist")
    /\ UNCHANGED <<caller, cpc, fds, chain, lists, talk, counts>>

CloseOnlyBlackList(k) ==
    /\ ParentAt(k, "blacklist")
    /\ fds' = [fds EXCEPT ![caller[k]] = @ \ black[k]]
    /\ ParentTo(k, "ring")
    /\ UNCHANGED <<caller, cpc, chain, lists, talk, counts>>

SendAcknowledgement(k) ==
    /\ ParentAt(k, "ring") /\ Held(k, "child")
    /\ ack' = [ack EXCEPT ![k] = 1]
    /\ ParentTo(k, "acked")
    /\ UNCHANGED <<caller, cpc, fds, chain, lists, bell, pipe, result, counts>>

\* A method or a system call fails, the one that closes perhaps half way.
ParentFault(k) ==
    /\ Fault
    /\ \E pc \in {"prefork", "channel", "fork", "group", "method", "blacklist"} :
          ParentAt(k, pc)
    /\ \E closed \in SUBSET (fds[caller[k]] \cap black[k]) :
          /\ ppc[k] # "blacklist" => closed = {}
          /\ fds' = [fds EXCEPT ![caller[k]] = @ \ closed]
    /\ ParentTo(k, "undo")
    /\ UNCHANGED <<caller, cpc, chain, lists, talk, kills>>

\* Closes the channel after an error only.
BugFinally(k) ==
    /\ ParentAt(k, "acked") \/ ParentAt(k, "undo")
    /\ IF ppc[k] = "acked" THEN UNCHANGED <<fds, chain>>
       ELSE /\ fds' = [fds EXCEPT ![caller[k]] = @ \ EndsOf(k)]
            /\ chain' = [chain EXCEPT ![caller[k]] = @ \ {k}]
    /\ ParentTo(k, IF ppc[k] = "acked" THEN "pid"
                   ELSE IF cpc[k] = "none" THEN "error" ELSE "reap")
    /\ UNCHANGED <<caller, cpc, lists, talk, counts>>

\* Ert_Finally of ert_forkProcessChild(), up to the reaping. There is no
\* channel to close if it could not be created.
Finally(k) ==
    /\ ParentAt(k, "acked") \/ ParentAt(k, "undo")
    /\ fds' = [fds EXCEPT ![caller[k]] = @ \ EndsOf(k)]
    /\ chain' = [chain EXCEPT ![caller[k]] = @ \ {k}]
    /\ ParentTo(k, IF ppc[k] = "acked" THEN "pid"
                   ELSE IF cpc[k] = "none" THEN "error" ELSE "reap")
    /\ UNCHANGED <<caller, cpc, lists, talk, counts>>

Reap(k) ==
    /\ ParentAt(k, "reap") /\ cpc[k] = "gone"
    /\ ChildTo(k, "reaped")
    /\ ParentTo(k, "error")
    /\ UNCHANGED <<caller, fds, chain, lists, talk, counts>>

(* The child *)

Exit(p) ==
    /\ ChildTo(p, "gone")
    /\ fds' = [fds EXCEPT ![p] = {}]
    /\ UNCHANGED <<caller, ppc, chain, lists, talk, faults>>

\* Its session or group set and its signals reset, the child closes the
\* ends of its parent.
CloseParentEnds(k) ==
    /\ ChildAt(k, "born")
    /\ fds' = [fds EXCEPT ![k] = @ \ {End(k, "parent")}]
    /\ ChildTo(k, "whitelist")
    /\ UNCHANGED <<caller, ppc, chain, lists, talk, counts>>

CloseExceptWhiteList(k) ==
    /\ ChildAt(k, "whitelist")
    /\ fds' = [fds EXCEPT ![k] = @ \cap Kept(k)]
    /\ ChildTo(k, "method")
    /\ UNCHANGED <<caller, ppc, chain, lists, talk, counts>>

PostForkChildMethod(k) ==
    /\ ChildAt(k, "method")
    /\ ChildTo(k, "ring")
    /\ UNCHANGED <<caller, ppc, fds, chain, lists, talk, counts>>

\* The error, as frames, is what the child will report.
ChildFault(k) ==
    /\ Fault
    /\ \E pc \in {"born", "whitelist", "method"} : ChildAt(k, pc)
    /\ \E closed \in SUBSET (fds[k] \ Kept(k)) :
          /\ cpc[k] # "whitelist" => closed = {}
          /\ fds' = [fds EXCEPT ![k] = @ \ closed]
    /\ result' = [result EXCEPT ![k] = "error"]
    /\ ChildTo(k, "ring")
    /\ UNCHANGED <<caller, ppc, chain, lists, bell, ack, pipe, kills>>

\* The parent does not read the pipe, which may fill up, until it is rung.
RingResult(k) ==
    /\ ChildAt(k, "ring") /\ Held(k, "parent")
    /\ bell' = [bell EXCEPT ![k] = 1]
    /\ ChildTo(k, "code")
    /\ UNCHANGED <<caller, ppc, fds, chain, lists, ack, pipe, result, counts>>

WriteCode(k) ==
    /\ ChildAt(k, "code") /\ Held(k, "parent") /\ Len(pipe[k]) < PipeSize
    /\ pipe' = [pipe EXCEPT ![k] = Append(@, result[k])]
    /\ ChildTo(k, IF result[k] = "ok" THEN "await" ELSE "frames")
    /\ UNCHANGED <<caller, ppc, fds, chain, lists, bell, ack, result, counts>>

\* ert_freezeErrorFrameSequence() returns the number of frames, never 0 here,
\* which its caller takes for an error: it does not wait for the parent.
FreezeFrames(k) ==
    /\ ChildAt(k, "frames") /\ Held(k, "parent") /\ Len(pipe[k]) < PipeSize
    /\ pipe' = [pipe EXCEPT ![k] = Append(@, "frames")]
    /\ ChildTo(k, "leave")
    /\ UNCHANGED <<caller, ppc, fds, chain, lists, bell, ack, result, counts>>

Leave(k) == ChildAt(k, "leave") /\ Exit(k) /\ UNCHANGED kills

\* The parent has gone, or has given up.
ChildEof(k) ==
    /\ ~ Held(k, "parent")
    /\ \/ ChildAt(k, "ring")
       \/ ChildAt(k, "code")
       \/ ChildAt(k, "frames")
       \/ ChildAt(k, "await") /\ ack[k] = 0
    /\ Exit(k)
    /\ UNCHANGED kills

RecvAcknowledgement(k) ==
    /\ ChildAt(k, "await") /\ ack[k] = 1
    /\ ack' = [ack EXCEPT ![k] = 0]
    /\ fds' = [fds EXCEPT ![k] = @ \ EndsOf(k)]
    /\ chain' = [chain EXCEPT ![k] = {}]
    /\ ChildTo(k, "run")
    /\ UNCHANGED <<caller, ppc, lists, bell, pipe, result, counts>>

\* callForkMethod_() ends the process when the method returns.
EndForkMethod(k) == ChildAt(k, "run") /\ Exit(k) /\ UNCHANGED kills

Kill(p) ==
    /\ Running(p) /\ kills < MaxKills
    /\ kills' = kills + 1
    /\ Exit(p)

ParentStep(k) ==
    \/ PreForkMethod(k) \/ CreateChannel(k) \/ Fork(k) \/ SetGroup(k)
    \/ HearBell(k) \/ ReadCode(k) \/ ThawFrames(k) \/ ParentEof(k)
    \/ PostForkParentMethod(k) \/ CloseOnlyBlackList(k)
    \/ SendAcknowledgement(k) \/ ParentFault(k) \/ Finally(k) \/ Reap(k)

ChildStep(k) ==
    \/ CloseParentEnds(k) \/ CloseExceptWhiteList(k) \/ PostForkChildMethod(k)
    \/ ChildFault(k) \/ RingResult(k) \/ WriteCode(k) \/ FreezeFrames(k)
    \/ Leave(k) \/ ChildEof(k) \/ RecvAcknowledgement(k)

Next ==
    \/ \E p \in Procs, k \in Forks : Call(p, k)
    \/ \E k \in Forks : ParentStep(k) \/ ChildStep(k) \/ EndForkMethod(k)
    \/ \E p \in Procs : Kill(p)

\* Every process runs on and methods return. Nobody has to fork again, and the
\* method of a child may run for ever.
Fairness == \A k \in Forks : WF_vars(ParentStep(k)) /\ WF_vars(ChildStep(k))

Spec     == Init /\ [][Next]_vars
FairSpec == Spec /\ Fairness

-----------------------------------------------------------------------------
(* Properties *)

\* Where the channel of a fork has been created and is in use.
ParentUses == {"fork", "group", "bell", "code", "thaw", "method", "blacklist",
               "ring", "acked"}
ChildUses  == {"born", "whitelist", "method", "ring", "code", "frames", "leave",
               "await"}

\* The bell of a fork works as long as either side may use it: whatever the
\* methods of this and of nested forks put into their lists, closing by them
\* (process.c:2152, 2216) spares the channel of every fork under way.
ChannelKept ==
    \A k \in Forks :
        /\ ppc[k] \in ParentUses /\ Running(caller[k])
           => End(k, "parent") \in fds[caller[k]]
        /\ cpc[k] \in ChildUses => End(k, "child") \in fds[k]

\* The order that process.c:2074 gives: the child closes and runs its method,
\* then the parent its own; the parent closes only if both did well, and only
\* then do both go on.
InSequence ==
    \A k \in Forks :
        /\ ppc[k] \in {"method", "blacklist", "ring", "acked", "pid"} =>
              /\ cpc[k] \in {"await", "run", "gone"}
              /\ result[k] = "ok"
        /\ cpc[k] = "run" => ppc[k] \in {"acked", "pid"}

\* No end of a channel outlives its fork in the process that forked, however
\* the fork ended, and a child starts its method with no end of any channel but
\* those that its user put into the white list.
NothingLeft ==
    /\ \A k \in Forks :
          Running(caller[k]) /\ ppc[k] \in Done \cup {"reap"}
          => fds[caller[k]] \cap EndsOf(k) = {}
    /\ \A k \in Forks : cpc[k] = "run" /\ Active(k) = {} => fds[k] \subseteq white[k]

\* A fork ends, in the parent with a pid or an error and a reaped child, unless
\* it is killed, and in the child with the method or its death: each side sees
\* the end of the other (process.c:1935, 2248).
Answered ==
    \A k \in Forks :
        /\ ppc[k] \notin Done ~> ppc[k] \in Done \/ ~ Running(caller[k])
        /\ Running(k) ~> cpc[k] \in {"run", "gone", "reaped"}

Outcome(k) ==
    IF ppc[k] \in {"acked", "pid"} THEN "both"
    ELSE IF \/ ppc[k] \in {"undo", "reap", "error"}
            \/ ppc[k] # "none" /\ ~ Running(caller[k])
         THEN "neither" ELSE "open"

Stage(k) ==
    CASE cpc[k] \in {"none", "gone", "reaped"} -> cpc[k]
      [] cpc[k] = "run" -> "begun"
      [] OTHER -> "made"

Returned(k) == IF ppc[k] \in {"pid", "error"} THEN ppc[k] ELSE "nothing"

\* The protocol is a fork that succeeds on both sides or on neither.
Abstract == INSTANCE AtomicFork WITH
    outcome  <- [k \in Forks |-> Outcome(k)],
    child    <- [k \in Forks |-> Stage(k)],
    returned <- [k \in Forks |-> Returned(k)]

AtomicForkSpec == Abstract!Spec

-----------------------------------------------------------------------------
(***************************************************************************)
(* The inductive invariant.                                                *)
(***************************************************************************)
\* Who has been created, and by whom.
FamilyInv ==
    /\ cpc[Root] \in {"run", "gone"}
    /\ \A k \in Forks :
          /\ ppc[k] \in {"none", "prefork", "channel", "fork"} => cpc[k] = "none"
          /\ ppc[k] \in {"group", "bell", "code", "thaw", "method", "blacklist",
                         "ring", "acked", "pid", "reap"} => cpc[k] # "none"
          /\ ppc[k] # "none" => caller[k] # k /\ cpc[caller[k]] # "none"
          /\ cpc[k] = "reaped" => ppc[k] = "error"
          /\ ppc[k] = "error" => cpc[k] \in {"none", "reaped"}

\* What the child has reported, as far as its parent has not read it, and
\* what the parent has acknowledged.
ReportInv ==
    \A k \in Forks :
        /\ cpc[k] \in {"none", "born", "whitelist", "method", "ring", "code"}
           => pipe[k] = <<>>
        /\ cpc[k] \in {"none", "born", "whitelist", "method", "await", "run"}
           => result[k] = "ok"
        /\ cpc[k] \in {"frames", "leave"} => result[k] = "error"
        /\ ppc[k] \in {"none", "prefork", "channel", "fork", "group", "bell", "code"} =>
              /\ pipe[k] # <<>> => Head(pipe[k]) = result[k]
              /\ pipe[k] # <<>> /\ result[k] = "ok" => cpc[k] \in {"await", "gone"}
              /\ cpc[k] \in {"frames", "leave", "await"} => pipe[k] # <<>>
        /\ ack[k] = 1 => ppc[k] \in {"acked", "pid"}

\* Which ends of channels the processes have.
EndsInv ==
    \A p \in Procs, k \in Forks, side \in Sides :
        /\ End(k, side) \in fds[p] =>
              /\ Running(p)
              /\ ppc[k] \notin {"none", "prefork", "channel"}
              /\ caller[k] = p => ppc[k] \notin {"reap", "pid", "error"}
        /\ ppc[k] \in {"fork", "group"} /\ caller[k] = p /\ Running(p)
           => End(k, side) \in fds[p]

\* Which channels are on the lists of the processes that use them, and are
\* therefore taken from the black list of a fork further in.
ChainInv ==
    /\ \A k \in Forks :
          /\ ppc[k] \in ParentUses /\ Running(caller[k]) => k \in chain[caller[k]]
          /\ cpc[k] \in ChildUses => k \in chain[k]
    /\ \A k, j \in Forks, side \in Sides :
          /\ Running(caller[k])
          /\ ppc[k] \in {"bell", "code", "thaw", "method", "blacklist"}
          /\ \/ caller[j] = caller[k] /\ ppc[j] \in ParentUses /\ j <= k
             \/ caller[k] = j /\ cpc[j] \in ChildUses
          => End(j, side) \notin black[k]

\* What a child may have after it has closed the rest: what its user asked
\* for, its own channel and those of forks of its own.
LeftInv ==
    \A k, j \in Forks, side \in Sides :
        /\ End(j, side) \in fds[k]
        /\ cpc[k] \notin {"born", "whitelist"} /\ result[k] = "ok"
        => \/ End(j, side) \in white[k]
           \/ j = k /\ cpc[k] # "run"
           \/ caller[j] = k /\ ppc[j] \notin Done

Inv ==
    /\ TypeOK /\ FamilyInv /\ ReportInv /\ EndsInv /\ ChainInv /\ LeftInv
    /\ ChannelKept /\ InSequence
==============================================================================
