------------------------------- MODULE Daemon -------------------------------
(***************************************************************************)
(* ert_forkProcessDaemon (process.c): the caller forks a server, whose     *)
(* guardian forks the daemon, stops it and ends.  The system then sends    *)
(* SIGHUP and SIGCONT to the daemon, since its process group is stopped    *)
(* and has become an orphan.  The daemon tells the caller its pid over a   *)
(* pair of sockets, and runs its method once the caller has answered.      *)
(*                                                                         *)
(* Each fork is one that succeeds on both sides or on neither (AtomicFork).*)
(***************************************************************************)
EXTENDS Integers

CONSTANTS MaxKills, MaxContinues, MaxHangUps    \* bounds on signals from elsewhere

ASSUME DaemonAssumption == {MaxKills, MaxContinues, MaxHangUps} \subseteq Nat

VARIABLES
    caller, server, daemon, \* where each process is
    stopping,       \* is SIGSTOP under way to the daemon
    daemonStopped,        \* is the daemon stopped
    hangUp,         \* is SIGHUP pending in the daemon, which blocks it
    sent,           \* has the daemon sent its pid
    answered,       \* has the caller sent its byte
    unlucky,        \* the daemon died before, or went on after, the guardian saw it stopped
    kills, continues, hangUps   \* so far

daemonVars == <<caller, server, daemon, stopping, daemonStopped, hangUp, sent, answered,
                unlucky, kills, continues, hangUps>>

DaemonInit ==
    /\ caller = "start" /\ server = "none" /\ daemon = "none"
    /\ stopping = FALSE /\ daemonStopped = FALSE /\ hangUp = FALSE
    /\ sent = FALSE /\ answered = FALSE /\ unlucky = FALSE
    /\ kills = 0 /\ continues = 0 /\ hangUps = 0

\* Both ends of the caller, and the others', are closed with their process.
CallerGone == caller \in {"returned", "failed", "killed"}
ServerGone == server \in {"exited", "failed", "killed"}
DaemonGone == daemon \in {"none", "ended", "killed"}

\* "if the exit of the process causes a process group to become orphaned, and
\* if any member of the newly-orphaned process group is stopped"
Orphan ==
    /\ hangUp' = (hangUp \/ daemonStopped) /\ daemonStopped' = FALSE
    /\ stopping' = (stopping /\ ~ daemonStopped)

----------------------------------------------------------------------------
\* The caller: SIGHUP is blocked here, and so in the processes forked from here.

ForkServer ==
    /\ caller = "start"
    /\ \/ caller' = "forking" /\ server' = "fork"
       \/ caller' = "failed" /\ UNCHANGED server
    /\ UNCHANGED <<daemon, stopping, daemonStopped, hangUp, sent, answered, unlucky, kills,
                   continues, hangUps>>

\* The server has reported that its guardian returned; the caller acknowledges.
EndFork ==
    /\ caller = "forking" /\ server = "report"
    /\ caller' = "reaping" /\ server' = "leave"
    /\ UNCHANGED <<daemon, stopping, daemonStopped, hangUp, sent, answered, unlucky, kills,
                   continues, hangUps>>

ForkFails ==
    /\ caller = "forking" /\ ServerGone
    /\ caller' = "failed"
    /\ UNCHANGED <<server, daemon, stopping, daemonStopped, hangUp, sent, answered, unlucky,
                   kills, continues, hangUps>>

\* ert_reapProcessChild; any end but exit 0 is an error.
ReapServer ==
    /\ caller = "reaping" /\ ServerGone
    /\ caller' = IF server = "exited" THEN "receiving" ELSE "failed"
    /\ UNCHANGED <<server, daemon, stopping, daemonStopped, hangUp, sent, answered, unlucky,
                   kills, continues, hangUps>>

\* The pid, or the end of the file when the daemon is dead.
RecvPid ==
    /\ caller = "receiving" /\ (sent \/ DaemonGone)
    /\ caller' = IF sent THEN "sending" ELSE "failed"
    /\ UNCHANGED <<server, daemon, stopping, daemonStopped, hangUp, sent, answered, unlucky,
                   kills, continues, hangUps>>

SendAnswer ==
    /\ caller = "sending"
    /\ IF DaemonGone THEN caller' = "failed" /\ UNCHANGED answered
       ELSE caller' = "returned" /\ answered' = TRUE
    /\ UNCHANGED <<server, daemon, stopping, daemonStopped, hangUp, sent, unlucky, kills,
                   continues, hangUps>>

----------------------------------------------------------------------------
\* The guardian

ForkDaemon ==
    /\ server = "fork"
    /\ \/ server' = "stop" /\ daemon' = "watch"
       \/ server' = "failed" /\ UNCHANGED daemon
    /\ UNCHANGED <<caller, stopping, daemonStopped, hangUp, sent, answered, unlucky, kills,
                   continues, hangUps>>

\* kill() succeeds on a child that is dead and was not reaped, too.
StopDaemon ==
    /\ server = "stop"
    /\ server' = "look"
    /\ stopping' = ~ DaemonGone
    /\ UNCHANGED <<caller, daemon, daemonStopped, hangUp, sent, answered, unlucky, kills,
                   continues, hangUps>>

\* Mutant: the guardian takes it that the daemon has stopped by now.
BugLookAtDaemon ==
    /\ server = "look"
    /\ server' = "report"
    /\ UNCHANGED <<caller, daemon, stopping, daemonStopped, hangUp, sent, answered, unlucky,
                   kills, continues, hangUps>>

\* ert_monitorProcessChild: until the daemon is seen stopped
LookAtDaemon ==
    /\ server = "look"
    /\ server' = IF daemonStopped THEN "report" ELSE "stop"
    /\ UNCHANGED <<caller, daemon, stopping, daemonStopped, hangUp, sent, answered, unlucky,
                   kills, continues, hangUps>>

\* The server ends, after the acknowledgement or for want of it.
LeaveServer ==
    /\ server = "leave" \/ (server = "report" /\ CallerGone)
    /\ server' = IF server = "leave" THEN "exited" ELSE "failed"
    /\ Orphan
    /\ UNCHANGED <<caller, daemon, sent, answered, unlucky, kills, continues, hangUps>>

----------------------------------------------------------------------------
\* The daemon

TakeStop ==
    /\ stopping /\ ~ DaemonGone
    /\ stopping' = FALSE /\ daemonStopped' = TRUE
    /\ UNCHANGED <<caller, server, daemon, hangUp, sent, answered, unlucky, kills, continues,
                   hangUps>>

WatchHangUp ==
    /\ daemon = "watch" /\ ~ daemonStopped
    /\ daemon' = "wait"
    /\ UNCHANGED <<caller, server, stopping, daemonStopped, hangUp, sent, answered, unlucky,
                   kills, continues, hangUps>>

\* ert_waitThreadSigMask lets nothing but SIGHUP through.
WaitHangUp ==
    /\ daemon = "wait" /\ ~ daemonStopped /\ hangUp
    /\ hangUp' = FALSE
    /\ daemon' = "send"
    /\ UNCHANGED <<caller, server, stopping, daemonStopped, sent, answered, unlucky, kills,
                   continues, hangUps>>

SendPid ==
    /\ daemon = "send" /\ ~ daemonStopped
    /\ daemon' = IF CallerGone THEN "ended" ELSE "recv"
    /\ sent' = ~ CallerGone
    /\ UNCHANGED <<caller, server, stopping, daemonStopped, hangUp, answered, unlucky, kills,
                   continues, hangUps>>

\* The byte, or the end of the file when the caller is gone without it.
RecvAnswer ==
    /\ daemon = "recv" /\ ~ daemonStopped /\ (answered \/ CallerGone)
    /\ daemon' = IF answered THEN "method" ELSE "ended"
    /\ UNCHANGED <<caller, server, stopping, daemonStopped, hangUp, sent, answered, unlucky,
                   kills, continues, hangUps>>

EndDaemon ==
    /\ daemon = "method" /\ ~ daemonStopped
    /\ daemon' = "ended"
    /\ UNCHANGED <<caller, server, stopping, daemonStopped, hangUp, sent, answered, unlucky,
                   kills, continues, hangUps>>

----------------------------------------------------------------------------
\* Signals from elsewhere

KillProcess ==
    /\ kills < MaxKills /\ kills' = kills + 1
    /\ \/ /\ ~ CallerGone /\ caller # "start" /\ caller' = "killed"
          /\ UNCHANGED <<server, daemon, stopping, daemonStopped, hangUp, unlucky>>
       \/ /\ server # "none" /\ ~ ServerGone /\ server' = "killed"
          /\ Orphan
          /\ UNCHANGED <<caller, daemon, unlucky>>
       \/ /\ ~ DaemonGone /\ daemon' = "killed"
          /\ stopping' = FALSE /\ daemonStopped' = FALSE
          /\ unlucky' = (unlucky \/ server \in {"stop", "look"})
          /\ UNCHANGED <<caller, server, hangUp>>
    /\ UNCHANGED <<sent, answered, continues, hangUps>>

ContinueDaemon ==
    /\ ~ DaemonGone /\ (stopping \/ daemonStopped)
    /\ continues < MaxContinues /\ continues' = continues + 1
    /\ stopping' = FALSE /\ daemonStopped' = FALSE
    /\ unlucky' = (unlucky \/ server \in {"report", "leave"})
    /\ UNCHANGED <<caller, server, daemon, hangUp, sent, answered, kills, hangUps>>

HangUpDaemon ==
    /\ ~ DaemonGone
    /\ hangUps < MaxHangUps /\ hangUps' = hangUps + 1
    /\ hangUp' = TRUE
    /\ UNCHANGED <<caller, server, daemon, stopping, daemonStopped, sent, answered, unlucky,
                   kills, continues>>

CallerStep == ForkServer \/ EndFork \/ ForkFails \/ ReapServer \/ RecvPid \/ SendAnswer
ServerStep == ForkDaemon \/ StopDaemon \/ LookAtDaemon \/ LeaveServer
DaemonStep == TakeStop \/ WatchHangUp \/ WaitHangUp \/ SendPid \/ RecvAnswer

DaemonNext ==
    \/ CallerStep \/ ServerStep \/ DaemonStep \/ EndDaemon
    \/ KillProcess \/ ContinueDaemon \/ HangUpDaemon

\* Each process runs; nothing from elsewhere is fair, nor the end of the method.
DaemonFairness ==
    WF_daemonVars(CallerStep) /\ WF_daemonVars(ServerStep) /\ WF_daemonVars(DaemonStep)

DaemonSpec == DaemonInit /\ [][DaemonNext]_daemonVars /\ DaemonFairness

----------------------------------------------------------------------------
DaemonTypeOK ==
    /\ caller \in {"start", "forking", "reaping", "receiving", "sending", "returned", "failed",
                   "killed"}
    /\ server \in {"none", "fork", "stop", "look", "report", "leave", "exited", "failed", "killed"}
    /\ daemon \in {"none", "watch", "wait", "send", "recv", "method", "ended", "killed"}
    /\ {stopping, daemonStopped, hangUp, sent, answered, unlucky} \subseteq BOOLEAN

\* The method of a daemon runs when its server is gone and its caller has
\* returned: neither for a caller that failed, nor under a guardian that may
\* still stop it.
DaemonOrphaned ==
    daemon \in {"method", "ended"} /\ answered => ServerGone /\ caller = "returned"

Released ==
    unlucky \/ (CallerGone /\ (caller = "returned" => daemon \in {"method", "ended", "killed"}))

(***************************************************************************)
(* The caller gets a pid or an error, and a daemon that it knows runs its  *)
(* method, unless the daemon dies before its guardian has seen it stopped, *)
(* for which the guardian looks for ever, or somebody continues it after.  *)
(***************************************************************************)
DaemonReleased == []DaemonOrphaned /\ <>Released
=============================================================================
