----------------------------- MODULE AtomicFork -----------------------------
(***************************************************************************)
(* What ert_forkProcessChild() promises: each call creates a child that    *)
(* runs its method and returns its pid, or it returns an error and leaves  *)
(* no process behind. Either side may be killed; the caller that is killed *)
(* never learns the outcome, which is decided all the same.                *)
(***************************************************************************)
CONSTANT Forks          \* the calls, and the children that they create

VARIABLES outcome,      \* "open" until the fork is decided
          child,        \* "none", "made", "begun" (runs its method), "gone",
                        \* "reaped"
          returned      \* what the caller was told: "nothing", "pid", "error"

vars == <<outcome, child, returned>>

Init ==
    /\ outcome = [k \in Forks |-> "open"]
    /\ child = [k \in Forks |-> "none"]
    /\ returned = [k \in Forks |-> "nothing"]

Make(k) ==
    /\ outcome[k] = "open" /\ child[k] = "none"
    /\ child' = [child EXCEPT ![k] = "made"]
    /\ UNCHANGED <<outcome, returned>>

\* There is nothing to agree on without a child.
Agree(k) ==
    /\ outcome[k] = "open" /\ child[k] # "none"
    /\ outcome' = [outcome EXCEPT ![k] = "both"]
    /\ UNCHANGED <<child, returned>>

Abandon(k) ==
    /\ outcome[k] = "open"
    /\ outcome' = [outcome EXCEPT ![k] = "neither"]
    /\ UNCHANGED <<child, returned>>

Begin(k) ==
    /\ outcome[k] = "both" /\ child[k] = "made"
    /\ child' = [child EXCEPT ![k] = "begun"]
    /\ UNCHANGED <<outcome, returned>>

ReturnPid(k) ==
    /\ outcome[k] = "both" /\ returned[k] = "nothing"
    /\ returned' = [returned EXCEPT ![k] = "pid"]
    /\ UNCHANGED <<outcome, child>>

Reap(k) ==
    /\ outcome[k] = "neither" /\ child[k] = "gone"
    /\ child' = [child EXCEPT ![k] = "reaped"]
    /\ returned' = [returned EXCEPT ![k] = "error"]
    /\ UNCHANGED outcome

ReturnError(k) ==
    /\ outcome[k] = "neither" /\ returned[k] = "nothing" /\ child[k] = "none"
    /\ returned' = [returned EXCEPT ![k] = "error"]
    /\ UNCHANGED <<outcome, child>>

\* Children end, and the kill of a caller abandons all that it has undecided.
End(gone, abandoned) ==
    /\ \A k \in gone : child[k] \in {"made", "begun"}
    /\ \A k \in abandoned : outcome[k] = "open"
    /\ child' = [k \in Forks |-> IF k \in gone THEN "gone" ELSE child[k]]
    /\ outcome' = [k \in Forks |->
                      IF k \in abandoned THEN "neither" ELSE outcome[k]]
    /\ UNCHANGED returned

Next ==
    \/ \E k \in Forks : \/ Make(k) \/ Agree(k) \/ Abandon(k) \/ Begin(k)
                        \/ ReturnPid(k) \/ Reap(k) \/ ReturnError(k)
    \/ \E gone, abandoned \in SUBSET Forks : End(gone, abandoned)

Spec == Init /\ [][Next]_vars
==============================================================================
