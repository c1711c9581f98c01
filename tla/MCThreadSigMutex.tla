-------------------------- MODULE MCThreadSigMutex --------------------------
(***************************************************************************)
(* Instances of ThreadSigMutex for TLC.  The threads are not a symmetry    *)
(* set: Blocked tells them apart, and liveness is checked.                 *)
(***************************************************************************)
EXTENDS ThreadSigMutex, TLC

CONSTANTS t1, t2, t3

TwoThreads   == {t1, t2}
ThreeThreads == {t1, t2, t3}
AllButOne    == {t2, t3}
First        == {t1}
Second       == {t2}
=============================================================================
