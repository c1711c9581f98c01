---------------------------- MODULE MCEventPipe ----------------------------
(***************************************************************************)
(* Instances of EventPipe for TLC.                                         *)
(***************************************************************************)
EXTENDS EventPipe, TLC

CONSTANTS t1, t2, l1, l2

TwoThreads  == {t1, t2}
TwoLatches  == {l1, l2}
ResetOp     == {"reset"}
SetOp       == {"set"}
Symmetry    == Permutations(TwoThreads) \cup Permutations(TwoLatches)
=============================================================================
