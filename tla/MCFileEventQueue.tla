-------------------------- MODULE MCFileEventQueue --------------------------
(***************************************************************************)
(* Instances of FileEventQueue for TLC.  There is no symmetry: a liveness  *)
(* property is checked.                                                    *)
(***************************************************************************)
EXTENDS FileEventQueue

CONSTANTS a1, a2

TwoActivities == {a1, a2}
=============================================================================
