---------------------------- MODULE DescriptorSet ----------------------------
(***************************************************************************)
(* What an Ert_FdSet promises its users: a set of file descriptors, whose  *)
(* operations do all that they are asked for or report an error and do     *)
(* nothing.                                                                *)
(***************************************************************************)
EXTENDS Naturals

CONSTANT MaxFd      \* the greatest file descriptor, INT_MAX

VARIABLES members,  \* the descriptors in the set
          errno     \* of the last operation, "ok" if it succeeded

vars == <<members, errno>>

Fds == 0 .. MaxFd

Init == members = {} /\ errno = "ok"

Succeed(set) == members' = set /\ errno' = "ok"
Fail(error)  == errno' = error /\ UNCHANGED members

Insert(fds) ==
    \/ fds \cap members = {} /\ Succeed(members \cup fds)
    \/ fds \cap members # {} /\ Fail("EEXIST")
    \/ Fail("ENOMEM")

Remove(fds) ==
    \/ fds \subseteq members /\ Succeed(members \ fds)
    \/ ~ fds \subseteq members /\ Fail("ENOENT")
    \/ Fail("ENOMEM")

Invert == Succeed(Fds \ members) \/ Fail("ENOMEM")

Clear == Succeed({})

\* The one operation that has done something, cleared the set, when it fails.
Fill == Succeed(Fds) \/ (members' = {} /\ errno' = "ENOMEM")

Next ==
    \/ \E first, last \in Fds :
           first <= last /\ (Insert(first .. last) \/ Remove(first .. last))
    \/ Invert \/ Clear \/ Fill

Spec == Init /\ [][Next]_vars
=============================================================================
