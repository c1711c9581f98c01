------------------------------- MODULE FdSet -------------------------------
(***************************************************************************)
(* struct Ert_FdSet (fdset.c): a set of file descriptors, kept as a tree   *)
(* of ranges that neither overlap nor touch, and the functions of fd.c     *)
(* that close the descriptors of the process that are in it or are not.    *)
(*                                                                         *)
(* The red-black tree of tree.h is the set of its ranges here; its walks   *)
(* (RB_PREV, RB_NEXT, RB_NFIND, ...) find the neighbours in the order of   *)
(* rankFdSetElement_.  A neighbour is a set with at most one range in it,  *)
(* the empty set where the code has a null pointer.                        *)
(***************************************************************************)
EXTENDS Integers

CONSTANT MaxFd      \* INT_MAX

ASSUME MaxFdAssumption == MaxFd \in Nat

VARIABLES
    ranges,         \* mRoot
    errno           \* of the last operation, "ok" if it succeeded

vars == <<ranges, errno>>

Fds == 0 .. MaxFd

\* Ert_FdRange, which ensures that it is not empty.
FdRange(lhs, rhs) == [lhs |-> lhs, rhs |-> rhs]
FdRanges == {r \in [lhs : Fds, rhs : Fds] : r.lhs <= r.rhs}

Covered(set) == {fd \in Fds : \E r \in set : r.lhs <= fd /\ fd <= r.rhs}

----------------------------------------------------------------------------
\* The tree

\* rankFdSetElement_
Less(r, s) == r.lhs < s.lhs \/ (r.lhs = s.lhs /\ r.rhs < s.rhs)

First(set) == {r \in set : \A s \in set : ~ Less(s, r)}
Last(set)  == {r \in set : \A s \in set : ~ Less(r, s)}
Prev(r)    == Last({s \in ranges : Less(s, r)})
Succ(r)    == First({s \in ranges : Less(r, s)})

Init == ranges = {} /\ errno = "ok"

Succeed(set) == ranges' = set /\ errno' = "ok"
Fail(error)  == errno' = error /\ UNCHANGED ranges

----------------------------------------------------------------------------
\* ert_insertFdSetRange

\* The range is in the tree already, or overlaps a neighbour.
Exists(r) ==
    \/ r \in ranges
    \/ \E p \in Prev(r) : ~ p.rhs < r.lhs
    \/ \E n \in Succ(r) : ~ r.rhs < n.lhs

\* Mutant: joins the range with its left neighbour only.
BugInserted(r) ==
    LET left  == {p \in Prev(r) : r.lhs - 1 = p.rhs}
    IN  (ranges \ left) \cup
        {s \in FdRanges :
            /\ s.rhs = r.rhs
            /\ IF left = {} THEN s.lhs = r.lhs ELSE \E p \in left : s.lhs = p.lhs}

\* The tree with r, joined with the neighbours that it touches.
Inserted(r) ==
    LET left  == {p \in Prev(r) : r.lhs - 1 = p.rhs}
        right == {n \in Succ(r) : r.rhs + 1 = n.lhs}
    IN  (ranges \ (left \cup right)) \cup
        {s \in FdRanges :
            /\ IF left = {} THEN s.lhs = r.lhs ELSE \E p \in left : s.lhs = p.lhs
            /\ IF right = {} THEN s.rhs = r.rhs ELSE \E n \in right : s.rhs = n.rhs}

InsertRange(r) ==
    \/ ~ Exists(r) /\ Succeed(Inserted(r))
    \/ Exists(r) /\ Fail("EEXIST")
    \/ Fail("ENOMEM")

----------------------------------------------------------------------------
\* ert_removeFdSetRange

\* ert_containsFdRange
Contains(elem, r) == elem.lhs <= r.lhs /\ r.rhs <= elem.rhs

\* RB_NFIND, or RB_MAX if there is none.
NFind(r) ==
    LET notLess == {s \in ranges : ~ Less(s, r)}
    IN  IF notLess = {} THEN Last(ranges) ELSE First(notLess)

\* Mutant: looks only at the range it finds first.
BugHolding(r) == {e \in NFind(r) : Contains(e, r)}

\* The range that holds all of r, which is the one found or that before it.
Holding(r) ==
    LET found == {e \in NFind(r) : Contains(e, r)}
    IN  IF found # {} THEN found
        ELSE {p \in UNION {Prev(e) : e \in NFind(r)} : Contains(p, r)}

\* Mutant: always splits the range.
BugLeftOver(e, r) == {FdRange(e.lhs, r.lhs - 1), FdRange(r.rhs + 1, e.rhs)}

\* What is left of e: nothing, one side or both.
LeftOver(e, r) ==
    {s \in {FdRange(e.lhs, r.lhs - 1), FdRange(r.rhs + 1, e.rhs)} : s.lhs <= s.rhs}

\* Splitting a range needs memory; without it the range is put back.
RemoveRange(r) ==
    \/ Holding(r) = {} /\ Fail("ENOENT")
    \/ \E e \in Holding(r) : Succeed((ranges \ {e}) \cup LeftOver(e, r))
    \/ \E e \in Holding(r) : e.lhs < r.lhs /\ r.rhs < e.rhs /\ Fail("ENOMEM")

----------------------------------------------------------------------------
\* ert_invertFdSet, ert_clearFdSet and ert_fillFdSet

\* The gap between r and the range before it, if there is one, and that after r.
GapBefore(r) ==
    {FdRange(lhs, r.lhs - 1) : lhs \in {p.rhs + 1 : p \in Prev(r)}}
GapAfter(r) ==
    {FdRange(r.rhs + 1, rhs) : rhs \in IF Succ(r) = {} THEN {MaxFd}
                                       ELSE {n.lhs - 1 : n \in Succ(r)}}

EndsAtMax == \E r \in Last(ranges) : r.rhs = MaxFd
StartsAtZero == \E r \in First(ranges) : r.lhs = 0

\* The gap before the first range; a range that starts at 0 has none.
FirstGap == {FdRange(0, r.lhs - 1) : r \in {s \in First(ranges) : s.lhs # 0}}

\* Mutant: forgets the gap that starts at 0.
BugInverted ==
    IF ranges = {} THEN {FdRange(0, MaxFd)}
    ELSE IF EndsAtMax THEN FirstGap \cup UNION {GapBefore(r) : r \in ranges}
    ELSE UNION {GapAfter(r) : r \in ranges}

\* Each range becomes the gap before it, if the last one ends at INT_MAX, or
\* else the gap after it.
Inverted ==
    IF ranges = {} THEN {FdRange(0, MaxFd)}
    ELSE IF EndsAtMax THEN FirstGap \cup UNION {GapBefore(r) : r \in ranges}
    ELSE FirstGap \cup UNION {GapAfter(r) : r \in ranges}

\* Needs memory only for a range more than there are.
InvertSet ==
    \/ Succeed(Inverted)
    \/ ranges = {} /\ Fail("ENOMEM")
    \/ ~ EndsAtMax /\ ~ StartsAtZero /\ Fail("ENOMEM")

ClearSet == Succeed({})

FillSet ==
    \/ Succeed({FdRange(0, MaxFd)})
    \/ ranges' = {} /\ errno' = "ENOMEM"

----------------------------------------------------------------------------
\* ert_closeFdExceptWhiteList and ert_closeFdOnlyBlackList visit the ranges in
\* order, until a visitor returns 1, and close descriptors of the process as
\* they go.  The limit is rlim_cur of RLIMIT_NOFILE.

Earlier(r) == {s \in ranges : Less(s, r)}

\* closeFdWhiteListVisitor_: closes from the end of the last range, mFd, to the
\* beginning of this one.
FdEnd(r, limit)   == IF r.rhs < limit THEN r.rhs + 1 ELSE limit
FdBegin(r, limit) == IF r.lhs > FdEnd(r, limit) THEN FdEnd(r, limit) ELSE r.lhs
WhiteVisited(limit) ==
    {r \in ranges : \A s \in Earlier(r) : FdEnd(s, limit) < limit}
MFd(visited, limit) ==
    IF visited = {} THEN 0
    ELSE CHOOSE fd \in {FdEnd(r, limit) : r \in Last(visited)} : TRUE

\* Mutant: does not go on from the last range to the limit.
BugNotListed(limit) ==
    UNION {MFd(Earlier(r), limit) .. FdBegin(r, limit) - 1 :
               r \in WhiteVisited(limit)}

\* What ert_closeFdExceptWhiteList closes.
NotListed(limit) ==
    (UNION {MFd(Earlier(r), limit) .. FdBegin(r, limit) - 1 :
               r \in WhiteVisited(limit)})
        \cup MFd(WhiteVisited(limit), limit) .. limit - 1

\* closeFdBlackListVisitor_: closes the range, but stops at the limit if it
\* meets it.
MeetsLimit(r, limit) == r.lhs <= limit /\ limit <= r.rhs
BlackVisited(limit) ==
    {r \in ranges : \A s \in Earlier(r) : ~ MeetsLimit(s, limit)}

\* What ert_closeFdOnlyBlackList closes.
Listed(limit) ==
    UNION {r.lhs .. (IF MeetsLimit(r, limit) THEN limit - 1 ELSE r.rhs) :
               r \in BlackVisited(limit)}

----------------------------------------------------------------------------
Next ==
    \/ \E r \in FdRanges : InsertRange(r) \/ RemoveRange(r)
    \/ InvertSet \/ ClearSet \/ FillSet

Spec == Init /\ [][Next]_vars

TypeOK ==
    /\ ranges \subseteq FdRanges
    /\ errno \in {"ok", "EEXIST", "ENOENT", "ENOMEM"}

\* Ranges neither overlap nor touch, whatever was inserted, removed and
\* inverted before: on this every search of the tree relies.
Separated ==
    \A r, s \in ranges : r # s => r.rhs + 1 < s.lhs \/ s.rhs + 1 < r.lhs

\* Wherever the limit is, in a range, in a gap or beyond them all: of the
\* descriptors below it those outside the white list are closed, and those on
\* the black list; and nothing on the one or outside the other is.
ClosesExactly ==
    \A limit \in 0 .. MaxFd + 1 :
        /\ NotListed(limit) = (0 .. limit - 1) \ Covered(ranges)
        /\ Listed(limit) \subseteq Covered(ranges)
        /\ Covered(ranges) \cap 0 .. limit - 1 \subseteq Listed(limit)

\* The tree of ranges is the set of descriptors that its users believe it is,
\* and an operation that fails changes nothing.
Abstract == INSTANCE DescriptorSet WITH members <- Covered(ranges)
DescriptorSetSpec == Abstract!Spec

\* Insert and remove do what they promise of the very range they are given: an
\* insert fails if any descriptor of it is in the set, a remove if any is not.
RangesExact ==
    [][\A r \in FdRanges :
           /\ InsertRange(r) => Abstract!Insert(r.lhs .. r.rhs)
           /\ RemoveRange(r) => Abstract!Remove(r.lhs .. r.rhs)]_vars
=============================================================================
