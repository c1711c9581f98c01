------------------------------ MODULE Environment ------------------------------
(***************************************************************************)
(* Numbers in environment variables: env.c, and parse.c with which it      *)
(* reads them.  A text is what strtoll(3) and strtoull(3) see of it: how   *)
(* it begins, the number that its digits name, and whether something else  *)
(* follows them.  An int has IntBits bits and a long long has LongBits.    *)
(* Texts are set in one variable, which is read as any kind of number.     *)
(***************************************************************************)
EXTENDS Integers, FiniteSets, FiniteSetsExt

CONSTANTS IntBits, LongBits

ASSUME EnvironmentAssumption ==
    {IntBits, LongBits} \subseteq Nat \ {0} /\ IntBits < LongBits

VARIABLES
    variable,       \* the text of the environment variable, or Unset
    got             \* the number last read since it was set, as a set, and as which kind

environmentVars == <<variable, got>>

Power(bits) == 2 ^ bits
Ints == - Power(IntBits - 1) .. Power(IntBits - 1) - 1
LongMin == - Power(LongBits - 1)
LongMax == Power(LongBits - 1) - 1
ULongMax == Power(LongBits) - 1

Unset == [lead |-> "unset", value |-> 0, junk |-> FALSE]
NotRead == [kind |-> "none", number |-> {}]
Texts ==
    [lead : {"digit", "minus", "plus", "other"}, value : 0 .. Power(LongBits) + 1, junk : BOOLEAN]

EnvironmentTypeOK ==
    /\ variable \in Texts \cup {Unset}
    /\ got.kind \in {"int", "unsigned", "uint64", "pid", "none"}
    /\ got.number \subseteq LongMin .. ULongMax /\ Cardinality(got.number) <= 1

EnvironmentInit ==
    variable = Unset /\ got = NotRead

-----------------------------------------------------------------------------
(* Parsing.  The number parsed is the only member of a set, which is empty *)
(* when the text is refused with EINVAL.                                   *)

\* Conversion to a type with so many bits.
AsUnsigned(v, bits) == v % Power(bits)
AsSigned(v, bits) ==
    LET u == v % Power(bits) IN IF u < Power(bits - 1) THEN u ELSE u - Power(bits)

\* strtoull(3) and strtoll(3): a number out of range is the nearest, with ERANGE.
UnsignedLongLong(t) == [value |-> Min({t.value, ULongMax}), range |-> t.value > ULongMax]
LongLong(t) ==
    LET v == IF t.lead = "minus" THEN - t.value ELSE t.value
    IN  [value |-> Max({LongMin, Min({v, LongMax})}), range |-> v \notin LongMin .. LongMax]

\* Of the numbers with ERANGE only the largest is refused.
ParseUnsignedLongLong(t) ==
    LET u == UnsignedLongLong(t)
    IN  {v \in {u.value} : t.lead = "digit" /\ ~t.junk /\ (v # ULongMax \/ ~u.range)}
ParseLongLong(t) ==
    LET s == LongLong(t)
    IN  {v \in {s.value} : /\ t.lead \in {"digit", "minus", "plus"} /\ ~t.junk
                           /\ v # LongMax \/ ~s.range}

\* The narrower number, unless it differs from the wider: the difference is of the
\* wider type.
ParseInt(t) == {AsSigned(v, IntBits) : v \in {w \in ParseLongLong(t) : AsSigned(w, IntBits) - w = 0}}
ParseUInt(t) ==
    {AsUnsigned(v, IntBits) : v \in {w \in ParseUnsignedLongLong(t) :
                                        AsUnsigned(AsUnsigned(w, IntBits) - w, LongBits) = 0}}
ParseUInt64(t) == ParseUnsignedLongLong(t)

\* A bug: the sign of the narrower number is not looked at.
BugParsePid(t) ==
    {AsSigned(v, IntBits) : v \in {w \in ParseUnsignedLongLong(t) :
                                       AsUnsigned(AsSigned(w, IntBits) - w, LongBits) = 0}}

\* The difference alone lets a number through that is so large that it is what the
\* narrower one, which is negative, becomes in the wider type.
ParsePid(t) ==
    {AsSigned(v, IntBits) : v \in {w \in ParseUnsignedLongLong(t) :
                                       /\ AsUnsigned(AsSigned(w, IntBits) - w, LongBits) = 0
                                       /\ AsSigned(w, IntBits) >= 0}}

-----------------------------------------------------------------------------
(* The variable.                                                           *)

\* sprintf() of a number.
Format(v) ==
    [lead |-> IF v < 0 THEN "minus" ELSE "digit", value |-> IF v < 0 THEN -v ELSE v, junk |-> FALSE]

Put(t) == variable' = t /\ got' = NotRead

SetEnvString == \E t \in Texts : Put(t)
SetEnvInt == \E v \in Ints : Put(Format(v))
SetEnvUInt == \E v \in 0 .. Power(IntBits) - 1 : Put(Format(v))
SetEnvUInt64 == \E v \in 0 .. ULongMax : Put(Format(v))
SetEnvPid == \E v \in Ints : Put(Format(v))
DeleteEnv == variable # Unset /\ Put(Unset)

\* A variable that is not set is ENOENT.
Get(kind, number) ==
    /\ got' = [kind |-> kind, number |-> IF variable = Unset THEN {} ELSE number]
    /\ UNCHANGED variable

GetEnvInt == Get("int", ParseInt(variable))
GetEnvUInt == Get("unsigned", ParseUInt(variable))
GetEnvUInt64 == Get("uint64", ParseUInt64(variable))
GetEnvPid == Get("pid", ParsePid(variable))

EnvironmentNext ==
    \/ SetEnvString \/ SetEnvInt \/ SetEnvUInt \/ SetEnvUInt64 \/ SetEnvPid
    \/ DeleteEnv
    \/ GetEnvInt \/ GetEnvUInt \/ GetEnvUInt64 \/ GetEnvPid

EnvironmentSpec == EnvironmentInit /\ [][EnvironmentNext]_environmentVars

-----------------------------------------------------------------------------
\* A number read from the environment is the one that is written there, if it is of the
\* kind that is asked for, and an error otherwise: it is never another one, whatever its
\* digits leave when they are cut to a narrower type.
NumbersKept ==
    LET t == variable
        v == IF t.lead = "minus" THEN - t.value ELSE t.value
        range == CASE got.kind = "int" -> Ints
                   [] got.kind = "unsigned" -> 0 .. Power(IntBits) - 1
                   [] got.kind = "uint64" -> 0 .. ULongMax
                   [] got.kind = "pid" -> 0 .. Power(IntBits - 1) - 1
        leads == IF got.kind = "int" THEN {"digit", "minus", "plus"} ELSE {"digit"}
    IN  got # NotRead => got.number = {n \in {v} : t.lead \in leads /\ ~t.junk /\ n \in range}

=============================================================================
