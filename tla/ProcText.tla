------------------------------- MODULE ProcText -------------------------------
(***************************************************************************)
(* Texts of /proc that the library takes apart: the time since the boot    *)
(* (ert_procUptime() of timekeeping.c, where there is no clock for it) and *)
(* the state of a process (ert_fetchProcessState() of process.c), in a     *)
(* line that also has the name of its command, which may be anything.      *)
(* ert_readFdFully(), which reads them, does not end a text: the search    *)
(* for the first space stays within it only if it has one, or is empty.    *)
(***************************************************************************)
EXTENDS Integers, FiniteSets, FiniteSetsExt, Sequences, SequencesExt

CONSTANTS
    UptimeWrap,     \* number of values of an unsigned number, 2^64 in the code
    MaxFraction,    \* digits behind the point that are read, 9 in the code
    MaxProcText,    \* bound on the letters before the first space
    MaxName         \* bound on the letters of a name

ASSUME ProcTextAssumption ==
    UptimeWrap \in Nat \ {0} /\ MaxFraction \in Nat /\ MaxProcText \in Nat /\ MaxName \in Nat

VARIABLES
    procFile,       \* what is read, and the text of it
    scan,           \* the loop over it: [at, sum, fraction]
    reading         \* [end, value]: how it ended, and the result

procVars == <<procFile, scan, reading>>

Unread == [end |-> "none", value |-> 0]
Refused == [end |-> "refused", value |-> 0]
Failed == [end |-> "failed", value |-> 0]
Told(value) == [end |-> "told", value |-> value]

\* The point, digits and another letter; a space comes after them.
UptimeLetters == {".", "1", "2", "9", "x"}
UptimeTexts == UNION {[1 .. n -> UptimeLetters] : n \in 0 .. MaxProcText}
DigitOf == [c \in {"1", "2", "9"} |-> CASE c = "1" -> 1 [] c = "2" -> 2 [] c = "9" -> 9]

NameLetters == {")", " ", "R"}
Names == UNION {[1 .. n -> NameLetters] : n \in 0 .. MaxName}
StateLetters == {"R", "Z", "I"}     \* running, zombie, and one that the code does not know
KnownStates == {"R", "Z"}

NoFile == [what |-> "none", text |-> <<>>, state |-> "none"]
NoScan == [at |-> 0, sum |-> 0, fraction |-> 0]

ProcTextTypeOK ==
    /\ procFile.what \in {"none", "uptime", "stat"}
    /\ scan.at \in 0 .. MaxProcText + 1 /\ scan.sum \in 0 .. UptimeWrap - 1
    /\ scan.fraction \in 0 .. 2 * MaxProcText + 1
    /\ reading.end \in {"none", "refused", "failed", "told"}

ProcTextInit == procFile = NoFile /\ scan = NoScan /\ reading = Unread

-----------------------------------------------------------------------------
(* Opening, reading and the end.                                           *)

OpenUptime ==
    /\ procFile = NoFile
    /\ \E text \in UptimeTexts :
         procFile' = [what |-> "uptime", text |-> text, state |-> "none"]
    /\ scan' = [NoScan EXCEPT !.at = 1]
    /\ UNCHANGED reading

\* "(" name ")" and the state, with more behind it; or nothing, of a process that has gone.
StatText(name, state) == <<"(">> \o name \o <<")", " ", state, " ", "0">>

OpenStat ==
    /\ procFile = NoFile
    /\ \E name \in Names, state \in StateLetters :
         \/ procFile' = [what |-> "stat", text |-> StatText(name, state), state |-> state]
         \/ procFile' = [what |-> "stat", text |-> <<>>, state |-> "none"]
    /\ UNCHANGED <<scan, reading>>

Tell(result) == reading' = result /\ UNCHANGED <<procFile, scan>>

\* The file cannot be opened or read, there is no memory for it, or it has no time at all.
ProcFails == procFile # NoFile /\ reading = Unread /\ scan.at < 2 /\ Tell(Failed)

EndProc == reading # Unread /\ procFile' = NoFile /\ scan' = NoScan /\ reading' = Unread

-----------------------------------------------------------------------------
(* ert_procUptime()                                                        *)

Scanning == procFile.what = "uptime" /\ reading = Unread
Letter == procFile.text[scan.at]
AtEnd == scan.at > Len(procFile.text)

\* A bug: the product is not looked at.
BugFits(sum, digit) == (sum * 10 + digit) % UptimeWrap >= sum

\* Neither the product nor the sum wraps.
Fits(sum, digit) ==
    /\ ((sum * 10) % UptimeWrap) \div 10 = sum
    /\ (((sum * 10) % UptimeWrap) + digit) % UptimeWrap >= sum

\* fracdigits is odd after the point and counts in twos.
ScanPoint ==
    /\ Scanning /\ ~AtEnd /\ Letter = "."
    /\ IF scan.fraction # 0 THEN Tell(Refused)
       ELSE /\ scan' = [scan EXCEPT !.at = @ + 1, !.fraction = 1]
            /\ UNCHANGED <<procFile, reading>>

ScanDigit ==
    /\ Scanning /\ ~AtEnd /\ Letter \in DOMAIN DigitOf
    /\ IF ~Fits(scan.sum, DigitOf[Letter]) THEN Tell(Refused)
       ELSE /\ scan' = [at       |-> scan.at + 1,
                        sum      |-> (scan.sum * 10 + DigitOf[Letter]) % UptimeWrap,
                        fraction |-> IF scan.fraction = 0 THEN 0 ELSE scan.fraction + 2]
            /\ UNCHANGED <<procFile, reading>>

ScanOther ==
    /\ Scanning /\ ~AtEnd /\ Letter \notin {"."} \cup DOMAIN DigitOf
    /\ Tell(Refused)

\* The digits that are missing behind the point are made up for, with a product that is not
\* looked at.
ScanEnd ==
    /\ Scanning /\ AtEnd
    /\ LET digits == scan.fraction \div 2
       IN  Tell(IF digits > MaxFraction THEN Refused
                ELSE Told((scan.sum * 10 ^ (MaxFraction - digits)) % UptimeWrap))

-----------------------------------------------------------------------------
(* ert_fetchProcessState()                                                 *)

\* A bug: the name ends where it has a parenthesis.
BugNameEnd(text) == IF Contains(text, ")") THEN Min({i \in DOMAIN text : text[i] = ")"}) ELSE 0

\* The search goes from the end of the text to the last parenthesis.
NameEnd(text) == IF Contains(text, ")") THEN Max({i \in DOMAIN text : text[i] = ")"}) ELSE 0

FetchProcessState ==
    /\ procFile.what = "stat" /\ reading = Unread
    /\ LET text == procFile.text
           end  == NameEnd(text)
       IN  Tell(IF end # 0 /\ Len(text) - end > 1 /\ text[end + 1] = " "
                THEN IF text[end + 2] \in KnownStates THEN Told(text[end + 2]) ELSE Refused
                ELSE Refused)

ProcTextNext ==
    \/ OpenUptime \/ OpenStat \/ ProcFails \/ EndProc
    \/ ScanPoint \/ ScanDigit \/ ScanOther \/ ScanEnd \/ FetchProcessState

ProcTextSpec == ProcTextInit /\ [][ProcTextNext]_procVars

-----------------------------------------------------------------------------
Points(text) == {i \in DOMAIN text : text[i] = "."}
Digits(text) == {i \in DOMAIN text : text[i] \in DOMAIN DigitOf}
FractionDigits(text) == {i \in Digits(text) : \E k \in Points(text) : k < i}

\* The number that the digits of a text make up, wherever its point is.
Numeral(text) ==
    MapThenSumSet(LAMBDA i : DigitOf[text[i]] * 10 ^ Cardinality({k \in Digits(text) : k > i}),
                  Digits(text))

\* What a text says, in units of the last digit that is read.
TrueUptime(text) == Numeral(text) * 10 ^ (MaxFraction - Cardinality(FractionDigits(text)))

IsUptime(text) ==
    /\ Points(text) \cup Digits(text) = DOMAIN text /\ Cardinality(Points(text)) <= 1
    /\ Cardinality(FractionDigits(text)) <= MaxFraction

\* A time that is told is the one in the text, digit by digit, if it has room in its type; a
\* text is refused only if it is none, or if even its digits have no room.
UptimeExact ==
    procFile.what = "uptime" =>
        LET text == procFile.text
            fits == IsUptime(text) /\ Numeral(text) < UptimeWrap
        IN  /\ reading.end = "told" =>
                /\ fits
                /\ TrueUptime(text) < UptimeWrap => reading.value = TrueUptime(text)
            /\ reading.end = "refused" => ~fits

\* Whatever the name of a command is, no state of a process is taken for another, and one
\* that the code knows is found.
StateExact ==
    procFile.what = "stat" =>
        /\ reading.end = "told" => reading.value = procFile.state
        /\ reading.end = "refused" => procFile.state \notin KnownStates

\* What is told is what the texts say.
ProcTextKept == UptimeExact /\ StateExact

=============================================================================
