------------------------------ MODULE Arguments ------------------------------
(***************************************************************************)
(* Lists of arguments: parse.c.  A text is a sequence of letters.  One     *)
(* thread makes one list at a time, from comma separated text or as a copy *)
(* of a list whose arguments are the letters of the text, and closes it;   *)
(* each allocation can fail.                                               *)
(***************************************************************************)
EXTENDS Integers, FiniteSets, Sequences, FiniteSetsExt

CONSTANTS
    MaxText         \* bound on the letters of a text, and on a list that is copied

ASSUME ArgumentsAssumption == MaxText \in Nat

VARIABLES
    text,           \* what is to be parsed
    list,           \* [args, argv, words] of the Ert_ParseArgList, blocks and their texts
    heap,           \* the blocks that are allocated
    freed,          \* blocks freed that were not allocated
    making          \* the call at work: what it makes and the blocks it has got

argumentVars == <<text, list, heap, freed, making>>

Letters == {"a", "b", " ", ","}
Null == 0
NoList == [args |-> Null, argv |-> Null, words |-> <<>>]
NotMaking == [what |-> "nothing", blocks |-> <<>>]

ArgumentsTypeOK ==
    /\ Len(text) <= MaxText /\ \A i \in 1 .. Len(text) : text[i] \in Letters
    /\ list.args \in heap \cup {Null} /\ list.argv \in heap \cup {Null}
    /\ heap \subseteq 1 .. MaxText + 2 /\ freed \subseteq 0 .. MaxText + 2
    /\ making.what \in {"nothing", "csv", "copy"}

ArgumentsInit ==
    /\ text = <<>> /\ list = NoList /\ heap = {} /\ freed = {} /\ making = NotMaking

-----------------------------------------------------------------------------
(* ert_createParseArgListCSV().                                            *)

End1(t) == Len(t) + 1
WordCount(t) == 1 + Cardinality({i \in 1 .. Len(t) : t[i] = ","})

\* A bug: the head of a word is where the word before it ended.
BugHeaded(t, at) == at

\* The head of a word: spaces are skipped.
Headed(t, at) == Min({i \in at .. End1(t) : i = End1(t) \/ t[i] # " "})

\* The comma after a head, or the end of the text.
Tailed(t, head) == Min({i \in head .. End1(t) : i = End1(t) \/ t[i] = ","})

\* The end of a word: spaces before its tail are cut off, back to its head at most.
Trimmed(t, head, tail) ==
    Min({i \in head .. tail : \A j \in i .. tail - 1 : t[j] = " "})

\* The words cut from a text one after the other, and where the cutting stands.
Cut(t) ==
    LET cut[n \in 0 .. WordCount(t)] ==
            IF n = 0 THEN [words |-> <<>>, at |-> 1]
            ELSE LET before == cut[n - 1]
                     head == Headed(t, before.at)
                     tail == Tailed(t, head)
                 IN  [words |-> Append(before.words,
                                       SubSeq(t, head, Trimmed(t, head, tail) - 1)),
                      at |-> IF tail = End1(t) THEN tail ELSE tail + 1]
    IN  cut[WordCount(t)]

\* One word that is empty is no word.
Words(t) == IF Cut(t).words = <<<<>>>> THEN <<>> ELSE Cut(t).words

-----------------------------------------------------------------------------
(* Making and closing lists.                                               *)

Fresh == Min((1 .. MaxText + 2) \ heap)

\* free() of the blocks of a sequence.
Free(blocks) ==
    LET real == {blocks[i] : i \in 1 .. Len(blocks)} \ {Null}
    IN  /\ heap' = heap \ real
        /\ freed' = freed \cup (real \ heap)
              \cup {b \in real : Cardinality({i \in 1 .. Len(blocks) : blocks[i] = b}) > 1}

TypeLetter ==
    /\ making = NotMaking /\ list = NoList /\ Len(text) < MaxText
    /\ \E c \in Letters : text' = Append(text, c)
    /\ UNCHANGED <<list, heap, freed, making>>

BeginList ==
    /\ making = NotMaking /\ list = NoList
    /\ making' \in [what : {"csv", "copy"}, blocks : {<<>>}]
    /\ UNCHANGED <<text, list, heap, freed>>

\* The blocks a call needs: the copy of the text and the array of pointers; or the
\* array, whose pointers are all set to 0 first, and a copy of every argument.  The
\* arguments of a list that is copied are the letters of text, so there are as many.
Needed == IF making.what = "csv" THEN 2 ELSE 1 + Len(text)

Allocate ==
    /\ making # NotMaking /\ Len(making.blocks) < Needed
    /\ heap' = heap \cup {Fresh}
    /\ making' = [making EXCEPT !.blocks = Append(@, Fresh)]
    /\ UNCHANGED <<text, list, freed>>

\* What is freed when an allocation fails: a list of comma separated text has its blocks
\* already, and a copy walks its own array up to the first argument that is missing.
AllocationFails ==
    /\ making # NotMaking /\ Len(making.blocks) < Needed
    /\ Free(making.blocks) /\ making' = NotMaking
    /\ UNCHANGED <<text, list>>

EndList ==
    /\ making # NotMaking /\ Len(making.blocks) = Needed
    /\ making' = NotMaking
    /\ list' = IF making.what = "csv"
               THEN [args |-> making.blocks[1], argv |-> making.blocks[2], words |-> Words(text)]
               ELSE [args |-> Null, argv |-> making.blocks[1], words |-> Tail(making.blocks)]
    /\ UNCHANGED <<text, heap, freed>>

\* A bug: only the array of the words is freed.
BugOwnWords(l) == <<>>

\* The words that are blocks of their own: without mArgs, which they lie in otherwise.
OwnWords(l) == IF l.args = Null THEN l.words ELSE <<>>

CloseList ==
    /\ making = NotMaking /\ list # NoList
    /\ Free(OwnWords(list) \o <<list.args, list.argv>>)
    /\ list' = NoList
    /\ UNCHANGED <<text, making>>

ArgumentsNext ==
    \/ TypeLetter \/ BeginList
    \/ Allocate \/ AllocationFails \/ EndList
    \/ CloseList

ArgumentsSpec == ArgumentsInit /\ [][ArgumentsNext]_argumentVars

-----------------------------------------------------------------------------
\* What stands between two separators, without the spaces around it.
Between(t, from, to) ==
    LET solid == {i \in from + 1 .. to - 1 : t[i] # " "}
    IN  IF solid = {} THEN <<>> ELSE SubSeq(t, Min(solid), Max(solid))

Separators(t) == {0, End1(t)} \cup {i \in 1 .. Len(t) : t[i] = ","}

\* The words of comma separated text are what stands between its commas, in that order,
\* and all of the text is used; a text of spaces has none.
WordsKept ==
    list # NoList /\ list.args # Null =>
        LET n == WordCount(text)
            word(k) == LET from == CHOOSE i \in Separators(text) :
                                    Cardinality({j \in Separators(text) : j < i}) = k - 1
                       IN  Between(text, from, Min({i \in Separators(text) : i > from}))
            all == [k \in 1 .. n |-> word(k)]
        IN  /\ list.words = IF all = <<<<>>>> THEN <<>> ELSE all
            /\ Cut(text).at = End1(text)

\* Whichever allocation fails, what is allocated is what the list, or the call that makes
\* one, has; and nothing is freed twice.
HeapKept ==
    /\ freed = {}
    /\ heap = {making.blocks[i] : i \in 1 .. Len(making.blocks)}
              \cup ({list.args, list.argv} \ {Null})
              \cup (IF list.args # Null THEN {} ELSE {list.words[i] : i \in 1 .. Len(list.words)})

\* What a user of a list may rely on.
ArgumentsKept == WordsKept /\ HeapKept

=============================================================================
