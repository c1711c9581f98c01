------------------------------ MODULE Messages ------------------------------
(***************************************************************************)
(* The messages of error.c: print_() and the functions built on it.  A     *)
(* message is put together in one memory stream of its process, under the  *)
(* application lock, and written with one call; without the lock, or       *)
(* without the stream (before the module is initialised and after it is    *)
(* left), its pieces are written one by one.  The application lock is      *)
(* recursive in a thread and excludes the other threads and the forked     *)
(* processes (ProcessLocks).  A %P argument is formatted by a method of    *)
(* the program, which may itself print a message.                          *)
(***************************************************************************)
EXTENDS Naturals, Sequences, SequencesExt, FiniteSetsExt

CONSTANTS
    Writers,        \* threads that print
    ProcessOf,      \* [Writers -> their processes]
    MaxMessages     \* bound on the messages of a behaviour

VARIABLES
    printing,       \* [Writers -> the messages it is in the middle of, the innermost last]
    lockedBy,       \* the writer that has the application lock, or NoWriter
    stream,         \* [process -> the text in its memory stream, up to its position]
    streamOpen,     \* [process -> is printBuf_.mFile set]
    output,         \* what is written, piece by piece
    notes,          \* [message -> how it was made], a sequence
    done,           \* messages that are complete
    crashed         \* processes that aborted

messageVars == <<printing, lockedBy, stream, streamOpen, output, notes, done, crashed>>

NoWriter == "no writer"
Processes == {ProcessOf[w] : w \in Writers}
Pieces == <<"head", "text", "end">>
Piece(m, part) == [message |-> m, part |-> part]

MessagesTypeOK ==
    /\ \A w \in Writers : \A i \in 1 .. Len(printing[w]) :
         printing[w][i].message \in 1 .. Len(notes) /\ printing[w][i].next \in 1 .. 4
    /\ lockedBy \in Writers \cup {NoWriter}
    /\ streamOpen \in [Processes -> BOOLEAN]
    /\ Len(notes) <= MaxMessages /\ done \subseteq 1 .. Len(notes) /\ crashed \subseteq Processes
    /\ \A i \in 1 .. Len(output) : output[i] \in [message : 1 .. Len(notes), part : ToSet(Pieces)]

MessagesInit ==
    /\ printing = [w \in Writers |-> <<>>] /\ lockedBy = NoWriter
    /\ stream = [p \in Processes |-> <<>>] /\ streamOpen = [p \in Processes |-> FALSE]
    /\ output = <<>> /\ notes = <<>> /\ done = {} /\ crashed = {}

Up(w) == ProcessOf[w] \notin crashed
Innermost(w) == Last(printing[w])
InProgress ==
    UNION {{printing[w][i].message : i \in DOMAIN printing[w]} : w \in Writers}

\* A bug: the stream is used whenever it is there.
BugBuffered(w, locked) == streamOpen[ProcessOf[w]]

\* Is a message put together in the stream.
Buffered(w, locked) == locked /\ streamOpen[ProcessOf[w]]

\* What a message may come apart for: one made by its own method; and, if it is written in
\* pieces, one with which it does not share the lock.
Disturbs(n, outer, m) ==
    \/ outer /\ (m.buffered => n.buffered)
    \/ ~m.buffered /\ ~(m.locked /\ n.locked)

\* print_(): the lock is taken, or cannot be had, and the stream is rewound.
BeginMessage ==
    \E w \in Writers, locked \in BOOLEAN :
      /\ Up(w) /\ Len(notes) < MaxMessages
      /\ printing[w] # <<>> => Innermost(w).next = 2
      /\ locked => lockedBy \in {NoWriter, w}
      /\ LET m == Len(notes) + 1
             n == [locked |-> locked, buffered |-> Buffered(w, locked), disturbed |-> FALSE,
                   inside |-> {printing[w][i].message : i \in 1 .. Len(printing[w])}]
             outer(i) == i \in n.inside
             hit == \E i \in InProgress : ~outer(i) /\ Disturbs(notes[i], FALSE, n)
         IN  /\ notes' = Append(
                    [i \in 1 .. Len(notes) |->
                        IF i \in InProgress /\ Disturbs(n, outer(i), notes[i])
                        THEN [notes[i] EXCEPT !.disturbed = TRUE] ELSE notes[i]],
                    [n EXCEPT !.disturbed = hit])
             /\ printing' = [printing EXCEPT ![w] = Append(@, [message |-> m, next |-> 1])]
             /\ stream' = IF n.buffered THEN [stream EXCEPT ![ProcessOf[w]] = <<>>] ELSE stream
             /\ lockedBy' = IF locked THEN w ELSE lockedBy
      /\ UNCHANGED <<streamOpen, output, done, crashed>>

\* One of the formatted pieces, to the stream or to the descriptor.
PrintPart ==
    \E w \in Writers :
      /\ Up(w) /\ printing[w] # <<>> /\ Innermost(w).next <= Len(Pieces)
      /\ LET m == Innermost(w).message
             piece == Piece(m, Pieces[Innermost(w).next])
         IN  IF notes[m].buffered
             THEN stream' = [stream EXCEPT ![ProcessOf[w]] = Append(@, piece)] /\ UNCHANGED output
             ELSE output' = Append(output, piece) /\ UNCHANGED stream
      /\ printing' = [printing EXCEPT ![w][Len(printing[w])].next = @ + 1]
      /\ UNCHANGED <<lockedBy, streamOpen, notes, done, crashed>>

\* The stream is written, and the lock is released by the outermost that has it; if not
\* all of it can be written the process aborts.
EndMessage ==
    \E w \in Writers :
      /\ Up(w) /\ printing[w] # <<>> /\ Innermost(w).next > Len(Pieces)
      /\ LET m == Innermost(w).message
             left == Front(printing[w])
             keeps == \E i \in 1 .. Len(left) : notes[left[i].message].locked
         IN  \/ /\ output' = IF notes[m].buffered THEN output \o stream[ProcessOf[w]] ELSE output
                /\ printing' = [printing EXCEPT ![w] = left]
                /\ lockedBy' = IF notes[m].locked /\ ~keeps THEN NoWriter ELSE lockedBy
                /\ done' = done \cup {m} /\ UNCHANGED crashed
             \/ /\ notes[m].buffered
                /\ crashed' = crashed \cup {ProcessOf[w]}
                /\ printing' = [v \in Writers |->
                                  IF ProcessOf[v] = ProcessOf[w] THEN <<>> ELSE printing[v]]
                /\ lockedBy' = NoWriter /\ UNCHANGED <<output, done>>
      /\ UNCHANGED <<stream, streamOpen, notes>>

\* Ert_Error_init() and Error_exit_() set and clear the stream under the lock.
SwitchStream ==
    \E p \in Processes \ crashed :
      /\ lockedBy = NoWriter
      /\ streamOpen' = [streamOpen EXCEPT ![p] = ~@]
      /\ stream' = [stream EXCEPT ![p] = <<>>]
      /\ UNCHANGED <<printing, lockedBy, output, notes, done, crashed>>

MessagesNext == BeginMessage \/ PrintPart \/ EndMessage \/ SwitchStream

MessagesSpec == MessagesInit /\ [][MessagesNext]_messageVars

-----------------------------------------------------------------------------
\* Is message m written once, its pieces next to one another.
Line(m) == [i \in 1 .. 3 |-> Piece(m, Pieces[i])]
Whole(m) ==
    \E i \in 0 .. Len(output) - 3 :
      /\ SubSeq(output, i + 1, i + 3) = Line(m)
      /\ \A j \in 1 .. Len(output) : output[j].message = m => j \in i + 1 .. i + 3

\* A message is a line of the output, whatever the threads of the process and its children
\* print meanwhile and whether or not the stream is in place; unless the message is written
\* in pieces beside one that does not have the lock, or its own method prints one: that
\* message takes the stream from it, and is written again in place of its beginning.
MessagesKept ==
    \A m \in done :
      \/ Whole(m) \/ notes[m].disturbed
      \/ notes[m].buffered /\ \E n \in notes[m].inside : notes[n].buffered
=============================================================================
