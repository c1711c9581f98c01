----------------------------- MODULE ErrorFrames -----------------------------
(***************************************************************************)
(* The error frames of one thread (error.c).  Each frame records a place   *)
(* that an error passed on its way up; frames since the last restart form  *)
(* the current sequence, and a block that may fail on its own account      *)
(* (an Abort-Block, a message, a signal handler) sets the current sequence *)
(* aside and begins another.  A second stack serves the signal handler,    *)
(* which may interrupt the thread between the two halves of any change of  *)
(* sequence; the counter of sequences is shared.  Handlers block every     *)
(* signal but SIGABRT, so that one runs at a time.  Frames live in chunks  *)
(* of a fixed capacity, linked in the order in which they were made.  A    *)
(* sequence is sent over a pipe by a forked child and read by its parent.  *)
(***************************************************************************)
EXTENDS Naturals, Sequences, SequencesExt

CONSTANTS
    Capacity,       \* frames of a chunk; two in the library's own tests
    MaxFrames,      \* bound: frames added, by the thread and by handlers
    MaxSaved,       \* bound: sequences set aside at a time
    MaxFrameSignals \* bound: signals handled

ASSUME FramesAssumption == Capacity \in Nat \ {0} /\ MaxFrames \in Nat /\ MaxSaved \in Nat

VARIABLES
    chunks,         \* [stack -> the chunks of its list, each a sequence of slots]
    head,           \* [stack -> where its current sequence begins, and its number]
    tail,           \* [stack -> where the next frame goes, and the frames so far]
    seqIndex,       \* the number of the next sequence
    stack,          \* the stack in use, mStack
    setAside,          \* sequences set aside, the newest last
    numberRead,          \* a number read from seqIndex and not yet stored: <<>> or <<n, what>>
    channel,        \* what a forked child writes of its sequence, and what it stood for
    added,          \* frames made so far; a frame is known by its number
    truth,          \* history: [stack -> the frames added since the sequence began]
    regrown,        \* history: [stack -> a chunk was added where another one followed]
    signalled       \* signals handled so far

frameVars == <<chunks, head, tail, seqIndex, stack, setAside, numberRead, channel, added, truth,
               regrown, signalled>>

Stacks == {"thread", "signal"}
NoFrame == 0
Chunk == [i \in 1 .. Capacity |-> NoFrame]
At(chunk, slot) == [chunk |-> chunk, slot |-> slot]

FramesTypeOK ==
    /\ \A k \in Stacks : \A c \in 1 .. Len(chunks[k]) :
         chunks[k][c] \in [1 .. Capacity -> 0 .. MaxFrames]
    /\ \A k \in Stacks :
         /\ tail[k].at.chunk \in 1 .. Len(chunks[k]) /\ tail[k].at.slot \in 1 .. Capacity + 1
         /\ tail[k].offset \in Nat /\ head[k].seq < seqIndex
    /\ stack \in Stacks /\ Len(setAside) <= MaxSaved + 1
    /\ numberRead = <<>> \/ numberRead[2] \in {"restart", "push"}
    /\ regrown \in [Stacks -> BOOLEAN]

\* initErrorFrame_(): the stack of the signals comes first, the thread's is left in use.
FramesInit ==
    /\ chunks = [k \in Stacks |-> <<Chunk>>]
    /\ head = [k \in Stacks |-> [at |-> At(1, 1), seq |-> IF k = "signal" THEN 0 ELSE 1]]
    /\ tail = [k \in Stacks |-> [at |-> At(1, 1), offset |-> 0]]
    /\ seqIndex = 2 /\ stack = "thread" /\ setAside = <<>> /\ numberRead = <<>>
    /\ channel = [state |-> "empty", frames |-> <<>>, meant |-> <<>>]
    /\ added = 0 /\ truth = [k \in Stacks |-> <<>>] /\ regrown = [k \in Stacks |-> FALSE]
    /\ signalled = 0

\* What ert_addErrorFrame_() does to the chunks c and the tail t for a sequence of frames:
\* a full chunk is followed by a new one, put at the end of the list.
Stored(from, frames) ==
    LET store(s, f) ==
            LET full == s.at.slot > Capacity
                where == IF full THEN At(Len(s.c) + 1, 1) ELSE s.at
                c == IF full THEN Append(s.c, Chunk) ELSE s.c
            IN  [c |-> [c EXCEPT ![where.chunk][where.slot] = f],
                 at |-> At(where.chunk, where.slot + 1),
                 regrown |-> s.regrown \/ (full /\ s.at.chunk < Len(s.c))]
    IN  FoldLeft(store, from, frames)

\* Frames are added to stack k, of which the tail is t.
Add(k, t, frames) ==
    LET to == Stored([c |-> chunks[k], at |-> t.at, regrown |-> regrown[k]], frames)
    IN  /\ chunks' = [chunks EXCEPT ![k] = to.c]
        /\ tail' = [tail EXCEPT ![k] = [at |-> to.at, offset |-> t.offset + Len(frames)]]
        /\ regrown' = [regrown EXCEPT ![k] = to.regrown]

\* A predicate of ERT_ERROR_IF() fails and its frame is added.
AddFrame ==
    /\ numberRead = <<>> /\ added < MaxFrames
    /\ added' = added + 1
    /\ Add(stack, tail[stack], <<added + 1>>)
    /\ truth' = [truth EXCEPT ![stack] = Append(@, added + 1)]
    /\ UNCHANGED <<head, seqIndex, stack, setAside, numberRead, channel, signalled>>

\* mSeqIndex++ of a restart or of a push reads the number here and stores it later; a
\* handler may run between.  In the handler itself nothing comes between.
TakeIndex(what) ==
    /\ numberRead = <<>>
    /\ what = "restart" => tail[stack].offset # 0
    /\ what = "push" => stack = "thread" /\ Len(setAside) < MaxSaved
    /\ numberRead' = <<seqIndex, what>>
    /\ UNCHANGED <<chunks, head, tail, seqIndex, stack, setAside, channel, added, truth, regrown,
                   signalled>>

\* The number that was read is about to be stored.
Taken(what) == numberRead # <<>> /\ numberRead[2] = what

\* ert_restartErrorFrameSequence_(): the frames of the sequence are given up.
Restart ==
    /\ Taken("restart")
    /\ seqIndex' = numberRead[1] + 1 /\ numberRead' = <<>>
    /\ head' = [head EXCEPT ![stack].seq = numberRead[1]]
    /\ tail' = [tail EXCEPT ![stack] = [at |-> head[stack].at, offset |-> 0]]
    /\ truth' = [truth EXCEPT ![stack] = <<>>]
    /\ UNCHANGED <<chunks, stack, setAside, channel, added, regrown, signalled>>

\* What a push sets aside of stack k; of a handler also what it interrupted.
Aside(k, by) ==
    [head |-> head[k], tail |-> tail[k], truth |-> truth[k], by |-> by, numberRead |-> numberRead]

\* A bug: the new sequence begins where the one that is set aside began.
BugBegun(k, n) == [at |-> head[k].at, seq |-> n]

\* The head of the sequence that a push begins on stack k.
Begun(k, n) == [at |-> tail[k].at, seq |-> n]

PushOn(k, n, by) ==
    /\ setAside' = Append(setAside, Aside(k, by))
    /\ head' = [head EXCEPT ![k] = Begun(k, n)]
    /\ tail' = [tail EXCEPT ![k].offset = 0]
    /\ truth' = [truth EXCEPT ![k] = <<>>]
    /\ seqIndex' = n + 1 /\ numberRead' = <<>>
    /\ UNCHANGED <<chunks, channel, added, regrown>>

\* ert_pushErrorFrameSequence() at the start of an Abort-Block or a message.
PushSequence == Taken("push") /\ PushOn(stack, numberRead[1], "block") /\ UNCHANGED <<stack,
                                                                                      signalled>>

\* runSigAction_(), runSigHandler_(): the handler gets a stack and a sequence of its own.
EnterHandler ==
    /\ stack = "thread" /\ signalled < MaxFrameSignals
    /\ signalled' = signalled + 1 /\ stack' = "signal"
    /\ PushOn("signal", seqIndex, "handler")

\* The number of stack k's sequence after a restart, and the next one.
Restarted(k) ==
    IF tail[k].offset = 0 THEN [seq |-> head[k].seq, next |-> seqIndex]
    ELSE [seq |-> seqIndex, next |-> seqIndex + 1]

\* ert_popErrorFrameSequence(): the sequence set aside is the current one again, and the
\* number of the one that ends is used again if it was the last.
Pop(by) ==
    LET s == setAside[Len(setAside)]
        r == Restarted(stack)
    IN  /\ numberRead = <<>> /\ setAside # <<>> /\ s.by = by
        /\ seqIndex' = IF r.next = r.seq + 1 THEN r.seq ELSE r.next
        /\ head' = [head EXCEPT ![stack] = s.head] /\ tail' = [tail EXCEPT ![stack] = s.tail]
        /\ truth' = [truth EXCEPT ![stack] = s.truth]
        /\ setAside' = Front(setAside) /\ UNCHANGED <<chunks, channel, added, regrown, signalled>>

PopSequence == Pop("block") /\ UNCHANGED <<stack, numberRead>>

LeaveHandler == Pop("handler") /\ stack' = "thread" /\ numberRead' = setAside[Len(setAside)].numberRead

\* visitErrorFrameSequence_(): n frames from a place of stack k on, chunk after chunk.
Visit(k, from, n) ==
    LET walk[i \in 0 .. n] ==
            IF i = 0 THEN [at |-> from, read |-> <<>>]
            ELSE LET w == walk[i - 1]
                     at == IF w.at.slot > Capacity THEN At(w.at.chunk + 1, 1) ELSE w.at
                 IN  [at |-> At(at.chunk, at.slot + 1),
                      read |-> Append(w.read, chunks[k][at.chunk][at.slot])]
    IN  walk[n].read

\* callForkMethod_() of the child: the sequence it set aside is written to the parent, by
\* ert_freezeErrorFrameSequence().
Freeze ==
    /\ stack = "thread" /\ numberRead = <<>> /\ channel.state = "empty"
    /\ setAside # <<>> /\ setAside[Len(setAside)].by = "block"
    /\ LET s == setAside[Len(setAside)]
       IN  channel' = [state |-> "written", meant |-> s.truth,
                       frames |-> Visit(stack, s.head.at, s.tail.offset)]
    /\ UNCHANGED <<chunks, head, tail, seqIndex, stack, setAside, numberRead, added, truth, regrown,
                   signalled>>

\* ert_thawErrorFrameSequence(): all that the length says comes, and is added to a sequence
\* of its own; or the child died writing it, and that is the error to report.
Thaw ==
    /\ stack = "thread" /\ numberRead = <<>> /\ channel.state = "written"
    /\ channel' = [channel EXCEPT !.state = "read"]
    /\ LET r == Restarted(stack)
           fresh == [at |-> head[stack].at, offset |-> 0]
       IN  /\ head' = [head EXCEPT ![stack].seq = r.seq] /\ seqIndex' = r.next
           /\ \/ /\ Add(stack, fresh, channel.frames)
                 /\ truth' = [truth EXCEPT ![stack] = channel.meant]
                 /\ UNCHANGED added
              \/ /\ channel.frames # <<>> /\ added < MaxFrames
                 /\ added' = added + 1
                 /\ Add(stack, fresh, <<added + 1>>)
                 /\ truth' = [truth EXCEPT ![stack] = <<added + 1>>]
    /\ UNCHANGED <<stack, setAside, numberRead, signalled>>

FramesNext ==
    \/ AddFrame \/ TakeIndex("restart") \/ TakeIndex("push") \/ Restart \/ PushSequence
    \/ EnterHandler \/ PopSequence \/ LeaveHandler \/ Freeze \/ Thaw

FramesSpec == FramesInit /\ [][FramesNext]_frameVars

-----------------------------------------------------------------------------
\* ert_ownErrorFrame_(): frame i of the current sequence of stack k, found backwards from
\* its tail; the chunk before is always that of the tail's chunk.
OwnFrame(k, i) ==
    LET t == tail[k]
        back[steps \in 0 .. Len(chunks[k])] ==
            LET size == IF steps = 0 THEN t.at.slot - 1 ELSE Capacity
                top == t.offset - (IF steps = 0 THEN 0 ELSE t.at.slot - 1)
                           - (IF steps = 0 THEN 0 ELSE (steps - 1) * Capacity)
                chunk == IF steps = 0 THEN t.at.chunk ELSE t.at.chunk - 1
            IN  IF size >= top - i THEN chunks[k][chunk][size - (top - i) + 1]
                ELSE back[steps + 1]
    IN  back[0]

\* The sequences that are read again: the current one of each stack, and those set aside.
SequencesRead(k) ==
    {[head |-> head[k], tail |-> tail[k], truth |-> truth[k]]}
    \cup {[head |-> setAside[i].head, tail |-> setAside[i].tail, truth |-> setAside[i].truth] :
             i \in {j \in 1 .. Len(setAside) : (setAside[j].by = "handler") = (k = "signal")}}

\* Whatever is set aside, restarted, thawed or done by a handler in between, a sequence of
\* error frames reads back as the errors since it began and no other: in order from its
\* head, as it is printed and sent, unless a chunk was added where another one followed,
\* which the walk then enters instead; and by its offsets, for as far as its chunks are two.
ReadBack ==
    \A k \in Stacks : ~regrown[k] =>
        /\ \A s \in SequencesRead(k) : Visit(k, s.head.at, s.tail.offset) = s.truth
        /\ tail[k].at.chunk <= head[k].at.chunk + 1 =>
             \A i \in 0 .. tail[k].offset - 1 : OwnFrame(k, i) = truth[k][i + 1]

\* Two sequences that are both still to be read never have one number.
Distinct ==
    /\ head["thread"].seq # head["signal"].seq
    /\ \A i \in 1 .. Len(setAside) :
         /\ \A j \in 1 .. i - 1 : setAside[i].head.seq # setAside[j].head.seq
         /\ \A k \in Stacks : setAside[i].head.seq # head[k].seq

\* What a message about an error relies on.
ErrorsKept == ReadBack /\ Distinct

=============================================================================
