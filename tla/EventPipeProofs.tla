--------------------------- MODULE EventPipeProofs ---------------------------
(***************************************************************************)
(* Proofs about EventPipe, for any threads, latches and bounds.  Inv is    *)
(* inductive: each action has a lemma, and NextInv puts them together.     *)
(* What Inv says of lost events supposes that the methods at most reset    *)
(* latches; the rest holds for methods that also set and disable them.     *)
(*                                                                         *)
(* In each lemma <1>a says what the guard gives, <1>b what the action      *)
(* changes, element by element, and <1>c what it leaves alone; the         *)
(* conjuncts of Inv' follow from these facts.                              *)
(***************************************************************************)
EXTENDS EventPipe, SequenceTheorems, TLAPS

\* An entry put at the head shifts the others by one.
LEMMA Prepended ==
    ASSUME NEW S, NEW s \in Seq(S), NEW e \in S
    PROVE  LET p == <<e>> \o s IN
           /\ p \in Seq(S) /\ Len(p) = Len(s) + 1 /\ p[1] = e
           /\ \A i \in 1 .. Len(s) : p[i + 1] = s[i]
           /\ \A i \in 2 .. Len(s) + 1 : p[i] = s[i - 1]
<1>1. <<e>> \in Seq(S) /\ Len(<<e>>) = 1 /\ <<e>>[1] = e
  OBVIOUS
<1> QED  BY <1>1, ConcatProperties

\* The sequence without its entry i.
LEMMA Removed ==
    ASSUME NEW S, NEW s \in Seq(S), NEW k \in 1 .. Len(s)
    PROVE  LET r == RemoveAt(s, k) IN
           /\ r \in Seq(S) /\ Len(r) = Len(s) - 1
           /\ \A i \in 1 .. Len(s) - 1 : r[i] = IF i < k THEN s[i] ELSE s[i + 1]
<1> DEFINE a == SubSeq(s, 1, k - 1)
           b == SubSeq(s, k + 1, Len(s))
<1>1. a \in Seq(S) /\ Len(a) = k - 1 /\ \A i \in 1 .. k - 1 : a[i] = s[i]
  BY SubSeqProperties, LenProperties
<1>2. /\ b \in Seq(S) /\ Len(b) = Len(s) - k
      /\ \A i \in 1 .. Len(s) - k : b[i] = s[k + i]
  BY SubSeqProperties, LenProperties
<1>3. /\ a \o b \in Seq(S) /\ Len(a \o b) = Len(s) - 1
      /\ \A i \in 1 .. Len(a) + Len(b) :
            (a \o b)[i] = IF i <= Len(a) THEN a[i] ELSE b[i - Len(a)]
  <2> HIDE DEF a, b
  <2>1. a \in Seq(S) /\ b \in Seq(S) /\ Len(a) + Len(b) = Len(s) - 1
    BY <1>1, <1>2, LenProperties
  <2> QED  BY <2>1, ConcatProperties
<1>4. ASSUME NEW i \in 1 .. Len(s) - 1
      PROVE  (a \o b)[i] = IF i < k THEN s[i] ELSE s[i + 1]
  <2> HIDE DEF a, b
  <2> QED  BY <1>1, <1>2, <1>3, LenProperties
<1> QED  BY <1>3, <1>4 DEF RemoveAt

\* The types that the lemmas need.
LEMMA Typed ==
    TypeOK => /\ NoThread \notin Threads
              /\ \A t \in Threads : on[t] \in Latches /\ t # NoThread
              /\ DOMAIN list = 1 .. Len(list) /\ Len(list) \in Nat /\ iter \in Nat
              /\ \A i \in DOMAIN list : list[i] \in Latches
              /\ iter >= 1 /\ iter <= Len(list) + 1
BY ThreadsAssumption, LenProperties, ElementOfSeq DEF TypeOK

\* The list in terms of its entries.
LEMMA Listed ==
    ASSUME ListedOnce
    PROVE  /\ \A i, j \in DOMAIN list : list[i] = list[j] => i = j
           /\ \A l \in Latches : bound[l] <=> \E i \in DOMAIN list : list[i] = l
BY DEF ListedOnce, IsInjective, ToSet

\* A reset takes its data from an enabled latch, and nothing from another.
LEMMA Resets ==
    ASSUME TypeOK, NEW l \in Latches
    PROVE  /\ Reset(l) \in SUBSET {"data", "disable"}
           /\ event'[l] = Reset(l) =>
                 /\ Setting(l)' = Setting(l) \/ Setting(l)' = "Off"
                 /\ Setting(l) # "Disabled" => Setting(l)' = "Off"
<1>1. event[l] \in SUBSET {"data", "disable"}
  BY DEF TypeOK
<1> QED  BY <1>1 DEF Reset, Setting

\* A call begins; one from a method is of a function that methods call.
LEMMA CallIsInv ==
    ASSUME Inv, NEW t \in Threads, NEW o \in CallOps, NEW l \in Latches, Call(t, o, l)
    PROVE  Inv'
<1> USE DEF Inv
<1>a. /\ pc[t] = "idle" /\ calls[t] < MaxCalls
      /\ pipeOwner = t => pollAt = "method" /\ o \in CallbackOps
  BY Typed DEF Call, LatchInv
<1>b. /\ \A u \in Threads : pc'[u] = IF u = t THEN "enter" ELSE pc[u]
      /\ \A u \in Threads : op'[u] = IF u = t THEN o ELSE op[u]
      /\ \A u \in Threads : on'[u] = IF u = t THEN l ELSE on[u]
  BY Typed, <1>a DEF Call, TypeOK
<1>c. UNCHANGED <<event, bound, live, latchOwner, refused, list, mSignalled,
        pipeOwner, pollAt, iter, pollCount, errors>>
  BY DEF Call, latchVars, pipeVars, pollVars, callVars
<1>1. TypeOK'
  BY Typed, <1>a, <1>b, <1>c, BoundsAssumption DEF Call, TypeOK
<1>2. LatchInv'
  BY Typed, <1>a, <1>b, <1>c DEF LatchInv
<1>3. CallInv'
  BY Typed, <1>a, <1>b, <1>c DEF CallInv, LatchInv
<1>4. PollInv'
  BY Typed, <1>a, <1>b, <1>c, CallbackAssumption DEF PollInv,
     MarkedWhilePolled
<1>5. ListedOnce'
  BY Typed, <1>a, <1>b, <1>c DEF ListedOnce
<1>6. ASSUME Quiet PROVE PassedOff'
  BY Typed, <1>a, <1>b, <1>c, <1>6 DEF PassedOff, Polled, Setting, LatchInv,
     CallInv, PollInv, Quiet
<1>7. ASSUME Quiet PROVE RaisedMarked'
  BY Typed, <1>a, <1>b, <1>c, <1>7 DEF RaisedMarked, BindPending, Setting,
     LatchInv, CallInv
<1>8. ASSUME Quiet PROVE UpdatingMarked'
  BY Typed, <1>a, <1>b, <1>c, <1>8 DEF UpdatingMarked, LatchInv, CallInv
<1> QED  BY <1>1, <1>2, <1>3, <1>4, <1>5, <1>6, <1>7, <1>8

\* A set or disable records the event of a latch that is not bound, and keeps
\* the lock of one that is, to mark the pipe first.
LEMMA RaiseInv ==
    ASSUME Inv, NEW t \in Threads, NEW o \in {"set", "disable"}, Raise(t, o)
    PROVE  Inv'
<1> USE DEF Inv
<1>a. /\ pc[t] = "enter" /\ on[t] \in Latches /\ latchOwner[on[t]] = NoThread
      /\ op[t] = o /\ o \notin {"bind", "unbind", "reset"}
  BY Typed DEF Raise, Entering, HoldLatch, ReturnCall, GoTo, Bits, LatchInv
<1>b. /\ \A m \in Latches : event'[m] # event[m] => m = on[t] /\ ~ bound[m]
      /\ \E held \in BOOLEAN :
            /\ held => bound[on[t]]
            /\ \A u \in Threads : pc'[u] =
                  IF u = t THEN (IF held THEN "signal" ELSE "idle") ELSE pc[u]
            /\ \A m \in Latches : latchOwner'[m] =
                  IF m = on[t] /\ held THEN t ELSE latchOwner[m]
  BY ZenonT(40), Typed, <1>a DEF Raise, Entering, HoldLatch, ReturnCall, GoTo, Bits,
     TypeOK
<1>c. UNCHANGED <<bound, live, refused, list, mSignalled, pipeOwner, pollAt,
        iter, pollCount, op, on, calls, errors>>
  BY DEF Raise, Entering, HoldLatch, ReturnCall, GoTo, Bits, latchVars,
     pipeVars, pollVars, callVars
<1>1. TypeOK'
  <2>1. Bits(o) \in SUBSET {"data", "disable"}
    BY DEF Bits
  <2>2. event' \in [Latches -> SUBSET {"data", "disable"}]
    <3>1. event' = event \/ event' = [event EXCEPT ![on[t]] = @ \cup Bits(o)]
      BY DEF Raise
    <3>2. event[on[t]] \cup Bits(o) \in SUBSET {"data", "disable"}
      BY <1>a, <2>1 DEF TypeOK
    <3> QED  BY ZenonT(40), <3>1, <3>2 DEF TypeOK
  <2>3. /\ pc' \in [Threads -> {"idle", "enter", "signal", "update", "list"}]
        /\ latchOwner' \in [Latches -> Threads \cup {NoThread}]
    BY ZenonT(40) DEF Raise, HoldLatch, ReturnCall, GoTo, TypeOK
  <2> QED  BY <1>c, <2>2, <2>3 DEF TypeOK
<1>2. LatchInv'
  BY Typed, <1>a, <1>b, <1>c DEF LatchInv
<1>3. CallInv'
  BY Typed, <1>a, <1>b, <1>c DEF CallInv, LatchInv
<1>4. PollInv'
  BY Typed, <1>a, <1>b, <1>c, CallbackAssumption DEF PollInv,
     MarkedWhilePolled
<1>5. ListedOnce'
  BY Typed, <1>a, <1>b, <1>c DEF ListedOnce
<1>6. ASSUME Quiet PROVE PassedOff'
  BY Typed, Listed, <1>a, <1>b, <1>c, <1>6 DEF PassedOff, Polled, Setting,
     LatchInv
<1>7. ASSUME Quiet PROVE RaisedMarked'
  BY Typed, <1>a, <1>b, <1>c, <1>7 DEF RaisedMarked, BindPending, Setting,
     LatchInv, CallInv
<1>8. ASSUME Quiet PROVE UpdatingMarked'
  BY Typed, <1>a, <1>b, <1>c, <1>8 DEF UpdatingMarked, LatchInv, CallInv
<1> QED  BY <1>1, <1>2, <1>3, <1>4, <1>5, <1>6, <1>7, <1>8

\* The pipe is marked, by a thread that is in no poll but its own.
LEMMA SignalInv ==
    ASSUME Inv, NEW t \in Threads, SignalEventLatch(t)
    PROVE  Inv'
<1> USE DEF Inv
<1>a. /\ pc[t] = "signal" /\ pipeOwner \in {NoThread, t}
      /\ on[t] \in Latches /\ latchOwner[on[t]] = t
  BY Typed DEF SignalEventLatch, PipeFree, GoTo, LatchInv
<1>b. /\ \A u \in Threads : pc'[u] = IF u = t THEN "update" ELSE pc[u]
      /\ mSignalled' = TRUE
  BY Typed, <1>a DEF SignalEventLatch, PipeFree, GoTo, TypeOK
<1>c. UNCHANGED <<event, bound, live, latchOwner, refused, list, pipeOwner,
        pollAt, iter, pollCount, op, on, calls, errors>>
  BY DEF SignalEventLatch, PipeFree, GoTo, latchVars, pipeVars, pollVars,
     callVars
<1>1. TypeOK'
  BY Typed, <1>a, <1>b, <1>c, BoundsAssumption DEF SignalEventLatch, PipeFree,
     GoTo, TypeOK
<1>2. LatchInv'
  BY Typed, <1>a, <1>b, <1>c DEF LatchInv
<1>3. CallInv'
  BY Typed, <1>a, <1>b, <1>c DEF CallInv, LatchInv
<1>4. PollInv'
  BY Typed, <1>a, <1>b, <1>c, CallbackAssumption DEF PollInv,
     MarkedWhilePolled
<1>5. ListedOnce'
  BY Typed, <1>a, <1>b, <1>c DEF ListedOnce
<1>6. ASSUME Quiet PROVE PassedOff'
  BY Typed, <1>a, <1>b, <1>c, <1>6 DEF PassedOff, Polled, Setting, LatchInv,
     CallInv, PollInv, Quiet
<1>7. ASSUME Quiet PROVE RaisedMarked'
  BY Typed, <1>a, <1>b, <1>c, <1>7 DEF RaisedMarked, BindPending, Setting,
     LatchInv, CallInv
<1>8. ASSUME Quiet PROVE UpdatingMarked'
  BY Typed, <1>a, <1>b, <1>c, <1>8 DEF UpdatingMarked, LatchInv, CallInv
<1> QED  BY <1>1, <1>2, <1>3, <1>4, <1>5, <1>6, <1>7, <1>8

\* The write fails and is tried again, or the call returns its error.
LEMMA SignalFailsInv ==
    ASSUME Inv, NEW t \in Threads, SignalFails(t)
    PROVE  Inv'
<1> USE DEF Inv
<1>a. /\ pc[t] = "signal" /\ ~ mSignalled
      /\ on[t] \in Latches /\ latchOwner[on[t]] = t
  BY Typed DEF SignalFails, ReturnCall, GoTo, LatchInv
<1>b. \/ UNCHANGED <<latchOwner, pc, refused>>
      \/ /\ \A u \in Threads : pc'[u] = IF u = t THEN "idle" ELSE pc[u]
         /\ \A m \in Latches :
               latchOwner'[m] = IF m = on[t] THEN NoThread ELSE latchOwner[m]
         /\ refused' = IF op[t] = "bind" THEN refused \cup {on[t]} ELSE refused
  BY Typed, <1>a DEF SignalFails, ReturnCall, GoTo, TypeOK
<1>c. UNCHANGED <<event, bound, live, list, mSignalled, pipeOwner, pollAt,
        iter, pollCount, op, on, calls>>
  BY DEF SignalFails, ReturnCall, GoTo, latchVars, pipeVars, pollVars,
     callVars
<1>1. TypeOK'
  BY Typed, <1>a, <1>b, <1>c, BoundsAssumption DEF SignalFails, ReturnCall,
     GoTo, TypeOK
<1>2. LatchInv'
  BY Typed, <1>a, <1>b, <1>c DEF LatchInv
<1>3. CallInv'
  BY Typed, <1>a, <1>b, <1>c DEF CallInv, LatchInv
<1>4. PollInv'
  BY Typed, <1>a, <1>b, <1>c, CallbackAssumption DEF PollInv,
     MarkedWhilePolled
<1>5. ListedOnce'
  BY Typed, <1>a, <1>b, <1>c DEF ListedOnce
<1>6. ASSUME Quiet PROVE PassedOff'
  BY Typed, <1>a, <1>b, <1>c, <1>6 DEF PassedOff, Polled, Setting, LatchInv,
     CallInv, PollInv, Quiet
<1>7. ASSUME Quiet PROVE RaisedMarked'
  BY Typed, <1>a, <1>b, <1>c, <1>7 DEF RaisedMarked, BindPending, Setting,
     LatchInv, CallInv
<1>8. ASSUME Quiet PROVE UpdatingMarked'
  BY Typed, <1>a, <1>b, <1>c, <1>8 DEF UpdatingMarked, LatchInv, CallInv
<1> QED  BY <1>1, <1>2, <1>3, <1>4, <1>5, <1>6, <1>7, <1>8

\* The event is recorded in a latch whose pipe is marked.
LEMMA UpdateInv ==
    ASSUME Inv, NEW t \in Threads, Update(t)
    PROVE  Inv'
<1> USE DEF Inv
<1>a. /\ pc[t] = "update"
      /\ on[t] \in Latches /\ latchOwner[on[t]] = t
  BY Typed DEF Update, ReturnCall, GoTo, Bits, LatchInv
<1>b. /\ \A u \in Threads : pc'[u] = IF u = t THEN "idle" ELSE pc[u]
      /\ \A m \in Latches : latchOwner'[m] = IF m = on[t] THEN NoThread ELSE latchOwner[m]
      /\ \A m \in Latches : m # on[t] => event'[m] = event[m]
  BY Typed, <1>a DEF Update, ReturnCall, GoTo, Bits, TypeOK
<1>c. UNCHANGED <<bound, live, refused, list, mSignalled, pipeOwner, pollAt,
        iter, pollCount, op, on, calls, errors>>
  BY DEF Update, ReturnCall, GoTo, Bits, latchVars, pipeVars, pollVars,
     callVars
<1>1. TypeOK'
  BY Typed, <1>a, <1>b, <1>c, BoundsAssumption DEF Update, ReturnCall, GoTo,
     Bits, TypeOK
<1>2. LatchInv'
  BY Typed, <1>a, <1>b, <1>c DEF LatchInv
<1>3. CallInv'
  BY Typed, <1>a, <1>b, <1>c DEF CallInv, LatchInv
<1>4. PollInv'
  BY Typed, <1>a, <1>b, <1>c, CallbackAssumption DEF PollInv,
     MarkedWhilePolled
<1>5. ListedOnce'
  BY Typed, <1>a, <1>b, <1>c DEF ListedOnce
<1>6. ASSUME Quiet PROVE PassedOff'
  BY Typed, <1>a, <1>b, <1>c, <1>6 DEF PassedOff, Polled, Setting, LatchInv,
     CallInv, PollInv, Quiet
<1>7. ASSUME Quiet PROVE RaisedMarked'
  BY Typed, <1>a, <1>b, <1>c, <1>7 DEF RaisedMarked, BindPending, Setting,
     LatchInv, UpdatingMarked
<1>8. ASSUME Quiet PROVE UpdatingMarked'
  BY Typed, <1>a, <1>b, <1>c, <1>8 DEF UpdatingMarked, LatchInv, CallInv
<1> QED  BY <1>1, <1>2, <1>3, <1>4, <1>5, <1>6, <1>7, <1>8

\* An enabled latch loses its data.
LEMMA ResetInv ==
    ASSUME Inv, NEW t \in Threads, ResetEventLatch(t)
    PROVE  Inv'
<1> USE DEF Inv
<1>a. /\ pc[t] = "enter" /\ on[t] \in Latches /\ latchOwner[on[t]] = NoThread
      /\ op[t] = "reset"
  BY Typed DEF ResetEventLatch, Entering, ReturnCall, GoTo, LatchInv
<1>b. /\ \A u \in Threads : pc'[u] = IF u = t THEN "idle" ELSE pc[u]
      /\ latchOwner' = latchOwner
      /\ \A m \in Latches : event'[m] = IF m = on[t] THEN Reset(m) ELSE event[m]
  BY Typed, <1>a DEF ResetEventLatch, Entering, ReturnCall, GoTo, TypeOK
<1>c. UNCHANGED <<bound, live, refused, list, mSignalled, pipeOwner, pollAt,
        iter, pollCount, op, on, calls, errors>>
  BY DEF ResetEventLatch, Entering, ReturnCall, GoTo, latchVars, pipeVars,
     pollVars, callVars
<1>1. TypeOK'
  BY Typed, <1>a, <1>b, <1>c, Resets DEF ResetEventLatch, ReturnCall, GoTo,
     TypeOK
<1>2. LatchInv'
  BY Typed, <1>a, <1>b, <1>c DEF LatchInv
<1>3. CallInv'
  BY Typed, <1>a, <1>b, <1>c DEF CallInv, LatchInv
<1>4. PollInv'
  BY Typed, <1>a, <1>b, <1>c, CallbackAssumption DEF PollInv,
     MarkedWhilePolled
<1>5. ListedOnce'
  BY Typed, <1>a, <1>b, <1>c DEF ListedOnce
<1>6. ASSUME Quiet PROVE PassedOff'
  <2>1. \A m \in Latches : Setting(m)' = Setting(m) \/ Setting(m)' = "Off"
    BY <1>b, Resets DEF Setting
  <2> QED  BY Typed, <1>a, <1>b, <1>c, <1>6, <2>1 DEF PassedOff, Polled
<1>7. ASSUME Quiet PROVE RaisedMarked'
  <2>1. \A m \in Latches : Setting(m)' = Setting(m) \/ Setting(m)' = "Off"
    BY <1>b, Resets DEF Setting
  <2> QED  BY Typed, <1>a, <1>b, <1>c, <1>7, <2>1 DEF RaisedMarked, BindPending,
     LatchInv
<1>8. ASSUME Quiet PROVE UpdatingMarked'
  BY Typed, <1>a, <1>b, <1>c, <1>8 DEF UpdatingMarked, LatchInv, CallInv
<1> QED  BY <1>1, <1>2, <1>3, <1>4, <1>5, <1>6, <1>7, <1>8

\* A latch is bound if it is not, and unbound if it is.
LEMMA BeginBindInv ==
    ASSUME Inv, NEW t \in Threads, BeginBind(t)
    PROVE  Inv'
<1> USE DEF Inv
<1>a. /\ pc[t] = "enter" /\ on[t] \in Latches /\ latchOwner[on[t]] = NoThread
      /\ op[t] \in {"bind", "unbind"} /\ (bound[on[t]] <=> op[t] = "unbind")
  BY Typed DEF BeginBind, Entering, HoldLatch, GoTo, LatchInv
<1>b. /\ \A u \in Threads : pc'[u] = IF u = t THEN "list" ELSE pc[u]
      /\ \A m \in Latches : latchOwner'[m] = IF m = on[t] THEN t ELSE latchOwner[m]
  BY Typed, <1>a DEF BeginBind, Entering, HoldLatch, GoTo, TypeOK
<1>c. UNCHANGED <<event, bound, live, refused, list, mSignalled, pipeOwner,
        pollAt, iter, pollCount, op, on, calls, errors>>
  BY DEF BeginBind, Entering, HoldLatch, GoTo, latchVars, pipeVars, pollVars,
     callVars
<1>1. TypeOK'
  BY Typed, <1>a, <1>b, <1>c, BoundsAssumption DEF BeginBind, Entering,
     HoldLatch, GoTo, TypeOK
<1>2. LatchInv'
  BY Typed, <1>a, <1>b, <1>c DEF LatchInv
<1>3. CallInv'
  BY Typed, <1>a, <1>b, <1>c DEF CallInv, LatchInv
<1>4. PollInv'
  BY Typed, <1>a, <1>b, <1>c, CallbackAssumption DEF PollInv,
     MarkedWhilePolled
<1>5. ListedOnce'
  BY Typed, <1>a, <1>b, <1>c DEF ListedOnce
<1>6. ASSUME Quiet PROVE PassedOff'
  BY Typed, <1>a, <1>b, <1>c, <1>6 DEF PassedOff, Polled, Setting, LatchInv,
     CallInv, PollInv, Quiet
<1>7. ASSUME Quiet PROVE RaisedMarked'
  BY Typed, <1>a, <1>b, <1>c, <1>7 DEF RaisedMarked, BindPending, Setting,
     LatchInv, CallInv
<1>8. ASSUME Quiet PROVE UpdatingMarked'
  BY Typed, <1>a, <1>b, <1>c, <1>8 DEF UpdatingMarked, LatchInv, CallInv
<1> QED  BY <1>1, <1>2, <1>3, <1>4, <1>5, <1>6, <1>7, <1>8

\* There is nothing to bind or unbind.
LEMMA NothingToBindInv ==
    ASSUME Inv, NEW t \in Threads, NothingToBind(t)
    PROVE  Inv'
<1> USE DEF Inv
<1>a. /\ pc[t] = "enter" /\ on[t] \in Latches /\ latchOwner[on[t]] = NoThread
  BY Typed DEF NothingToBind, Entering, ReturnCall, GoTo, LatchInv
<1>b. /\ \A u \in Threads : pc'[u] = IF u = t THEN "idle" ELSE pc[u]
      /\ latchOwner' = latchOwner
  BY Typed, <1>a DEF NothingToBind, Entering, ReturnCall, GoTo, TypeOK
<1>c. UNCHANGED <<event, bound, live, refused, list, mSignalled, pipeOwner,
        pollAt, iter, pollCount, op, on, calls, errors>>
  BY DEF NothingToBind, Entering, ReturnCall, GoTo, latchVars, pipeVars,
     pollVars, callVars
<1>1. TypeOK'
  BY Typed, <1>a, <1>b, <1>c, BoundsAssumption DEF NothingToBind, Entering,
     ReturnCall, GoTo, TypeOK
<1>2. LatchInv'
  BY Typed, <1>a, <1>b, <1>c DEF LatchInv
<1>3. CallInv'
  BY Typed, <1>a, <1>b, <1>c DEF CallInv, LatchInv
<1>4. PollInv'
  BY Typed, <1>a, <1>b, <1>c, CallbackAssumption DEF PollInv,
     MarkedWhilePolled
<1>5. ListedOnce'
  BY Typed, <1>a, <1>b, <1>c DEF ListedOnce
<1>6. ASSUME Quiet PROVE PassedOff'
  BY Typed, <1>a, <1>b, <1>c, <1>6 DEF PassedOff, Polled, Setting, LatchInv,
     CallInv, PollInv, Quiet
<1>7. ASSUME Quiet PROVE RaisedMarked'
  BY Typed, <1>a, <1>b, <1>c, <1>7 DEF RaisedMarked, BindPending, Setting,
     LatchInv, CallInv
<1>8. ASSUME Quiet PROVE UpdatingMarked'
  BY Typed, <1>a, <1>b, <1>c, <1>8 DEF UpdatingMarked, LatchInv, CallInv
<1> QED  BY <1>1, <1>2, <1>3, <1>4, <1>5, <1>6, <1>7, <1>8

\* The latch is put at the head of the list.
LEMMA AttachInv ==
    ASSUME Inv, NEW t \in Threads, Attach(t)
    PROVE  Inv'
<1> USE DEF Inv
<1>a. /\ pc[t] = "list" /\ op[t] = "bind" /\ ~ bound[on[t]]
      /\ on[t] \in Latches /\ latchOwner[on[t]] = t
      /\ pipeOwner = NoThread
  BY Typed, CallbackAssumption DEF Attach, PipeFree, ReturnCall, GoTo,
     CallInv, PollInv, LatchInv
<1>b. /\ \A m \in Latches : bound'[m] <=> m = on[t] \/ bound[m]
      /\ \E pending \in BOOLEAN :
            /\ ~ pending => Setting(on[t]) = "Off"
            /\ \A u \in Threads : pc'[u] =
                  IF u = t THEN (IF pending THEN "signal" ELSE "idle") ELSE pc[u]
            /\ \A m \in Latches : latchOwner'[m] =
                  IF m = on[t] /\ ~ pending THEN NoThread ELSE latchOwner[m]
  BY Typed, <1>a DEF Attach, PipeFree, ReturnCall, GoTo, TypeOK
<1>c. UNCHANGED <<event, live, refused, mSignalled, pipeOwner, pollAt, iter,
        pollCount, op, on, calls, errors>>
  BY DEF Attach, PipeFree, ReturnCall, GoTo, latchVars, pipeVars, pollVars,
     callVars
<1>d. /\ list' \in Seq(Latches) /\ Len(list') = Len(list) + 1 /\ list'[1] = on[t]
      /\ \A i \in 1 .. Len(list) : list'[i + 1] = list[i]
      /\ \A i \in 2 .. Len(list) + 1 : list'[i] = list[i - 1]
      /\ DOMAIN list' = 1 .. Len(list')
  BY <1>a, Prepended, LenProperties DEF Attach, TypeOK
<1>1. TypeOK'
  <2>1. iter \in 1 .. Len(list') + 1
    BY Typed, <1>a, <1>d DEF PollInv
  <2> QED  BY <1>a, <1>c, <1>d, <2>1 DEF Attach, ReturnCall, GoTo, TypeOK
<1>2. LatchInv'
  BY Typed, <1>a, <1>b, <1>c DEF LatchInv
<1>3. CallInv'
  BY Typed, <1>a, <1>b, <1>c DEF CallInv, LatchInv
<1>4. PollInv'
  BY Typed, <1>a, <1>b, <1>c, CallbackAssumption DEF PollInv, MarkedWhilePolled
<1>5. ListedOnce'
  <2>1. \A i, j \in DOMAIN list' : list'[i] = list'[j] => i = j
    <3>1. \A i \in DOMAIN list' :
              i = 1 \/ (i - 1 \in DOMAIN list /\ list'[i] = list[i - 1])
      BY Typed, <1>d
    <3>2. \A i \in DOMAIN list : list[i] # on[t]
      BY Typed, Listed, <1>a
    <3>3. DOMAIN list' \subseteq Nat
      BY <1>d
    <3> QED  BY Listed, <1>d, <3>1, <3>2, <3>3
  <2>2. ASSUME NEW l \in Latches
        PROVE  bound'[l] <=> \E i \in DOMAIN list' : list'[i] = l
    <3>1. CASE l = on[t]
      <4>1. 1 \in DOMAIN list' /\ list'[1] = l
        BY Typed, <1>d, <3>1
      <4> QED  BY <1>b, <3>1, <4>1
    <3>2. CASE l # on[t]
      <4>1. ASSUME NEW i \in DOMAIN list, list[i] = l
            PROVE  i + 1 \in DOMAIN list' /\ list'[i + 1] = l
        BY Typed, <1>d, <4>1
      <4>2. ASSUME NEW i \in DOMAIN list', list'[i] = l
            PROVE  i - 1 \in DOMAIN list /\ list[i - 1] = l
        BY Typed, <1>d, <3>2, <4>2
      <4> QED  BY Listed, <1>b, <3>2, <4>1, <4>2
    <3> QED  BY <3>1, <3>2
  <2> QED  BY <2>1, <2>2 DEF ListedOnce, IsInjective, ToSet
<1>6. ASSUME Quiet PROVE PassedOff'
  BY Typed, <1>a, <1>c, <1>d DEF PassedOff, Polled, PollInv
<1>7. ASSUME Quiet PROVE RaisedMarked'
  BY Typed, <1>a, <1>b, <1>c, <1>7 DEF RaisedMarked, BindPending, Setting,
     LatchInv, CallInv
<1>8. ASSUME Quiet PROVE UpdatingMarked'
  BY Typed, <1>a, <1>b, <1>c, <1>8 DEF UpdatingMarked, LatchInv, CallInv
<1> QED  BY <1>1, <1>2, <1>3, <1>4, <1>5, <1>6, <1>7, <1>8

\* The entry of the latch is taken off the list.
LEMMA DetachInv ==
    ASSUME Inv, NEW t \in Threads, Detach(t)
    PROVE  Inv'
<1> USE DEF Inv
<1>a. /\ pc[t] = "list" /\ op[t] = "unbind" /\ bound[on[t]]
      /\ on[t] \in Latches /\ latchOwner[on[t]] = t
      /\ pipeOwner = NoThread
  BY Typed, CallbackAssumption DEF Detach, PipeFree, ReturnCall, GoTo,
     CallInv, PollInv, LatchInv
<1>b. /\ \A m \in Latches : bound'[m] <=> m # on[t] /\ bound[m]
      /\ \A u \in Threads : pc'[u] = IF u = t THEN "idle" ELSE pc[u]
      /\ \A m \in Latches :
            latchOwner'[m] = IF m = on[t] THEN NoThread ELSE latchOwner[m]
      /\ refused' = refused \ {on[t]}
  BY Typed, <1>a DEF Detach, PipeFree, ReturnCall, GoTo, TypeOK
<1>c. UNCHANGED <<event, live, mSignalled, pipeOwner, pollAt, iter, pollCount,
        op, on, calls, errors>>
  BY DEF Detach, PipeFree, ReturnCall, GoTo, latchVars, pipeVars, pollVars,
     callVars
<1>d. PICK k \in DOMAIN list : list[k] = on[t] /\ list' = RemoveAt(list, k)
  BY Listed, <1>a DEF Detach, Unlinked
<1>e. /\ list' \in Seq(Latches) /\ Len(list') = Len(list) - 1
      /\ \A i \in 1 .. Len(list) - 1 :
            list'[i] = IF i < k THEN list[i] ELSE list[i + 1]
      /\ DOMAIN list' = 1 .. Len(list')
  <2>1. k \in 1 .. Len(list) /\ list \in Seq(Latches)
    BY Typed, <1>d DEF TypeOK
  <2>2. RemoveAt(list, k) \in Seq(Latches)
    BY <2>1, Removed
  <2> QED  BY <1>d, <2>1, <2>2, Removed, LenProperties
<1>1. TypeOK'
  BY Typed, <1>a, <1>c, <1>e DEF Detach, ReturnCall, GoTo, TypeOK, PollInv
<1>2. LatchInv'
  BY Typed, <1>a, <1>b, <1>c DEF LatchInv
<1>3. CallInv'
  BY Typed, <1>a, <1>b, <1>c DEF CallInv, LatchInv
<1>4. PollInv'
  BY Typed, <1>a, <1>b, <1>c, CallbackAssumption DEF PollInv, MarkedWhilePolled
<1>5. ListedOnce'
  <2>1. \A i, j \in DOMAIN list' : list'[i] = list'[j] => i = j
    <3> DEFINE From(i) == IF i < k THEN i ELSE i + 1
    <3>1. \A i \in DOMAIN list' : From(i) \in DOMAIN list /\ list'[i] = list[From(i)]
      BY Typed, <1>d, <1>e
    <3>2. \A i, j \in DOMAIN list' : From(i) = From(j) => i = j
      BY Typed, <1>d, <1>e
    <3> HIDE DEF From
    <3> QED  BY Listed, <3>1, <3>2
  <2>2. ASSUME NEW l \in Latches
        PROVE  bound'[l] <=> \E i \in DOMAIN list' : list'[i] = l
    <3>1. CASE l = on[t]
      <4>1. ASSUME NEW i \in DOMAIN list', list'[i] = l
            PROVE  FALSE
        <5> DEFINE j == IF i < k THEN i ELSE i + 1
        <5>1. j \in DOMAIN list /\ j # k /\ list'[i] = list[j]
          BY Typed, <1>d, <1>e
        <5> HIDE DEF j
        <5> QED  BY Listed, <1>d, <3>1, <4>1, <5>1
      <4> QED  BY <1>b, <3>1, <4>1
    <3>2. CASE l # on[t]
      <4>1. ASSUME NEW i \in DOMAIN list, list[i] = l
            PROVE  \E j \in DOMAIN list' : list'[j] = l
        <5>1. i < k \/ i > k
          BY Typed, <1>d, <3>2, <4>1
        <5>2. CASE i < k
          BY Typed, <1>d, <1>e, <4>1, <5>2
        <5>3. CASE i > k
          <6>1. i - 1 \in DOMAIN list' /\ list'[i - 1] = list[i - 1 + 1]
            BY Typed, <1>d, <1>e, <5>3
          <6> QED  BY Typed, <4>1, <6>1
        <5> QED  BY <5>1, <5>2, <5>3
      <4>2. ASSUME NEW i \in DOMAIN list', list'[i] = l
            PROVE  \E j \in DOMAIN list : list[j] = l
        BY Typed, <1>d, <1>e, <4>2
      <4> QED  BY Listed, <1>b, <3>2, <4>1, <4>2
    <3> QED  BY <3>1, <3>2
  <2> QED  BY <2>1, <2>2 DEF ListedOnce, IsInjective, ToSet
<1>6. ASSUME Quiet PROVE PassedOff'
  BY Typed, <1>a, <1>c, <1>e DEF PassedOff, Polled, PollInv
<1>7. ASSUME Quiet PROVE RaisedMarked'
  BY Typed, <1>a, <1>b, <1>c, <1>7 DEF RaisedMarked, BindPending, Setting,
     LatchInv, CallInv
<1>8. ASSUME Quiet PROVE UpdatingMarked'
  BY Typed, <1>a, <1>b, <1>c, <1>8 DEF UpdatingMarked, LatchInv, CallInv
<1> QED  BY <1>1, <1>2, <1>3, <1>4, <1>5, <1>6, <1>7, <1>8

\* A poll of a marked pipe starts at the first entry.
LEMMA BeginPollInv ==
    ASSUME Inv, NEW t \in Threads, BeginPoll(t)
    PROVE  Inv'
<1> USE DEF Inv
<1>a. /\ pc[t] = "idle" /\ pipeOwner = NoThread /\ mSignalled /\ calls[t] < MaxCalls
  BY Typed DEF BeginPoll, LatchInv
<1>b. /\ pipeOwner' = t /\ pollAt' = "entry" /\ iter' = 1 /\ pollCount' = 0
  BY Typed, <1>a DEF BeginPoll, TypeOK
<1>c. UNCHANGED <<event, bound, live, latchOwner, refused, list, mSignalled,
        pc, op, on, errors>>
  BY DEF BeginPoll, latchVars, pipeVars, callVars
<1>1. TypeOK'
  BY Typed, <1>a, <1>b, <1>c, BoundsAssumption DEF BeginPoll, TypeOK
<1>2. LatchInv'
  BY Typed, <1>a, <1>b, <1>c DEF LatchInv
<1>3. CallInv'
  BY Typed, <1>a, <1>b, <1>c DEF CallInv, LatchInv
<1>4. PollInv'
  BY Typed, <1>a, <1>b, <1>c, CallbackAssumption DEF PollInv,
     MarkedWhilePolled
<1>5. ListedOnce'
  BY Typed, <1>a, <1>b, <1>c DEF ListedOnce
<1>6. ASSUME Quiet PROVE PassedOff'
  BY Typed, <1>a, <1>b, <1>c, <1>6 DEF PassedOff, Polled, Setting, LatchInv,
     CallInv, PollInv, Quiet
<1>7. ASSUME Quiet PROVE RaisedMarked'
  BY Typed, <1>a, <1>b, <1>c, <1>7 DEF RaisedMarked, BindPending, Setting,
     LatchInv, CallInv
<1>8. ASSUME Quiet PROVE UpdatingMarked'
  BY Typed, <1>a, <1>b, <1>c, <1>8 DEF UpdatingMarked, LatchInv, CallInv
<1> QED  BY <1>1, <1>2, <1>3, <1>4, <1>5, <1>6, <1>7, <1>8

\* The poll is at an entry: the latch is off, or is reset and its method called.
LEMMA PollEntryInv ==
    ASSUME Inv, NEW t \in Threads, PollEntry(t)
    PROVE  Inv'
<1> USE DEF Inv
<1>a. /\ pipeOwner = t /\ pollAt = "entry" /\ pc[t] = "idle"
      /\ iter \in DOMAIN list /\ list[iter] \in Latches
      /\ live[list[iter]] => latchOwner[list[iter]] = NoThread
  BY Typed DEF PollEntry, Polling, Current, LatchInv
<1>b. \/ /\ live[list[iter]] /\ pollAt' = "method" /\ iter' = iter
         /\ \A m \in Latches :
               event'[m] = IF m = list[iter] THEN Reset(m) ELSE event[m]
         /\ \A m \in Latches : live'[m] => live[m]
         /\ live'[list[iter]] => Setting(list[iter]) # "Disabled"
      \/ /\ live[list[iter]] => Setting(list[iter]) = "Off"
         /\ iter' = iter + 1 /\ UNCHANGED <<event, live, pollAt>>
  <2>1. CASE live[list[iter]] /\ Setting(list[iter]) # "Off"
    <3>1. /\ event' = [event EXCEPT ![list[iter]] = Reset(list[iter])]
          /\ live' = [live EXCEPT ![list[iter]] = Setting(list[iter]) # "Disabled"]
          /\ pollAt' = "method" /\ iter' = iter
      BY <2>1 DEF PollEntry, Current
    <3>2. \A m \in Latches : live'[m] => live[m]
      BY <1>a, <2>1, <3>1 DEF TypeOK
    <3>3. live'[list[iter]] => Setting(list[iter]) # "Disabled"
      BY <1>a, <3>1 DEF TypeOK
    <3>4. \A m \in Latches :
              event'[m] = IF m = list[iter] THEN Reset(m) ELSE event[m]
      BY <1>a, <3>1 DEF TypeOK
    <3> QED  BY <2>1, <3>1, <3>2, <3>3, <3>4
  <2>2. CASE ~ (live[list[iter]] /\ Setting(list[iter]) # "Off")
    BY <2>2 DEF PollEntry, Current
  <2> QED  BY <2>1, <2>2
<1>c. UNCHANGED <<bound, latchOwner, refused, list, mSignalled, pipeOwner,
        pollCount, pc, op, on, calls, errors>>
  BY DEF PollEntry, Polling, Current, latchVars, pipeVars, callVars
<1>d. PICK c \in Latches : c = list[iter]
  BY <1>a
<1>1. TypeOK'
  <2>1. Reset(list[iter]) \in SUBSET {"data", "disable"}
    BY <1>a, Resets
  <2>2. event' \in [Latches -> SUBSET {"data", "disable"}]
    BY <1>a, <2>1 DEF PollEntry, Current, TypeOK
  <2>3. live' \in [Latches -> BOOLEAN]
    BY <1>a DEF PollEntry, Current, TypeOK
  <2>4. iter' \in 1 .. Len(list) + 1 /\ pollAt' \in {"none", "entry", "method"}
    BY Typed, <1>a, <1>b DEF TypeOK
  <2> QED  BY <1>c, <2>2, <2>3, <2>4 DEF TypeOK
<1>2. LatchInv'
  BY Typed, <1>a, <1>b, <1>c DEF LatchInv
<1>3. CallInv'
  BY Typed, <1>a, <1>b, <1>c DEF CallInv, LatchInv
<1>4. PollInv'
  BY Typed, <1>a, <1>b, <1>c, CallbackAssumption DEF PollInv,
     MarkedWhilePolled
<1>5. ListedOnce'
  BY Typed, <1>a, <1>b, <1>c DEF ListedOnce
<1>6. ASSUME Quiet PROVE PassedOff'
  <2>1. \A m \in Latches : Setting(m)' = Setting(m) \/ Setting(m)' = "Off"
    BY <1>b, Resets DEF Setting
  <2>2. live'[c] => Setting(c)' = "Off"
    <3>1. CASE live[c] /\ pollAt' = "method"
      <4>1. event'[c] = Reset(c) /\ (live'[c] => Setting(c) # "Disabled")
        BY <1>a, <1>b, <1>d, <3>1
      <4> QED  BY <4>1, Resets
    <3>2. CASE pollAt' = pollAt
      BY <1>a, <1>b, <1>d, <3>2 DEF Setting
    <3> QED  BY <1>b, <1>d, <3>1, <3>2
  <2>3. \A m \in Latches : live'[m] => live[m]
    BY <1>b
  <2>4. \A i \in DOMAIN list : Polled(i)' => Polled(i) \/ i = iter
    BY Typed, <1>a, <1>b DEF Polled
  <2> QED  BY Typed, <1>a, <1>c, <1>d, <1>6, <2>1, <2>2, <2>3, <2>4 DEF PassedOff,
     Setting
<1>7. ASSUME Quiet PROVE RaisedMarked'
  BY <1>a, <1>c DEF RaisedMarked, PollInv, MarkedWhilePolled
<1>8. ASSUME Quiet PROVE UpdatingMarked'
  BY Typed, <1>a, <1>b, <1>c, <1>8 DEF UpdatingMarked, LatchInv, CallInv
<1> QED  BY <1>1, <1>2, <1>3, <1>4, <1>5, <1>6, <1>7, <1>8

\* The poll goes on to the next entry.
LEMMA MethodReturnsInv ==
    ASSUME Inv, NEW t \in Threads, MethodReturns(t)
    PROVE  Inv'
<1> USE DEF Inv
<1>a. /\ pipeOwner = t /\ pollAt = "method" /\ pc[t] = "idle"
  BY Typed DEF MethodReturns, Polling, LatchInv
<1>b. /\ pollAt' = "entry" /\ iter' = iter + 1 /\ pollCount' = pollCount + 1
  BY Typed, <1>a DEF MethodReturns, Polling, TypeOK
<1>c. UNCHANGED <<event, bound, live, latchOwner, refused, list, mSignalled,
        pipeOwner, pc, op, on, calls, errors>>
  BY DEF MethodReturns, Polling, latchVars, pipeVars, callVars
<1>1. TypeOK'
  BY Typed, <1>a, <1>b, <1>c, BoundsAssumption DEF MethodReturns, Polling,
     TypeOK, PollInv
<1>2. LatchInv'
  BY Typed, <1>a, <1>b, <1>c DEF LatchInv
<1>3. CallInv'
  BY Typed, <1>a, <1>b, <1>c DEF CallInv, LatchInv
<1>4. PollInv'
  BY Typed, <1>a, <1>b, <1>c, CallbackAssumption DEF PollInv,
     MarkedWhilePolled
<1>5. ListedOnce'
  BY Typed, <1>a, <1>b, <1>c DEF ListedOnce
<1>6. ASSUME Quiet PROVE PassedOff'
  BY Typed, <1>a, <1>b, <1>c, <1>6 DEF PassedOff, Polled, Setting, LatchInv,
     CallInv, PollInv, Quiet
<1>7. ASSUME Quiet PROVE RaisedMarked'
  BY Typed, <1>a, <1>b, <1>c, <1>7 DEF RaisedMarked, BindPending, Setting,
     LatchInv, CallInv
<1>8. ASSUME Quiet PROVE UpdatingMarked'
  BY Typed, <1>a, <1>b, <1>c, <1>8 DEF UpdatingMarked, LatchInv, CallInv
<1> QED  BY <1>1, <1>2, <1>3, <1>4, <1>5, <1>6, <1>7, <1>8

\* A method that fails ends the poll, and the pipe stays marked.
LEMMA MethodFailsInv ==
    ASSUME Inv, NEW t \in Threads, MethodFails(t)
    PROVE  Inv'
<1> USE DEF Inv
<1>a. /\ pipeOwner = t /\ pollAt = "method" /\ pc[t] = "idle"
  BY Typed DEF MethodFails, Polling, EndPoll, LatchInv
<1>b. /\ pipeOwner' = NoThread /\ pollAt' = "none" /\ iter' = 1 /\ pollCount' = 0
  BY Typed, <1>a DEF MethodFails, Polling, EndPoll, TypeOK
<1>c. UNCHANGED <<event, bound, live, latchOwner, refused, list, mSignalled,
        pc, op, on, calls>>
  BY DEF MethodFails, Polling, EndPoll, latchVars, callVars
<1>1. TypeOK'
  BY Typed, <1>a, <1>b, <1>c, BoundsAssumption DEF MethodFails, Polling,
     EndPoll, TypeOK
<1>2. LatchInv'
  BY Typed, <1>a, <1>b, <1>c DEF LatchInv
<1>3. CallInv'
  BY Typed, <1>a, <1>b, <1>c DEF CallInv, LatchInv
<1>4. PollInv'
  BY Typed, <1>a, <1>b, <1>c, CallbackAssumption DEF PollInv,
     MarkedWhilePolled
<1>5. ListedOnce'
  BY Typed, <1>a, <1>b, <1>c DEF ListedOnce
<1>6. ASSUME Quiet PROVE PassedOff'
  BY Typed, <1>a, <1>b, <1>c, <1>6 DEF PassedOff, Polled, Setting, LatchInv,
     CallInv, PollInv, Quiet
<1>7. ASSUME Quiet PROVE RaisedMarked'
  BY Typed, <1>a, <1>b, <1>c, <1>7 DEF RaisedMarked, BindPending, Setting,
     LatchInv, CallInv
<1>8. ASSUME Quiet PROVE UpdatingMarked'
  BY Typed, <1>a, <1>b, <1>c, <1>8 DEF UpdatingMarked, LatchInv, CallInv
<1> QED  BY <1>1, <1>2, <1>3, <1>4, <1>5, <1>6, <1>7, <1>8

\* The mark goes when all the entries were passed.
LEMMA ResetPipeInv ==
    ASSUME Inv, NEW t \in Threads, ResetEventPipe(t)
    PROVE  Inv'
<1> USE DEF Inv
<1>a. /\ pipeOwner = t /\ pollAt = "entry" /\ pc[t] = "idle"
      /\ \A i \in DOMAIN list : i < iter
  BY Typed DEF ResetEventPipe, Polling, EndPoll, LatchInv
<1>b. /\ pipeOwner' = NoThread /\ pollAt' = "none" /\ iter' = 1 /\ pollCount' = 0
  BY Typed, <1>a DEF ResetEventPipe, Polling, EndPoll, TypeOK
<1>c. UNCHANGED <<event, bound, live, latchOwner, refused, list, pc, op, on,
        calls>>
  BY DEF ResetEventPipe, Polling, EndPoll, latchVars, callVars
<1>1. TypeOK'
  <2>1. errors' \in 0 .. MaxErrors
    BY BoundsAssumption DEF ResetEventPipe, TypeOK
  <2>2. mSignalled' \in BOOLEAN
    BY DEF ResetEventPipe, TypeOK
  <2> QED  BY Typed, <1>b, <1>c, <2>1, <2>2 DEF TypeOK
<1>2. LatchInv'
  BY Typed, <1>a, <1>b, <1>c DEF LatchInv
<1>3. CallInv'
  BY Typed, <1>a, <1>b, <1>c DEF CallInv, LatchInv
<1>4. PollInv'
  BY Typed, <1>a, <1>b, <1>c, CallbackAssumption DEF PollInv,
     MarkedWhilePolled
<1>5. ListedOnce'
  BY Typed, <1>a, <1>b, <1>c DEF ListedOnce
<1>6. ASSUME Quiet PROVE PassedOff'
  BY Typed, <1>a, <1>b, <1>c, <1>6 DEF PassedOff, Polled, Setting, LatchInv,
     CallInv, PollInv, Quiet
<1>7. ASSUME Quiet PROVE RaisedMarked'
  BY Typed, Listed, <1>a, <1>b, <1>c, <1>7 DEF RaisedMarked, PassedOff, Polled,
     Setting
<1>8. ASSUME Quiet PROVE UpdatingMarked'
  BY Typed, Listed, <1>a, <1>b, <1>c, <1>8 DEF UpdatingMarked, PassedOff, Polled,
     LatchInv, CallInv
<1> QED  BY <1>1, <1>2, <1>3, <1>4, <1>5, <1>6, <1>7, <1>8

\* Inv holds in every state.
LEMMA InitInv == Init => Inv
<1> SUFFICES ASSUME Init PROVE Inv
  OBVIOUS
<1>0. /\ list = <<>> /\ pollAt = "none" /\ iter = 1 /\ pipeOwner = NoThread
      /\ \A t \in Threads : pc[t] = "idle"
      /\ \A l \in Latches : ~ bound[l] /\ latchOwner[l] = NoThread
  BY DEF Init
<1>1. TypeOK
  <2>1. (CHOOSE l \in Latches : TRUE) \in Latches
    BY LatchesAssumption
  <2>2. list \in Seq(Latches) /\ Len(list) = 0
    BY <1>0
  <2>3. on \in [Threads -> Latches]
    BY <2>1 DEF Init
  <2>4. iter \in 1 .. Len(list) + 1 /\ pollCount \in Nat
    BY <2>2 DEF Init
  <2>5. /\ event \in [Latches -> SUBSET {"data", "disable"}]
        /\ bound \in [Latches -> BOOLEAN] /\ live \in [Latches -> BOOLEAN]
        /\ latchOwner \in [Latches -> Threads \cup {NoThread}]
        /\ refused \subseteq Latches /\ mSignalled \in BOOLEAN
    BY DEF Init
  <2>6. /\ pc \in [Threads -> {"idle", "enter", "signal", "update", "list"}]
        /\ op \in [Threads -> CallOps] /\ calls \in [Threads -> 0 .. MaxCalls]
        /\ errors \in 0 .. MaxErrors
    BY BoundsAssumption DEF Init, CallOps
  <2> QED  BY <1>0, <2>2, <2>3, <2>4, <2>5, <2>6 DEF TypeOK
<1>2. LatchInv
  BY <1>0, ThreadsAssumption DEF LatchInv
<1>3. CallInv /\ PollInv
  BY <1>0 DEF CallInv, PollInv, MarkedWhilePolled
<1>4. DOMAIN list = {}
  BY <1>0
<1>5. ListedOnce
  BY <1>0, <1>4 DEF ListedOnce, IsInjective, ToSet
<1>6. PassedOff /\ RaisedMarked /\ UpdatingMarked
  BY <1>0, <1>4 DEF PassedOff, RaisedMarked, UpdatingMarked
<1> QED  BY <1>1, <1>2, <1>3, <1>5, <1>6 DEF Inv

LEMMA NextInv == Inv /\ [Next]_vars => Inv'
<1> SUFFICES ASSUME Inv, [Next]_vars PROVE Inv'
  OBVIOUS
<1>1. CASE UNCHANGED vars
  BY <1>1 DEF vars, latchVars, pipeVars, pollVars, callVars, Inv, TypeOK,
     LatchInv, CallInv, PollInv, MarkedWhilePolled, ListedOnce, PassedOff,
     RaisedMarked, UpdatingMarked, Polled, BindPending, Setting, IsInjective,
     ToSet
<1>2. CASE Next
  BY <1>2, CallIsInv, RaiseInv, SignalInv, SignalFailsInv, UpdateInv, ResetInv,
     BeginBindInv, NothingToBindInv, AttachInv, DetachInv, BeginPollInv,
     PollEntryInv, MethodReturnsInv, MethodFailsInv, ResetPipeInv
     DEF Next, SetEventLatch, DisableEventLatch
<1> QED  BY <1>1, <1>2

\* The inductive invariant.
THEOREM Invariance == Spec => []Inv
BY InitInv, NextInv, PTL DEF Spec

\* The variables keep their types; a poll is at an entry of the list, or at its
\* end, though latches are put on the list and taken off it.
THEOREM TypeCorrect == Spec => []TypeOK
<1>1. Inv => TypeOK
  BY DEF Inv
<1> QED  BY <1>1, Invariance, PTL

\* The list holds exactly the bound latches, each once, so that LIST_REMOVE of
\* ert_detachEventPipeLatch_ always finds its entry.
THEOREM Listing == Spec => []ListedOnce
<1>1. Inv => ListedOnce
  BY DEF Inv
<1> QED  BY <1>1, Invariance, PTL

\* The byte that resetEventPipe_ reads, and insists on, is there.
THEOREM PollKeepsMark == Spec => []MarkedWhilePolled
<1>1. Inv => MarkedWhilePolled
  BY DEF Inv, PollInv
<1> QED  BY <1>1, Invariance, PTL

\* A method is called only of a latch that is still bound: unbinding waits for
\* the poll to leave it.
THEOREM UnbindEndsCalls == Spec => []NoCallAfterUnbind
<1>1. Inv => NoCallAfterUnbind
  <2> SUFFICES ASSUME Inv, pollAt = "method"
               PROVE  iter <= Len(list) /\ bound[Current]
    BY DEF NoCallAfterUnbind
  <2>1. iter \in DOMAIN list
    BY Typed DEF Inv, PollInv
  <2> QED  BY <2>1, Typed, Listed DEF Inv, Current
<1> QED  BY <1>1, Invariance, PTL

\* No event is lost, if the methods of the latches at most reset them; a method
\* that sets a latch which its poll has passed does lose one.
THEOREM EventsKept ==
    ASSUME CallbackOps \subseteq {"reset"}
    PROVE  Spec => []NoLostEvent
<1>1. Inv => NoLostEvent
  BY Typed, ThreadsAssumption
     DEF Inv, Quiet, NoLostEvent, RaisedMarked, BindPending
<1> QED  BY <1>1, Invariance, PTL
=============================================================================
