-------------------------- MODULE ForkProtocolProofs --------------------------
(***************************************************************************)
(* Proofs about ForkProtocol, for any number of forks, faults and kills,   *)
(* any size of the pipe and any use of the white lists. Inv is inductive:  *)
(* each action has a lemma, and NextInv puts them together. The properties *)
(* and the refinement of AtomicFork are consequences of Inv.               *)
(*                                                                         *)
(* In each lemma <1>a says what the guard gives, <1>b what the action      *)
(* changes, element by element, and <1>c what it leaves alone; the         *)
(* conjuncts of Inv' follow from these facts.                              *)
(***************************************************************************)
EXTENDS ForkProtocol, TLAPS

\* Sets and their members; how they are built is not needed below.
LEMMA Members ==
    /\ Root \in Procs /\ Root \notin Forks
    /\ \A k \in Forks : k \in Procs /\ k \in Nat
    /\ \A p \in Procs : p = Root \/ p \in Forks
    /\ \A k, j \in Forks, s, t \in Sides : End(j, s) = End(k, t) <=> j = k /\ s = t
    /\ \A k, j \in Forks, s \in Sides : End(j, s) \in EndsOf(k) <=> j = k
    /\ \A j \in Forks, s \in Sides : End(j, s) \in Ends
    /\ \A k \in Forks : EndsOf(k) \subseteq Ends
    /\ "parent" \in Sides /\ "child" \in Sides
BY BoundsAssumption DEF Root, Procs, Forks, End, EndsOf, Sides, Ends

\* What the closing by the black list spares.
LEMMA Spared ==
    ASSUME NEW p \in Procs
    PROVE  \A j \in Forks, s \in Sides : End(j, s) \in ChainEnds(p) <=> j \in chain[p]
BY Members DEF ChainEnds, End

\* Who the callers are.
LEMMA Typed ==
    TypeOK => /\ \A j \in Forks :
                    j \in Procs /\ j \in Nat /\ caller[j] \in Procs
              /\ Root \in Procs /\ \A j \in Forks : j # Root
              /\ "parent" \in Sides /\ "child" \in Sides
BY Members DEF TypeOK

\* A new call is further in than those before it.
LEMMA CallInv ==
    ASSUME Inv, NEW p \in Procs, NEW k \in Forks, Call(p, k)
    PROVE  Inv'
<1> USE DEF Inv
<1>a. /\ p \in Procs /\ Running(p)
      /\ ppc[k] = "none"
  BY Members DEF Call, ParentAt, ChildAt, Innermost, Active, Running, TypeOK,
     MayFork, Done, Forks
<1>b. /\ \A j \in Forks : ppc'[j] = IF j = k THEN "prefork" ELSE ppc[j]
      /\ \A j \in Forks : caller'[j] = IF j = k THEN p ELSE caller[j]
  BY Typed, <1>a, Members DEF Call, ParentTo, ChildTo, TypeOK, MayFork, Done,
     Forks
<1>c. UNCHANGED <<cpc, fds, chain, black, white, bell, ack, pipe, result,
        faults, kills>>
  BY DEF Call, lists, talk, counts, MayFork, Done, Forks
<1>1. TypeOK'
  BY <1>a, <1>c, Members DEF Call, ParentTo, ChildTo, TypeOK, Parent, Done,
     Child, MayFork, Forks
<1>2. FamilyInv'
  BY Typed, <1>a, <1>b, <1>c DEF FamilyInv, Running
<1>3. ReportInv'
  BY Typed, <1>a, <1>b, <1>c DEF ReportInv
<1>4. EndsInv'
  BY Typed, <1>a, <1>b, <1>c DEF EndsInv, Running
<1>5. ChainInv'
  BY Typed, <1>a, <1>b, <1>c DEF ChainInv, Running, ParentUses, ChildUses, Done
<1>6. LeftInv'
  BY Typed, <1>a, <1>b, <1>c DEF LeftInv, Done
<1>7. ChannelKept'
  BY Typed, <1>a, <1>b, <1>c DEF ChannelKept, Running, ParentUses, ChildUses,
     FamilyInv
<1>8. InSequence'
  BY Typed, <1>a, <1>b, <1>c DEF InSequence
<1> QED  BY <1>1, <1>2, <1>3, <1>4, <1>5, <1>6, <1>7, <1>8

\* The lists are filled while the fork has no channel.
LEMMA PreForkMethodInv ==
    ASSUME Inv, NEW k \in Forks, PreForkMethod(k)
    PROVE  Inv'
<1> USE DEF Inv
<1>a. /\ ppc[k] = "prefork"
      /\ Running(caller[k]) /\ caller[k] \in Procs
      /\ \A j \in Forks : caller[j] = caller[k] /\ ppc[j] \notin Done => j <= k
  BY Members DEF PreForkMethod, ParentAt, ChildAt, Innermost, Active, Running,
     TypeOK
<1>b. /\ \A j \in Forks : ppc'[j] = IF j = k THEN "channel" ELSE ppc[j]
      /\ \A j \in Forks : j # k => black'[j] = black[j] /\ white'[j] = white[j]
  BY Typed, <1>a, Members DEF PreForkMethod, ParentTo, ChildTo, TypeOK
<1>c. UNCHANGED <<caller, cpc, fds, chain, bell, ack, pipe, result, faults,
        kills>>
  BY DEF PreForkMethod, lists, talk, counts
<1>1. TypeOK'
  BY <1>a, <1>c, Members DEF PreForkMethod, ParentTo, ChildTo, TypeOK, Parent,
     Done, Child
<1>2. FamilyInv'
  BY Typed, <1>a, <1>b, <1>c DEF FamilyInv
<1>3. ReportInv'
  BY Typed, <1>a, <1>b, <1>c DEF ReportInv
<1>4. EndsInv'
  BY Typed, <1>a, <1>b, <1>c DEF EndsInv, Running
<1>5. ChainInv'
  BY Typed, <1>a, <1>b, <1>c DEF ChainInv, Running, ParentUses, ChildUses, Done
<1>6. LeftInv'
  BY Typed, <1>a, <1>b, <1>c DEF LeftInv, Done, EndsInv, FamilyInv, Running
<1>7. ChannelKept'
  BY Typed, <1>a, <1>b, <1>c DEF ChannelKept, Running, ParentUses, ChildUses,
     FamilyInv
<1>8. InSequence'
  BY Typed, <1>a, <1>b, <1>c DEF InSequence
<1> QED  BY <1>1, <1>2, <1>3, <1>4, <1>5, <1>6, <1>7, <1>8

\* The channel is created and put on the list.
LEMMA CreateChannelInv ==
    ASSUME Inv, NEW k \in Forks, CreateChannel(k)
    PROVE  Inv'
<1> USE DEF Inv
<1>a. /\ ppc[k] = "channel"
      /\ Running(caller[k]) /\ caller[k] \in Procs
      /\ \A j \in Forks : caller[j] = caller[k] /\ ppc[j] \notin Done => j <= k
  BY Members DEF CreateChannel, ParentAt, ChildAt, Innermost, Active, Running,
     TypeOK
<1>b. /\ \A j \in Forks : ppc'[j] = IF j = k THEN "fork" ELSE ppc[j]
      /\ \A q \in Procs, j \in Forks, s \in Sides :
            End(j, s) \in fds'[q] <=>
               End(j, s) \in fds[q] \/ (q = caller[k] /\ j = k)
      /\ \A q \in Procs, j \in Forks :
            j \in chain'[q] <=> j \in chain[q] \/ (q = caller[k] /\ j = k)
  BY Typed, <1>a, Members DEF CreateChannel, ParentTo, ChildTo, TypeOK
<1>c. UNCHANGED <<caller, cpc, black, white, bell, ack, pipe, result, faults,
        kills>>
  BY DEF CreateChannel, lists, talk, counts
<1>1. TypeOK'
  BY <1>a, <1>c, Members DEF CreateChannel, ParentTo, ChildTo, TypeOK, Parent,
     Done, Child
<1>2. FamilyInv'
  BY Typed, <1>a, <1>b, <1>c DEF FamilyInv
<1>3. ReportInv'
  BY Typed, <1>a, <1>b, <1>c DEF ReportInv
<1>4. EndsInv'
  BY Typed, <1>a, <1>b, <1>c DEF EndsInv, Running
<1>5. ChainInv'
  BY Typed, <1>a, <1>b, <1>c DEF ChainInv, Running, ParentUses, ChildUses, Done
<1>6. LeftInv'
  BY Typed, <1>a, <1>b, <1>c DEF LeftInv, Done
<1>7. ChannelKept'
  BY Typed, <1>a, <1>b, <1>c DEF ChannelKept, Running, ParentUses, ChildUses,
     FamilyInv
<1>8. InSequence'
  BY Typed, <1>a, <1>b, <1>c DEF InSequence
<1> QED  BY <1>1, <1>2, <1>3, <1>4, <1>5, <1>6, <1>7, <1>8

\* The child inherits all ends, and only its own channel is on its list.
LEMMA ForkInv ==
    ASSUME Inv, NEW k \in Forks, Fork(k)
    PROVE  Inv'
<1> USE DEF Inv
<1>a. /\ ppc[k] = "fork"
      /\ Running(caller[k]) /\ caller[k] \in Procs
      /\ \A j \in Forks : caller[j] = caller[k] /\ ppc[j] \notin Done => j <= k
  BY Members DEF Fork, ParentAt, ChildAt, Innermost, Active, Running, TypeOK
<1>b. /\ \A j \in Forks : ppc'[j] = IF j = k THEN "group" ELSE ppc[j]
      /\ \A q \in Procs : cpc'[q] = IF q = k THEN "born" ELSE cpc[q]
      /\ \A q \in Procs : fds'[q] = IF q = k THEN fds[caller[k]] ELSE fds[q]
      /\ \A j \in Forks : j \in chain'[k] <=> j = k
      /\ \A q \in Procs : q # k => chain'[q] = chain[q]
  <2>1. \A j \in Forks : ppc'[j] = IF j = k THEN "group" ELSE ppc[j]
    BY Typed, <1>a, Members DEF Fork, ParentTo, ChildTo, TypeOK
  <2>2. \A q \in Procs : cpc'[q] = IF q = k THEN "born" ELSE cpc[q]
    BY Typed, <1>a, Members DEF Fork, ParentTo, ChildTo, TypeOK
  <2>3. \A q \in Procs : fds'[q] = IF q = k THEN fds[caller[k]] ELSE fds[q]
    BY Typed, <1>a, Members DEF Fork, ParentTo, ChildTo, TypeOK
  <2>4. \A j \in Forks : j \in chain'[k] <=> j = k
    BY Typed, <1>a, Members DEF Fork, ParentTo, ChildTo, TypeOK
  <2>5. \A q \in Procs : q # k => chain'[q] = chain[q]
    BY Typed, <1>a, Members DEF Fork, ParentTo, ChildTo, TypeOK
  <2> QED  BY <2>1, <2>2, <2>3, <2>4, <2>5
<1>c. UNCHANGED <<caller, black, white, bell, ack, pipe, result, faults,
        kills>>
  BY DEF Fork, lists, talk, counts
<1>1. TypeOK'
  BY <1>a, <1>c, Members DEF Fork, ParentTo, ChildTo, TypeOK, Parent, Done,
     Child
<1>2. FamilyInv'
  BY Typed, <1>a, <1>b, <1>c DEF FamilyInv
<1>3. ReportInv'
  BY Typed, <1>a, <1>b, <1>c DEF ReportInv, FamilyInv
<1>4. EndsInv'
  BY Typed, <1>a, <1>b, <1>c DEF EndsInv, Running, FamilyInv
<1>5. ChainInv'
  BY Typed, <1>a, <1>b, <1>c DEF ChainInv, Running, ParentUses, ChildUses,
     Done, FamilyInv
<1>6. LeftInv'
  BY Typed, <1>a, <1>b, <1>c DEF LeftInv, Done
<1>7. ChannelKept'
  BY Typed, <1>a, <1>b, <1>c DEF ChannelKept, Running, ParentUses, ChildUses,
     FamilyInv, EndsInv
<1>8. InSequence'
  BY Typed, <1>a, <1>b, <1>c DEF InSequence
<1> QED  BY <1>1, <1>2, <1>3, <1>4, <1>5, <1>6, <1>7, <1>8

\* The black list spares the channels of all forks that this one is in.
LEMMA SetGroupInv ==
    ASSUME Inv, NEW k \in Forks, SetGroup(k)
    PROVE  Inv'
<1> USE DEF Inv
<1>a. /\ ppc[k] = "group"
      /\ Running(caller[k]) /\ caller[k] \in Procs
      /\ \A j \in Forks : caller[j] = caller[k] /\ ppc[j] \notin Done => j <= k
  BY Members DEF SetGroup, ParentAt, ChildAt, Innermost, Active, Running,
     TypeOK
<1>b. /\ \A j \in Forks : ppc'[j] = IF j = k THEN "bell" ELSE ppc[j]
      /\ \A q \in Procs, j \in Forks, s \in Sides :
            End(j, s) \in fds'[q] <=> End(j, s) \in fds[q]
               /\ ~ (q = caller[k] /\ j = k /\ s = "child")
      /\ \A i, j \in Forks, s \in Sides :
            End(j, s) \in black'[i] <=>
                End(j, s) \in black[i] /\ ~ (i = k /\ j \in chain[caller[k]])
  BY Typed, <1>a, Members, Spared DEF SetGroup, ParentTo, ChildTo, TypeOK
<1>c. UNCHANGED <<caller, cpc, chain, white, bell, ack, pipe, result, faults,
        kills>>
  BY DEF SetGroup, lists, talk, counts
<1>1. TypeOK'
  BY <1>a, <1>c, Members DEF SetGroup, ParentTo, ChildTo, TypeOK, Parent,
     Done, Child
<1>2. FamilyInv'
  BY Typed, <1>a, <1>b, <1>c DEF FamilyInv
<1>3. ReportInv'
  BY Typed, <1>a, <1>b, <1>c DEF ReportInv
<1>4. EndsInv'
  BY Typed, <1>a, <1>b, <1>c DEF EndsInv, Running
<1>5. ChainInv'
  BY Typed, <1>a, <1>b, <1>c DEF ChainInv, Running, ParentUses, ChildUses, Done
<1>6. LeftInv'
  BY Typed, <1>a, <1>b, <1>c DEF LeftInv, Done
<1>7. ChannelKept'
  BY Typed, <1>a, <1>b, <1>c DEF ChannelKept, Running, ParentUses, ChildUses,
     FamilyInv
<1>8. InSequence'
  BY Typed, <1>a, <1>b, <1>c DEF InSequence
<1> QED  BY <1>1, <1>2, <1>3, <1>4, <1>5, <1>6, <1>7, <1>8

\* The bell was heard.
LEMMA HearBellInv ==
    ASSUME Inv, NEW k \in Forks, HearBell(k)
    PROVE  Inv'
<1> USE DEF Inv
<1>a. /\ ppc[k] = "bell"
      /\ Running(caller[k]) /\ caller[k] \in Procs
      /\ \A j \in Forks : caller[j] = caller[k] /\ ppc[j] \notin Done => j <= k
  BY Members DEF HearBell, ParentAt, ChildAt, Innermost, Active, Running,
     TypeOK
<1>b. /\ \A j \in Forks : ppc'[j] = IF j = k THEN "code" ELSE ppc[j]
  BY Typed, <1>a, Members DEF HearBell, ParentTo, ChildTo, TypeOK
<1>c. UNCHANGED <<caller, cpc, fds, chain, black, white, ack, pipe, result,
        faults, kills>>
  BY DEF HearBell, lists, talk, counts
<1>1. TypeOK'
  BY <1>a, <1>c, Members DEF HearBell, ParentTo, ChildTo, TypeOK, Parent,
     Done, Child
<1>2. FamilyInv'
  BY Typed, <1>a, <1>b, <1>c DEF FamilyInv
<1>3. ReportInv'
  BY Typed, <1>a, <1>b, <1>c DEF ReportInv
<1>4. EndsInv'
  BY Typed, <1>a, <1>b, <1>c DEF EndsInv, Running
<1>5. ChainInv'
  BY Typed, <1>a, <1>b, <1>c DEF ChainInv, Running, ParentUses, ChildUses, Done
<1>6. LeftInv'
  BY Typed, <1>a, <1>b, <1>c DEF LeftInv, Done
<1>7. ChannelKept'
  BY Typed, <1>a, <1>b, <1>c DEF ChannelKept, Running, ParentUses, ChildUses,
     FamilyInv
<1>8. InSequence'
  BY Typed, <1>a, <1>b, <1>c DEF InSequence
<1> QED  BY <1>1, <1>2, <1>3, <1>4, <1>5, <1>6, <1>7, <1>8

\* The code is the first thing that the child has written.
LEMMA ReadCodeInv ==
    ASSUME Inv, NEW k \in Forks, ReadCode(k)
    PROVE  Inv'
<1> USE DEF Inv
<1>a. /\ ppc[k] = "code"
      /\ pipe[k] # <<>> /\ pipe[k] \in Seq({"ok", "error", "frames"})
      /\ Running(caller[k]) /\ caller[k] \in Procs
      /\ \A j \in Forks : caller[j] = caller[k] /\ ppc[j] \notin Done => j <= k
  BY Members DEF ReadCode, ParentAt, ChildAt, Innermost, Active, Running,
     TypeOK
<1>b. /\ \A j \in Forks :
           ppc'[j] = IF j = k THEN IF Head(pipe[k]) = "ok" THEN "method"
              ELSE "thaw" ELSE ppc[j]
      /\ \A j \in Forks : pipe'[j] = IF j = k THEN Tail(pipe[k]) ELSE pipe[j]
  BY Typed, <1>a, Members DEF ReadCode, ParentTo, ChildTo, TypeOK
<1>c. UNCHANGED <<caller, cpc, fds, chain, black, white, bell, ack, result,
        faults, kills>>
  BY DEF ReadCode, lists, talk, counts
<1>1. TypeOK'
  BY <1>a, <1>c, Members DEF ReadCode, ParentTo, ChildTo, TypeOK, Parent,
     Done, Child
<1>2. FamilyInv'
  BY Typed, <1>a, <1>b, <1>c DEF FamilyInv
<1>3. ReportInv'
  BY Typed, <1>a, <1>b, <1>c DEF ReportInv
<1>4. EndsInv'
  BY Typed, <1>a, <1>b, <1>c DEF EndsInv, Running
<1>5. ChainInv'
  BY Typed, <1>a, <1>b, <1>c DEF ChainInv, Running, ParentUses, ChildUses, Done
<1>6. LeftInv'
  BY Typed, <1>a, <1>b, <1>c DEF LeftInv, Done
<1>7. ChannelKept'
  BY Typed, <1>a, <1>b, <1>c DEF ChannelKept, Running, ParentUses, ChildUses,
     FamilyInv
<1>8. InSequence'
  BY Typed, <1>a, <1>b, <1>c DEF InSequence, ReportInv
<1> QED  BY <1>1, <1>2, <1>3, <1>4, <1>5, <1>6, <1>7, <1>8

\* An error of the child is an error of its parent.
LEMMA ThawFramesInv ==
    ASSUME Inv, NEW k \in Forks, ThawFrames(k)
    PROVE  Inv'
<1> USE DEF Inv
<1>a. /\ ppc[k] = "thaw"
      /\ pipe[k] # <<>> /\ pipe[k] \in Seq({"ok", "error", "frames"})
      /\ Running(caller[k]) /\ caller[k] \in Procs
      /\ \A j \in Forks : caller[j] = caller[k] /\ ppc[j] \notin Done => j <= k
  BY Members DEF ThawFrames, ParentAt, ChildAt, Innermost, Active, Running,
     TypeOK
<1>b. /\ \A j \in Forks : ppc'[j] = IF j = k THEN "undo" ELSE ppc[j]
      /\ \A j \in Forks : pipe'[j] = IF j = k THEN Tail(pipe[k]) ELSE pipe[j]
  BY Typed, <1>a, Members DEF ThawFrames, ParentTo, ChildTo, TypeOK
<1>c. UNCHANGED <<caller, cpc, fds, chain, black, white, bell, ack, result,
        faults, kills>>
  BY DEF ThawFrames, lists, talk, counts
<1>1. TypeOK'
  BY <1>a, <1>c, Members DEF ThawFrames, ParentTo, ChildTo, TypeOK, Parent,
     Done, Child
<1>2. FamilyInv'
  BY Typed, <1>a, <1>b, <1>c DEF FamilyInv
<1>3. ReportInv'
  BY Typed, <1>a, <1>b, <1>c DEF ReportInv
<1>4. EndsInv'
  BY Typed, <1>a, <1>b, <1>c DEF EndsInv, Running
<1>5. ChainInv'
  BY Typed, <1>a, <1>b, <1>c DEF ChainInv, Running, ParentUses, ChildUses, Done
<1>6. LeftInv'
  BY Typed, <1>a, <1>b, <1>c DEF LeftInv, Done
<1>7. ChannelKept'
  BY Typed, <1>a, <1>b, <1>c DEF ChannelKept, Running, ParentUses, ChildUses,
     FamilyInv
<1>8. InSequence'
  BY Typed, <1>a, <1>b, <1>c DEF InSequence
<1> QED  BY <1>1, <1>2, <1>3, <1>4, <1>5, <1>6, <1>7, <1>8

\* The end of the child is an error of its parent.
LEMMA ParentEofInv ==
    ASSUME Inv, NEW k \in Forks, ParentEof(k)
    PROVE  Inv'
<1> USE DEF Inv
<1>a. /\ ppc[k] \in {"bell", "code", "thaw", "ring"}
      /\ Running(caller[k]) /\ caller[k] \in Procs
      /\ \A j \in Forks : caller[j] = caller[k] /\ ppc[j] \notin Done => j <= k
  BY Members DEF ParentEof, ParentAt, ChildAt, Innermost, Active, Running,
     TypeOK
<1>b. /\ \A j \in Forks : ppc'[j] = IF j = k THEN "undo" ELSE ppc[j]
  BY Typed, <1>a, Members DEF ParentEof, ParentTo, ChildTo, TypeOK
<1>c. UNCHANGED <<caller, cpc, fds, chain, black, white, bell, ack, pipe,
        result, faults, kills>>
  BY DEF ParentEof, lists, talk, counts
<1>1. TypeOK'
  BY <1>a, <1>c, Members DEF ParentEof, ParentTo, ChildTo, TypeOK, Parent,
     Done, Child
<1>2. FamilyInv'
  BY Typed, <1>a, <1>b, <1>c DEF FamilyInv
<1>3. ReportInv'
  BY Typed, <1>a, <1>b, <1>c DEF ReportInv
<1>4. EndsInv'
  BY Typed, <1>a, <1>b, <1>c DEF EndsInv, Running
<1>5. ChainInv'
  BY Typed, <1>a, <1>b, <1>c DEF ChainInv, Running, ParentUses, ChildUses, Done
<1>6. LeftInv'
  BY Typed, <1>a, <1>b, <1>c DEF LeftInv, Done
<1>7. ChannelKept'
  BY Typed, <1>a, <1>b, <1>c DEF ChannelKept, Running, ParentUses, ChildUses,
     FamilyInv
<1>8. InSequence'
  BY Typed, <1>a, <1>b, <1>c DEF InSequence
<1> QED  BY <1>1, <1>2, <1>3, <1>4, <1>5, <1>6, <1>7, <1>8

\* The method of the parent follows that of the child.
LEMMA PostForkParentMethodInv ==
    ASSUME Inv, NEW k \in Forks, PostForkParentMethod(k)
    PROVE  Inv'
<1> USE DEF Inv
<1>a. /\ ppc[k] = "method"
      /\ Running(caller[k]) /\ caller[k] \in Procs
      /\ \A j \in Forks : caller[j] = caller[k] /\ ppc[j] \notin Done => j <= k
  BY Members DEF PostForkParentMethod, ParentAt, ChildAt, Innermost, Active,
     Running, TypeOK
<1>b. /\ \A j \in Forks : ppc'[j] = IF j = k THEN "blacklist" ELSE ppc[j]
  BY Typed, <1>a, Members DEF PostForkParentMethod, ParentTo, ChildTo, TypeOK
<1>c. UNCHANGED <<caller, cpc, fds, chain, black, white, bell, ack, pipe,
        result, faults, kills>>
  BY DEF PostForkParentMethod, lists, talk, counts
<1>1. TypeOK'
  BY <1>a, <1>c, Members DEF PostForkParentMethod, ParentTo, ChildTo, TypeOK,
     Parent, Done, Child
<1>2. FamilyInv'
  BY Typed, <1>a, <1>b, <1>c DEF FamilyInv
<1>3. ReportInv'
  BY Typed, <1>a, <1>b, <1>c DEF ReportInv
<1>4. EndsInv'
  BY Typed, <1>a, <1>b, <1>c DEF EndsInv, Running
<1>5. ChainInv'
  BY Typed, <1>a, <1>b, <1>c DEF ChainInv, Running, ParentUses, ChildUses, Done
<1>6. LeftInv'
  BY Typed, <1>a, <1>b, <1>c DEF LeftInv, Done
<1>7. ChannelKept'
  BY Typed, <1>a, <1>b, <1>c DEF ChannelKept, Running, ParentUses, ChildUses,
     FamilyInv
<1>8. InSequence'
  BY Typed, <1>a, <1>b, <1>c DEF InSequence
<1> QED  BY <1>1, <1>2, <1>3, <1>4, <1>5, <1>6, <1>7, <1>8

\* The acknowledgement is the last step that may fail.
LEMMA SendAcknowledgementInv ==
    ASSUME Inv, NEW k \in Forks, SendAcknowledgement(k)
    PROVE  Inv'
<1> USE DEF Inv
<1>a. /\ ppc[k] = "ring"
      /\ Running(caller[k]) /\ caller[k] \in Procs
      /\ \A j \in Forks : caller[j] = caller[k] /\ ppc[j] \notin Done => j <= k
  BY Members DEF SendAcknowledgement, ParentAt, ChildAt, Innermost, Active,
     Running, TypeOK
<1>b. /\ \A j \in Forks : ppc'[j] = IF j = k THEN "acked" ELSE ppc[j]
      /\ \A j \in Forks : ack'[j] = IF j = k THEN 1 ELSE ack[j]
  BY Typed, <1>a, Members DEF SendAcknowledgement, ParentTo, ChildTo, TypeOK
<1>c. UNCHANGED <<caller, cpc, fds, chain, black, white, bell, pipe, result,
        faults, kills>>
  BY DEF SendAcknowledgement, lists, talk, counts
<1>1. TypeOK'
  BY <1>a, <1>c, Members DEF SendAcknowledgement, ParentTo, ChildTo, TypeOK,
     Parent, Done, Child
<1>2. FamilyInv'
  BY Typed, <1>a, <1>b, <1>c DEF FamilyInv
<1>3. ReportInv'
  BY Typed, <1>a, <1>b, <1>c DEF ReportInv
<1>4. EndsInv'
  BY Typed, <1>a, <1>b, <1>c DEF EndsInv, Running
<1>5. ChainInv'
  BY Typed, <1>a, <1>b, <1>c DEF ChainInv, Running, ParentUses, ChildUses, Done
<1>6. LeftInv'
  BY Typed, <1>a, <1>b, <1>c DEF LeftInv, Done
<1>7. ChannelKept'
  BY Typed, <1>a, <1>b, <1>c DEF ChannelKept, Running, ParentUses, ChildUses,
     FamilyInv
<1>8. InSequence'
  BY Typed, <1>a, <1>b, <1>c DEF InSequence
<1> QED  BY <1>1, <1>2, <1>3, <1>4, <1>5, <1>6, <1>7, <1>8

\* Closing by the black list spares every channel in use.
LEMMA CloseOnlyBlackListInv ==
    ASSUME Inv, NEW k \in Forks, CloseOnlyBlackList(k)
    PROVE  Inv'
<1> USE DEF Inv
<1>a. /\ ppc[k] = "blacklist"
      /\ Running(caller[k]) /\ caller[k] \in Procs
      /\ \A j \in Forks : caller[j] = caller[k] /\ ppc[j] \notin Done => j <= k
  BY Members DEF CloseOnlyBlackList, ParentAt, ChildAt, Innermost, Active,
     Running, TypeOK
<1>b. /\ \A j \in Forks : ppc'[j] = IF j = k THEN "ring" ELSE ppc[j]
      /\ \A q \in Procs, j \in Forks, s \in Sides :
            End(j, s) \in fds'[q] <=> End(j, s) \in fds[q]
               /\ ~ (q = caller[k] /\ End(j, s) \in black[k])
  BY Typed, <1>a, Members DEF CloseOnlyBlackList, ParentTo, ChildTo, TypeOK
<1>c. UNCHANGED <<caller, cpc, chain, black, white, bell, ack, pipe, result,
        faults, kills>>
  BY DEF CloseOnlyBlackList, lists, talk, counts
<1>1. TypeOK'
  BY <1>a, <1>c, Members DEF CloseOnlyBlackList, ParentTo, ChildTo, TypeOK,
     Parent, Done, Child
<1>2. FamilyInv'
  BY Typed, <1>a, <1>b, <1>c DEF FamilyInv
<1>3. ReportInv'
  BY Typed, <1>a, <1>b, <1>c DEF ReportInv
<1>4. EndsInv'
  BY Typed, <1>a, <1>b, <1>c DEF EndsInv, Running, ChainInv, ParentUses, Done
<1>5. ChainInv'
  BY Typed, <1>a, <1>b, <1>c DEF ChainInv, Running, ParentUses, ChildUses, Done
<1>6. LeftInv'
  BY Typed, <1>a, <1>b, <1>c DEF LeftInv, Done
<1>7. ChannelKept'
  BY Typed, <1>a, <1>b, <1>c DEF ChannelKept, Running, ParentUses, ChildUses,
     FamilyInv, ChainInv, Done
<1>8. InSequence'
  BY Typed, <1>a, <1>b, <1>c DEF InSequence
<1> QED  BY <1>1, <1>2, <1>3, <1>4, <1>5, <1>6, <1>7, <1>8

\* A fault of the parent loses no end of another fork.
LEMMA ParentFaultInv ==
    ASSUME Inv, NEW k \in Forks, ParentFault(k)
    PROVE  Inv'
<1> USE DEF Inv
<1>a. /\ ppc[k] \in {"prefork", "channel", "fork", "group", "method",
           "blacklist"}
      /\ faults < MaxFaults
      /\ Running(caller[k]) /\ caller[k] \in Procs
      /\ \A j \in Forks : caller[j] = caller[k] /\ ppc[j] \notin Done => j <= k
  BY Members DEF ParentFault, ParentAt, ChildAt, Innermost, Active, Running,
     TypeOK, Fault
<1>b. /\ \A j \in Forks : ppc'[j] = IF j = k THEN "undo" ELSE ppc[j]
      /\ faults' = faults + 1
      /\ ppc[k] # "blacklist" => fds' = fds
      /\ \A q \in Procs, j \in Forks, s \in Sides :
            End(j, s) \in fds'[q] => End(j, s) \in fds[q]
      /\ \A q \in Procs, j \in Forks, s \in Sides :
            /\ End(j, s) \in fds[q]
            /\ q # caller[k] \/ End(j, s) \notin black[k]
            => End(j, s) \in fds'[q]
  BY Typed, <1>a, Members DEF ParentFault, ParentTo, ChildTo, TypeOK, Fault
<1>c. UNCHANGED <<caller, cpc, chain, black, white, bell, ack, pipe, result,
        kills>>
  BY DEF ParentFault, lists, talk, counts, Fault
<1>1. TypeOK'
  BY <1>a, <1>c, Members, BoundsAssumption DEF ParentFault, ParentTo, ChildTo,
     TypeOK, Parent, Done, Child, Fault
<1>2. FamilyInv'
  BY Typed, <1>a, <1>b, <1>c DEF FamilyInv
<1>3. ReportInv'
  BY Typed, <1>a, <1>b, <1>c DEF ReportInv
<1>4. EndsInv'
  BY Typed, <1>a, <1>b, <1>c DEF EndsInv, Running, ChainInv, ParentUses, Done
<1>5. ChainInv'
  BY Typed, <1>a, <1>b, <1>c DEF ChainInv, Running, ParentUses, ChildUses, Done
<1>6. LeftInv'
  BY Typed, <1>a, <1>b, <1>c DEF LeftInv, Done
<1>7. ChannelKept'
  BY Typed, <1>a, <1>b, <1>c DEF ChannelKept, Running, ParentUses, ChildUses,
     FamilyInv, ChainInv, Done
<1>8. InSequence'
  BY Typed, <1>a, <1>b, <1>c DEF InSequence
<1> QED  BY <1>1, <1>2, <1>3, <1>4, <1>5, <1>6, <1>7, <1>8

\* The channel is closed and taken from the list.
LEMMA FinallyInv ==
    ASSUME Inv, NEW k \in Forks, Finally(k)
    PROVE  Inv'
<1> USE DEF Inv
<1>a. /\ ppc[k] \in {"acked", "undo"}
      /\ Running(caller[k]) /\ caller[k] \in Procs
      /\ \A j \in Forks : caller[j] = caller[k] /\ ppc[j] \notin Done => j <= k
  BY Members DEF Finally, ParentAt, ChildAt, Innermost, Active, Running, TypeOK
<1>b. /\ \A j \in Forks : ppc'[j] = IF j = k THEN ppc'[k] ELSE ppc[j]
      /\ ppc[k] = "acked" => ppc'[k] = "pid"
      /\ ppc[k] = "undo" => ppc'[k] = IF cpc[k] = "none" THEN "error"
           ELSE "reap"
      /\ \A q \in Procs, j \in Forks, s \in Sides :
            End(j, s) \in fds'[q] <=> End(j, s) \in fds[q]
               /\ ~ (q = caller[k] /\ j = k)
      /\ \A q \in Procs, j \in Forks :
            j \in chain'[q] <=> j \in chain[q] /\ ~ (q = caller[k] /\ j = k)
  BY Typed, <1>a, Members DEF Finally, ParentTo, ChildTo, TypeOK
<1>c. UNCHANGED <<caller, cpc, black, white, bell, ack, pipe, result, faults,
        kills>>
  BY DEF Finally, lists, talk, counts
<1>1. TypeOK'
  BY <1>a, <1>c, Members DEF Finally, ParentTo, ChildTo, TypeOK, Parent, Done,
     Child
<1>2. FamilyInv'
  BY Typed, <1>a, <1>b, <1>c DEF FamilyInv
<1>3. ReportInv'
  BY Typed, <1>a, <1>b, <1>c DEF ReportInv
<1>4. EndsInv'
  BY Typed, <1>a, <1>b, <1>c DEF EndsInv, Running
<1>5. ChainInv'
  BY Typed, <1>a, <1>b, <1>c DEF ChainInv, Running, ParentUses, ChildUses,
     Done, FamilyInv
<1>6. LeftInv'
  BY Typed, <1>a, <1>b, <1>c DEF LeftInv, Done
<1>7. ChannelKept'
  BY Typed, <1>a, <1>b, <1>c DEF ChannelKept, Running, ParentUses, ChildUses,
     FamilyInv
<1>8. InSequence'
  BY Typed, <1>a, <1>b, <1>c DEF InSequence
<1> QED  BY <1>1, <1>2, <1>3, <1>4, <1>5, <1>6, <1>7, <1>8

\* The caller is told of the error when the child is reaped.
LEMMA ReapInv ==
    ASSUME Inv, NEW k \in Forks, Reap(k)
    PROVE  Inv'
<1> USE DEF Inv
<1>a. /\ ppc[k] = "reap"
      /\ cpc[k] = "gone"
      /\ Running(caller[k]) /\ caller[k] \in Procs
      /\ \A j \in Forks : caller[j] = caller[k] /\ ppc[j] \notin Done => j <= k
  BY Members DEF Reap, ParentAt, ChildAt, Innermost, Active, Running, TypeOK
<1>b. /\ \A j \in Forks : ppc'[j] = IF j = k THEN "error" ELSE ppc[j]
      /\ \A q \in Procs : cpc'[q] = IF q = k THEN "reaped" ELSE cpc[q]
  BY Typed, <1>a, Members DEF Reap, ParentTo, ChildTo, TypeOK
<1>c. UNCHANGED <<caller, fds, chain, black, white, bell, ack, pipe, result,
        faults, kills>>
  BY DEF Reap, lists, talk, counts
<1>1. TypeOK'
  BY <1>a, <1>c, Members DEF Reap, ParentTo, ChildTo, TypeOK, Parent, Done,
     Child
<1>2. FamilyInv'
  BY Typed, <1>a, <1>b, <1>c DEF FamilyInv
<1>3. ReportInv'
  BY Typed, <1>a, <1>b, <1>c DEF ReportInv
<1>4. EndsInv'
  BY Typed, <1>a, <1>b, <1>c DEF EndsInv, Running
<1>5. ChainInv'
  BY Typed, <1>a, <1>b, <1>c DEF ChainInv, Running, ParentUses, ChildUses, Done
<1>6. LeftInv'
  BY Typed, <1>a, <1>b, <1>c DEF LeftInv, Done, EndsInv
<1>7. ChannelKept'
  BY Typed, <1>a, <1>b, <1>c DEF ChannelKept, Running, ParentUses, ChildUses,
     FamilyInv
<1>8. InSequence'
  BY Typed, <1>a, <1>b, <1>c DEF InSequence
<1> QED  BY <1>1, <1>2, <1>3, <1>4, <1>5, <1>6, <1>7, <1>8

\* The child closes the parent's ends only.
LEMMA CloseParentEndsInv ==
    ASSUME Inv, NEW k \in Forks, CloseParentEnds(k)
    PROVE  Inv'
<1> USE DEF Inv
<1>a. /\ cpc[k] = "born"
      /\ \A j \in Forks : caller[j] = k => ppc[j] \in Done
  BY Members DEF CloseParentEnds, ParentAt, ChildAt, Innermost, Active,
     Running, TypeOK
<1>b. /\ \A q \in Procs : cpc'[q] = IF q = k THEN "whitelist" ELSE cpc[q]
      /\ \A q \in Procs, j \in Forks, s \in Sides :
            End(j, s) \in fds'[q] <=> End(j, s) \in fds[q]
               /\ ~ (q = k /\ j = k /\ s = "parent")
  BY Typed, <1>a, Members DEF CloseParentEnds, ParentTo, ChildTo, TypeOK
<1>c. UNCHANGED <<caller, ppc, chain, black, white, bell, ack, pipe, result,
        faults, kills>>
  BY DEF CloseParentEnds, lists, talk, counts
<1>1. TypeOK'
  BY <1>a, <1>c, Members DEF CloseParentEnds, ParentTo, ChildTo, TypeOK,
     Parent, Done, Child
<1>2. FamilyInv'
  BY Typed, <1>a, <1>b, <1>c DEF FamilyInv
<1>3. ReportInv'
  BY Typed, <1>a, <1>b, <1>c DEF ReportInv
<1>4. EndsInv'
  BY Typed, <1>a, <1>b, <1>c DEF EndsInv, Running, FamilyInv, Done
<1>5. ChainInv'
  BY Typed, <1>a, <1>b, <1>c DEF ChainInv, Running, ParentUses, ChildUses, Done
<1>6. LeftInv'
  BY Typed, <1>a, <1>b, <1>c DEF LeftInv, Done
<1>7. ChannelKept'
  BY Typed, <1>a, <1>b, <1>c DEF ChannelKept, Running, ParentUses, ChildUses,
     FamilyInv
<1>8. InSequence'
  BY Typed, <1>a, <1>b, <1>c DEF InSequence
<1> QED  BY <1>1, <1>2, <1>3, <1>4, <1>5, <1>6, <1>7, <1>8

\* Closing by the white list leaves the channel.
LEMMA CloseExceptWhiteListInv ==
    ASSUME Inv, NEW k \in Forks, CloseExceptWhiteList(k)
    PROVE  Inv'
<1> USE DEF Inv
<1>a. /\ cpc[k] = "whitelist"
      /\ \A j \in Forks : caller[j] = k => ppc[j] \in Done
  BY Members DEF CloseExceptWhiteList, ParentAt, ChildAt, Innermost, Active,
     Running, TypeOK, Kept
<1>b. /\ \A q \in Procs : cpc'[q] = IF q = k THEN "method" ELSE cpc[q]
      /\ \A q \in Procs, j \in Forks, s \in Sides :
            End(j, s) \in fds'[q] <=>
               End(j, s) \in fds[q] /\ (q = k => j = k \/ End(j, s) \in white[k])
  BY Typed, <1>a, Members DEF CloseExceptWhiteList, ParentTo, ChildTo, TypeOK,
     Kept
<1>c. UNCHANGED <<caller, ppc, chain, black, white, bell, ack, pipe, result,
        faults, kills>>
  BY DEF CloseExceptWhiteList, lists, talk, counts, Kept
<1>1. TypeOK'
  BY <1>a, <1>c, Members DEF CloseExceptWhiteList, ParentTo, ChildTo, TypeOK,
     Parent, Done, Child, Kept
<1>2. FamilyInv'
  BY Typed, <1>a, <1>b, <1>c DEF FamilyInv
<1>3. ReportInv'
  BY Typed, <1>a, <1>b, <1>c DEF ReportInv
<1>4. EndsInv'
  BY Typed, <1>a, <1>b, <1>c DEF EndsInv, Running, FamilyInv, Done
<1>5. ChainInv'
  BY Typed, <1>a, <1>b, <1>c DEF ChainInv, Running, ParentUses, ChildUses, Done
<1>6. LeftInv'
  BY Typed, <1>a, <1>b, <1>c DEF LeftInv, Done
<1>7. ChannelKept'
  BY Typed, <1>a, <1>b, <1>c DEF ChannelKept, Running, ParentUses, ChildUses,
     FamilyInv, Done
<1>8. InSequence'
  BY Typed, <1>a, <1>b, <1>c DEF InSequence
<1> QED  BY <1>1, <1>2, <1>3, <1>4, <1>5, <1>6, <1>7, <1>8

\* The method of the child comes before its report.
LEMMA PostForkChildMethodInv ==
    ASSUME Inv, NEW k \in Forks, PostForkChildMethod(k)
    PROVE  Inv'
<1> USE DEF Inv
<1>a. /\ cpc[k] = "method"
      /\ \A j \in Forks : caller[j] = k => ppc[j] \in Done
  BY Members DEF PostForkChildMethod, ParentAt, ChildAt, Innermost, Active,
     Running, TypeOK
<1>b. /\ \A q \in Procs : cpc'[q] = IF q = k THEN "ring" ELSE cpc[q]
  BY Typed, <1>a, Members DEF PostForkChildMethod, ParentTo, ChildTo, TypeOK
<1>c. UNCHANGED <<caller, ppc, fds, chain, black, white, bell, ack, pipe,
        result, faults, kills>>
  BY DEF PostForkChildMethod, lists, talk, counts
<1>1. TypeOK'
  BY <1>a, <1>c, Members DEF PostForkChildMethod, ParentTo, ChildTo, TypeOK,
     Parent, Done, Child
<1>2. FamilyInv'
  BY Typed, <1>a, <1>b, <1>c DEF FamilyInv
<1>3. ReportInv'
  BY Typed, <1>a, <1>b, <1>c DEF ReportInv
<1>4. EndsInv'
  BY Typed, <1>a, <1>b, <1>c DEF EndsInv, Running
<1>5. ChainInv'
  BY Typed, <1>a, <1>b, <1>c DEF ChainInv, Running, ParentUses, ChildUses, Done
<1>6. LeftInv'
  BY Typed, <1>a, <1>b, <1>c DEF LeftInv, Done
<1>7. ChannelKept'
  BY Typed, <1>a, <1>b, <1>c DEF ChannelKept, Running, ParentUses, ChildUses,
     FamilyInv
<1>8. InSequence'
  BY Typed, <1>a, <1>b, <1>c DEF InSequence
<1> QED  BY <1>1, <1>2, <1>3, <1>4, <1>5, <1>6, <1>7, <1>8

\* A child that fails keeps its channel to say so.
LEMMA ChildFaultInv ==
    ASSUME Inv, NEW k \in Forks, ChildFault(k)
    PROVE  Inv'
<1> USE DEF Inv
<1>a. /\ cpc[k] \in {"born", "whitelist", "method"}
      /\ faults < MaxFaults
      /\ \A j \in Forks : caller[j] = k => ppc[j] \in Done
  BY Members DEF ChildFault, ParentAt, ChildAt, Innermost, Active, Running,
     TypeOK, Fault, Kept
<1>b. /\ \A q \in Procs : cpc'[q] = IF q = k THEN "ring" ELSE cpc[q]
      /\ faults' = faults + 1
      /\ \A j \in Forks : result'[j] = IF j = k THEN "error" ELSE result[j]
      /\ \A q \in Procs, j \in Forks, s \in Sides :
            End(j, s) \in fds'[q] => End(j, s) \in fds[q]
      /\ \A q \in Procs, j \in Forks, s \in Sides :
            End(j, s) \in fds[q] /\ (q # k \/ j = k) => End(j, s) \in fds'[q]
  BY Typed, <1>a, Members DEF ChildFault, ParentTo, ChildTo, TypeOK, Fault,
     Kept
<1>c. UNCHANGED <<caller, ppc, chain, black, white, bell, ack, pipe, kills>>
  BY DEF ChildFault, lists, talk, counts, Fault, Kept
<1>1. TypeOK'
  BY <1>a, <1>c, Members, BoundsAssumption DEF ChildFault, ParentTo, ChildTo,
     TypeOK, Parent, Done, Child, Fault, Kept
<1>2. FamilyInv'
  BY Typed, <1>a, <1>b, <1>c DEF FamilyInv
<1>3. ReportInv'
  BY Typed, <1>a, <1>b, <1>c DEF ReportInv
<1>4. EndsInv'
  BY Typed, <1>a, <1>b, <1>c DEF EndsInv, Running, FamilyInv, Done
<1>5. ChainInv'
  BY Typed, <1>a, <1>b, <1>c DEF ChainInv, Running, ParentUses, ChildUses, Done
<1>6. LeftInv'
  BY Typed, <1>a, <1>b, <1>c DEF LeftInv, Done
<1>7. ChannelKept'
  BY Typed, <1>a, <1>b, <1>c DEF ChannelKept, Running, ParentUses, ChildUses,
     FamilyInv, Done
<1>8. InSequence'
  BY Typed, <1>a, <1>b, <1>c DEF InSequence
<1> QED  BY <1>1, <1>2, <1>3, <1>4, <1>5, <1>6, <1>7, <1>8

\* The bell comes before the report.
LEMMA RingResultInv ==
    ASSUME Inv, NEW k \in Forks, RingResult(k)
    PROVE  Inv'
<1> USE DEF Inv
<1>a. /\ cpc[k] = "ring"
      /\ \A j \in Forks : caller[j] = k => ppc[j] \in Done
  BY Members DEF RingResult, ParentAt, ChildAt, Innermost, Active, Running,
     TypeOK
<1>b. /\ \A q \in Procs : cpc'[q] = IF q = k THEN "code" ELSE cpc[q]
  BY Typed, <1>a, Members DEF RingResult, ParentTo, ChildTo, TypeOK
<1>c. UNCHANGED <<caller, ppc, fds, chain, black, white, ack, pipe, result,
        faults, kills>>
  BY DEF RingResult, lists, talk, counts
<1>1. TypeOK'
  BY <1>a, <1>c, Members DEF RingResult, ParentTo, ChildTo, TypeOK, Parent,
     Done, Child
<1>2. FamilyInv'
  BY Typed, <1>a, <1>b, <1>c DEF FamilyInv
<1>3. ReportInv'
  BY Typed, <1>a, <1>b, <1>c DEF ReportInv
<1>4. EndsInv'
  BY Typed, <1>a, <1>b, <1>c DEF EndsInv, Running
<1>5. ChainInv'
  BY Typed, <1>a, <1>b, <1>c DEF ChainInv, Running, ParentUses, ChildUses, Done
<1>6. LeftInv'
  BY Typed, <1>a, <1>b, <1>c DEF LeftInv, Done
<1>7. ChannelKept'
  BY Typed, <1>a, <1>b, <1>c DEF ChannelKept, Running, ParentUses, ChildUses,
     FamilyInv
<1>8. InSequence'
  BY Typed, <1>a, <1>b, <1>c DEF InSequence
<1> QED  BY <1>1, <1>2, <1>3, <1>4, <1>5, <1>6, <1>7, <1>8

\* What the child writes first is its result.
LEMMA WriteCodeInv ==
    ASSUME Inv, NEW k \in Forks, WriteCode(k)
    PROVE  Inv'
<1> USE DEF Inv
<1>a. /\ cpc[k] = "code"
      /\ result[k] \in {"ok", "error"}
      /\ \A j \in Forks : caller[j] = k => ppc[j] \in Done
  BY Members DEF WriteCode, ParentAt, ChildAt, Innermost, Active, Running,
     TypeOK
<1>b. /\ \A q \in Procs :
           cpc'[q] = IF q = k THEN IF result[k] = "ok" THEN "await"
              ELSE "frames" ELSE cpc[q]
      /\ \A j \in Forks : pipe'[j] = IF j = k THEN Append(pipe[k], result[k])
           ELSE pipe[j]
      /\ pipe[k] = <<>>
      /\ pipe'[k] # <<>> /\ Head(pipe'[k]) = result[k]
  <2>1. \A q \in Procs :
          cpc'[q] = IF q = k THEN IF result[k] = "ok" THEN "await"
             ELSE "frames" ELSE cpc[q]
    BY Typed, <1>a, Members DEF WriteCode, ParentTo, ChildTo, TypeOK
  <2>2. \A j \in Forks : pipe'[j] = IF j = k THEN Append(pipe[k], result[k])
          ELSE pipe[j]
    BY Typed, <1>a, Members DEF WriteCode, ParentTo, ChildTo, TypeOK
  <2>3. pipe[k] = <<>>
    BY Typed, <1>a, Members DEF WriteCode, ParentTo, ChildTo, TypeOK, ReportInv
  <2>4. pipe'[k] # <<>> /\ Head(pipe'[k]) = result[k]
    BY Typed, <1>a, Members, <2>2, <2>3 DEF WriteCode, ParentTo, ChildTo,
       TypeOK
  <2> QED  BY <2>1, <2>2, <2>3, <2>4
<1>c. UNCHANGED <<caller, ppc, fds, chain, black, white, bell, ack, result,
        faults, kills>>
  BY DEF WriteCode, lists, talk, counts
<1>1. TypeOK'
  BY <1>a, <1>c, Members DEF WriteCode, ParentTo, ChildTo, TypeOK, Parent,
     Done, Child
<1>2. FamilyInv'
  BY Typed, <1>a, <1>b, <1>c DEF FamilyInv
<1>3. ReportInv'
  BY Typed, <1>a, <1>b, <1>c DEF ReportInv
<1>4. EndsInv'
  BY Typed, <1>a, <1>b, <1>c DEF EndsInv, Running
<1>5. ChainInv'
  BY Typed, <1>a, <1>b, <1>c DEF ChainInv, Running, ParentUses, ChildUses, Done
<1>6. LeftInv'
  BY Typed, <1>a, <1>b, <1>c DEF LeftInv, Done
<1>7. ChannelKept'
  BY Typed, <1>a, <1>b, <1>c DEF ChannelKept, Running, ParentUses, ChildUses,
     FamilyInv
<1>8. InSequence'
  BY Typed, <1>a, <1>b, <1>c DEF InSequence
<1> QED  BY <1>1, <1>2, <1>3, <1>4, <1>5, <1>6, <1>7, <1>8

\* The frames follow the code.
LEMMA FreezeFramesInv ==
    ASSUME Inv, NEW k \in Forks, FreezeFrames(k)
    PROVE  Inv'
<1> USE DEF Inv
<1>a. /\ cpc[k] = "frames"
      /\ \A j \in Forks : caller[j] = k => ppc[j] \in Done
  BY Members DEF FreezeFrames, ParentAt, ChildAt, Innermost, Active, Running,
     TypeOK
<1>b. /\ \A q \in Procs : cpc'[q] = IF q = k THEN "leave" ELSE cpc[q]
      /\ \A j \in Forks : pipe'[j] = IF j = k THEN Append(pipe[k], "frames")
           ELSE pipe[j]
      /\ pipe'[k] # <<>> /\ (pipe[k] # <<>> => Head(pipe'[k]) = Head(pipe[k]))
  BY Typed, <1>a, Members DEF FreezeFrames, ParentTo, ChildTo, TypeOK
<1>c. UNCHANGED <<caller, ppc, fds, chain, black, white, bell, ack, result,
        faults, kills>>
  BY DEF FreezeFrames, lists, talk, counts
<1>1. TypeOK'
  BY <1>a, <1>c, Members DEF FreezeFrames, ParentTo, ChildTo, TypeOK, Parent,
     Done, Child
<1>2. FamilyInv'
  BY Typed, <1>a, <1>b, <1>c DEF FamilyInv
<1>3. ReportInv'
  BY Typed, <1>a, <1>b, <1>c DEF ReportInv
<1>4. EndsInv'
  BY Typed, <1>a, <1>b, <1>c DEF EndsInv, Running
<1>5. ChainInv'
  BY Typed, <1>a, <1>b, <1>c DEF ChainInv, Running, ParentUses, ChildUses, Done
<1>6. LeftInv'
  BY Typed, <1>a, <1>b, <1>c DEF LeftInv, Done
<1>7. ChannelKept'
  BY Typed, <1>a, <1>b, <1>c DEF ChannelKept, Running, ParentUses, ChildUses,
     FamilyInv
<1>8. InSequence'
  BY Typed, <1>a, <1>b, <1>c DEF InSequence
<1> QED  BY <1>1, <1>2, <1>3, <1>4, <1>5, <1>6, <1>7, <1>8

\* The child closes its channel and begins.
LEMMA RecvAcknowledgementInv ==
    ASSUME Inv, NEW k \in Forks, RecvAcknowledgement(k)
    PROVE  Inv'
<1> USE DEF Inv
<1>a. /\ cpc[k] = "await"
      /\ ack[k] = 1
      /\ \A j \in Forks : caller[j] = k => ppc[j] \in Done
  BY Members DEF RecvAcknowledgement, ParentAt, ChildAt, Innermost, Active,
     Running, TypeOK
<1>b. /\ \A q \in Procs : cpc'[q] = IF q = k THEN "run" ELSE cpc[q]
      /\ \A j \in Forks : ack'[j] = IF j = k THEN 0 ELSE ack[j]
      /\ \A q \in Procs, j \in Forks, s \in Sides :
            End(j, s) \in fds'[q] <=> End(j, s) \in fds[q]
               /\ ~ (q = k /\ j = k)
      /\ \A q \in Procs, j \in Forks :
            j \in chain'[q] <=> j \in chain[q] /\ q # k
  BY Typed, <1>a, Members DEF RecvAcknowledgement, ParentTo, ChildTo, TypeOK
<1>c. UNCHANGED <<caller, ppc, black, white, bell, pipe, result, faults,
        kills>>
  BY DEF RecvAcknowledgement, lists, talk, counts
<1>1. TypeOK'
  BY <1>a, <1>c, Members DEF RecvAcknowledgement, ParentTo, ChildTo, TypeOK,
     Parent, Done, Child
<1>2. FamilyInv'
  BY Typed, <1>a, <1>b, <1>c DEF FamilyInv
<1>3. ReportInv'
  BY Typed, <1>a, <1>b, <1>c DEF ReportInv
<1>4. EndsInv'
  BY Typed, <1>a, <1>b, <1>c DEF EndsInv, Running, FamilyInv, Done
<1>5. ChainInv'
  BY Typed, <1>a, <1>b, <1>c DEF ChainInv, Running, ParentUses, ChildUses, Done
<1>6. LeftInv'
  BY Typed, <1>a, <1>b, <1>c DEF LeftInv, Done
<1>7. ChannelKept'
  BY Typed, <1>a, <1>b, <1>c DEF ChannelKept, Running, ParentUses, ChildUses,
     FamilyInv
<1>8. InSequence'
  BY Typed, <1>a, <1>b, <1>c DEF InSequence, ReportInv
<1> QED  BY <1>1, <1>2, <1>3, <1>4, <1>5, <1>6, <1>7, <1>8

\* Wherever a process ends, or is killed, it takes its ends with it.
LEMMA ExitInv ==
    ASSUME Inv, NEW p \in Procs, Running(p), kills' \in 0 .. MaxKills, Exit(p)
    PROVE  Inv'
<1> USE DEF Inv
<1>a. /\ p \in Procs /\ Running(p)
  BY Members DEF Exit, ParentAt, ChildAt, Innermost, Active, Running, TypeOK
<1>b. /\ \A q \in Procs : cpc'[q] = IF q = p THEN "gone" ELSE cpc[q]
      /\ \A q \in Procs : fds'[q] = IF q = p THEN {} ELSE fds[q]
  BY Typed, <1>a, Members DEF Exit, ParentTo, ChildTo, TypeOK
<1>c. UNCHANGED <<caller, ppc, chain, black, white, bell, ack, pipe, result,
        faults>>
  BY DEF Exit, lists, talk, counts
<1>1. TypeOK'
  BY <1>a, <1>c, Members DEF Exit, ParentTo, ChildTo, TypeOK, Parent, Done,
     Child
<1>2. FamilyInv'
  BY Typed, <1>a, <1>b, <1>c DEF FamilyInv, Running
<1>3. ReportInv'
  BY Typed, <1>a, <1>b, <1>c DEF ReportInv
<1>4. EndsInv'
  BY Typed, <1>a, <1>b, <1>c DEF EndsInv, Running
<1>5. ChainInv'
  BY Typed, <1>a, <1>b, <1>c DEF ChainInv, Running, ParentUses, ChildUses, Done
<1>6. LeftInv'
  BY Typed, <1>a, <1>b, <1>c DEF LeftInv, Done
<1>7. ChannelKept'
  BY Typed, <1>a, <1>b, <1>c DEF ChannelKept, Running, ParentUses, ChildUses,
     FamilyInv
<1>8. InSequence'
  BY Typed, <1>a, <1>b, <1>c DEF InSequence
<1> QED  BY <1>1, <1>2, <1>3, <1>4, <1>5, <1>6, <1>7, <1>8

\* Nobody has forked.
LEMMA InitInv == Init => Inv
<1> SUFFICES ASSUME Init PROVE Inv
  OBVIOUS
<1>1. TypeOK
  BY Members, BoundsAssumption DEF Init, TypeOK, Parent, Child, Done
<1>2. /\ \A k \in Forks : /\ k \in Procs /\ k # Root
                          /\ ppc[k] = "none" /\ cpc[k] = "none"
                          /\ pipe[k] = <<>> /\ result[k] = "ok" /\ ack[k] = 0
      /\ cpc[Root] = "run"
      /\ \A p \in Procs : fds[p] = {}
  BY Members DEF Init
<1>3. FamilyInv /\ ReportInv /\ InSequence
  BY <1>2 DEF FamilyInv, ReportInv, InSequence
<1>4. EndsInv /\ ChainInv /\ LeftInv /\ ChannelKept
  BY <1>2 DEF EndsInv, ChainInv, LeftInv, ChannelKept, ParentUses, ChildUses
<1> QED  BY <1>1, <1>3, <1>4 DEF Inv

\* Every step keeps the invariant.
LEMMA NextInv == Inv /\ [Next]_vars => Inv'
<1>1. ASSUME Inv, NEW k \in Forks, ParentStep(k) PROVE Inv'
  BY <1>1, PreForkMethodInv, CreateChannelInv, ForkInv, SetGroupInv, HearBellInv,
     ReadCodeInv, ThawFramesInv, ParentEofInv, PostForkParentMethodInv,
     CloseOnlyBlackListInv, SendAcknowledgementInv, ParentFaultInv, FinallyInv,
     ReapInv DEF ParentStep
<1>2. ASSUME Inv PROVE kills \in 0 .. MaxKills
  BY <1>2 DEF Inv, TypeOK
<1>3. ASSUME Inv, NEW k \in Forks, Leave(k) \/ ChildEof(k) \/ EndForkMethod(k)
      PROVE  Inv'
  <2>1. k \in Procs /\ Running(k) /\ Exit(k) /\ kills' = kills
    BY <1>3, Members DEF Leave, ChildEof, EndForkMethod, ChildAt, Running
  <2> QED  BY <1>2, <1>3, <2>1, ExitInv
<1>4. ASSUME Inv, NEW k \in Forks, ChildStep(k) PROVE Inv'
  BY <1>3, <1>4, CloseParentEndsInv, CloseExceptWhiteListInv,
     PostForkChildMethodInv, ChildFaultInv, RingResultInv, WriteCodeInv,
     FreezeFramesInv, RecvAcknowledgementInv DEF ChildStep
<1>5. ASSUME Inv, NEW p \in Procs, Kill(p) PROVE Inv'
  <2>1. Running(p) /\ Exit(p) /\ kills' = kills + 1 /\ kills < MaxKills
    BY <1>5 DEF Kill
  <2>2. kills' \in 0 .. MaxKills
    BY <1>2, <1>5, <2>1, BoundsAssumption
  <2> QED  BY <1>5, <2>1, <2>2, ExitInv
<1>6. ASSUME Inv, UNCHANGED vars PROVE Inv'
  BY <1>6 DEF vars, Inv, TypeOK, FamilyInv, ReportInv, EndsInv, ChainInv,
     LeftInv, ChannelKept, InSequence, Running
<1> QED  BY <1>1, <1>3, <1>4, <1>5, <1>6, CallInv DEF Next

\* The invariant that every property of the protocol follows from.
THEOREM Invariance == Spec => []Inv
BY InitInv, NextInv, PTL DEF Spec

\* The bells, the pipe and the bounded counters stay in their types.
THEOREM TypeCorrect == Spec => []TypeOK
<1>1. Inv => TypeOK
  BY DEF Inv
<1> QED  BY <1>1, Invariance, PTL

\* No closing of descriptors by the lists of this or of a nested fork takes
\* an end from a process that still uses it (process.c:2152, 2216).
THEOREM BellsWork == Spec => []ChannelKept
<1>1. Inv => ChannelKept
  BY DEF Inv
<1> QED  BY <1>1, Invariance, PTL

\* The parent's method and closing follow the child's, and success on one
\* side means success on the other (process.c:2074).
THEOREM Sequenced == Spec => []InSequence
<1>1. Inv => InSequence
  BY DEF Inv
<1> QED  BY <1>1, Invariance, PTL

\* The channel is closed in the parent however the fork ends, and in a child
\* before its method runs.
THEOREM Tidy == Spec => []NothingLeft
<1>1. ASSUME Inv, NEW k \in Forks, Running(caller[k]),
             ppc[k] \in Done \cup {"reap"}
      PROVE  fds[caller[k]] \cap EndsOf(k) = {}
  <2>1. caller[k] \in Procs /\ \A side \in Sides : End(k, side) \notin fds[caller[k]]
    BY <1>1 DEF Inv, TypeOK, EndsInv, Done
  <2> QED  BY <2>1 DEF EndsOf
<1>2. ASSUME Inv, NEW k \in Forks, cpc[k] = "run", Active(k) = {},
             NEW end \in fds[k]
      PROVE  end \in white[k]
  <2>1. result[k] = "ok" /\ \A j \in Forks : caller[j] = k => ppc[j] \in Done
    BY <1>2 DEF Inv, ReportInv, Active
  <2>2. PICK j \in Forks, side \in Sides : end = End(j, side)
    BY <1>2, Members DEF Inv, TypeOK, Ends
  <2> QED  BY <1>2, <2>1, <2>2 DEF Inv, LeftInv
<1>3. Inv => NothingLeft
  BY <1>1, <1>2 DEF NothingLeft
<1> QED  BY <1>3, Invariance, PTL

\* Decisions and returns are made by the caller, and everything else that
\* AtomicFork shows of a fork by its child.
LEMMA StepRefines ==
    ASSUME Inv, [Next]_vars
    PROVE  [Abstract!Next]_(Abstract!vars)
<1> USE DEF Inv
<1>0. \A j \in Forks : j \in Procs /\ caller[j] \in Procs /\ j # Root
  BY Members DEF TypeOK
<1> DEFINE Same(j) == /\ Outcome(j)' = Outcome(j)
                      /\ Stage(j)' = Stage(j)
                      /\ Returned(j)' = Returned(j)
<1>1. (\A j \in Forks : Same(j)) => UNCHANGED Abstract!vars
  BY DEF Abstract!vars
<1>2. ASSUME NEW k \in Forks, NEW pc, NEW to, ParentAt(k, pc), ParentTo(k, to),
             UNCHANGED <<caller, cpc>>
      PROVE  /\ ppc[k] = pc /\ Running(caller[k])
             /\ ppc'[k] = to /\ Running(caller[k])'
             /\ \A j \in Forks : Stage(j)' = Stage(j)
             /\ \A j \in Forks : j # k => Same(j)
  BY <1>2 DEF ParentAt, ParentTo, TypeOK, Running, Outcome, Stage, Returned
<1>3. ASSUME NEW k \in Forks, NEW to, ChildTo(k, to), Running(k),
             to \in {"whitelist", "method", "ring", "code", "frames", "leave",
                     "await", "run"},
             UNCHANGED <<caller, ppc>>
      PROVE  /\ cpc'[k] = to
             /\ \A j \in Forks : Outcome(j)' = Outcome(j) /\ Returned(j)' = Returned(j)
             /\ \A j \in Forks : j # k => Same(j)
  BY <1>0, <1>3 DEF ChildTo, TypeOK, Running, Outcome, Stage, Returned
<1>4. ASSUME NEW p \in Procs, NEW k \in Forks, Call(p, k)
      PROVE  \A j \in Forks : Same(j)
  <2>1. Running(p) /\ Running(p)' /\ ppc[k] = "none" /\ ppc'[k] = "prefork"
        /\ caller'[k] = p
    BY <1>4 DEF Call, MayFork, ParentTo, TypeOK, Running
  <2>2. /\ cpc' = cpc
        /\ \A j \in Forks : j # k => ppc'[j] = ppc[j] /\ caller'[j] = caller[j]
    BY <1>4 DEF Call, ParentTo, TypeOK
  <2> QED  BY <2>1, <2>2 DEF Running, Outcome, Stage, Returned
<1>5. ASSUME NEW k \in Forks,
             \/ PreForkMethod(k) \/ CreateChannel(k) \/ SetGroup(k)
             \/ HearBell(k) \/ ReadCode(k) \/ PostForkParentMethod(k)
             \/ CloseOnlyBlackList(k)
      PROVE  \A j \in Forks : Same(j)
  <2> DEFINE Open == {"prefork", "channel", "fork", "group", "bell", "code",
                      "thaw", "method", "blacklist", "ring"}
  <2>1. \E pc, to \in Open : ParentAt(k, pc) /\ ParentTo(k, to)
    BY <1>5 DEF PreForkMethod, CreateChannel, SetGroup, HearBell, ReadCode,
       PostForkParentMethod, CloseOnlyBlackList
  <2>2. UNCHANGED <<caller, cpc>>
    BY <1>5 DEF PreForkMethod, CreateChannel, SetGroup, HearBell, ReadCode,
       PostForkParentMethod, CloseOnlyBlackList
  <2> QED  BY <1>2, <2>1, <2>2 DEF Outcome, Returned
<1>6. ASSUME NEW k \in Forks, Fork(k) PROVE Abstract!Make(k)
  <2>1. /\ ppc[k] = "fork" /\ ppc'[k] = "group" /\ caller' = caller
        /\ Running(caller[k])
        /\ \A j \in Forks : j # k => ppc'[j] = ppc[j]
        /\ \A q \in Procs : cpc'[q] = IF q = k THEN "born" ELSE cpc[q]
    BY <1>0, <1>6 DEF Fork, ParentAt, ParentTo, ChildTo, TypeOK
  <2>2. cpc[k] = "none" /\ caller[k] # k
        /\ \A j \in Forks : caller[j] = k => ppc[j] = "none"
    BY <2>1 DEF FamilyInv
  <2>3. Outcome(k) = "open" /\ Stage(k) = "none" /\ Stage(k)' = "made"
    BY <1>0, <2>1, <2>2 DEF Outcome, Stage
  <2>4. \A j \in Forks : /\ Outcome(j)' = Outcome(j)
                         /\ j # k => Stage(j)' = Stage(j)
                         /\ Returned(j)' = Returned(j)
    BY <1>0, <2>1, <2>2 DEF Running, Outcome, Stage, Returned
  <2> QED  BY <2>3, <2>4 DEF Abstract!Make
<1>7. ASSUME NEW k \in Forks, ThawFrames(k) \/ ParentEof(k) \/ ParentFault(k)
      PROVE  Abstract!Abandon(k)
  <2>1. /\ \E pc \in {"prefork", "channel", "fork", "group", "bell", "code",
                      "thaw", "method", "blacklist", "ring"} : ParentAt(k, pc)
        /\ ParentTo(k, "undo") /\ UNCHANGED <<caller, cpc>>
    BY <1>7 DEF ThawFrames, ParentEof, ParentFault
  <2>2. /\ \A j \in Forks : Stage(j)' = Stage(j) /\ Returned(j)' = Returned(j)
        /\ Outcome(k) = "open" /\ Outcome(k)' = "neither"
        /\ \A j \in Forks : j # k => Outcome(j)' = Outcome(j)
    BY <1>2, <2>1 DEF Outcome, Returned
  <2> QED  BY <2>2 DEF Abstract!Abandon
<1>8. ASSUME NEW k \in Forks, SendAcknowledgement(k) PROVE Abstract!Agree(k)
  <2>1. ParentAt(k, "ring") /\ ParentTo(k, "acked") /\ UNCHANGED <<caller, cpc>>
    BY <1>8 DEF SendAcknowledgement
  <2>2. cpc[k] # "none" /\ cpc[k] \in Child
    BY <1>0, <2>1 DEF ParentAt, FamilyInv, TypeOK
  <2>3. /\ \A j \in Forks : Stage(j)' = Stage(j) /\ Returned(j)' = Returned(j)
        /\ Outcome(k) = "open" /\ Outcome(k)' = "both" /\ Stage(k) # "none"
        /\ \A j \in Forks : j # k => Outcome(j)' = Outcome(j)
    BY <1>2, <2>1, <2>2 DEF Outcome, Stage, Returned, Child
  <2> QED  BY <2>3 DEF Abstract!Agree
<1>9. ASSUME NEW k \in Forks, Finally(k)
      PROVE  \/ Abstract!ReturnPid(k) \/ Abstract!ReturnError(k)
             \/ \A j \in Forks : Same(j)
  <2> DEFINE to == IF ppc[k] = "acked" THEN "pid"
                   ELSE IF cpc[k] = "none" THEN "error" ELSE "reap"
  <2>1. /\ ParentAt(k, "acked") \/ ParentAt(k, "undo")
        /\ ParentTo(k, to) /\ UNCHANGED <<caller, cpc>>
    BY <1>9 DEF Finally
  <2>2. /\ \A j \in Forks : Stage(j)' = Stage(j)
        /\ \A j \in Forks : j # k => Same(j)
        /\ Outcome(k)' = Outcome(k)
    BY <1>2, <2>1 DEF Outcome
  <2>3. CASE ppc[k] = "acked"
    <3>1. /\ Outcome(k) = "both" /\ Returned(k) = "nothing"
          /\ Returned(k)' = "pid"
      BY <1>2, <2>1, <2>3 DEF Outcome, Returned
    <3> QED  BY <2>2, <3>1 DEF Abstract!ReturnPid
  <2>4. CASE ppc[k] = "undo" /\ cpc[k] = "none"
    <3>1. /\ Outcome(k) = "neither" /\ Stage(k) = "none"
          /\ Returned(k) = "nothing" /\ Returned(k)' = "error"
      BY <1>2, <2>1, <2>4 DEF Outcome, Stage, Returned
    <3> QED  BY <2>2, <3>1 DEF Abstract!ReturnError
  <2>5. CASE ppc[k] = "undo" /\ cpc[k] # "none"
    BY <1>2, <2>1, <2>2, <2>5 DEF Returned
  <2> QED  BY <2>1, <2>3, <2>4, <2>5 DEF ParentAt
<1>10. ASSUME NEW k \in Forks, Reap(k) PROVE Abstract!Reap(k)
  <2>1. /\ ppc[k] = "reap" /\ ppc'[k] = "error" /\ caller' = caller
        /\ \A j \in Forks : j # k => ppc'[j] = ppc[j]
        /\ cpc[k] = "gone"
        /\ \A q \in Procs : cpc'[q] = IF q = k THEN "reaped" ELSE cpc[q]
    BY <1>0, <1>10 DEF Reap, ParentAt, ParentTo, ChildTo, TypeOK
  <2>2. /\ Outcome(k) = "neither" /\ Stage(k) = "gone" /\ Stage(k)' = "reaped"
        /\ Returned(k)' = "error"
    BY <1>0, <2>1 DEF Outcome, Stage, Returned
  <2>3. \A j \in Forks : /\ Outcome(j)' = Outcome(j)
                         /\ j # k => Stage(j)' = Stage(j)
                         /\ j # k => Returned(j)' = Returned(j)
    BY <1>0, <2>1 DEF Running, Outcome, Stage, Returned
  <2> QED  BY <2>2, <2>3 DEF Abstract!Reap
<1>11. ASSUME NEW k \in Forks, RecvAcknowledgement(k) PROVE Abstract!Begin(k)
  <2>1. /\ cpc[k] = "await" /\ ChildTo(k, "run") /\ ack[k] = 1
        /\ UNCHANGED <<caller, ppc>>
    BY <1>11 DEF RecvAcknowledgement, ChildAt
  <2>2. /\ Outcome(k) = "both" /\ Stage(k) = "made" /\ Stage(k)' = "begun"
        /\ \A j \in Forks : Outcome(j)' = Outcome(j) /\ Returned(j)' = Returned(j)
        /\ \A j \in Forks : j # k => Stage(j)' = Stage(j)
    BY <1>0, <1>3, <2>1 DEF ReportInv, Running, Outcome, Stage
  <2> QED  BY <2>2 DEF Abstract!Begin
<1>12. ASSUME NEW k \in Forks,
              \/ CloseParentEnds(k) \/ CloseExceptWhiteList(k)
              \/ PostForkChildMethod(k) \/ ChildFault(k) \/ RingResult(k)
              \/ WriteCode(k) \/ FreezeFrames(k)
       PROVE  \A j \in Forks : Same(j)
  <2> DEFINE Early == {"born", "whitelist", "method", "ring", "code", "frames",
                       "leave", "await"}
  <2>1. /\ cpc[k] \in Early
        /\ \E to \in Early \ {"born"} : ChildTo(k, to)
        /\ UNCHANGED <<caller, ppc>>
    BY <1>12 DEF CloseParentEnds, CloseExceptWhiteList, PostForkChildMethod,
       ChildFault, RingResult, WriteCode, FreezeFrames, ChildAt
  <2> QED  BY <1>0, <1>3, <2>1 DEF Running, Stage
<1>13. ASSUME NEW p \in Procs, Running(p), Exit(p)
       PROVE  \E gone, abandoned \in SUBSET Forks : Abstract!End(gone, abandoned)
  <2> DEFINE gone == {j \in Forks : j = p}
             abandoned == {j \in Forks : caller[j] = p /\ Outcome(j) = "open"
                                         /\ ppc[j] # "none"}
  <2>1. /\ \A q \in Procs : cpc'[q] = IF q = p THEN "gone" ELSE cpc[q]
        /\ UNCHANGED <<caller, ppc>>
    BY <1>13 DEF Exit, ChildTo, TypeOK
  <2>2. \A j \in Forks :
            /\ Stage(j)' = IF j \in gone THEN "gone" ELSE Stage(j)
            /\ j \in gone => Stage(j) \in {"made", "begun"}
            /\ Returned(j)' = Returned(j)
    BY <1>0, <1>13, <2>1 DEF Running, Stage, Returned
  <2>3. \A j \in Forks :
            Outcome(j)' = IF j \in abandoned THEN "neither" ELSE Outcome(j)
    BY <1>0, <1>13, <2>1 DEF Running, Outcome
  <2>4. gone \in SUBSET Forks /\ abandoned \in SUBSET Forks
    OBVIOUS
  <2>5. Abstract!End(gone, abandoned)
    BY <2>2, <2>3 DEF Abstract!End
  <2> QED  BY <2>4, <2>5
<1>14. ASSUME NEW k \in Forks, Leave(k) \/ ChildEof(k) \/ EndForkMethod(k)
       PROVE  \E gone, abandoned \in SUBSET Forks : Abstract!End(gone, abandoned)
  <2>1. k \in Procs /\ Running(k) /\ Exit(k)
    BY <1>0, <1>14 DEF Leave, ChildEof, EndForkMethod, ChildAt, Running
  <2> QED  BY <1>13, <2>1
<1>15. ASSUME NEW k \in Forks, ParentStep(k)
       PROVE  [Abstract!Next]_(Abstract!vars)
  BY <1>1, <1>5, <1>6, <1>7, <1>8, <1>9, <1>10, <1>15
     DEF ParentStep, Abstract!Next
<1>16. ASSUME NEW k \in Forks, ChildStep(k)
       PROVE  [Abstract!Next]_(Abstract!vars)
  BY <1>1, <1>11, <1>12, <1>14, <1>16 DEF ChildStep, Abstract!Next
<1>17. CASE UNCHANGED vars
  <2>1. \A j \in Forks : Same(j)
    BY <1>17 DEF vars, Running, Outcome, Stage, Returned
  <2> QED  BY <1>1, <2>1
<1>18. ASSUME NEW p \in Procs, Kill(p)
       PROVE  \E gone, abandoned \in SUBSET Forks : Abstract!End(gone, abandoned)
  BY <1>13, <1>18 DEF Kill
<1>19. CASE Next
  BY <1>1, <1>4, <1>14, <1>15, <1>16, <1>18, <1>19 DEF Next, Abstract!Next
<1> QED  BY <1>17, <1>19

\* Every fork succeeds on both sides or on neither, and leaves no process
\* behind if it fails.
THEOREM Refinement == Spec => AtomicForkSpec
<1>1. Init => Abstract!Init
  BY Members DEF Init, Abstract!Init, Outcome, Stage, Returned, Running
<1> QED  BY <1>1, StepRefines, Invariance, PTL DEF Spec, AtomicForkSpec,
   Abstract!Spec

=============================================================================
