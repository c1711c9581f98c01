------------------------------- MODULE TestFaults -------------------------------
(***************************************************************************)
(* Injected failures: test.c.  Every step of the library that can fail     *)
(* first asks ert_testFinally() whether it is to fail.  The count of these *)
(* questions is in a page that a program shares with the processes that it *)
(* forks, so that one of all of them fails.  A process has one thread; a   *)
(* test module can be initialised and exited more than once.               *)
(***************************************************************************)
EXTENDS Integers, FiniteSets

CONSTANTS
    FaultProcs,     \* processes
    Program,        \* the one that forks the others
    MaxLevel,       \* bound on questions, and on the trigger
    MaxInits        \* bound on initialisations in a process

ASSUME TestFaultsAssumption == Program \in FaultProcs /\ {MaxLevel, MaxInits} \subseteq Nat

VARIABLES
    running,        \* processes that were started
    page,           \* the shared page: [error, trigger]
    testState,      \* processes that have the page: testState_ # 0
    moduleInit,     \* moduleInit_ of every process
    question,       \* the count that a process in ert_testFinally() has got, or 0
    injected        \* history: the questions that failed, as <<process, count>>

faultVars == <<running, page, testState, moduleInit, question, injected>>

TestFaultsTypeOK ==
    /\ {running, testState} \subseteq SUBSET FaultProcs
    /\ page \in [error : 0 .. MaxLevel, trigger : 0 .. MaxLevel]
    /\ moduleInit \in [FaultProcs -> 0 .. MaxInits]
    /\ question \in [FaultProcs -> 0 .. MaxLevel]
    /\ injected \subseteq FaultProcs \X (0 .. MaxLevel)

TestFaultsInit ==
    /\ running = {Program} /\ page = [error |-> 0, trigger |-> 0] /\ testState = {}
    /\ moduleInit = [p \in FaultProcs |-> 0] /\ question = [p \in FaultProcs |-> 0]
    /\ injected = {}

\* Ert_Test_init(): the trigger of the environment is read once, and the page is made
\* once.  Only the program does it before it forks.
InitTest(p) ==
    /\ p \in running /\ question[p] = 0 /\ moduleInit[p] < MaxInits
    /\ moduleInit' = [moduleInit EXCEPT ![p] = @ + 1]
    /\ IF moduleInit[p] = 0
       THEN /\ running = {Program} /\ testState' = testState \cup {p}
            /\ page' \in [error : {1}, trigger : 0 .. MaxLevel]
       ELSE UNCHANGED <<testState, page>>
    /\ UNCHANGED <<running, question, injected>>

\* Ert_Test_exit() unmaps the page whoever else has initialised the module, and leaves
\* the count of them.
ExitTest(p) ==
    /\ p \in running /\ question[p] = 0 /\ moduleInit[p] > 0
    /\ testState' = testState \ {p}
    /\ UNCHANGED <<running, page, moduleInit, question, injected>>

ForkTest(p, q) ==
    /\ p \in running /\ q \notin running /\ question[p] = 0
    /\ running' = running \cup {q}
    /\ testState' = IF p \in testState THEN testState \cup {q} ELSE testState
    /\ moduleInit' = [moduleInit EXCEPT ![q] = moduleInit[p]]
    /\ UNCHANGED <<page, question, injected>>

\* The atomic addition of one.
AddAndFetch(p) ==
    /\ page' = [page EXCEPT !.error = @ + 1]
    /\ question' = [question EXCEPT ![p] = page.error + 1]

\* ert_testFinally(): the question is counted, and fails if its count is the trigger.
AskTest(p) ==
    /\ p \in testState /\ question[p] = 0 /\ page.error < MaxLevel
    /\ AddAndFetch(p)
    /\ UNCHANGED <<running, testState, moduleInit, injected>>

\* A bug: everything from the trigger on fails.
BugTriggered(level) == page.trigger # 0 /\ level >= page.trigger

Triggered(level) == page.trigger # 0 /\ level = page.trigger

AnswerTest(p) ==
    /\ question[p] # 0
    /\ injected' = IF Triggered(question[p]) THEN injected \cup {<<p, question[p]>>} ELSE injected
    /\ question' = [question EXCEPT ![p] = 0]
    /\ UNCHANGED <<running, page, testState, moduleInit>>

TestFaultsNext ==
    \E p \in FaultProcs :
        \/ InitTest(p) \/ ExitTest(p) \/ \E q \in FaultProcs : ForkTest(p, q)
        \/ AskTest(p) \/ AnswerTest(p)

TestFaultsSpec == TestFaultsInit /\ [][TestFaultsNext]_faultVars

-----------------------------------------------------------------------------
\* Of all the questions of all processes exactly one fails: when their count has reached
\* the trigger and no process is about to learn its count.  The first count is 2, so that
\* a trigger of 1 is never met.
FaultsKept ==
    /\ Cardinality(injected) <= 1
    /\ page.trigger >= 2 /\ page.error >= page.trigger /\ question = [p \in FaultProcs |-> 0]
            => \E p \in FaultProcs : injected = {<<p, page.trigger>>}

=============================================================================
