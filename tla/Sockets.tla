-------------------------------- MODULE Sockets --------------------------------
(***************************************************************************)
(* Unix sockets: unixsocket.c over socket.c.  Processes create servers,    *)
(* connect to them, accept connections, create pairs and pass descriptors  *)
(* over connections.  The system keeps, outside of the library, what every *)
(* number of a process stands for, the names in use, the connections that  *)
(* wait to be accepted and the messages on their way.  The table of a      *)
(* process is limited, and any call that asks for a number can fail.  A    *)
(* peer that is not the library can send what ert_sendUnixSocketFd() does  *)
(* not.  Only files are passed, and no call waits: sockets do not block.   *)
(***************************************************************************)
EXTENDS Integers, FiniteSets, FiniteSetsExt, Sequences

CONSTANTS
    Peers,          \* processes
    SocketTable,    \* numbers of descriptors a process may have
    NameCount,      \* names that are generated, from 0 on
    MaxObjects      \* bound on the sockets and files the system ever makes

ASSUME SocketsAssumption == {SocketTable, NameCount, MaxObjects} \subseteq Nat \ {0}

VARIABLES
    objects,        \* of the system: [kind, name, peer, waiting, inbox]
    numbers,        \* what each number of a process stands for, or Vacant
    owned,          \* numbers that a socket or the caller of a process has
    calling,        \* the call a process is in: [step, fd, name, given]
    stray,          \* numbers of a process that nothing has
    \* history
    foreign         \* processes that read a message the library does not send

socketVars == <<objects, numbers, owned, calling, stray, foreign>>

Slots == 1 .. SocketTable
Vacant == 0
Path == NameCount           \* a name that is given, in the file system
NoName == -1
NotCalling == [step |-> "none", fd |-> Vacant, name |-> NoName, given |-> FALSE]

SocketsTypeOK ==
    /\ numbers \in [Peers -> [Slots -> 0 .. Len(objects)]]
    /\ \A o \in 1 .. Len(objects) : objects[o].kind \in {"file", "socket", "listener", "end"}
    /\ \A p \in Peers : owned[p] \subseteq Slots /\ stray[p] \subseteq Slots
    /\ \A p \in Peers : calling[p].step \in {"none", "bind", "listen", "connect"}
    /\ foreign \subseteq Peers

SocketsInit ==
    /\ objects = <<>> /\ numbers = [p \in Peers |-> [n \in Slots |-> Vacant]]
    /\ owned = [p \in Peers |-> {}] /\ stray = owned
    /\ calling = [p \in Peers |-> NotCalling] /\ foreign = {}

-----------------------------------------------------------------------------
(* The system.                                                             *)

Object(kind, peer) ==
    [kind |-> kind, name |-> NoName, peer |-> peer, waiting |-> <<>>, inbox |-> <<>>]
InUse(p) == {n \in Slots : numbers[p][n] # Vacant}
Unused(p) == Slots \ InUse(p)
Held(o) == \E p \in Peers, n \in Slots : numbers[p][n] = o
Listeners == {o \in 1 .. Len(objects) : objects[o].kind = "listener" /\ Held(o)}
Alive(o) == Held(o) \/ \E l \in Listeners : \E i \in 1 .. Len(objects[l].waiting) :
                            objects[l].waiting[i] = o

\* The name of a path outlives its socket, and an abstract one does not.
NameInUse(name) ==
    \E o \in 1 .. Len(objects) : objects[o].name = name /\ (name = Path \/ Held(o))

Room(n) == Len(objects) + n <= MaxObjects

\* A process gets numbers for objects, the lowest first, or gives some up.
Rank(p, n) == Cardinality({k \in Unused(p) : k <= n})
First(p, n) == {m \in Unused(p) : Rank(p, m) <= n}
Numbered(p, got) ==
    [numbers EXCEPT ![p] = [n \in Slots |-> IF n \in First(p, Len(got)) THEN got[Rank(p, n)]
                                            ELSE @[n]]]
Closed(p, fds) ==
    [numbers EXCEPT ![p] = [n \in Slots |-> IF n \in fds THEN Vacant ELSE @[n]]]

-----------------------------------------------------------------------------
(* Making sockets.                                                         *)

OpenSocket(p, step, name, given) ==
    /\ calling[p] = NotCalling /\ Room(1) /\ Unused(p) # {}
    /\ objects' = Append(objects, Object("socket", 0))
    /\ numbers' = Numbered(p, <<Len(objects) + 1>>)
    /\ calling' = [calling EXCEPT ![p] =
                        [step |-> step, fd |-> Min(Unused(p)), name |-> name, given |-> given]]
    /\ UNCHANGED <<owned, stray, foreign>>

\* ert_createUnixSocket(): the name is given, or generated, from a seed that may be given.
OpenServer(p) ==
    \E name \in 0 .. Path, given \in BOOLEAN :
        (name = Path => given) /\ OpenSocket(p, "bind", name, given)

\* The generator visits every name before it comes back to the first.
createRandomName(name) == (name + 1) % NameCount

\* A call that fails closes the socket it has made.
CallFails(p) ==
    /\ calling[p] # NotCalling
    /\ numbers' = Closed(p, {calling[p].fd})
    /\ calling' = [calling EXCEPT ![p] = NotCalling]
    /\ UNCHANGED <<objects, owned, stray, foreign>>

\* EADDRINUSE is tried again with the next name, unless the name or its seed was given.
BindAgain(p) ==
    /\ calling[p].step = "bind" /\ NameInUse(calling[p].name) /\ ~calling[p].given
    /\ calling' = [calling EXCEPT ![p].name = createRandomName(@)]
    /\ UNCHANGED <<objects, numbers, owned, stray, foreign>>

BindSocket(p) ==
    /\ calling[p].step = "bind" /\ ~NameInUse(calling[p].name)
    /\ objects' = [objects EXCEPT ![numbers[p][calling[p].fd]].name = calling[p].name]
    /\ calling' = [calling EXCEPT ![p].step = "listen"]
    /\ UNCHANGED <<numbers, owned, stray, foreign>>

EndCall(p) ==
    /\ calling' = [calling EXCEPT ![p] = NotCalling]
    /\ owned' = [owned EXCEPT ![p] = @ \cup {calling[p].fd}]

ListenSocket(p) ==
    /\ calling[p].step = "listen" /\ EndCall(p)
    /\ objects' = [objects EXCEPT ![numbers[p][calling[p].fd]].kind = "listener"]
    /\ UNCHANGED <<numbers, stray, foreign>>

OpenClient(p) == \E name \in 0 .. Path : OpenSocket(p, "connect", name, TRUE)

\* ert_connectUnixSocket(), to a server that listens: its queue holds one connection.
ConnectSocket(p) ==
    /\ calling[p].step = "connect" /\ Room(1) /\ EndCall(p)
    /\ \E l \in Listeners :
         LET me == numbers[p][calling[p].fd]
             peer == Len(objects) + 1
         IN  /\ objects[l].name = calling[p].name /\ objects[l].waiting = <<>>
             /\ objects' = Append([objects EXCEPT ![me] = Object("end", peer),
                                                  ![l].waiting = <<peer>>],
                                  Object("end", me))
    /\ UNCHANGED <<numbers, stray, foreign>>

\* ert_acceptUnixSocket() of the connection that waits; with no number left accept4()
\* fails, and the connection stays where it is.
AcceptSocket(p) ==
    /\ calling[p] = NotCalling /\ Unused(p) # {}
    /\ \E n \in owned[p] :
         /\ objects[numbers[p][n]].kind = "listener" /\ objects[numbers[p][n]].waiting # <<>>
         /\ numbers' = Numbered(p, objects[numbers[p][n]].waiting)
         /\ objects' = [objects EXCEPT ![numbers[p][n]].waiting = <<>>]
    /\ owned' = [owned EXCEPT ![p] = @ \cup {Min(Unused(p))}]
    /\ UNCHANGED <<calling, stray, foreign>>

\* A bug: the numbers of a pair are closed at the end although the sockets have them.
BugNotHandedOver(fds) == fds

\* What ert_createUnixSocketPair() closes at its end of the numbers that it got: fd[0]
\* and fd[1] are set to -1 as the sockets take them over.
NotHandedOver(fds) == {}

\* ert_createUnixSocketPair(), of which socketpair() may fail before it has an effect.
CreatePair(p) ==
    /\ calling[p] = NotCalling /\ Room(2) /\ Cardinality(Unused(p)) >= 2
    /\ LET first == Len(objects) + 1
           both == First(p, 2)
       IN  /\ objects' = objects \o <<Object("end", first + 1), Object("end", first)>>
           /\ numbers' = [Numbered(p, <<first, first + 1>>) EXCEPT
                            ![p] = [n \in Slots |-> IF n \in NotHandedOver(both) THEN Vacant
                                                    ELSE @[n]]]
           /\ owned' = [owned EXCEPT ![p] = @ \cup both]
    /\ UNCHANGED <<calling, stray, foreign>>

OpenPassedFile(p) ==
    /\ calling[p] = NotCalling /\ Room(1) /\ Unused(p) # {}
    /\ objects' = Append(objects, Object("file", 0))
    /\ numbers' = Numbered(p, <<Len(objects) + 1>>)
    /\ owned' = [owned EXCEPT ![p] = @ \cup {Min(Unused(p))}]
    /\ UNCHANGED <<calling, stray, foreign>>

\* ert_closeUnixSocket(), or the caller closes what it received.
CloseOwned(p) ==
    /\ calling[p] = NotCalling
    /\ \E n \in owned[p] :
         numbers' = Closed(p, {n}) /\ owned' = [owned EXCEPT ![p] = @ \ {n}]
    /\ UNCHANGED <<objects, calling, stray, foreign>>

-----------------------------------------------------------------------------
(* Passing descriptors.                                                    *)

OwnedEnds(p) == {n \in owned[p] : objects[numbers[p][n]].kind = "end"}
OwnedFiles(p) == {numbers[p][n] : n \in {m \in owned[p] : objects[numbers[p][m]].kind = "file"}}

PutMessage(p, message) ==
    /\ calling[p] = NotCalling
    /\ \E n \in OwnedEnds(p) :
         LET peer == objects[numbers[p][n]].peer
         IN  /\ Alive(peer) /\ objects[peer].inbox = <<>>
             /\ objects' = [objects EXCEPT ![peer].inbox = <<message>>]
    /\ UNCHANGED <<numbers, owned, calling, stray, foreign>>

\* ert_sendUnixSocketFd(): a zero, and one descriptor; to a peer that is gone it fails.
SendUnixSocketFd(p) ==
    \E file \in OwnedFiles(p) : PutMessage(p, [zero |-> TRUE, files |-> <<file>>])

\* Messages the library does not send: none, two or three descriptors, or another byte.
SendOther(p) ==
    \E file \in OwnedFiles(p), zero \in BOOLEAN, n \in 0 .. 3 :
        /\ <<zero, n>> # <<TRUE, 1>>
        /\ PutMessage(p, [zero |-> zero, files |-> [i \in 1 .. n |-> file]])

\* The buffer for one descriptor is rounded up and has room for two; what does not fit,
\* or finds no number, is dropped by the system, which says so.
Installed(p, m) == SubSeq(m.files, 1, Min({2, Len(m.files), Cardinality(Unused(p))}))
Truncated(p, m) == Len(Installed(p, m)) < Len(m.files)

\* A bug: two descriptors are taken for one.
BugAcceptable(p, m) == m.zero /\ Len(Installed(p, m)) \in {1, 2}

\* ert_recvUnixSocketFd_() wants exactly one descriptor.
Acceptable(p, m) == m.zero /\ Len(Installed(p, m)) = 1

\* ert_recvUnixSocketFd().  The one that is acceptable is closed if there were more.  Those
\* of a message that is not are closed by nothing: what ert_recvUnixSocketFd_() closes it
\* closes when it succeeds, and then there is none.
RecvUnixSocketFd(p) ==
    /\ calling[p] = NotCalling
    /\ \E n \in OwnedEnds(p) :
         /\ objects[numbers[p][n]].inbox # <<>>
         /\ LET m == Head(objects[numbers[p][n]].inbox)
                fds == First(p, Len(Installed(p, m)))
                closed == IF Acceptable(p, m) /\ Truncated(p, m) THEN fds ELSE {}
            IN  /\ numbers' = [Numbered(p, Installed(p, m)) EXCEPT
                                 ![p] = [k \in Slots |-> IF k \in closed THEN Vacant ELSE @[k]]]
                /\ owned' = [owned EXCEPT ![p] =
                                IF Acceptable(p, m) /\ closed = {} THEN @ \cup {Min(fds)} ELSE @]
                /\ stray' = [stray EXCEPT ![p] = IF Acceptable(p, m) THEN @ ELSE @ \cup fds]
                /\ foreign' = IF m.zero /\ Len(m.files) = 1 THEN foreign ELSE foreign \cup {p}
         /\ objects' = [objects EXCEPT ![numbers[p][n]].inbox = <<>>]
    /\ UNCHANGED calling

SocketsNext ==
    \E p \in Peers :
        \/ OpenServer(p) \/ BindAgain(p) \/ BindSocket(p) \/ ListenSocket(p)
        \/ OpenClient(p) \/ ConnectSocket(p) \/ AcceptSocket(p) \/ CallFails(p)
        \/ CreatePair(p) \/ OpenPassedFile(p) \/ CloseOwned(p)
        \/ SendUnixSocketFd(p) \/ SendOther(p) \/ RecvUnixSocketFd(p)

SocketsSpec == SocketsInit /\ [][SocketsNext]_socketVars

-----------------------------------------------------------------------------
\* Whatever fails, and at whichever step, every number of a process that stands for
\* something belongs to one socket, call or caller, and stands for something as long as
\* it does; one is lost only for a message that the library does not send.
NumbersOwned ==
    \A p \in Peers :
        LET own == owned[p] \cup ({calling[p].fd} \ {Vacant})
        IN  /\ InUse(p) = own \cup stray[p] /\ own \cap stray[p] = {}
            /\ calling[p].fd \notin owned[p]
            /\ stray[p] # {} => p \in foreign

\* No two servers have the same name, and no two descriptors are one connection.
NamesDistinct ==
    /\ \A l, k \in Listeners : objects[l].name = objects[k].name => l = k
    /\ \A p, q \in Peers : \A n \in OwnedEnds(p), m \in OwnedEnds(q) :
            numbers[p][n] = numbers[q][m] => p = q /\ n = m

\* What the users of sockets may rely on.
SocketsKept == NumbersOwned /\ NamesDistinct

-----------------------------------------------------------------------------
(* What is true of the system's tables, from which the above follows.      *)

Kinds == {"file", "socket", "listener", "end"}
PassedMessages == [zero : BOOLEAN, files : Seq(Nat)]
ObjectTypes == [kind : Kinds, name : NoName .. Path, peer : Nat, waiting : Seq(Nat),
                inbox : Seq(PassedMessages)]
CallTypes == [step : {"none", "bind", "listen", "connect"}, fd : Slots \cup {Vacant},
              name : NoName .. Path, given : BOOLEAN]

TablesInv ==
    /\ objects \in Seq(ObjectTypes) /\ numbers \in [Peers -> [Slots -> 0 .. Len(objects)]]
    /\ owned \in [Peers -> SUBSET Slots] /\ stray \in [Peers -> SUBSET Slots]
    /\ calling \in [Peers -> CallTypes]

\* Only servers have names, and the messages on their way are of files.
ObjectsInv ==
    \A o \in 1 .. Len(objects) :
        /\ objects[o].kind = "listener" => objects[o].name # NoName
        /\ objects[o].kind \in {"end", "file"} => objects[o].name = NoName
        /\ objects[o].inbox # <<>> =>
             LET m == Head(objects[o].inbox)
             IN  \A i \in 1 .. Len(m.files) :
                    m.files[i] \in 1 .. Len(objects) /\ objects[m.files[i]].kind = "file"

\* A connection that waits is an end that nobody has, and waits once.
WaitingInv ==
    \A l \in 1 .. Len(objects) : objects[l].waiting # <<>> =>
        /\ \E w \in 1 .. Len(objects) :
                objects[l].waiting = <<w>> /\ objects[w].kind = "end" /\ ~Held(w)
        /\ \A k \in 1 .. Len(objects) : objects[k].waiting = objects[l].waiting => k = l

\* Only files are shared.
HeldOnce ==
    \A p, q \in Peers : \A n, m \in Slots :
        /\ numbers[p][n] # Vacant /\ objects[numbers[p][n]].kind # "file"
        /\ numbers[p][n] = numbers[q][m]
        => p = q /\ n = m

CallInv(p) ==
    \/ calling[p] = NotCalling
    \/ /\ calling[p].step # "none" /\ calling[p].fd \in Slots /\ calling[p].name # NoName
       /\ numbers[p][calling[p].fd] # Vacant
       /\ objects[numbers[p][calling[p].fd]].kind = "socket"
       /\ calling[p].step = "listen" => objects[numbers[p][calling[p].fd]].name # NoName

NamesInv ==
    \A o, k \in 1 .. Len(objects) :
        /\ objects[o].name = objects[k].name /\ objects[o].name # NoName
        /\ objects[o].name = Path \/ (Held(o) /\ Held(k))
        => o = k

SocketsInv ==
    /\ TablesInv /\ ObjectsInv /\ WaitingInv /\ HeldOnce /\ NamesInv /\ NumbersOwned
    /\ \A p \in Peers : CallInv(p)

=============================================================================
