------------------------------ MODULE V1Server -------------------------------
(***************************************************************************)
(* Version 1's server: main accepts, between looks at g_bRun, and gives    *)
(* each client to a CellServer; a CellServer waits in a select without a   *)
(* timeout, reads, and erases the clients that left from the vector it is  *)
(* walking; it answers with a send that waits until the peer reads.        *)
(* Nothing ends a CellServer but an error of its select, which makes it    *)
(* close its clients and the listening socket they all share.              *)
(* v1/include/server/EasyTcpServer.hpp, v1/src/server/server.cpp, for      *)
(* Windows.                                                                *)
(*                                                                         *)
(* Clients' sockets are closed only by a CellServer that has failed, after *)
(* which nothing is accepted any more, or by WSACleanup: no handle is      *)
(* reused, and c also stands for c's socket.                               *)
(***************************************************************************)
EXTENDS Integers, Sequences, FiniteSets, FiniteSetsExt, SequencesExt

CONSTANTS
  NServers,    \* nCellServer
  Clients,     \* the ClientSocket objects; each stands for one connection, and
               \*   they are numbered in the order in which main accepts them
  NoClient,    \* no ClientSocket
  Talkers,     \* bound: the clients whose peers send messages
  OpenFails,   \* whether socket, bind and listen may fail
  Faulty       \* bound: whose select, a CellServer's or main's (0), may fail
               \*   for no reason of the program's own

ASSUME NServersAssumption == NServers \in Nat \ {0}
ASSUME ClientsAssumption == Clients \subseteq Nat /\ IsFiniteSet(Clients)
ASSUME NoClientAssumption == NoClient \notin Clients
ASSUME TalkersAssumption == Talkers \subseteq Clients
ASSUME OpenFailsAssumption == OpenFails \in BOOLEAN
ASSUME FaultyAssumption == Faulty \subseteq 0..NServers

Servers == 1..NServers

VARIABLES
  gRun,          \* g_bRun
  winsock,       \* how often WSAStartup was called without its WSACleanup
  lfd,           \* "none", or a socket that is "open", "bound", "listening", "closed"
  mpc,           \* main: where it is in main, Accept and addClient2CellServer
  new, min, nxt, \*   and the locals of the last two,
  minLoad, load, \*   with the sizes that getClientCount adds up
  clientCount,   \* EasyTcpServer::_clientCount
  obj,           \* ClientSocket objects: "none", then "live", then "freed"
  open,          \* the clients' sockets that are open
  data,          \* the clients in whose sockets something waits
  left,          \* the peers that have closed their socket
  clientsBuff,   \* CellServer::_clientsBuff
  clients,       \* CellServer::_clients
  lock,          \* CellServer::_mutex is held by its thread
  pc, n, ready,  \* the CellServer threads, the n of their sweep, their fdRead
  failed,        \* history: whose select failed, a CellServer's or main's (0)
  cleared        \* history: the clients deleted without OnNetLeave

scanVars == <<min, nxt, minLoad, load>>
mainVars == <<gRun, winsock, lfd, mpc, new, scanVars>>
peerVars == <<data, left>>
objVars == <<clientCount, obj, open>>
boxVars == <<clientsBuff, clients, lock>>
thrVars == <<pc, n, ready>>
history == <<failed, cleared>>
vars == <<mainVars, peerVars, objVars, boxVars, thrVars, history>>

Init ==
  /\ gRun = TRUE /\ winsock = 0 /\ lfd = "none"
  /\ mpc = "init" /\ new = NoClient /\ min = 1 /\ nxt = 1 /\ minLoad = 0 /\ load = 0
  /\ clientCount = 0
  /\ obj = [c \in Clients |-> "none"]
  /\ open = {}
  /\ data = {} /\ left = {}
  /\ clientsBuff = [s \in Servers |-> <<>>]
  /\ clients = [s \in Servers |-> <<>>]
  /\ lock = [s \in Servers |-> FALSE]
  /\ pc = [s \in Servers |-> "done"]
  /\ n = [s \in Servers |-> 1]
  /\ ready = [s \in Servers |-> {}]
  /\ failed = {} /\ cleared = {}

At(s, label) == pc[s] = label
MoveTo(s, label) == pc' = [pc EXCEPT ![s] = label]

-----------------------------------------------------------------------------
\* The peers and the console.

Send(c) ==
  /\ c \in Talkers \intersect open /\ c \notin left
  /\ data' = data \union {c}
  /\ UNCHANGED <<left, mainVars, objVars, boxVars, thrVars, history>>

Leave(c) ==
  /\ c \in open /\ c \notin left
  /\ left' = left \union {c}
  /\ UNCHANGED <<data, mainVars, objVars, boxVars, thrVars, history>>

\* cmdTread reads exit.
Exit ==
  /\ gRun
  /\ gRun' = FALSE
  /\ UNCHANGED <<winsock, lfd, mpc, new, scanVars, peerVars, objVars, boxVars, thrVars, history>>

-----------------------------------------------------------------------------
\* main: InitSocket, Bind, Listen, Start, whose results it does not look at.

\* WSAStartup and socket.
InitSocket ==
  /\ mpc = "init"
  /\ winsock' = winsock + 1
  /\ lfd' = "open" \/ (OpenFails /\ UNCHANGED lfd)
  /\ mpc' = "bind"
  /\ UNCHANGED <<gRun, new, scanVars, peerVars, objVars, boxVars, thrVars, history>>

\* Without a socket Bind calls InitSocket again, and that WSAStartup.
Bind ==
  /\ mpc = "bind"
  /\ winsock' = IF lfd = "none" THEN winsock + 1 ELSE winsock
  /\ \/ lfd' = "bound"
     \/ OpenFails /\ lfd' = "open"
     \/ OpenFails /\ lfd = "none" /\ UNCHANGED lfd
  /\ mpc' = "listen"
  /\ UNCHANGED <<gRun, new, scanVars, peerVars, objVars, boxVars, thrVars, history>>

Listen ==
  /\ mpc = "listen"
  /\ \/ lfd = "bound" /\ lfd' = "listening"
     \/ (lfd # "bound" \/ OpenFails) /\ UNCHANGED lfd
  /\ mpc' = "start"
  /\ UNCHANGED <<gRun, winsock, new, scanVars, peerVars, objVars, boxVars, thrVars, history>>

\* The CellServers get a copy of lfd, which is never written again.
Start ==
  /\ mpc = "start"
  /\ pc' = [s \in Servers |-> "top"]
  /\ mpc' = "loop"
  /\ UNCHANGED <<gRun, winsock, lfd, new, scanVars, peerVars, objVars, boxVars, n, ready, history>>

-----------------------------------------------------------------------------
\* main: OnRun as long as g_bRun, then Close.

isRun == lfd # "none"

\* EasyTcpServer::Close.  The WSACleanup that answers the first WSAStartup takes
\* Winsock away, and all sockets with it; lfd stays as if there were a socket.
CloseAll ==
  IF isRun THEN /\ lfd' = "closed"
                /\ winsock' = IF winsock = 0 THEN 0 ELSE winsock - 1
                /\ open' = IF winsock' = 0 THEN {} ELSE open
           ELSE UNCHANGED <<lfd, winsock, open>>

\* Mutant: a select that times out is taken for an error.
TimeoutCloses ==
  /\ mpc = "loop" /\ gRun
  /\ CloseAll
  /\ UNCHANGED <<gRun, mpc, new, scanVars, peerVars, clientCount, obj, boxVars, thrVars, history>>

\* select fails: OnRun closes the server, and goes on being called.
ListenFails ==
  /\ mpc = "loop" /\ gRun /\ isRun
  /\ 0 \in Faulty \/ lfd = "closed"
  /\ CloseAll
  /\ failed' = failed \union {0}
  /\ UNCHANGED <<gRun, mpc, new, scanVars, peerVars, clientCount, obj, boxVars, thrVars, cleared>>

\* addClient2CellServer looks at the k-th CellServer, if there is one.  (The first
\* it compares with itself, which changes nothing and is left out.)
LookAt(k) ==
  IF k \in Servers THEN nxt' = k /\ mpc' = "min_clients" ELSE nxt' = 1 /\ mpc' = "push"

\* select reports a connection, and Accept creates its ClientSocket.
Accept(c) ==
  /\ mpc = "loop" /\ gRun
  /\ lfd = "listening"
  /\ obj[c] = "none" /\ \A d \in Clients : d < c => obj[d] # "none"
  /\ obj' = [obj EXCEPT ![c] = "live"]
  /\ open' = open \union {c}
  /\ new' = c
  /\ LookAt(2)
  /\ UNCHANGED <<gRun, winsock, lfd, min, minLoad, load, peerVars, clientCount, boxVars, thrVars, history>>

\* pMinServer->getClientCount() reads two sizes, one after the other and without
\* the lock, so that in the middle of a merge clients may count twice ...
ReadMin ==
  /\ \/ mpc = "min_clients" /\ mpc' = "min_buff" /\ minLoad' = Len(clients[min])
     \/ mpc = "min_buff" /\ mpc' = "nxt_clients" /\ minLoad' = minLoad + Len(clientsBuff[min])
  /\ UNCHANGED <<gRun, winsock, lfd, new, min, nxt, load, peerVars, objVars, boxVars, thrVars, history>>

\* ... and so does pCellServer->getClientCount() ...
ReadNext ==
  /\ mpc = "nxt_clients"
  /\ mpc' = "nxt_buff"
  /\ load' = Len(clients[nxt])
  /\ UNCHANGED <<gRun, winsock, lfd, new, min, nxt, minLoad, peerVars, objVars, boxVars, thrVars, history>>

\* ... and the CellServer with fewer clients is kept.
Scan ==
  /\ mpc = "nxt_buff"
  /\ min' = IF minLoad > load + Len(clientsBuff[nxt]) THEN nxt ELSE min
  /\ LookAt(nxt + 1)
  /\ minLoad' = 0 /\ load' = 0
  /\ UNCHANGED <<gRun, winsock, lfd, new, peerVars, objVars, boxVars, thrVars, history>>

\* The one with the fewest gets the client under its lock ...
AddClients ==
  /\ mpc = "push"
  /\ ~lock[min]
  /\ clientsBuff' = [clientsBuff EXCEPT ![min] = Append(@, new)]
  /\ mpc' = "join"
  /\ UNCHANGED <<gRun, winsock, lfd, new, scanVars, peerVars, objVars, clients, lock, thrVars, history>>

\* ... and is counted.
OnNetJoin ==
  /\ mpc = "join"
  /\ clientCount' = clientCount + 1
  /\ mpc' = "loop"
  /\ new' = NoClient /\ min' = 1
  /\ UNCHANGED <<gRun, winsock, lfd, nxt, minLoad, load, peerVars, obj, open, boxVars, thrVars, history>>

\* g_bRun is FALSE: Close, and then main waits for a key.
Close ==
  /\ mpc = "loop" /\ ~gRun
  /\ CloseAll
  /\ mpc' = "closed"
  /\ UNCHANGED <<gRun, new, scanVars, peerVars, clientCount, obj, boxVars, thrVars, history>>

Main ==
  \/ InitSocket \/ Bind \/ Listen \/ Start
  \/ ListenFails \/ ReadMin \/ ReadNext \/ Scan \/ AddClients \/ OnNetJoin \/ Close

-----------------------------------------------------------------------------
\* A CellServer thread: OnRun.

\* Mutant: clients are only taken over when there are no old ones.
HasNewAndIdle(s) == clientsBuff[s] # <<>> /\ clients[s] = <<>>

\* _clientsBuff.size() > 0, without the lock.
HasNew(s) == clientsBuff[s] # <<>>

\* The top of the loop: take over the new clients, up to clear(), or go on to
\* select if there are clients at all.
Top(s) ==
  /\ At(s, "top") /\ isRun
  /\ IF HasNew(s)
     THEN /\ lock' = [lock EXCEPT ![s] = TRUE]
          /\ clients' = [clients EXCEPT ![s] = @ \o clientsBuff[s]]
          /\ MoveTo(s, "merge")
     ELSE UNCHANGED <<lock, clients>> /\ clients[s] # <<>> /\ MoveTo(s, "select")
  /\ UNCHANGED <<mainVars, peerVars, objVars, clientsBuff, n, ready, history>>

\* There was no listening socket from the beginning.
NotRun(s) ==
  /\ At(s, "top") /\ ~isRun
  /\ MoveTo(s, "done")
  /\ UNCHANGED <<mainVars, peerVars, objVars, boxVars, n, ready, history>>

\* Mutant: the buffer is not cleared.
MergeKeeps(s) == UNCHANGED clientsBuff

MergeClears(s) == clientsBuff' = [clientsBuff EXCEPT ![s] = <<>>]

MergeEnd(s) ==
  /\ At(s, "merge")
  /\ MergeClears(s)
  /\ lock' = [lock EXCEPT ![s] = FALSE]
  /\ MoveTo(s, "select")
  /\ UNCHANGED <<mainVars, peerVars, objVars, clients, n, ready, history>>

\* Mutant: the loop that fills the fd_set ends before the last client.
AllButLast(s) == ToSet(Front(clients[s]))

Watched(s) == ToSet(clients[s])

\* select waits until one of the clients has data or has left.
Select(s) ==
  /\ At(s, "select")
  /\ winsock > 0
  /\ ready' = [ready EXCEPT ![s] = Watched(s) \intersect (data \union left)]
  /\ ready'[s] # {}
  /\ n' = [n EXCEPT ![s] = 1]
  /\ MoveTo(s, "sweep")
  /\ UNCHANGED <<mainVars, peerVars, objVars, boxVars, history>>

\* CellServer::Close closes the listening socket; the thread ends.
CloseListen(s) == MoveTo(s, "done") /\ lfd' = "closed"

\* Mutant: the clients stay when the thread ends.
KeepClients(s) == UNCHANGED obj

\* Close deletes the clients, without OnNetLeave.
DeleteClients(s) ==
  obj' = [c \in Clients |-> IF c \in ToSet(clients[s]) THEN "freed" ELSE obj[c]]

\* select fails, or Winsock is gone: Close.
SelectFails(s) ==
  /\ At(s, "select")
  /\ s \in Faulty \/ winsock = 0
  /\ CloseListen(s)
  /\ open' = open \ ToSet(clients[s])
  /\ DeleteClients(s)
  /\ clients' = [clients EXCEPT ![s] = <<>>]
  /\ failed' = failed \union {s}
  /\ cleared' = cleared \union ToSet(clients[s])
  /\ UNCHANGED <<gRun, winsock, mpc, new, scanVars, peerVars, clientCount, clientsBuff, lock, n, ready>>

\* The elements of the vector that the sweep still finds in fdRead ...
Rest(s) == {k \in n[s]..Len(clients[s]) : clients[s][k] \in ready[s]}

\* ... the first of them, and its client.
Here(s) == Min(Rest(s))
Current(s) == clients[s][Here(s)]

\* RecvData takes what is there and handles the whole messages in it; a Login
\* among them is answered.
RecvData(s) ==
  /\ At(s, "sweep") /\ Rest(s) # {}
  /\ Current(s) \in data
  /\ winsock > 0
  /\ data' = data \ {Current(s)}
  /\ \/ n' = [n EXCEPT ![s] = Here(s) + 1] /\ UNCHANGED pc
     \/ n' = [n EXCEPT ![s] = Here(s)] /\ MoveTo(s, "reply")
  /\ UNCHANGED <<left, mainVars, objVars, boxVars, ready, history>>

\* In a send to a peer that is there: it may have to wait until the peer reads.
Sending(s) == At(s, "reply") /\ clients[s][n[s]] \notin left /\ winsock > 0

\* The Logins have been answered, or send has failed, which nobody looks at.
Reply(s) ==
  /\ At(s, "reply")
  /\ n' = [n EXCEPT ![s] = @ + 1]
  /\ MoveTo(s, "sweep")
  /\ UNCHANGED <<mainVars, peerVars, objVars, boxVars, ready, history>>

\* Mutant: a client that leaves is not erased.
EraseNothing(s) == UNCHANGED clients

\* erase(begin() + n), after which n is the client behind the erased one.
Erase(s) == clients' = [clients EXCEPT ![s] = RemoveAt(@, Here(s))]

OnNetLeave == clientCount' = clientCount - 1

\* recv fails: the client is deleted and erased, its socket stays open, and
\* n is incremented over the client that took its place.
RecvFails(s) ==
  /\ At(s, "sweep") /\ Rest(s) # {}
  /\ winsock = 0 \/ Current(s) \in left \ data
  /\ OnNetLeave
  /\ obj' = [obj EXCEPT ![Current(s)] = "freed"]
  /\ Erase(s)
  /\ n' = [n EXCEPT ![s] = Here(s) + 1]
  /\ UNCHANGED <<mainVars, peerVars, open, clientsBuff, lock, pc, ready, history>>

SweepEnds(s) ==
  /\ At(s, "sweep") /\ Rest(s) = {}
  /\ n' = [n EXCEPT ![s] = 1]
  /\ ready' = [ready EXCEPT ![s] = {}]
  /\ MoveTo(s, "top")
  /\ UNCHANGED <<mainVars, peerVars, objVars, boxVars, history>>

ServerThread(s) ==
  \/ Top(s) \/ NotRun(s) \/ MergeEnd(s) \/ Select(s) \/ SelectFails(s)
  \/ RecvData(s) \/ RecvFails(s) \/ SweepEnds(s) \/ (Reply(s) /\ ~Sending(s))

Next ==
  \/ Main \/ Exit
  \/ \E c \in Clients : Accept(c) \/ Send(c) \/ Leave(c)
  \/ \E s \in Servers : ServerThread(s) \/ Reply(s)

Spec == Init /\ [][Next]_vars

(* Threads run unless they wait, in select or in a send: that a peer reads  *)
(* is chance, as is that it sends or leaves; and so are errors and exit.    *)
FairSpec == Spec /\ WF_vars(Main) /\ \A s \in Servers : WF_vars(ServerThread(s))

-----------------------------------------------------------------------------
InMap(s) == ToSet(clients[s])
InBuff(s) == ToSet(clientsBuff[s])

\* Who holds a client: a CellServer, or main (number 0) until it has pushed it.
Holders(c) ==
  {s \in Servers : c \in InMap(s) \union InBuff(s)}
    \union {m \in {0} : new = c /\ mpc # "join"}

\* A client is deleted exactly when it leaves the vector: no element of a
\* vector has been deleted or is there twice, and a live client has one holder.
OwnedOnce ==
  /\ \A s \in Servers : IsInjective(clients[s]) /\ IsInjective(clientsBuff[s])
  /\ \A c \in Clients : Cardinality(Holders(c)) = IF obj[c] = "live" THEN 1 ELSE 0

\* The clients that have been pushed and not deleted.
Members == {c \in Clients : Holders(c) \intersect Servers # {}}

\* _clientCount counts the members, although a client may leave before main has
\* counted it; and for ever those that a CellServer's Close has deleted without
\* OnNetLeave.
CountExact ==
  clientCount = Cardinality(Members \union cleared) - (IF mpc = "join" THEN 1 ELSE 0)

\* Until exit is typed or a select fails the server has its listening socket
\* and those of all its clients: no thread closes what another one uses.
SocketsOpen ==
  gRun /\ failed = {} =>
    /\ lfd # "closed" /\ (mpc # "init" => winsock > 0)
    /\ \A c \in Clients : obj[c] = "live" => c \in open

\* The CellServer that has c is in a send.
HeldUp(c) == \E s \in Servers : c \in InMap(s) \union InBuff(s) /\ Sending(s)

\* A client that the sweep passes over, because the one before it was erased,
\* is served in a later round, and every client that leaves is deleted; unless
\* its CellServer waits for ever in a send to a client that does not read.
SkippedClientsServed ==
  \A c \in Clients :
    (c \in data \union left /\ \E s \in Servers : c \in InMap(s)) ~>
      (c \notin data \union left \/ obj[c] = "freed" \/ []HeldUp(c))

\* A CellServer with new clients has ended, or all its old clients are silent.
CannotTakeOver(s) ==
  At(s, "done") \/ (At(s, "select") /\ InMap(s) \intersect (data \union left) = {})

\* A new client is taken over before long, unless the CellServer has ended, or
\* all its old clients are silent, which is all a select without timeout lets
\* a client hope for, or one of them keeps it in a send for ever.
NewClientsTakenOver ==
  \A c \in Clients :
    (\E s \in Servers : c \in InBuff(s)) ~>
      ((\A s \in Servers : c \in InBuff(s) => CannotTakeOver(s)) \/ []HeldUp(c))

\* When Close has taken Winsock away all clients are deleted, though the threads
\* find that out by themselves, some of them in a send; but those that were given
\* to a CellServer whose thread then failed stay in its buffer.  (Close leaves
\* Winsock if Bind has called InitSocket again.)
CloseFreesClients ==
  (mpc = "closed" /\ winsock = 0) ~>
    \A c \in Clients : obj[c] = "live" => \E s \in Servers : c \in InBuff(s) /\ At(s, "done")
=============================================================================
