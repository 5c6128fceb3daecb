----------------------------- MODULE CellServer -----------------------------
(***************************************************************************)
(* The life of a client connection in version 2: the accept thread of      *)
(* EasyTcpServer hands it to one of the CellServer threads through         *)
(* _clientsBuff, the CellServer thread moves it to _clients, watches its   *)
(* socket with select, and deletes it when it leaves; main starts the      *)
(* server, shuts it down, and may start it again.                          *)
(* v2/include/EasyTcpServer.hpp, v2/include/CELLServer.hpp, main of        *)
(* v2/src/server/server.cpp, for Windows, the platform README.md names.    *)
(*                                                                         *)
(* What a client sends is left to other modules: here a visit to a ready   *)
(* socket either finds that the client is gone or changes nothing.  The    *)
(* threads keep the promise of JoinableThread: main's wait for one may     *)
(* never end.                                                              *)
(***************************************************************************)
EXTENDS Integers, Sequences, FiniteSets

CONSTANTS
  NServers,    \* nCellServer: how many CellServer threads Start creates
  Clients,     \* the CellClient objects; each stands for one connection
  NHandles,    \* bound: socket handles the system gives out, and reuses
  FdSetSize,   \* FD_SETSIZE
  NoClient,    \* no CellClient
  MaxLives,    \* bound: how often the server is started
  Events       \* what the environment does: a subset of AllEvents

\* A peer disconnects, its heartbeat expires, select fails for no reason of
\* the program's own, socket, bind or listen fails, main calls Close, or
\* InitSocket on the server that runs.
AllEvents == {"leave", "expire", "select_error", "open_error", "close", "restart"}

ASSUME NServersAssumption == NServers \in Nat \ {0}
ASSUME NHandlesAssumption == NHandles \in Nat \ {0}
ASSUME FdSetSizeAssumption == FdSetSize \in Nat \ {0}
ASSUME ClientsAssumption == IsFiniteSet(Clients)
ASSUME NoClientAssumption == NoClient \notin Clients
ASSUME MaxLivesAssumption == MaxLives \in Nat \ {0}
ASSUME EventsAssumption == Events \subseteq AllEvents

Servers == 1..NServers
Handles == 1..NHandles
NoHandle == 0

VARIABLES
  obj,            \* CellClient objects: "none", then "live", then "freed"
  sock,           \* _cfd: the open handle of a live client
  clientCount,    \* EasyTcpServer::_clientCount
  accRun, apc,    \* the accept thread: its _isRun, where it is
  acc,            \*   and the locals of Accept and addClient2CellServer
  clientsBuff,    \* CellServer::_clientsBuff
  lock,           \* CellServer::_mutex is held by the CellServer thread
  clients,        \* CellServer::_clients
  clientsChange,  \* CellServer::_clients_change
  fdBack,         \* CellServer::_fdRead_back
  isRun, pc,      \* the CellServer threads: their _isRun, where they are
  phase,          \*   which sweep over the clients: "read", "write", "time"
  cur,            \*   the key of the client that is leaving
  merged,         \*   how much of _clientsBuff has been moved
  credit,         \* an accept thread that nobody waited for has called wakeUp
  lfd,            \* _lfd: "none", or a socket that is "open", "bound", "listening"
  mpc, ms,        \* main: where it is, and at which CellServer
  life, restart,  \*   how often it has called Start; Close is part of InitSocket
  crashed,        \* the process died of an invalid iterator
  failed,         \* history: the CellServers whose thread left through Exit, and 0
                  \*   when main has gone on while the accept thread was running
  cleared         \* history: the clients that are gone without OnNetLeave

objVars == <<obj, sock, clientCount>>
accVars == <<accRun, apc, acc>>
buffVars == <<clientsBuff, lock>>
mapVars == <<clients, clientsChange, fdBack>>
thrVars == <<pc, phase, cur, merged>>
mainVars == <<credit, lfd, mpc, ms, life, restart>>
history == <<crashed, failed, cleared>>
vars == <<objVars, accVars, buffVars, mapVars, isRun, thrVars, mainVars, history>>

Keys(s) == {h \in Handles : clients[s][h] # NoClient}
Open(h) == \E c \in Clients : obj[c] = "live" /\ sock[c] = h

\* FD_SET takes the clients in the order of the map and ignores the rest once
\* FD_SETSIZE sockets are in the set.
Watched(s) == {h \in Keys(s) : Cardinality({g \in Keys(s) : g < h}) < FdSetSize}

NoScan == [client |-> NoClient, min |-> 1, next |-> 2, minLoad |-> 0, load |-> 0]

Init ==
  /\ obj = [c \in Clients |-> "none"]
  /\ sock = [c \in Clients |-> NoHandle]
  /\ clientCount = 0
  /\ accRun = FALSE
  /\ apc = "done"
  /\ acc = NoScan
  /\ clientsBuff = [s \in Servers |-> <<>>]
  /\ lock = [s \in Servers |-> FALSE]
  /\ clients = [s \in Servers |-> [h \in Handles |-> NoClient]]
  /\ clientsChange = [s \in Servers |-> TRUE]
  /\ fdBack = [s \in Servers |-> {}]
  /\ isRun = [s \in Servers |-> FALSE]
  /\ pc = [s \in Servers |-> "done"]
  /\ phase = [s \in Servers |-> "read"]
  /\ cur = [s \in Servers |-> NoHandle]
  /\ merged = [s \in Servers |-> 0]
  /\ credit = FALSE
  /\ lfd = "none"
  /\ mpc = "init" /\ ms = 1 /\ life = 0 /\ restart = FALSE
  /\ crashed = FALSE
  /\ failed = {}
  /\ cleared = {}

-----------------------------------------------------------------------------
\* The accept thread: OnRun, Accept, addClient2CellServer, OnNetJoin.

\* The scan over _cellServers goes on while there is a server to look at.
\* (Comparing the first server with itself changes nothing and is left out.)
ScanFrom(n) == IF n > NServers THEN "push" ELSE "min_clients"

\* select reports a connection and Accept creates its CellClient.
Accept(c, h) ==
  /\ apc = "loop" /\ accRun
  /\ lfd = "listening"
  /\ obj[c] = "none" /\ ~Open(h)
  /\ obj' = [obj EXCEPT ![c] = "live"]
  /\ sock' = [sock EXCEPT ![c] = h]
  /\ acc' = [NoScan EXCEPT !.client = c]
  /\ apc' = ScanFrom(2)
  /\ UNCHANGED <<clientCount, accRun, buffVars, mapVars, isRun, thrVars, mainVars, history>>

\* pMinServer->getClientCount() reads the sizes of _clients and _clientsBuff,
\* one after the other and without the lock ...
ReadMin ==
  /\ \/ /\ apc = "min_clients"
        /\ apc' = "min_buff"
        /\ acc' = [acc EXCEPT !.minLoad = Cardinality(Keys(acc.min))]
     \/ /\ apc = "min_buff"
        /\ apc' = "next_clients"
        /\ acc' = [acc EXCEPT !.minLoad = @ + Len(clientsBuff[acc.min])]
  /\ UNCHANGED <<objVars, accRun, buffVars, mapVars, isRun, thrVars, mainVars, history>>

\* ... so does pCellServer->getClientCount(), and the smaller one is kept.
ReadNext ==
  /\ \/ /\ apc = "next_clients"
        /\ apc' = "next_buff"
        /\ acc' = [acc EXCEPT !.load = Cardinality(Keys(acc.next))]
     \/ /\ apc = "next_buff"
        /\ apc' = ScanFrom(acc.next + 1)
        /\ acc' = [acc EXCEPT
             !.min = IF acc.minLoad > acc.load + Len(clientsBuff[acc.next])
                     THEN acc.next ELSE @,
             !.next = @ + 1, !.minLoad = 0, !.load = 0]
  /\ UNCHANGED <<objVars, accRun, buffVars, mapVars, isRun, thrVars, mainVars, history>>

\* pMinServer->addClients, under that server's lock.
AddClients ==
  /\ apc = "push"
  /\ ~lock[acc.min]
  /\ clientsBuff' = [clientsBuff EXCEPT ![acc.min] = Append(@, acc.client)]
  /\ apc' = "join"
  /\ UNCHANGED <<objVars, accRun, acc, lock, mapVars, isRun, thrVars, mainVars, history>>

OnNetJoin ==
  /\ apc = "join"
  /\ clientCount' = clientCount + 1
  /\ apc' = "loop"
  /\ acc' = NoScan
  /\ UNCHANGED <<obj, sock, accRun, buffVars, mapVars, isRun, thrVars, mainVars, history>>

AccStops ==
  /\ apc = "loop" /\ ~accRun
  /\ apc' = "done"
  /\ UNCHANGED <<objVars, accRun, acc, buffVars, mapVars, isRun, thrVars, mainVars, history>>

\* select fails: the accept thread calls Exit, which waits for ever when main
\* is in Close of this thread, and ends.  Its wakeUp, which Close will not wait
\* for, stays in the semaphore of the thread object.
AccSelectFails ==
  /\ "select_error" \in Events \/ lfd = "none"
  /\ apc = "loop" /\ accRun
  /\ apc' = "exit"
  /\ UNCHANGED <<objVars, accRun, acc, buffVars, mapVars, isRun, thrVars, mainVars, history>>

AccExit ==
  /\ apc = "exit" /\ mpc # "join_acc"
  /\ accRun' = FALSE
  /\ apc' = "done"
  /\ credit' = TRUE
  /\ UNCHANGED <<objVars, acc, buffVars, mapVars, isRun, thrVars, lfd, mpc, ms, life, restart, history>>

AcceptThread ==
  \/ \E c \in Clients, h \in Handles : Accept(c, h)
  \/ ReadMin \/ ReadNext \/ AddClients \/ OnNetJoin
  \/ AccStops \/ AccSelectFails \/ AccExit

-----------------------------------------------------------------------------
\* A CellServer thread: OnRun.

At(s, label) == pc[s] = label
MoveTo(s, label) == pc' = [pc EXCEPT ![s] = label]

\* Mutant: new clients are taken over only when there are no others.
NewClientsIfIdle(s) == clientsBuff[s] # <<>> /\ Keys(s) = {}

NewClients(s) == clientsBuff[s] # <<>>

\* Mutant: _clients_change is not set.
NoteNothing(s) == UNCHANGED clientsChange

NoteChange(s) == clientsChange' = [clientsChange EXCEPT ![s] = TRUE]

\* The top of the loop: isRun(), then _clientsBuff.size() without the lock.
Top(s) ==
  /\ At(s, "top")
  /\ MoveTo(s, IF ~isRun[s] THEN "clear"
               ELSE IF NewClients(s) THEN "merge" ELSE "poll")
  /\ UNCHANGED <<objVars, accVars, buffVars, mapVars, isRun, phase, cur, merged, mainVars, history>>

\* lock_guard, and then one client after the other goes into the map.
Merge(s) ==
  /\ At(s, "merge")
  /\ lock' = [lock EXCEPT ![s] = TRUE]
  /\ merged' = [merged EXCEPT ![s] = 0]
  /\ MoveTo(s, "merging")
  /\ UNCHANGED <<objVars, accVars, clientsBuff, mapVars, isRun, phase, cur, mainVars, history>>

MergeOne(s) ==
  /\ At(s, "merging")
  /\ merged[s] < Len(clientsBuff[s])
  /\ LET c == clientsBuff[s][merged[s] + 1]
     IN clients' = [clients EXCEPT ![s][sock[c]] = c]
  /\ merged' = [merged EXCEPT ![s] = @ + 1]
  /\ UNCHANGED <<objVars, accVars, buffVars, clientsChange, fdBack, isRun, pc, phase, cur, mainVars, history>>

\* Mutant: the buffer is cleared before it is copied.
MergedAny(s) == TRUE

MergedAll(s) == merged[s] = Len(clientsBuff[s])

MergeEnd(s) ==
  /\ At(s, "merging")
  /\ MergedAll(s)
  /\ clientsBuff' = [clientsBuff EXCEPT ![s] = <<>>]
  /\ NoteChange(s)
  /\ lock' = [lock EXCEPT ![s] = FALSE]
  /\ merged' = [merged EXCEPT ![s] = 0]
  /\ MoveTo(s, "poll")
  /\ UNCHANGED <<objVars, accVars, clients, fdBack, isRun, phase, cur, mainVars, history>>

\* No client: sleep and start over.
Idle(s) ==
  /\ At(s, "poll")
  /\ Keys(s) = {}
  /\ MoveTo(s, "top")
  /\ UNCHANGED <<objVars, accVars, buffVars, mapVars, isRun, phase, cur, merged, mainVars, history>>

\* The fd_set handed to select: built anew after a change, else the backup.
FdSet(s) == IF clientsChange[s] THEN Watched(s) ELSE fdBack[s]

PrepareFdSet(s) ==
  /\ At(s, "poll")
  /\ Keys(s) # {}
  /\ fdBack' = [fdBack EXCEPT ![s] = FdSet(s)]
  /\ clientsChange' = [clientsChange EXCEPT ![s] = FALSE]

Select(s) ==
  /\ PrepareFdSet(s)
  /\ \A h \in FdSet(s) : Open(h)
  /\ phase' = [phase EXCEPT ![s] = "read"]
  /\ MoveTo(s, "visit")
  /\ UNCHANGED <<objVars, accVars, buffVars, clients, isRun, cur, merged, mainVars, history>>

\* select fails on a closed socket, or for reasons outside the program.
SelectFails(s) ==
  /\ PrepareFdSet(s)
  /\ "select_error" \in Events \/ \E h \in FdSet(s) : ~Open(h)
  /\ MoveTo(s, "exit")
  /\ UNCHANGED <<objVars, accVars, buffVars, clients, isRun, phase, cur, merged, mainVars, history>>

\* Mutant: the thread is not told to stop.
StopNobody(s) == UNCHANGED isRun

Stop(s) == isRun' = [isRun EXCEPT ![s] = FALSE]

\* pthread->Exit() waits while main is in Close of this thread.
Exit(s) ==
  /\ At(s, "exit")
  /\ ~ (mpc = "join" /\ ms = s)
  /\ Stop(s)
  /\ MoveTo(s, "clear")
  /\ failed' = failed \union {s}
  /\ UNCHANGED <<objVars, accVars, buffVars, mapVars, phase, cur, merged, mainVars, crashed, cleared>>

-----------------------------------------------------------------------------
\* ReadData, WriteData and CheckTime: three sweeps over the clients.

\* Mutants: a client that leaves is counted twice, or not at all.
OnNetLeaveTwice == clientCount' = clientCount - 2
OnNetLeaveNever == UNCHANGED clientCount

OnNetLeave == clientCount' = clientCount - 1

\* A client turns out to be gone: recv or send fails on a socket select
\* reported, or its heartbeat expired.  OnNetLeave, and note the change.
ClientLeaves(s, h) ==
  /\ At(s, "visit")
  /\ h \in Keys(s)
  /\ IF phase[s] = "time" THEN "expire" \in Events
                          ELSE "leave" \in Events /\ h \in fdBack[s]
  /\ OnNetLeave
  /\ NoteChange(s)
  /\ cur' = [cur EXCEPT ![s] = h]
  /\ MoveTo(s, "delete")
  /\ UNCHANGED <<obj, sock, accVars, buffVars, clients, fdBack, isRun, phase, merged, mainVars, history>>

\* delete pClient closes the socket: the system may give the handle out again.
DeleteClient(s) ==
  /\ At(s, "delete")
  /\ obj' = [obj EXCEPT ![clients[s][cur[s]]] = "freed"]
  /\ sock' = [sock EXCEPT ![clients[s][cur[s]]] = NoHandle]
  /\ MoveTo(s, "erase")
  /\ UNCHANGED <<clientCount, accVars, buffVars, mapVars, isRun, phase, cur, merged, mainVars, history>>

\* Mutant: the client is deleted but stays in the map.
EraseNothing(s) == UNCHANGED clients

Erase(s) == clients' = [clients EXCEPT ![s][cur[s]] = NoClient]

\* _clients.erase(iter).  CheckTime then increments the erased iterator: it
\* may get on to any other client or to the end of the map, or crash.
EraseClient(s) ==
  /\ At(s, "erase")
  /\ Erase(s)
  /\ cur' = [cur EXCEPT ![s] = NoHandle]
  /\ MoveTo(s, "visit")
  /\ crashed' \in {FALSE, phase[s] = "time"}
  /\ UNCHANGED <<objVars, accVars, buffVars, clientsChange, fdBack, isRun, phase, merged, mainVars, failed, cleared>>

\* The sweep is over: on to the next, or to the top of the loop.
SweepEnds(s) ==
  /\ At(s, "visit")
  /\ phase' = [phase EXCEPT ![s] = CASE @ = "read" -> "write"
                                     [] @ = "write" -> "time"
                                     [] @ = "time" -> "read"]
  /\ MoveTo(s, IF phase[s] = "time" THEN "top" ELSE "visit")
  /\ UNCHANGED <<objVars, accVars, buffVars, mapVars, isRun, cur, merged, mainVars, history>>

-----------------------------------------------------------------------------
\* ClearClients, when OnRun has ended.

Free(cs) ==
  /\ obj' = [c \in Clients |-> IF c \in cs THEN "freed" ELSE obj[c]]
  /\ sock' = [c \in Clients |-> IF c \in cs THEN NoHandle ELSE sock[c]]
  /\ cleared' = cleared \union cs

InMap(s) == {clients[s][h] : h \in Keys(s)}
InBuff(s) == {clientsBuff[s][i] : i \in DOMAIN clientsBuff[s]}

ClearMap(s) ==
  /\ At(s, "clear")
  /\ Free(InMap(s))
  /\ clients' = [clients EXCEPT ![s] = [h \in Handles |-> NoClient]]
  /\ MoveTo(s, "clear_buff")
  /\ UNCHANGED <<clientCount, accVars, buffVars, clientsChange, fdBack, isRun, phase, cur, merged, mainVars, crashed, failed>>

\* Mutant: the clients in the buffer are forgotten.
ClearBuffForgets(s) ==
  /\ At(s, "clear_buff")
  /\ MoveTo(s, "clear_end")
  /\ UNCHANGED <<objVars, accVars, buffVars, mapVars, isRun, phase, cur, merged, mainVars, history>>

\* The buffer is deleted and then cleared, without its lock.
ClearBuff(s) ==
  /\ At(s, "clear_buff")
  /\ Free(InBuff(s))
  /\ MoveTo(s, "clear_end")
  /\ UNCHANGED <<clientCount, accVars, buffVars, mapVars, isRun, phase, cur, merged, mainVars, crashed, failed>>

ClearEnd(s) ==
  /\ At(s, "clear_end")
  /\ clientsBuff' = [clientsBuff EXCEPT ![s] = <<>>]
  /\ cleared' = cleared \union InBuff(s)
  /\ MoveTo(s, "done")
  /\ UNCHANGED <<objVars, accVars, lock, mapVars, isRun, phase, cur, merged, mainVars, crashed, failed>>

ServerThread(s) ==
  \/ Top(s) \/ Merge(s) \/ MergeOne(s) \/ MergeEnd(s)
  \/ Idle(s) \/ Select(s) \/ SelectFails(s) \/ Exit(s)
  \/ \E h \in Handles : ClientLeaves(s, h)
  \/ DeleteClient(s) \/ EraseClient(s) \/ SweepEnds(s)
  \/ ClearMap(s) \/ ClearBuff(s) \/ ClearEnd(s)

-----------------------------------------------------------------------------
\* main: InitSocket, Bind, Listen, Start, and Close when it reads exit.

MayFail == "open_error" \in Events

\* socket, on a server that has none.
InitSocket ==
  /\ mpc = "init"
  /\ lfd' = "open" \/ (MayFail /\ UNCHANGED lfd)
  /\ mpc' = "bind"
  /\ UNCHANGED <<credit, ms, life, restart, objVars, accVars, buffVars, mapVars, isRun, thrVars, history>>

\* Bind tries socket again if it has failed.  main looks at no result.
Bind ==
  /\ mpc = "bind"
  /\ \/ lfd' = "bound"
     \/ MayFail /\ lfd' = "open"
     \/ MayFail /\ lfd = "none" /\ UNCHANGED lfd
  /\ mpc' = "listen"
  /\ UNCHANGED <<credit, ms, life, restart, objVars, accVars, buffVars, mapVars, isRun, thrVars, history>>

\* listen fails on a socket that is not bound.
Listen ==
  /\ mpc = "listen"
  /\ \/ lfd = "bound" /\ lfd' = "listening"
     \/ (lfd # "bound" \/ MayFail) /\ UNCHANGED lfd
  /\ mpc' = "start"
  /\ UNCHANGED <<credit, ms, life, restart, objVars, accVars, buffVars, mapVars, isRun, thrVars, history>>

\* Start creates the CellServers and starts all threads.  (The CellServers of
\* an earlier life are gone, with what was still in their buffers.)
Start ==
  /\ mpc = "start"
  /\ clientsBuff' = [s \in Servers |-> <<>>]
  /\ cleared' = cleared \union UNION {InBuff(s) : s \in Servers}
  /\ clientsChange' = [s \in Servers |-> TRUE]
  /\ fdBack' = [s \in Servers |-> {}]
  /\ isRun' = [s \in Servers |-> TRUE]
  /\ pc' = [s \in Servers |-> "top"]
  /\ phase' = [s \in Servers |-> "read"]
  /\ accRun' = TRUE /\ apc' = "loop"
  /\ ms' = 1 /\ life' = life + 1
  /\ mpc' = "serving"
  /\ UNCHANGED <<credit, lfd, restart, objVars, acc, lock, clients, cur, merged, crashed, failed>>

\* Close, from main or from InitSocket: _thread.Close() stops the accept thread
\* and waits for it, unless it has left through Exit already.
CloseAcc ==
  /\ mpc = "serving"
  /\ \/ "close" \in Events /\ UNCHANGED restart
     \/ "restart" \in Events /\ life < MaxLives /\ lfd # "none" /\ restart' = TRUE
  /\ accRun' = FALSE
  /\ mpc' = IF accRun THEN "join_acc" ELSE "stop"
  /\ UNCHANGED <<objVars, apc, acc, buffVars, mapVars, isRun, thrVars, credit, lfd, ms, life, history>>

\* When the thread is through main goes on, or its signal is lost and main
\* sleeps for ever.  (A main that a spurious wakeup saves has joined late.)
JoinAcc ==
  /\ mpc = "join_acc"
  /\ apc = "done"
  /\ mpc' \in {"stop", "asleep"}
  /\ UNCHANGED <<objVars, accVars, buffVars, mapVars, isRun, thrVars, credit, lfd, ms, life, restart, history>>

\* The wakeUp of an earlier life's accept thread answers at once: main goes on
\* although the accept thread of this life is still running.
JoinAccOvertakes ==
  /\ mpc = "join_acc"
  /\ credit /\ apc # "done"
  /\ mpc' = "stop"
  /\ failed' = failed \union {0}
  /\ UNCHANGED <<objVars, accVars, buffVars, mapVars, isRun, thrVars, credit, lfd, ms, life, restart, crashed, cleared>>

\* delete s for one CellServer after the other, if there is a _lfd: its thread
\* is stopped and waited for, unless it has left through Exit already.
StopServer ==
  /\ mpc = "stop"
  /\ ms \in Servers /\ lfd # "none"
  /\ Stop(ms)
  /\ IF isRun[ms] THEN mpc' = "join" /\ ms' = ms ELSE mpc' = "stop" /\ ms' = ms + 1
  /\ UNCHANGED <<objVars, accVars, buffVars, mapVars, thrVars, credit, lfd, life, restart, history>>

\* Here, too, the signal may be lost.
JoinServer ==
  /\ mpc = "join"
  /\ At(ms, "done")
  /\ \/ mpc' = "stop" /\ ms' = ms + 1
     \/ mpc' = "asleep" /\ UNCHANGED ms
  /\ UNCHANGED <<objVars, accVars, buffVars, mapVars, isRun, thrVars, credit, lfd, life, restart, history>>

\* The second life is bounded to a start after every thread of the first has
\* ended: one that has left through Exit is not waited for.
CloseReturns ==
  /\ mpc = "stop"
  /\ ms > NServers \/ lfd = "none"
  /\ restart => apc = "done" /\ \A s \in Servers : At(s, "done")
  /\ lfd' = "none"
  /\ mpc' = IF restart THEN "init" ELSE "closed"
  /\ restart' = FALSE
  /\ UNCHANGED <<objVars, accVars, buffVars, mapVars, isRun, thrVars, credit, ms, life, history>>

StartUp == InitSocket \/ Bind \/ Listen \/ Start
ShutDown == JoinAcc \/ StopServer \/ JoinServer \/ CloseReturns
Main == StartUp \/ CloseAcc \/ ShutDown \/ JoinAccOvertakes

Next ==
  /\ ~crashed
  /\ AcceptThread \/ Main \/ \E s \in Servers : ServerThread(s)

Spec == Init /\ [][Next]_vars

(* The scheduler runs every thread that is not blocked: the loops of the    *)
(* threads never wait for longer than select's microsecond or a sleep of a  *)
(* millisecond.  Main's wait for a thread ends when the thread has ended,   *)
(* by waking up or by a sleep from which it never wakes.  Connections,      *)
(* departures, the call of Close and what an old credit does are chance.    *)
Fairness ==
  /\ \A s \in Servers : WF_vars(~crashed /\ ServerThread(s))
  /\ WF_vars(~crashed /\ (ReadMin \/ ReadNext \/ AddClients \/ OnNetJoin \/ AccStops \/ AccExit))
  /\ WF_vars(~crashed /\ (StartUp \/ ShutDown))

FairSpec == Spec /\ Fairness

-----------------------------------------------------------------------------
AccLabels == {"loop", "min_clients", "min_buff", "next_clients", "next_buff",
              "push", "join", "exit", "done"}
Clearing == {"clear_buff", "clear_end", "done"}
ServerLabels == {"top", "merge", "merging", "poll", "exit", "visit", "delete",
                 "erase", "clear"} \union Clearing

TypeOK ==
  /\ obj \in [Clients -> {"none", "live", "freed"}]
  /\ sock \in [Clients -> Handles \union {NoHandle}]
  /\ clientCount \in -1..Cardinality(Clients)
  /\ accRun \in BOOLEAN /\ apc \in AccLabels
  /\ acc \in [client : Clients \union {NoClient}, min : Servers, next : Nat,
              minLoad : Nat, load : Nat]
  /\ clientsBuff \in [Servers -> Seq(Clients)]
  /\ lock \in [Servers -> BOOLEAN]
  /\ clients \in [Servers -> [Handles -> Clients \union {NoClient}]]
  /\ clientsChange \in [Servers -> BOOLEAN]
  /\ fdBack \in [Servers -> SUBSET Handles]
  /\ isRun \in [Servers -> BOOLEAN]
  /\ pc \in [Servers -> ServerLabels]
  /\ phase \in [Servers -> {"read", "write", "time"}]
  /\ cur \in [Servers -> Handles \union {NoHandle}]
  /\ merged \in [Servers -> Nat]
  /\ lfd \in {"none", "open", "bound", "listening"}
  /\ credit \in BOOLEAN
  /\ mpc \in {"init", "bind", "listen", "start", "serving", "join_acc", "stop", "join", "asleep", "closed"}
  /\ ms \in 1..(NServers + 1) /\ life \in 0..MaxLives /\ restart \in BOOLEAN
  /\ crashed \in BOOLEAN
  /\ failed \in SUBSET (Servers \union {0})
  /\ cleared \in SUBSET Clients

\* What a thread finds in _clients or _clientsBuff has not been deleted: an
\* entry of the map is a live client under its own socket, but for the one
\* that its thread has just deleted and is about to erase, although the system
\* may have reused that socket for a client of any thread in between.
NoDangling ==
  \A s \in Servers :
    /\ \A h \in Keys(s) :
         \/ obj[clients[s][h]] = "live" /\ sock[clients[s][h]] = h
         \/ At(s, "erase") /\ cur[s] = h
    /\ ~At(s, "clear_end") => \A c \in InBuff(s) : obj[c] = "live"

\* Who holds a client: CellServer threads, or the accept thread (number 0)
\* until it has pushed the client.
Holders(c) ==
  {s \in Servers : c \in InMap(s) \union InBuff(s)}
    \union {a \in {0} : acc.client = c /\ apc # "join"}

\* No client belongs to two threads and none is lost, whichever sockets are
\* reused: a live client has exactly one holder, who will delete it.  (When a
\* thread has failed, its ClearClients may drop a client that the accept
\* thread is just adding, but not give it to anybody else; and so may the
\* end of an accept thread that main has not waited for.)
OwnedOnce ==
  \A c \in Clients : obj[c] = "live" =>
    /\ Cardinality(Holders(c)) <= 1
    /\ failed = {} => Holders(c) # {}

\* _fdRead_back is trusted whenever _clients_change is FALSE: it is then the
\* set of the sockets in _clients, with none missing and none left over; a
\* closed one would make select fail and end the thread with all its clients.
FdSetFresh ==
  \A s \in Servers :
    (pc[s] \in {"top", "merge", "poll"} /\ ~clientsChange[s]) => fdBack[s] = Watched(s)

\* The clients that have been pushed and whose OnNetLeave has not been called.
Members ==
  {c \in Clients : \E s \in Servers :
     /\ c \in InMap(s) \union InBuff(s)
     /\ ~ (pc[s] \in {"delete", "erase"} /\ clients[s][cur[s]] = c)}

\* _clientCount counts the members, although the accept thread counts a client
\* only after it has given it away, when it may have left again; and for ever,
\* in later lives of the server too, those that ClearClients has deleted or
\* dropped without OnNetLeave.
CountExact ==
  clientCount = Cardinality(Members \union cleared) - (IF apc = "join" THEN 1 ELSE 0)

\* When Close returns every connection that was ever accepted is deleted and
\* its socket closed, wherever it was on its way, unless a thread failed: its
\* CellServer goes on being given clients; or main did not wait for the accept
\* thread, which goes on giving.
AllReleased ==
  (mpc = "closed" /\ failed = {}) => \A c \in Clients : obj[c] # "live"

\* A client that was accepted is before long watched by the select of a
\* CellServer thread, or gone, or with a CellServer whose thread has left its
\* loop, which goes on being given clients.
EveryClientWatched ==
  \A c \in Clients :
    (apc = "push" /\ acc.client = c) ~>
      \/ obj[c] = "freed"
      \/ \E s \in Servers, h \in Handles : clients[s][h] = c /\ h \in fdBack[s]
      \/ \A s \in Holders(c) : s # 0 /\ pc[s] \in {"exit", "clear"} \union Clearing

\* Close gets through all threads, whatever each of them is doing: it returns,
\* or else it has lost the signal of a thread that is through (NoLostSignal of
\* CELLThread shows how), or waits for a thread that waits in Exit for Close.
CloseCompletes ==
  (mpc \in {"join_acc", "stop", "join"}) ~>
    \/ mpc \in {"init", "closed"}
    \/ mpc = "asleep"
    \/ mpc = "join_acc" /\ apc = "exit"
    \/ mpc = "join" /\ At(ms, "exit")

-----------------------------------------------------------------------------
\* What comments and the README say and the code does not do.

\* README.md:36: a client without a heartbeat is disconnected, and the server
\* goes on.
ExpiryOnlyDisconnects == ~crashed
=============================================================================
