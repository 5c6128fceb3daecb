# HP_Server: specification and verification

TLA+ models of HP_Server, a select-based TCP server and its load generator in
C++, checked with TLC and, but for liveness, proved with TLAPS. `PROJECT.json` lists the
runs, the source lines each definition stands for, the hazards of the code, and
for each property a mutant of the code that breaks it.

The repository holds two versions: the current one, version 2 (`src/v2`), and
version 1 (`src/v1`). Both are modelled. The models follow the Windows build, the
platform of the repository's README; the other branches of the `#ifdef`s do not
compile (`#define SOCKET int;`).

Names in the modules are the code's, without the leading underscore.

## The system

| component | state | operations | used by |
|---|---|---|---|
| CELLSemaphore | `_wait`, `_wakeup`, a mutex, a condition variable | `waitForCall`, `wakeUp` | CELLThread |
| CELLThread | `_isRun`, `_mutex`, `_sem`, three callbacks | `Start`, `Close`, `Exit`, `OnWork` | every thread of the server |
| CellTaskServer | `_tasks`, `_taskBuf`, a mutex, a thread | `addTask`, `Start`, `Close`, `OnRun` | CellServer, CELLLog |
| CELLLog | `_logFile`, a CellTaskServer | `setLogPath`, `Info` | everything |
| CellServer | `_clients`, `_clientsBuff`, `_clients_change`, the backup `fd_set`, `_oldTime` | `addClients`, `getClientCount`, `OnRun`, `CheckTime`, `ReadData`, `WriteData`, `ClearClients` | EasyTcpServer |
| EasyTcpServer | `_lfd`, `_cellServers`, counters | `InitSocket`, `Bind`, `Listen`, `Start`, `Accept`, `OnRun`, `OnNetJoin`/`OnNetLeave`, `Close` | main |
| CellClient | socket, receive and send buffer, `_dtHeart` | `RecvData`, `SendData`, `sendDataReal`, `checkHeart`, `resetDTHeart` | CellServer, OnNetMsg |
| CELLBuffer | bytes and `_nLastPos` | `push`, `pop`, `hasMsg`, `read4socket`, `write2socket` | CellClient |
| MyServer, main | - | `OnNetMsg`, the command loop | - |
| client program | `g_bRun`, `client[]`, `readyCount` | `cmdThread`, `sendThread`, `recvThread`, main | - |
| version 1 server | `_lfd` and `g_bRun` shared by all, vectors of clients, `_clientCount` | `InitSocket`, `Bind`, `Listen`, `Start`, `OnRun`, `Accept`, `Close`, `RecvData`, `OnNetMsg` | main |
| version 1 client | a socket and a message buffer per client, `g_bRun` | `Connect`, `SendData`, `OnRun`, `RecvData`, `Close` | main |

How they interact. In version 2 main starts EasyTcpServer, which starts one
accept thread and several CellServers, each with a receiving thread and a task
server. The accept thread puts a new CellClient into the `_clientsBuff` of a
CellServer, under its lock, and then calls `OnNetJoin`. The CellServer thread moves
clients to `_clients`, waits in `select`, and reads, writes and expires; for each
message it calls `OnNetMsg`, which pushes a reply into the client's send buffer.
Threads end by `Close` from main, which waits on a semaphore, or by their own
`Exit` after an error. The counters of EasyTcpServer are atomic and shared by all
threads. Everybody logs, through the queue of a task server of its own.

In version 1 main itself accepts. Its CellServers wait in a `select` without a
timeout, reply with a blocking `send` from within the loop that receives, and end
only when a `select` of theirs fails. They all hold the same listening socket.

What is hard, and what makes each part correct:

* **Joining a thread.** The semaphore's counters are plain ints which `wakeUp`
  changes without the lock. Right if `Close` returns only when the callbacks are
  over (their destructors free what the callbacks use), if it does return, and if
  `Exit` never blocks.
* **Handing clients over.** A client passes from the accept thread to a buffer to
  a map while its peer leaves, its socket handle is reused, a sibling thread
  fails, main closes everything or starts it anew. Right if exactly one thread owns
  it, it is deleted once, counted exactly, and every socket is closed in the end.
* **The cached `fd_set`.** Right if it is the set of the map's sockets whenever
  it is used: one closed socket in it ends the thread with all its clients.
* **The heartbeat.** The clock is read once in a round and the whole round counts
  for every client. Right if who keeps up heartbeats stays and who does not goes.
* **The double-buffered queue.** Looked at without the lock in two places. Right
  if it is a FIFO queue that runs each task once and loses nothing added before
  `Close`.
* **The log file.** Its pointer is set by main and read, several times for one
  line, by the log thread. Right if lines are whole, in order, and none is lost.
* **Framing.** `recv` cuts the stream anywhere, buffers fill up. Right if no byte
  is lost or repeated and a full buffer is never mistaken for a closed peer.
* **The client's barrier and exit.** Right if nobody sends before all are
  connected, the barrier always opens, and clients are used while they exist.
* **Version 1's loop.** Both ends block in `send`, an erase skips the next client,
  new clients wait for old ones to speak. Right if the two ends never wait for each
  other and everybody is served where the blocking `select` allows it.

## The modules

**CELLSemaphore** has one action per atomic piece of `waitForCall` and `wakeUp`:
each `++` and `--` is a load and a store (`WaitLoad`/`WaitStore`,
`CallLoad`/`CallStore`, ...), the test of the predicate and the sleep are two
steps, `notify_one` on nobody is lost. `reg` is the loaded value. The
semaphore's mutex has no variable, because only the waiting thread ever takes it.

**CELLThread** extends it with `Start`, `Close`, `Exit`, `OnWork` and the
destruction of the object. Worker `w` is the one the `w`-th `Start` created; an
earlier one may still be in `notify_one` when the next begins. Whether `OnRun` may
fail (`AllowExit`) and whether the condition variable wakes spuriously
(`AllowSpurious`) are constants. `OnRun` itself is one label: what it does is the
subject of the modules that use the thread.

**JoinableThread** is what a user of CELLThread can rely on: one worker, which goes
on until told to stop, and a `Close` that does not return before it is through.
Whether it returns at all is left open: its signal may get lost, and then `Close`
sleeps ("lost") until a spurious wakeup, if there is one. CELLThread implements this
(`ImplementsJoinableThread`) when nothing leaves through `Exit`. CellServer and
CellTaskServer take no more than this for their threads: wherever they wait for
one, they go on or sleep for ever.

**TaskQueue**, **CellTaskServer**: the abstract FIFO queue and `CELLTask.hpp`.
`addTask` and the worker's move hold the lock for all they do and are one step;
`_taskBuf.empty()` and the walk over `_taskBuf` after `Close` hold no lock and are
steps of their own. The mapping: what is pending is `_tasks` from the iterator on
followed by `_taskBuf`, or `_taskBuf` from the iterator on. A task that is added
after `Close`, behind the iterator's back, stays for ever, and the abstract queue
allows just that. `Close` ends in `CloseReturns` or `LoseSignal`; in both cases all
that was added before it has run.
A `push_back` while the worker walks `_taskBuf` without the lock is a data race in
C++; the model lets the worker meet the new task or miss it.

**CELLLog** extends CellTaskServer: `Info` is `addTask`, and the worker's task,
one step there, is the test of `_logFile`, an `fprintf` for the time, one for the
text, and the line on the screen (`TaskIf`, `TaskStamp`, `TaskText`, `TaskPrint`),
each of which reads the pointer anew. `setLogPath` reports and closes the file there
is (`SetLogPath`, `Fclose`, `SetNull`), opens the new one (`fopen` may fail) and
reports. `_logFile` is null at first because `Instance()` is static. A use of a
closed or null `FILE` is undefined; in the model the text is lost, `fault` is set
and the program goes on, which allows more than a crash would.

**CellServer** composes the accept thread, the CellServer threads and main, from
`InitSocket` (`socket` may fail), `Bind` and `Listen` (which may fail too, and whose
result main does not look at) and `Start` to `Close`, and through another
`InitSocket`, which closes the server that runs and begins a second life. A client
object goes "none", "live", "freed"; a socket handle may be given out again as soon
as it is closed. `Accept`, `ReadMin`/`ReadNext` (the two unlocked sizes
`getClientCount` adds), `AddClients`, `OnNetJoin` are the accept thread; `Top`,
`Merge`, `MergeOne`, `MergeEnd` the locked move, `Select`/`SelectFails`, then three
sweeps with `ClientLeaves`, `DeleteClient`, `EraseClient`, and `ClearMap`,
`ClearBuff`, `ClearEnd` for `ClearClients`. main's `Close` waits for one thread
after the other (`JoinAcc`, `JoinServer`), from which it goes on or falls asleep for
ever with the signal lost. `credit` is what an accept thread that left through `Exit`
leaves in the semaphore of its thread object, which the next life uses again:
`JoinAccOvertakes` is the `Close` that goes on without waiting because of it. What
the peer sends is left to
CellSession, and when a heartbeat expires to Heartbeat: here a client leaves or
does not. `Events` says what the environment does in a run. `failed` and `cleared`
are history variables: the CellServers whose thread left through `Exit`, with 0 for
the accept thread that `Close` overtook; the clients that are gone without an
`OnNetLeave`. A restart is modelled when all threads of the first life have ended.

**Heartbeat** is the clock that CellServer leaves out, with one CellServer thread.
Only differences of times matter, so a `Tick` moves the timers; it may come between
any two steps, `MaxLag` times between two readings of the clock. Peers send
heartbeats and other messages, hang, or close; what they send waits in the socket
until the thread reads it. `CheckTime` adds the length of the round to each
client in turn, and after an expiry its iterator is the erased one: from there the
sweep crashes, ends, or goes on at any element.

**CellSession** is one connection: `recv` into the receive buffer, `hasMsg`,
`OnNetMsg`, `pop`, and `push`, `write2socket` the other way, with a peer that
sends requests, receives, or closes its socket. Bytes are units `<<message,
position>>`, so a unit out of place is seen. Sockets block, as nothing in the
code makes them anything else: `send` returns when all is sent.

**ClientApp** is the version 2 load generator. `EasyTcpClient` of version 2 is not
in the repository, so a client is only an object that must exist when used; a
use of one that does not is recorded in `fault`, after which nothing is known of
the process and it stops.

**V1Server** is version 1's server: main with its look at `g_bRun`, `select`,
`Accept` and the choice of a CellServer; the CellServer threads with the locked move
of new clients, the blocking `select` (`Select` is enabled only when a watched socket
has something), the sweep that erases from the vector it walks, and the `Close`
of a thread whose `select` failed, which closes the listening socket of all. After
its messages are handled a client may be at "reply", where the thread is in the `send`
that answers them. While the peer is there and Winsock is up (`Sending`) that may
take for ever, and `Reply` is chance; when either is gone it ends. `getClientCount`
is two reads without the lock, of the CellServer with the fewest clients so far and
of the next one (`ReadMin`, `ReadNext`, `Scan`). What ends a thread after main's
`Close` is the end of Winsock, without which every socket call fails: `winsock`
counts `WSAStartup`, of which there is a second one when `Bind` finds no socket and
calls `InitSocket` again, against `WSACleanup`. Clients are numbers and are accepted
in their order, which leaves out renamings only.

**V1Session** is version 1's closed loop: a sending thread of the client program,
which sends a batch and then receives for one connection after the other, and the
CellServer thread that answers within its receiving loop. `Login` and
`LoginResult` have the same length, so bytes are only counted; each `send` proceeds
unit by unit, as the socket has room. When `recv` fails the erase makes the sweep pass
over a ready client, any one, as the order of the vector is left out. A client whose
`connect` failed has a socket too, which the first failing `send` or the clean-up
closes ("shut"), and of which the server never hears.

`MCCellServer` and `MCCellSession` hold the symmetry set and the message lengths
for TLC. The modules named `..._proofs` extend those of the same name with their
theorems; that of CELLLog holds those of CellTaskServer too.

## The runs

| run | bounds | shows |
|---|---|---|
| thread_close | 3 starts, no Exit | `CloseJoins`, `ImplementsJoinableThread` with its liveness; `OrderedSignalArrives` under fairness |
| thread_exit | 2 starts, Exit, spurious wakeups | `ExitNeedsNoSemaphore` |
| server_life | 2 CellServers, 3 connections, 2 handles, 2 lives, every event | `NoDangling`, `OwnedOnce`, `FdSetFresh`, `CountExact`, `AllReleased` |
| server_fair | 2 CellServers, 2 connections, 2 lives, no expiry | `EveryClientWatched`, `CloseCompletes` under fairness |
| log | 2 messages, 2 calls of `setLogPath` with up to 3 reports | `ImplementsTaskQueue`, with its liveness; `LinesWhole`, `NothingLost` |
| heartbeat | 2 clients, death after 4 ticks, rounds of at most 1, heartbeats 1 apart | `LivelyPeersStay`, `QuietPeersLeave`; `HungPeersLeave` under fairness |
| session | 3 requests, buffers of 4 and 5 units, 3 on the wire | `RequestsIntact`, `RepliesIntact`, `OnlyClosedPeersLeave`; `RequestsHandled`, `RepliesArrive` under fairness |
| client_run | 2 threads of 2 clients | `SendsAfterAllConnected`, `FaultsOnlyAtTheEnd`; `BarrierOpens` under fairness |
| v1_server | 2 CellServers, 3 clients of which the 1st and the 3rd send, a `socket` that may fail, 1 `select` that may fail | `OwnedOnce`, `CountExact`, `SocketsOpen`; `SkippedClientsServed`, `NewClientsTakenOver`, `CloseFreesClients` under fairness |
| v1_session | 2 connections, messages of 2 units, `recv` of 3, buffers of 5, 10 on the wire | `NoOverrun`, `InStep`, `NoMutualBlock`; `RoundsGoOn` under fairness |

The runs of the version 2 modules CELLThread, CellServer, CELLLog, Heartbeat and
CellSession also check a type invariant. Two further runs, thread_lost_signal and
server_sweep, end in a violation and are explained below.

Why the bounds are enough.

* Three starts give an old worker in `notify_one`, one that is being closed and
  one to come.
* Three connections over two handles force reuse of a handle, by the same or by
  another CellServer, while one client is in a map, one in a buffer and one with the
  accept thread. Two lives let what `Close` left behind meet a new server.
* Five tasks put some in `_tasks`, some in `_taskBuf` and one behind the iterator,
  and let the log thread be anywhere in a line while main is in either call of
  `setLogPath`.
* A death after four ticks is the least that `Interval + 2 * MaxLag < DeadTime`
  allows with all of these positive: a heartbeat may wait out one round and is counted
  from the beginning of the next. With equality TLC finds a lively peer expired. Two
  clients give an expiry with one before and one behind it.
* The buffers of session hold exactly the largest message, and one unit more than
  the largest reply, so that messages end at the end of the buffer, replies are
  dropped, and `send` blocks half-way.
* Two threads of two clients have one thread in each part of its loop while the
  other is anywhere.
* Three clients put two on one CellServer of version 1, where the erase of the
  first skips the second; the other CellServer shares the listening socket with the
  one whose `select` fails. Two that send leave one silent, and one to hold up the
  other.
* In v1_session `MsgBufSize` and `WireSize` are the smallest the assumptions allow,
  so that a buffer is full to the last unit and a socket is full before a batch is
  through.

FD_SETSIZE (5024 in version 2's `CELL.hpp:6`, 1024 in version 1) is not reached:
the runs give `FdSetSize` at least `NHandles`. Beyond it `Watched` has the clients
whose sockets do not get into the set, which nothing in the code notices.

Fairness. Threads the operating system can run are run (weak fairness for each
thread's steps); a thread that waits for a lock, a semaphore, a `send` or, in
version 1, a `select` has no step until what it waits for is there. main runs too
where it starts and shuts down the server. A wait for another thread need not be
answered when that thread is through: above CELLThread, fairness only says that it is
over in one of two ways, `Close` goes on or has lost its signal. In heartbeat time
passes as well. Nothing is assumed of what people and networks do: connecting,
leaving, sending, reading, hanging, typing exit, calling `Start`, `Close` or
`InitSocket` again, an error of a system call, a spurious wakeup. The one exception is
the peer in CellSession, which takes what has arrived, as the receiving thread of the
client program does. `select` in version 2 has a timeout of a microsecond and never
holds a thread up. A CellServer thread of V1Server is not fair while it is `Sending`,
because a peer need not read; its properties say what that excuses (`HeldUp`). In
V1Session both ends are threads of the code and fair, and the client may stop at any
time.

`CHECK_DEADLOCK FALSE` is set where the system really ends: the thread object
destroyed, `Close` returned, the client gone, the process over, or all that is
bounded is used up.

## What the code does not do as it says

Two runs end in a violation that a finding of `PROJECT.json` explains, with the
line it contradicts:

* thread_lost_signal: `++_wait` and `--_wait` overlap, one is lost, `Close` sleeps
  for ever. Every `Close` of the server and of a task server rests on this.
* server_sweep: `CheckTime` increments the iterator it erased.

More that the models and the reading show, without a run of its own:

Version 2, threads and server

* `Exit` needs the mutex that `Close` holds while it waits for this very worker
  (`CELLThread.hpp:48`): both wait for ever, although `Exit` leaves the semaphore
  alone in order not to block (comment at `:45`). `CloseCompletes` excuses `Close`
  in this case and when its signal is lost, and in no other.
* After `Exit`, `Close` does not wait: it returns while the worker is still in
  `_OnDestory`. `CloseJoins` fails with `AllowExit = TRUE`. The credit that worker
  leaves in the semaphore also lets the `Close` after a restart return too early: in
  the second life of a server whose accept thread failed in the first, main may delete
  the CellServers under the accept thread (`JoinAccOvertakes`). `AllReleased`
  excuses that case.
* `_wakeup` releases the owner before the worker has called `notify_one`: the owner
  may destroy the semaphore under it. (CELLThread's `Destroy` is enabled while a
  worker is at "notify".)
* `OnNetJoin` may be given a client its CellServer has already deleted
  (`EasyTcpServer.hpp:130`). MyServer's does not look at it; the count comes out
  right (`CountExact`).
* A CellServer whose thread ended has the smallest count, and new clients go to it
  for good. `EveryClientWatched` and `AllReleased` excuse its clients.
* `getClientCount` adds two sizes without the lock. In the middle of a merge a
  client is in both containers, and the next client goes to a busier CellServer.
* `ClearClients` does not call `OnNetLeave`, so after an error or a restart the count
  stays too high by those clients, for ever; `CountExact` counts them in `cleared`. A
  client the accept thread pushes into `_clientsBuff` just then is never deleted.
* main looks at no result. After a failed `socket`, `Start` makes threads that
  `Close`, which looks at `_lfd`, does not end.
* After an expiry everything is undefined. Where the model lets the program live on,
  a sweep may pass clients over or age one twice; they are caught in a later one
  (`HungPeersLeave`).
* The case of `CMD_HEART_C2S` has no `break`: heartbeats are logged as undefined.
  The constructors of `LogoutResult` and `NetMsg_LogoutR` set the wrong command;
  nothing sends them.

Version 2, log and client

* A second `setLogPath`, which the program never makes, closes the file while the log
  thread may be between its test and its `fprintf`; its own report, queued one line
  earlier, is enough. `LinesWhole` and `NothingLost` hold until a file is closed.
* The time in a line is `(tm_hour + 8) % 24` with the day left as it is.
* After exit the client's receiving thread finishes its round over clients the
  sending thread deletes, and the clean-up closes clients that were never created
  when exit was typed early. `FaultsOnlyAtTheEnd` says where the limits are: only
  after exit, never in connecting or sending.

Version 1

* A CellServer whose `select` fails closes the listening socket of all. main's
  `select` fails next and its `Close` calls `WSACleanup`, after which every other
  thread fails too: one error takes the whole server down. `SocketsOpen` says that
  nothing less does.
* A client that leaves is deleted without closing its socket
  (`server/EasyTcpServer.hpp:160`): handles leak until the program ends.
* After main's `Close` a thread with no client never ends, and clients in the buffer
  of a thread that has ended are never deleted (`CloseFreesClients` excuses them).
* A new client waits in the buffer until an old one of the same CellServer sends
  something (`NewClientsTakenOver` excuses this).
* One peer that sends and does not read keeps its CellServer thread in `send` for ever
  (`server/EasyTcpServer.hpp:64`), and with it all clients of that CellServer.
  `NewClientsTakenOver` and `SkippedClientsServed` excuse those, from the moment on
  from which the `send` never ends.
* After a failed `socket`, `Bind` calls `InitSocket` again
  (`server/EasyTcpServer.hpp:314`), and `WSAStartup` has run twice. The one
  `WSACleanup` of `Close` leaves Winsock up, so no thread notices that the server has
  closed and no client is deleted. `CloseFreesClients` is about a `Close` that does
  take Winsock away.
* Server and client can block each other for ever if a batch is larger than what one
  `recv` takes, or if a socket holds little more than two of those (see
  `WireAssumption` below). The program's batch has 1000 bytes, its receive buffer
  10240, sockets some 64 KB.

## What is proved

Every invariant of every passing run is a theorem of its specification, for every
value of the constants: any number of threads, clients, handles, tasks, messages,
any lengths and buffer sizes the named assumptions allow. So are the safety parts of
two refinements: CELLThread implements JoinableThread, and CellTaskServer, with and
without the log above it, implements TaskQueue, both but for their fairness. Each `_proofs` module has one
inductive invariant, a conjunction of named parts, with three lemmas: it holds
initially, each action preserves it, and so it always holds. Each of these
invariants was model-checked before it was proved.

The assumptions are those the modules state about their constants, and no others
(but for `AllowExit = FALSE` where it is named below). Three of them carry weight:

* `Interval + 2 * MaxLag < DeadTime` in Heartbeat. With equality TLC finds a lively
  peer expired.
* `WireAssumption` in V1Session: a batch fits into a receive buffer, and a socket
  holds two receive buffers, a batch and a message. "More than two receive buffers"
  is not enough: with `HdrLen = 1`, `MsgLen = 3`, `Batch = 1`, `RecvSize = 5`,
  `MsgBufSize = 8`, `WireSize = 11` and two connections TLC finds both threads in
  `send`. The proof shows where the rest goes: the CellServer thread may be a receive
  buffer ahead with one connection, another for the round it is in, and the sending
  thread a batch.
* `ClientsAssumption` in CellServer and V1Server: there are finitely many clients,
  without which there is no count.

**CELLThread_proofs**: `TypeCorrect`, `CloseWaitsForWorker` and `ThreadIsJoinable`,
assuming `AllowExit = FALSE`; they are false with `Exit`, as described above.
`ExitIsFree`, without that assumption. `CloseJoins` alone is not inductive, because
whether `Close` may return is decided by `_wait` and `_wakeup`, and these are right
only together with the labels of both threads and the values they have loaded and
not stored. `IInv` says, for each place the owner can be at, where the last worker
can be and what the counters are (`Outside`, `Entering`, `Sleeping`, `Taking`),
that earlier workers are through but for `notify_one` (`OneWorker`), that the loaded
values are in range (`Loaded`) and that the mutex is held (`MutexHeld`). It includes
the states in which a signal was lost: the race can make `Close` sleep for ever but
never return too early. `ThreadIsJoinable` is `Spec => Joinable!Spec`; the fairness of
JoinableThread is checked by the run thread_close. `ExitNeedsNoSemaphore` needs only that a worker that
exited and is the last one leaves `_isRun` FALSE (`ExitInv`).

**CellServer_proofs**: `TypeCorrect`, `NoneDangles`, `OneOwner`, `BackupFresh`,
`Count`, `NothingLeft`, with every event of `AllEvents`, for any number of lives. The
properties only hold together. A map has no deleted client because a handle is given
to one live client at a time (`Sockets`) and an entry is under its client's handle
(`MapLive`); to delete a client from one map leaves the others alone because no two
CellServers have it (`Disjoint`), nor has the accept thread once it has pushed it
(`AccHolds`); a move that is cut in the middle has its first clients in both
containers and the others in the buffer alone (`Buffers`). `FdSets` says at which
labels the backup has to be right, `Leaving` that `_clients_change` is set before a
client goes. `NoFailure` is what holds as long as no thread has failed: each thread
runs until main stops it, live clients are with somebody, a thread that is done
leaves nothing. `CountOK` counts the clients that are with a thread, without the one
about to be deleted, and those in `cleared`; the accept thread at "join" owes one.

**CELLLog_proofs**: `TaskServerImplementsQueue`, `LogImplementsQueue`,
`LogTypeCorrect`, `WholeLines`, `NoneLost`. For the refinement `IInv` relates what
has run, the two lists and the iterator to what was added; each step of the worker,
also without the lock, is then a step of the queue or a stutter. `LogInv` adds
where main is in `setLogPath`: it has a report left for every report it can still
make (`ReportsLeft`), a file that is there (`FileThere`), one at most as long as none
is closed (`OneFile`). The fairness of TaskQueue is not part of the theorems: it
is checked by the run log.

**Heartbeat_proofs**: `TypeCorrect`, `Lively`, `Quiet`. A client's `_dtHeart` is not
the time since its last heartbeat: it contains all of a round in which the heartbeat
came late, and lacks the round in which the sweep had passed. `NotTooOld` and
`NotTooYoung` bound both differences, with what the sweep that is going on will still
add (`ToCome`) and with whether a heartbeat waits in the socket; they are stated up to
the first expiry, after which the sweep is undefined.

**CellSession_proofs**: `TypeCorrect`, `RequestsInOrder`, `RepliesInOrder`,
`OnlyTheClosedLeave`. The properties speak of neighbouring units of the stream. To
move a whole message at once the proof needs that a message that begins is there unit
after unit (`Unbroken`), that what is buffered are units of messages that were sent
(`Belongs`), and that the buffer has no whole message wherever the thread calls
`recv` (`Drained`), which is why the buffer is never full then.

**ClientApp_proofs**: `AllConnected`, `FaultsAtTheEnd`. `readyCount` is the number of
threads that are past their connections (`Counted`), nobody is out of the barrier
before all are (`Waited`), and as long as `g_bRun` is set a loop has passed over
nothing (`Complete`).

**V1Server_proofs**: `OneOwner`, `Count`, `AllOpen`. `Owned` says that the live clients
are just those the CellServers have and the one main has not given away: in version
1 a client is deleted and erased in one step, also by the erase that skips the next.

**V1Session_proofs**: `InBounds`, `Framing`, `NeverBothBlocked`. Buffers hold less than a
message outside the loop that handles them (`Sizes`). For the last theorem a state in
which both threads are blocked has to be shown impossible, with two connections that
may be different: one whose way to the server is full and one whose way back is. No
invariant of one connection does. `Bounded` adds, for each pair of connections, what is
on its way in the one, what is not received in the other, by how much the CellServer
thread can still favour the one (`Ahead`) and the sending thread the other (`Credit`);
while both have something on the way no step makes the sum grow, with one of them
empty it is below the bound anyway, and two full sockets are above it. `Bounded` is
needed, and stated, until the clean-up begins, after which nothing is sent.

Only model-checked, as it is out of the prover's reach: the liveness properties
(`OrderedSignalArrives`, `EveryClientWatched`, `CloseCompletes`, `HungPeersLeave`,
`RequestsHandled`, `RepliesArrive`, `BarrierOpens`, `SkippedClientsServed`,
`NewClientsTakenOver`, `CloseFreesClients`, `RoundsGoOn`) and the fairness in
`ImplementsTaskQueue` and `ImplementsJoinableThread`, which rest on `ENABLED`.

## What is not modelled

* `CELLNetWork`: Winsock's start-up before the first socket and its end with the
  program, once each; it keeps no other state.
* `CELLTimestamp` and the statistics (`_recvCount`, `_msgCount`, `sendCount`,
  `time4Msg`): they are printed and decide nothing.
* `checkSend` of CellClient and `_BuffFullCount`: nothing uses them.
* A second `Start` of a task server, and in version 1 `InitSocket` on a server that
  has a socket: nothing in the repository calls them.
* A restart of the version 2 server that overlaps threads of its first life which
  left through `Exit`; what the accept thread does with CellServers that are deleted
  when `Close` has overtaken it (they stay in the model).
* The layout of messages and the form of a line in the log.
* `EasyTcpClient` of version 2, which is not in the repository; `addSendTask` of a
  CellServer, which nothing calls: its task server has no task in this program.

## Plan

No invariant is left without a theorem. What could follow:

1. Action properties over several steps of version 2's server: a handle in a map
   changes its client only through `EraseClient`, a client never returns from "freed".
2. An abstract specification of what a CellServer promises its users, a set of
   clients that join, are watched and leave once, and CellServer as its refinement;
   `OwnedOnce`, `FdSetFresh` and `CountExact` are the lemmas it needs.
3. CellSession as a refinement of a pair of FIFO channels of whole messages, from
   `RequestsInOrder` and `RepliesInOrder`.
