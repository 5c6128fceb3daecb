------------------------------ MODULE ClientApp ------------------------------
(***************************************************************************)
(* The load generator v2/src/client/client.cpp.  Each of its sending       *)
(* threads creates and connects its share of the clients, waits until all  *)
(* threads are ready, starts a receiving thread for its share and sends    *)
(* until g_bRun is cleared; then it closes and deletes its clients.  main  *)
(* returns when it sees g_bRun cleared, and with it the process ends.      *)
(*                                                                         *)
(* The class EasyTcpClient of version 2 is not in the repository: a client *)
(* is an object that has to exist when it is used.                         *)
(***************************************************************************)
EXTENDS Integers, FiniteSets

CONSTANTS
  ThreadCount,    \* threadCount
  Share           \* clientCount / threadCount

ASSUME ThreadCountAssumption == ThreadCount \in Nat \ {0}
ASSUME ShareAssumption == Share \in Nat \ {0}

Ids == 1..ThreadCount
Slots == 1..Share

VARIABLES
  gRun,         \* g_bRun
  client,       \* client[], by thread and position in its share
  connected,    \*   those that have called Connect
  readyCount,   \* readyCount
  send, at,     \* the sending threads: where they are, and their i
  recv, rat,    \* the receiving threads: where they are, and their i
  slow,         \*   those whose timer has passed three seconds
  alive,        \* the process has not ended
  fault         \* the uses of a client that does not exist

sendVars == <<send, at>>
recvVars == <<recv, rat, slow>>
vars == <<gRun, client, connected, readyCount, sendVars, recvVars, alive, fault>>

Init ==
  /\ gRun = TRUE
  /\ client = [t \in Ids |-> [i \in Slots |-> "null"]]
  /\ connected = [t \in Ids |-> {}]
  /\ readyCount = 0
  /\ send = [t \in Ids |-> "create"]
  /\ at = [t \in Ids |-> 1]
  /\ recv = [t \in Ids |-> "none"]
  /\ rat = [t \in Ids |-> 1]
  /\ slow = [t \in Ids |-> FALSE]
  /\ alive = TRUE
  /\ fault = {}

\* Thread t uses the client at i: it is there, or the use is recorded.
Use(t, i, who) ==
  fault' = IF client[t][i] = "live" THEN fault
           ELSE fault \union {[by |-> who, state |-> client[t][i]]}

Step(t, from, to) == send[t] = from /\ send' = [send EXCEPT ![t] = to]

\* A for loop over the share: one more, or on to the next label.
LoopOver(t, here, next) ==
  IF at[t] < Share
  THEN Step(t, here, here) /\ at' = [at EXCEPT ![t] = @ + 1]
  ELSE Step(t, here, next) /\ at' = [at EXCEPT ![t] = 1]

-----------------------------------------------------------------------------
\* cmdThread, and main.

Exit ==
  /\ gRun
  /\ gRun' = FALSE
  /\ UNCHANGED <<client, connected, readyCount, sendVars, recvVars, alive, fault>>

MainReturns ==
  /\ ~gRun
  /\ alive' = FALSE
  /\ UNCHANGED <<gRun, client, connected, readyCount, sendVars, recvVars, fault>>

-----------------------------------------------------------------------------
\* sendThread

\* The loop asks g_bRun for each client.
Create(t) ==
  /\ LoopOver(t, "create", "connect")
  /\ client' = IF gRun THEN [client EXCEPT ![t][at[t]] = "live"] ELSE client
  /\ UNCHANGED <<gRun, connected, readyCount, recvVars, alive, fault>>

Connect(t) ==
  /\ LoopOver(t, "connect", "ready")
  /\ IF gRun
     THEN /\ Use(t, at[t], "connect")
          /\ connected' = [connected EXCEPT ![t] = @ \union {at[t]}]
     ELSE UNCHANGED <<connected, fault>>
  /\ UNCHANGED <<gRun, client, readyCount, recvVars, alive>>

\* readyCount is atomic.
Ready(t) ==
  /\ Step(t, "ready", "barrier")
  /\ readyCount' = readyCount + 1
  /\ UNCHANGED <<gRun, client, connected, at, recvVars, alive, fault>>

\* Mutants: the barrier opens one thread too early, or never.
AlmostReady == readyCount >= ThreadCount - 1
MoreThanReady == readyCount > ThreadCount

AllReady == readyCount >= ThreadCount

\* Out of the waiting loop: create the receiving thread.
Barrier(t) ==
  /\ Step(t, "barrier", "send")
  /\ AllReady
  /\ recv' = [recv EXCEPT ![t] = "test"]
  /\ UNCHANGED <<gRun, client, connected, readyCount, at, rat, slow, alive, fault>>

\* g_bRun is asked once for each round over the share.
StopSending(t) ==
  /\ at[t] = 1
  /\ ~gRun
  /\ Step(t, "send", "cleanup")
  /\ UNCHANGED <<gRun, client, connected, readyCount, at, recvVars, alive, fault>>

SendData(t) ==
  /\ at[t] = 1 => gRun
  /\ LoopOver(t, "send", "send")
  /\ Use(t, at[t], "send")
  /\ UNCHANGED <<gRun, client, connected, readyCount, recvVars, alive>>

\* Mutant: the thread cleans up as soon as it has sent.
CleanUpEarly(t) ==
  /\ send[t] \in {"send", "cleanup"}
  /\ send' = [send EXCEPT ![t] = IF at[t] < Share THEN "cleanup" ELSE "done"]
  /\ at' = [at EXCEPT ![t] = IF @ < Share THEN @ + 1 ELSE 1]
  /\ Use(t, at[t], "cleanup")
  /\ client' = [client EXCEPT ![t][at[t]] = "deleted"]
  /\ UNCHANGED <<gRun, connected, readyCount, recvVars, alive>>

\* Close and delete, whether or not the client was created.
CleanUp(t) ==
  /\ LoopOver(t, "cleanup", "done")
  /\ Use(t, at[t], "cleanup")
  /\ client' = [client EXCEPT ![t][at[t]] = "deleted"]
  /\ UNCHANGED <<gRun, connected, readyCount, recvVars, alive>>

SendThread(t) ==
  Create(t) \/ Connect(t) \/ Ready(t) \/ Barrier(t)
    \/ StopSending(t) \/ SendData(t) \/ CleanUp(t)

-----------------------------------------------------------------------------
\* recvThread

TestRun(t) ==
  /\ recv[t] = "test"
  /\ recv' = [recv EXCEPT ![t] = IF gRun THEN "sweep" ELSE "done"]
  /\ UNCHANGED <<gRun, client, connected, readyCount, sendVars, rat, slow, alive, fault>>

ThreeSeconds(t) ==
  /\ recv[t] \in {"test", "sweep"}
  /\ ~slow[t]
  /\ slow' = [slow EXCEPT ![t] = TRUE]
  /\ UNCHANGED <<gRun, client, connected, readyCount, sendVars, recv, rat, alive, fault>>

\* After three seconds the first client is not received from any more.
OnRun(t) ==
  /\ recv[t] = "sweep"
  /\ IF slow[t] /\ rat[t] = 1 THEN UNCHANGED fault ELSE Use(t, rat[t], "recv")
  /\ recv' = [recv EXCEPT ![t] = IF rat[t] < Share THEN "sweep" ELSE "test"]
  /\ rat' = [rat EXCEPT ![t] = IF @ < Share THEN @ + 1 ELSE 1]
  /\ UNCHANGED <<gRun, client, connected, readyCount, sendVars, slow, alive>>

RecvThread(t) == TestRun(t) \/ ThreeSeconds(t) \/ OnRun(t)

-----------------------------------------------------------------------------
\* Nothing is known of a process that has used a client that does not exist.
Next ==
  /\ alive /\ fault = {}
  /\ Exit \/ MainReturns \/ \E t \in Ids : SendThread(t) \/ RecvThread(t)

Spec == Init /\ [][Next]_vars

(* Every thread runs; connecting and sending come to an end.  Typing exit,  *)
(* and what the clock does, is not fair.                                    *)
FairSpec ==
  /\ Spec
  /\ \A t \in Ids : WF_vars(alive /\ fault = {} /\ SendThread(t))
  /\ \A t \in Ids : WF_vars(alive /\ fault = {} /\ (TestRun(t) \/ OnRun(t)))
  /\ WF_vars(alive /\ fault = {} /\ MainReturns)

-----------------------------------------------------------------------------
\* No thread sends before every client of every thread is connected, unless
\* exit was typed meanwhile.
SendsAfterAllConnected ==
  (gRun /\ \E t \in Ids : send[t] = "send") => \A u \in Ids : connected[u] = Slots

\* No thread uses a client that another has not created yet or has deleted
\* already: never before exit is typed, and afterwards only in the receiving
\* threads and the clean-up, however differently the loops that skip the rest
\* have seen it.
FaultsOnlyAtTheEnd == \A f \in fault : ~gRun /\ f.by \in {"recv", "cleanup"}

\* All threads get through the barrier, also when exit is typed on the way.
BarrierOpens ==
  \A t \in Ids : (send[t] = "barrier") ~> (send[t] # "barrier" \/ ~alive \/ fault # {})
=============================================================================
