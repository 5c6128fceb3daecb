------------------------------ MODULE V1Session ------------------------------
(***************************************************************************)
(* Version 1's closed loop: a sending thread of the client program, which  *)
(* sends a batch of requests and then receives, for one connection after   *)
(* the other (v1/src/client/client.cpp, v1/include/client/EasyTcpClient.hpp),*)
(* and the CellServer thread that answers them, with a blocking send for   *)
(* each reply, from within the loop that cuts its input into messages      *)
(* (RecvData of v1/include/server/EasyTcpServer.hpp, v1/src/server/server.cpp).*)
(*                                                                         *)
(* Login and LoginResult have the same length, so bytes need only be       *)
(* counted.  A socket holds WireSize units in each direction, and send     *)
(* waits for room, unit by unit, so recv may find a message cut anywhere.  *)
(***************************************************************************)
EXTENDS Naturals, FiniteSets

CONSTANTS
  NClients,    \* the connections of this thread; they all have one CellServer
  HdrLen,      \* sizeof(DataHeader)
  MsgLen,      \* sizeof(Login) = sizeof(LoginResult)
  Batch,       \* how many requests one SendData sends
  RecvSize,    \* RECV_BUFF_SIZE
  MsgBufSize,  \* RECV_BUFF_SIZE * 10, of _szMsgBuf
  WireSize     \* what a connection holds on the way, in each direction

ASSUME NClientsAssumption == NClients \in Nat \ {0}
ASSUME MsgLenAssumption == HdrLen \in Nat \ {0} /\ MsgLen \in Nat /\ HdrLen < MsgLen
ASSUME BatchAssumption == Batch \in Nat \ {0}
ASSUME BufferAssumption ==
  /\ RecvSize \in Nat \ {0}
  /\ MsgBufSize \in Nat /\ MsgBufSize >= RecvSize + MsgLen
\* A batch, 1000 bytes, fits into a receive buffer, 10240 bytes, and the
\* sockets, with some 64 KB each, hold two of those, a batch and a message.
ASSUME WireAssumption ==
  /\ Batch * MsgLen <= RecvSize
  /\ WireSize \in Nat /\ WireSize >= 2 * RecvSize + Batch * MsgLen + MsgLen

Clients == 1..NClients

VARIABLES
  gRun,      \* g_bRun of the client program
  up, down,  \* units on the way to the server, and to the client
  \* The client program's thread.
  cfd,       \* client[i]: "null", "new", or its socket: "open", then "closed";
             \*   "down", which has no connection, then "shut"
  cpc, ci,   \* where the thread is, and the i of its loop
  left,      \* what SendData has not sent yet
  cPos,      \* _lastPos of EasyTcpClient
  fault,     \* a client was used that was never created
  \* The CellServer thread.
  spc, si,   \* where it is, and at which client
  ready,     \* the clients that select reported and that it has to read yet
  sPos,      \* _lastPos of ClientSocket
  owed,      \* what is left of the reply that it is sending
  gone,      \* the clients that it has deleted
  serving    \* the server process is there

cliVars == <<gRun, cfd, cpc, ci, left, cPos, fault>>
srvVars == <<spc, si, ready, sPos, owed, gone, serving>>
vars == <<up, down, cliVars, srvVars>>

Init ==
  /\ gRun = TRUE
  /\ up = [i \in Clients |-> 0] /\ down = [i \in Clients |-> 0]
  /\ cfd = [i \in Clients |-> "null"]
  /\ cpc = "create" /\ ci = 1
  /\ left = 0
  /\ cPos = [i \in Clients |-> 0]
  /\ fault = FALSE
  /\ spc = "select" /\ si = 1
  /\ ready = {}
  /\ sPos = [i \in Clients |-> 0]
  /\ owed = 0
  /\ gone = {}
  /\ serving = TRUE

\* Mutant: recv is asked for one byte at a time.
AvailableOne(n) == IF n > 0 THEN 1 ELSE 0

\* recv takes all that is there and that it has room for.
Available(n) == IF n < RecvSize THEN n ELSE RecvSize

-----------------------------------------------------------------------------
\* The sending thread.

\* A loop over the clients goes on at label, and then to the label after.
LoopOver(label, after) ==
  IF ci < NClients THEN ci' = ci + 1 /\ cpc' = label ELSE ci' = 1 /\ cpc' = after

Create ==
  /\ cpc = "create"
  /\ cfd' = [cfd EXCEPT ![ci] = IF gRun THEN "new" ELSE @]
  /\ LoopOver("create", "connect")
  /\ UNCHANGED <<up, down, gRun, left, cPos, fault, srvVars>>

\* InitSocket and Connect, which the server may refuse.
Connect ==
  /\ cpc = "connect"
  /\ \/ gRun /\ serving /\ cfd' = [cfd EXCEPT ![ci] = "open"]
     \/ gRun /\ cfd' = [cfd EXCEPT ![ci] = "down"]
     \/ ~gRun /\ UNCHANGED cfd
  /\ LoopOver("connect", "rounds")
  /\ UNCHANGED <<up, down, gRun, left, cPos, fault, srvVars>>

\* client[i]->Close().
Closed(f) == CASE f = "open" -> "closed" [] f \in {"new", "down"} -> "shut" [] OTHER -> f

\* A connection that is not there any more, or never was.
Lost(i) == cfd[i] = "down" \/ ~serving \/ i \in gone

\* g_bRun is looked at after three seconds, and then once in each round.
Round ==
  /\ cpc = "rounds"
  /\ cpc' = IF gRun THEN "batch" ELSE "clean"
  /\ UNCHANGED <<up, down, gRun, cfd, ci, left, cPos, fault, srvVars>>

\* SendData of the batch, unless the socket was closed before.
StartSend ==
  /\ cpc = "batch"
  /\ IF cfd[ci] \in {"closed", "shut"} THEN cpc' = "run" /\ UNCHANGED left
                           ELSE cpc' = "send" /\ left' = Batch * MsgLen
  /\ UNCHANGED <<up, down, gRun, cfd, ci, cPos, fault, srvVars>>

\* send waits for room ...
Send ==
  /\ cpc = "send"
  /\ ~Lost(ci)
  /\ up[ci] < WireSize
  /\ up' = [up EXCEPT ![ci] = @ + 1]
  /\ left' = left - 1
  /\ cpc' = IF left' = 0 THEN "run" ELSE "send"
  /\ UNCHANGED <<down, gRun, cfd, ci, cPos, fault, srvVars>>

\* Mutant: SendData tries again after an error.
SendRetries ==
  /\ cpc = "send"
  /\ Lost(ci)
  /\ UNCHANGED <<up, down, cliVars, srvVars>>

\* ... or fails: SendData closes the socket.
SendFails ==
  /\ cpc = "send"
  /\ Lost(ci)
  /\ cfd' = [cfd EXCEPT ![ci] = Closed(@)]
  /\ down' = [down EXCEPT ![ci] = 0]
  /\ left' = 0
  /\ cpc' = "run"
  /\ UNCHANGED <<up, gRun, ci, cPos, fault, srvVars>>

\* Mutant: only one message is handled after each recv.
HandleOne(pos) == IF pos >= MsgLen THEN pos - MsgLen ELSE pos

\* RecvData handles every whole message, and the rest of the buffer moves to
\* its front.
HandleAll(pos) == pos % MsgLen

\* OnRun: select waits for a second, and recv is called if anything is there;
\* what it returns, and whether it fails, the thread does not look at.
OnRun ==
  /\ cpc = "run"
  /\ IF cfd[ci] = "open" /\ ~Lost(ci)
     THEN /\ cPos' = [cPos EXCEPT ![ci] = HandleAll(@ + Available(down[ci]))]
          /\ down' = [down EXCEPT ![ci] = @ - Available(@)]
     ELSE UNCHANGED <<cPos, down>>
  /\ LoopOver("batch", "rounds")
  /\ UNCHANGED <<up, gRun, cfd, left, fault, srvVars>>

\* Close and delete; client[i] may be null.
CleanUp ==
  /\ cpc = "clean"
  /\ cfd' = [cfd EXCEPT ![ci] = Closed(@)]
  /\ fault' = (cfd[ci] = "null")
  /\ down' = [down EXCEPT ![ci] = 0]
  /\ cPos' = [cPos EXCEPT ![ci] = 0]
  /\ LoopOver("clean", "done")
  /\ UNCHANGED <<up, gRun, left, srvVars>>

SendThread ==
  \/ Create \/ Connect \/ Round \/ StartSend \/ Send \/ SendFails \/ OnRun \/ CleanUp

\* cmdThread reads exit.
Exit ==
  /\ gRun
  /\ gRun' = FALSE
  /\ UNCHANGED <<up, down, cfd, cpc, ci, left, cPos, fault, srvVars>>

\* main returns, and the process takes its threads and sockets with it.
MainReturns ==
  /\ ~gRun /\ cpc # "done"
  /\ cfd' = [i \in Clients |-> IF cfd[i] = "open" THEN "closed" ELSE cfd[i]]
  /\ cpc' = "done" /\ ci' = 1
  /\ left' = 0
  /\ down' = [i \in Clients |-> 0]
  /\ cPos' = [i \in Clients |-> 0]
  /\ UNCHANGED <<up, gRun, fault, srvVars>>

-----------------------------------------------------------------------------
\* The CellServer thread.

\* The connections it has: every one that was made and not yet deleted.
Served == {i \in Clients : cfd[i] \in {"open", "closed"} /\ i \notin gone}

Readable(i) == up[i] > 0 \/ cfd[i] = "closed"

\* select without a timeout.
Select ==
  /\ spc = "select"
  /\ ready' = {i \in Served : Readable(i)}
  /\ ready' # {}
  /\ spc' = "read"
  /\ UNCHANGED <<up, down, cliVars, si, sPos, owed, gone, serving>>

\* recv and memcpy to the end of the message buffer.
RecvData(i) ==
  /\ spc = "read"
  /\ i \in ready
  /\ up[i] > 0
  /\ ready' = ready \ {i}
  /\ si' = i
  /\ sPos' = [sPos EXCEPT ![i] = @ + Available(up[i])]
  /\ up' = [up EXCEPT ![i] = @ - Available(@)]
  /\ spc' = "messages"
  /\ UNCHANGED <<down, cliVars, owed, gone, serving>>

\* recv fails, for a socket that was closed or reset, which may discard what
\* was on the way: OnNetLeave, delete, erase.  The loop then steps over the
\* client behind the erased one; if it is ready it has to wait for a later
\* round (which client is behind which is left open, as is their order).
RecvFails(i) ==
  /\ spc = "read"
  /\ i \in ready
  /\ cfd[i] = "closed"
  /\ \E behind \in ready : ready' = ready \ {i, behind}
  /\ gone' = gone \union {i}
  /\ sPos' = [sPos EXCEPT ![i] = 0]
  /\ up' = [up EXCEPT ![i] = 0]
  /\ UNCHANGED <<down, cliVars, spc, si, owed, serving>>

ReadsEnd ==
  /\ spc = "read"
  /\ ready = {}
  /\ spc' = "select"
  /\ UNCHANGED <<up, down, cliVars, si, ready, sPos, owed, gone, serving>>

HasMsg == sPos[si] >= HdrLen /\ sPos[si] >= MsgLen

\* OnNetMsg: a Login is answered by SendData, which waits for room.
OnNetMsg ==
  /\ spc = "messages"
  /\ HasMsg
  /\ owed' = MsgLen
  /\ spc' = "reply"
  /\ UNCHANGED <<up, down, cliVars, si, ready, sPos, gone, serving>>

\* Mutant: the rest of the buffer is dropped.
PopAll(i) == sPos' = [sPos EXCEPT ![i] = 0]

\* The rest of the buffer moves to its front.
Pop(i) == sPos' = [sPos EXCEPT ![i] = @ - MsgLen]

\* Mutant: the loop over the messages ends after the first.
OneMsg == "read"

NextMsg == "messages"

SendReply ==
  /\ spc = "reply"
  /\ cfd[si] = "open"
  /\ down[si] < WireSize
  /\ down' = [down EXCEPT ![si] = @ + 1]
  /\ owed' = owed - 1
  /\ IF owed' = 0 THEN spc' = NextMsg /\ Pop(si) ELSE UNCHANGED <<spc, sPos>>
  /\ UNCHANGED <<up, cliVars, si, ready, gone, serving>>

\* send fails, which nobody looks at.
ReplyFails ==
  /\ spc = "reply"
  /\ cfd[si] # "open"
  /\ owed' = 0
  /\ spc' = NextMsg
  /\ Pop(si)
  /\ UNCHANGED <<up, down, cliVars, si, ready, gone, serving>>

NoMoreMsg ==
  /\ spc = "messages"
  /\ ~HasMsg
  /\ spc' = "read"
  /\ UNCHANGED <<up, down, cliVars, si, ready, sPos, owed, gone, serving>>

CellServer ==
  /\ serving
  /\ \/ Select \/ ReadsEnd \/ OnNetMsg \/ SendReply \/ ReplyFails \/ NoMoreMsg
     \/ \E i \in Clients : RecvData(i) \/ RecvFails(i)

\* The server process ends, and its sockets are reset.
ServerEnds ==
  /\ serving
  /\ serving' = FALSE
  /\ up' = [i \in Clients |-> 0] /\ down' = [i \in Clients |-> 0]
  /\ sPos' = [i \in Clients |-> 0]
  /\ spc' = "select" /\ si' = 1 /\ ready' = {} /\ owed' = 0
  /\ UNCHANGED <<cliVars, gone>>

Next ==
  /\ ~fault
  /\ SendThread \/ Exit \/ MainReturns \/ CellServer \/ ServerEnds

Spec == Init /\ [][Next]_vars

(* Threads run unless they are blocked in send or, the server's, in select. *)
FairSpec == Spec /\ WF_vars(~fault /\ SendThread) /\ WF_vars(~fault /\ CellServer)

-----------------------------------------------------------------------------
\* memcpy never writes beyond the end of a message buffer, at either end.
NoOverrun ==
  \A i \in Clients : sPos[i] \in 0..MsgBufSize /\ cPos[i] \in 0..(MsgBufSize - RecvSize)

\* However the streams are cut and wherever the threads wait, both ends begin
\* a message where the other one began it: what is sent of a message is what
\* is on its way and what is in the buffer, but for whole messages.
InStep ==
  \A i \in Clients : cfd[i] = "open" /\ serving /\ i \notin gone =>
    /\ (up[i] + sPos[i] + (IF cpc = "send" /\ ci = i THEN left ELSE 0)) % MsgLen = 0
    /\ (down[i] + cPos[i] + (IF spc = "reply" /\ si = i THEN owed ELSE 0)) % MsgLen = 0

\* The two threads never wait for each other to read, for ever: the client in
\* send with the way to the server full, the server in send with the way to
\* the client full.
NoMutualBlock ==
  ~ /\ cpc = "send" /\ ~Lost(ci) /\ up[ci] = WireSize
    /\ spc = "reply" /\ cfd[si] = "open" /\ down[si] = WireSize

\* The sending thread goes through its rounds, and comes to see that exit was
\* typed, whether the server answers, is slow or has ended.
RoundsGoOn == []<>(cpc \in {"rounds", "done"} \/ fault)
=============================================================================
