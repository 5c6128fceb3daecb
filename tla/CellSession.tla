---------------------------- MODULE CellSession -----------------------------
(***************************************************************************)
(* What flows over one connection of version 2: requests through the       *)
(* socket into the client's receive CELLBuffer, cut into messages there    *)
(* and handled by MyServer::OnNetMsg; replies into the send CELLBuffer and *)
(* out through the socket.  v2/include/CELLBuffer.hpp, CELLClient.hpp,     *)
(* RecvData and WriteData of CELLServer.hpp, v2/src/server/server.cpp.     *)
(*                                                                         *)
(* A byte stream is a sequence of units <<i, k>>, the k-th unit of the     *)
(* i-th message; a header is the first HdrLen units.  recv may cut the     *)
(* stream anywhere.  The sockets block: send returns when all is sent.     *)
(***************************************************************************)
EXTENDS Integers, Sequences

CONSTANTS
  HdrLen,        \* sizeof(NetMsg_DataHeader)
  MsgLen,        \* dataLength of a message, by its cmd
  RecvSize,      \* RECV_BUFF_SIZE, the _nSize of _recvBuff
  SendSize,      \* SEND_BUFF_SIZE, the _nSize of _sendBuff
  WireSize,      \* what the sockets hold on the way to the peer
  MaxRequests    \* bound: how many requests the peer sends

\* The requests, with anything else a header may say, and the replies.
Requests == {"Login", "Logout", "Heart_C2S", "Other"}
Replies == {"LoginR", "Heart_S2C"}

\* dataLength is a short, a message is at least a header, and the largest one
\* fits into an empty buffer.
ASSUME LengthAssumption ==
  /\ HdrLen \in Nat \ {0} /\ RecvSize \in Nat /\ SendSize \in Nat
  /\ MsgLen \in [Requests \union Replies -> Nat]
  /\ \A m \in Requests \union Replies : HdrLen <= MsgLen[m]
  /\ \A m \in Requests : MsgLen[m] <= RecvSize
  /\ \A m \in Replies : MsgLen[m] <= SendSize
ASSUME WireAssumption == WireSize \in Nat \ {0}
ASSUME MaxRequestsAssumption == MaxRequests \in Nat

VARIABLES
  sent,        \* the requests the peer has sent, by their cmd
  upWire,      \* units on the way to the server
  recvBuf,     \* _recvBuff: its first _nLastPos bytes
  handled,     \* how many messages OnNetMsg has handled
  replies,     \* the replies that found room in _sendBuff, by their cmd
  sendBuf,     \* _sendBuff: its first _nLastPos bytes
  downWire,    \* units on the way to the peer
  delivered,   \* the last unit the peer has received
  peer,        \* the peer: "open", or it has closed its socket
  pc,          \* the CellServer thread, as far as this client goes
  ready        \* what select has reported for its socket

peerVars == <<sent, peer>>
inVars == <<upWire, recvBuf, handled>>
outVars == <<replies, sendBuf, downWire, delivered>>
vars == <<peerVars, inVars, outVars, pc, ready>>

Units(i, cmd) == [k \in 1..MsgLen[cmd] |-> <<i, k>>]

Init ==
  /\ sent = <<>>
  /\ upWire = <<>>
  /\ recvBuf = <<>>
  /\ handled = 0
  /\ replies = <<>>
  /\ sendBuf = <<>>
  /\ downWire = <<>>
  /\ delivered = <<0, 0>>
  /\ peer = "open"
  /\ pc = "select"
  /\ ready = {}

-----------------------------------------------------------------------------
\* The peer.

SendRequest(cmd) ==
  /\ peer = "open"
  /\ Len(sent) < MaxRequests
  /\ sent' = Append(sent, cmd)
  /\ upWire' = upWire \o Units(Len(sent) + 1, cmd)
  /\ UNCHANGED <<peer, recvBuf, handled, outVars, pc, ready>>

Receive ==
  /\ peer = "open"
  /\ downWire # <<>>
  /\ delivered' = Head(downWire)
  /\ downWire' = Tail(downWire)
  /\ UNCHANGED <<peerVars, inVars, replies, sendBuf, pc, ready>>

Disconnect ==
  /\ peer = "open"
  /\ peer' = "closed"
  /\ UNCHANGED <<sent, inVars, outVars, pc, ready>>

-----------------------------------------------------------------------------
\* CELLBuffer and CellClient.

\* The front message begins at the first unit of the buffer.
FrontCmd == sent[recvBuf[1][1]]
FrontLength == MsgLen[FrontCmd]

\* Mutant: a message that fills the buffer to its end is not seen.
hasMsgStrict == Len(recvBuf) > HdrLen /\ Len(recvBuf) > FrontLength

hasMsg == Len(recvBuf) >= HdrLen /\ Len(recvBuf) >= FrontLength

\* Mutant: pop moves the end of the buffer and not its content.
popEnd(n) == recvBuf' = SubSeq(recvBuf, 1, Len(recvBuf) - n)

\* pop moves the rest of the buffer to its beginning.
pop(n) == recvBuf' = SubSeq(recvBuf, n + 1, Len(recvBuf))

\* push takes the reply as a whole, or drops it when it does not fit.
push(cmd) ==
  IF Len(sendBuf) + MsgLen[cmd] <= SendSize
  THEN /\ replies' = Append(replies, cmd)
       /\ sendBuf' = sendBuf \o Units(Len(replies) + 1, cmd)
  ELSE UNCHANGED <<replies, sendBuf>>

\* The callers of SendData do not look at what it returns.
SendData(cmd) == push(cmd)

\* MyServer::OnNetMsg.  The case of CMD_HEART_C2S has no break, and goes on
\* to the one of unknown messages, which logs the heartbeat as undefined.
OnNetMsg(cmd) ==
  CASE cmd = "Login" -> SendData("LoginR")
    [] cmd = "Heart_C2S" -> SendData("Heart_S2C")
    [] OTHER -> UNCHANGED <<replies, sendBuf>>

-----------------------------------------------------------------------------
\* The CellServer thread.

\* select reports data or an end of the stream, and room for sending.
Select ==
  /\ pc = "select"
  /\ ready' = {e \in {"read", "write"} :
                 IF e = "read" THEN upWire # <<>> \/ peer = "closed"
                               ELSE Len(downWire) < WireSize \/ peer = "closed"}
  /\ pc' = "read"
  /\ UNCHANGED <<peerVars, inVars, outVars>>

NotReadable ==
  /\ pc = "read"
  /\ "read" \notin ready
  /\ pc' = "write"
  /\ UNCHANGED <<peerVars, inVars, outVars, ready>>

\* Mutant: recv is told the size of the buffer and not the room in it.
RoomWholeBuffer == RecvSize

Room == RecvSize - Len(recvBuf)

\* read4socket: recv takes as much as it likes of what there is and fits.
RecvData(n) ==
  /\ pc = "read"
  /\ "read" \in ready
  /\ n <= Len(upWire) /\ n <= Room
  /\ recvBuf' = recvBuf \o SubSeq(upWire, 1, n)
  /\ upWire' = SubSeq(upWire, n + 1, Len(upWire))
  /\ pc' = "messages"
  /\ UNCHANGED <<peerVars, handled, outVars, ready>>

\* recv fails when the peer has closed its socket, and read4socket returns 0
\* when the buffer is full: RecvData takes both for a client that has left.
RecvFails ==
  /\ pc = "read"
  /\ "read" \in ready
  /\ peer = "closed" \/ Room = 0
  /\ pc' = "left"
  /\ UNCHANGED <<peerVars, inVars, outVars, ready>>

\* Mutant: one message for each recv.
HandleOneMsg ==
  /\ pc = "messages"
  /\ hasMsg
  /\ OnNetMsg(FrontCmd)
  /\ pop(FrontLength)
  /\ handled' = handled + 1
  /\ pc' = "write"
  /\ UNCHANGED <<peerVars, upWire, downWire, delivered, ready>>

\* The loop over the messages in the buffer: OnNetMsg, pop_front_msg.
HandleMsg ==
  /\ pc = "messages"
  /\ hasMsg
  /\ OnNetMsg(FrontCmd)
  /\ pop(FrontLength)
  /\ handled' = handled + 1
  /\ UNCHANGED <<peerVars, upWire, downWire, delivered, pc, ready>>

NoMoreMsg ==
  /\ pc = "messages"
  /\ ~hasMsg
  /\ pc' = "write"
  /\ UNCHANGED <<peerVars, inVars, outVars, ready>>

\* WriteData: nothing to send, or no room for it.
NothingToWrite ==
  /\ pc = "write"
  /\ "write" \notin ready \/ sendBuf = <<>>
  /\ pc' = "select"
  /\ UNCHANGED <<peerVars, inVars, outVars, ready>>

\* Mutant: send returns when the socket is full, and the rest is dropped.
WritePart ==
  /\ pc = "write"
  /\ "write" \in ready
  /\ sendBuf # <<>>
  /\ downWire' = Append(downWire, Head(sendBuf))
  /\ sendBuf' = <<>>
  /\ pc' = "select"
  /\ UNCHANGED <<peerVars, inVars, replies, delivered, ready>>

\* Mutant: the thread sends only what fills its buffer.
WriteFull ==
  /\ pc = "write"
  /\ "write" \in ready
  /\ Len(sendBuf) = SendSize
  /\ downWire' = downWire \o sendBuf
  /\ sendBuf' = <<>>
  /\ pc' = "select"
  /\ UNCHANGED <<peerVars, inVars, replies, delivered, ready>>

\* write2socket: the thread stays in send until the whole buffer is sent ...
Write ==
  /\ pc = "write"
  /\ "write" \in ready
  /\ sendBuf # <<>>
  /\ Len(downWire) < WireSize
  /\ downWire' = Append(downWire, Head(sendBuf))
  /\ sendBuf' = Tail(sendBuf)
  /\ pc' = IF sendBuf' = <<>> THEN "select" ELSE "write"
  /\ UNCHANGED <<peerVars, inVars, replies, delivered, ready>>

\* ... or the peer is gone, and with it the client.
WriteFails ==
  /\ pc = "write"
  /\ "write" \in ready
  /\ sendBuf # <<>>
  /\ peer = "closed"
  /\ pc' = "left"
  /\ UNCHANGED <<peerVars, inVars, outVars, ready>>

Reading == NotReadable \/ RecvFails \/ \E n \in 1..RecvSize : RecvData(n)
Writing == NothingToWrite \/ Write \/ WriteFails
ServerThread == Select \/ Reading \/ HandleMsg \/ NoMoreMsg \/ Writing

Next ==
  \/ \E cmd \in Requests : SendRequest(cmd)
  \/ Receive \/ Disconnect
  \/ ServerThread

Spec == Init /\ [][Next]_vars

(* The server thread runs unless it is blocked, and the peer, whose         *)
(* receiving thread has nothing else to do, takes what has arrived.         *)
FairSpec == Spec /\ WF_vars(ServerThread) /\ WF_vars(Receive)

-----------------------------------------------------------------------------
TypeOK ==
  /\ sent \in Seq(Requests) /\ Len(sent) <= MaxRequests
  /\ upWire \in Seq(Nat \X Nat)
  /\ recvBuf \in Seq(Nat \X Nat) /\ Len(recvBuf) <= RecvSize
  /\ handled \in 0..Len(sent)
  /\ replies \in Seq(Replies)
  /\ sendBuf \in Seq(Nat \X Nat) /\ Len(sendBuf) <= SendSize
  /\ downWire \in Seq(Nat \X Nat) /\ Len(downWire) <= WireSize
  /\ delivered \in Nat \X Nat
  /\ peer \in {"open", "closed"}
  /\ pc \in {"select", "read", "messages", "write", "left"}
  /\ ready \in SUBSET {"read", "write"}

\* v is the unit after u in the stream of the messages ms.
Follows(u, v, ms) ==
  v = IF u[1] > 0 /\ u[2] < MsgLen[ms[u[1]]] THEN <<u[1], u[2] + 1>> ELSE <<u[1] + 1, 1>>

\* The units of s come right after u and go on to the end of the messages ms.
Continues(s, u, ms) ==
  LET t == <<u>> \o s
      last == t[Len(t)]
  IN /\ \A i \in 1..Len(s) : Follows(t[i], t[i + 1], ms)
     /\ last = IF Len(ms) = 0 THEN <<0, 0>> ELSE <<Len(ms), MsgLen[ms[Len(ms)]]>>

EndOf(i, ms) == IF i = 0 THEN <<0, 0>> ELSE <<i, MsgLen[ms[i]]>>

\* However recv cuts the stream, the buffer begins at the beginning of the
\* first message that was not handled, and no unit is lost, repeated or out
\* of order between the peer and OnNetMsg.
RequestsIntact == Continues(recvBuf \o upWire, EndOf(handled, sent), sent)

\* What the peer receives is the replies that found room, whole and in order,
\* however full the send buffer was and however often send blocked.
RepliesIntact == Continues(downWire \o sendBuf, delivered, replies)

\* The receive buffer is never full when it is read again, which read4socket
\* could not tell from the end of the stream: only a peer that has closed
\* its socket is taken to have left.
OnlyClosedPeersLeave == pc = "left" => peer = "closed"

\* Every request is handled unless the peer closes its socket: neither a
\* message cut in two nor a full send buffer holds the server up.
RequestsHandled ==
  \A i \in 1..MaxRequests :
    Len(sent) >= i ~> (handled >= i \/ peer = "closed")

\* Every reply that found room reaches the peer unless it closes its socket.
RepliesArrive ==
  \A i \in 1..MaxRequests :
    Len(replies) >= i ~> (delivered[1] >= i \/ peer = "closed")

=============================================================================
