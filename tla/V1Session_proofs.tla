-------------------------- MODULE V1Session_proofs ---------------------------
(***************************************************************************)
(* Proofs about V1Session, for any number of connections, lengths of       *)
(* messages, batches, buffers and sockets within the assumptions: no       *)
(* buffer is overrun, both ends cut the stream at the same places, and the *)
(* two threads, each sending before it receives, never block each other.   *)
(***************************************************************************)
EXTENDS V1Session, Integers, TLAPS

-----------------------------------------------------------------------------
(* The inductive invariant. *)

BatchLen == Batch * MsgLen

InRound == {"batch", "send", "run"}
Handling == {"messages", "reply"}

Types ==
  /\ up \in [Clients -> Nat] /\ down \in [Clients -> Nat]
  /\ cfd \in [Clients -> {"null", "new", "open", "down", "closed", "shut"}]
  /\ cpc \in {"create", "connect", "rounds", "clean", "done"} \union InRound
  /\ ci \in Clients /\ left \in Nat
  /\ cPos \in [Clients -> Nat]
  /\ spc \in {"select", "read"} \union Handling
  /\ si \in Clients /\ ready \in SUBSET Clients
  /\ sPos \in [Clients -> Nat]
  /\ owed \in Nat /\ gone \in SUBSET Clients

\* What is in the sockets and the buffers: less than a message in a buffer,
\* but for the one the CellServer is at.
Sizes ==
  \A i \in Clients :
    /\ up[i] <= WireSize /\ down[i] <= WireSize
    /\ cPos[i] < MsgLen
    /\ sPos[i] < MsgLen \/ (spc \in Handling /\ si = i /\ sPos[i] < MsgLen + RecvSize)

\* Where the CellServer thread is.
Serves ==
  /\ IF spc = "reply" THEN owed \in 1..MsgLen /\ sPos[si] >= MsgLen ELSE owed = 0
  /\ spc \in Handling => si \notin ready
  /\ spc = "select" => ready = {}

\* Where the sending thread is; when it begins its rounds it has tried to
\* connect every client.
Sends ==
  /\ IF cpc = "send" THEN left \in 1..BatchLen /\ cfd[ci] \in {"open", "down"} ELSE left = 0
  /\ cpc = "rounds" => ci = 1
  /\ cpc = "create" => \A i \in Clients : cfd[i] \in {"null", "new"}
  /\ cpc = "connect" => \A i \in Clients : i >= ci => cfd[i] \in {"null", "new"}
  /\ gRun /\ cpc = "connect" => \A i \in Clients : i < ci => cfd[i] \notin {"null", "new"}
  /\ (gRun /\ cpc = "rounds") \/ cpc \in InRound => \A i \in Clients : cfd[i] \notin {"null", "new"}

\* Nothing is on its way where there is no connection; the CellServer has
\* deleted only what was closed, and while it is there nothing is closed before
\* the end.
Connections ==
  \A i \in Clients :
    /\ cfd[i] \notin {"open", "closed"} =>
         up[i] = 0 /\ down[i] = 0 /\ sPos[i] = 0 /\ cPos[i] = 0 /\ i \notin ready
    /\ i \in gone => cfd[i] = "closed"
    /\ cfd[i] = "closed" => ~serving \/ cpc \in {"clean", "done"}

Alive(i) == serving /\ cfd[i] = "open" /\ i \notin gone

\* What the CellServer has of i or has answered and i has not received.
Back(i) == down[i] + sPos[i] - (IF spc = "reply" /\ si = i THEN MsgLen - owed ELSE 0)

\* By how much it can yet read more from i than from j, until j's turn: a
\* receive buffer, as i may come first in the next round, and one more or less
\* for what remains of this round.
Ahead(i, j) ==
  RecvSize + (IF i \in ready THEN RecvSize ELSE 0) - (IF j \in ready THEN RecvSize ELSE 0)

\* What the sending thread can yet send to j before i's turn to receive that
\* i's receiving has not made up for.
ToSend(j) ==
  IF cpc \in InRound
  THEN IF ci < j \/ (ci = j /\ cpc = "batch") THEN BatchLen
       ELSE IF ci = j /\ cpc = "send" THEN left ELSE 0
  ELSE 0
ToRun(i) == IF cpc \in InRound /\ ci <= i THEN BatchLen ELSE 0
Credit(i, j) == ToSend(j) - ToRun(i) + (IF i < j THEN 0 ELSE BatchLen)

\* What is on its way to the server in one connection, and back in one, the
\* same or another, is never much more than what one socket holds.  (At the end,
\* when the CellServer erases clients, it steps over others, and may fall behind
\* with them.)
Load(i, j) == up[j] + Back(i) + Ahead(i, j) + Credit(i, j)
Bounded ==
  \A i, j \in Clients :
    cpc \notin {"clean", "done"} /\ Alive(i) /\ Alive(j) => Load(i, j) < WireSize + 2 * RecvSize + BatchLen + MsgLen

IInv == Types /\ Sizes /\ Serves /\ Sends /\ Connections /\ Bounded /\ InStep

-----------------------------------------------------------------------------
(* Lemmas about numbers. *)

LEMMA Constants ==
  /\ NClients \in Nat \ {0} /\ Clients \subseteq Nat /\ 1 \in Clients
  /\ MsgLen \in Nat \ {0} /\ RecvSize \in Nat \ {0} /\ WireSize \in Nat /\ MsgBufSize \in Nat
  /\ BatchLen \in Nat \ {0} /\ BatchLen <= RecvSize
  /\ MsgBufSize >= RecvSize + MsgLen
  /\ WireSize >= 2 * RecvSize + BatchLen + MsgLen
<1>1. BatchLen \in Nat \ {0}
  <2>1. \A m, b \in Nat \ {0} : b * m \in Nat \ {0}
    OBVIOUS
  <2>2. MsgLen \in Nat \ {0}
    BY MsgLenAssumption
  <2> QED BY <2>1, <2>2, BatchAssumption DEF BatchLen
<1> QED BY <1>1, NClientsAssumption, MsgLenAssumption, BufferAssumption, WireAssumption
        DEF Clients, BatchLen

\* A whole number of messages.
Whole(x) == x % MsgLen = 0

LEMMA Division ==
  ASSUME NEW m \in Nat \ {0}, NEW a \in Nat
  PROVE  a % m \in 0..(m - 1) /\ \E q \in Nat : a = m * q + (a % m)
<1>1. a = m * (a \div m) + (a % m) /\ a \div m \in Nat /\ a % m \in 0..(m - 1)
  OBVIOUS
<1> QED BY <1>1

LEMMA Remainder ==
  ASSUME NEW m \in Nat \ {0}, NEW q \in Nat, NEW r \in 0..(m - 1)
  PROVE  (m * q + r) % m = r
OBVIOUS

LEMMA AddMultiple ==
  ASSUME NEW m \in Nat \ {0}, NEW a \in Nat, NEW q \in Nat
  PROVE  (a + m * q) % m = a % m
<1>1. PICK p \in Nat : a = m * p + (a % m)
  BY Division
<1>2. a % m \in 0..(m - 1) /\ p + q \in Nat
  BY Division
<1>3. a + m * q = m * (p + q) + (a % m)
  <2>1. m * (p + q) = m * p + m * q
    OBVIOUS
  <2> QED BY <1>1, <1>2, <2>1
<1> QED BY <1>2, <1>3, Remainder

LEMMA WholeBatch == Whole(BatchLen) /\ Whole(0) /\ Whole(MsgLen)
<1>1. \A m \in Nat \ {0}, q \in Nat : (0 + m * q) % m = 0 % m /\ 0 % m = 0 /\ 0 + m * q = q * m
  <2>1. ASSUME NEW m \in Nat \ {0}, NEW q \in Nat
        PROVE  (0 + m * q) % m = 0 % m /\ 0 % m = 0 /\ 0 + m * q = q * m
    <3>1. (0 + m * q) % m = 0 % m
      BY AddMultiple
    <3>2. 0 % m = 0 /\ 0 + m * q = q * m
      OBVIOUS
    <3> QED BY <3>1, <3>2
  <2> QED BY <2>1
<1>2. MsgLen \in Nat \ {0} /\ Batch \in Nat /\ 1 \in Nat
  BY Constants, BatchAssumption
<1>3. 1 * MsgLen = MsgLen
  BY <1>2
<1> QED BY <1>1, <1>2, <1>3 DEF Whole, BatchLen

LEMMA WholeAdd == ASSUME NEW x \in Nat PROVE Whole(x + MsgLen) <=> Whole(x)
<1>1. MsgLen \in Nat \ {0} /\ MsgLen * 1 = MsgLen
  BY Constants
<1>2. (x + MsgLen * 1) % MsgLen = x % MsgLen
  BY <1>1, AddMultiple
<1> QED BY <1>1, <1>2 DEF Whole

LEMMA WholeAddBatch == ASSUME NEW x \in Nat PROVE Whole(x + BatchLen) <=> Whole(x)
<1>1. MsgLen \in Nat \ {0} /\ Batch \in Nat /\ MsgLen * Batch = BatchLen
  BY Constants, BatchAssumption DEF BatchLen
<1>2. (x + MsgLen * Batch) % MsgLen = x % MsgLen
  BY <1>1, AddMultiple
<1> QED BY <1>1, <1>2 DEF Whole

\* HandleAll takes whole messages.
LEMMA HandleAllProperties ==
  ASSUME NEW pos \in Nat
  PROVE  /\ HandleAll(pos) \in 0..(MsgLen - 1)
         /\ \A x \in Nat : Whole(x + HandleAll(pos)) <=> Whole(x + pos)
<1>1. MsgLen \in Nat \ {0}
  BY Constants
<1>2. PICK q \in Nat : pos = MsgLen * q + (pos % MsgLen)
  BY <1>1, Division
<1>3. pos % MsgLen \in 0..(MsgLen - 1)
  BY <1>1, Division
<1>4. ASSUME NEW x \in Nat PROVE Whole(x + (pos % MsgLen)) <=> Whole(x + pos)
  <2>1. x + (pos % MsgLen) \in Nat
    BY <1>1, <1>3
  <2>2. ((x + (pos % MsgLen)) + MsgLen * q) % MsgLen = (x + (pos % MsgLen)) % MsgLen
    BY <1>1, <2>1, AddMultiple
  <2>3. (x + (pos % MsgLen)) + MsgLen * q = x + pos
    <3>1. MsgLen * q \in Nat
      BY <1>1
    <3> QED BY <1>1, <1>2, <1>3, <3>1
  <2> QED BY <2>2, <2>3 DEF Whole
<1> QED BY <1>3, <1>4 DEF HandleAll

LEMMA AvailableIs ==
  ASSUME NEW k \in Nat
  PROVE  /\ Available(k) \in Nat /\ Available(k) <= k /\ Available(k) <= RecvSize
         /\ (k < RecvSize /\ Available(k) = k) \/ (k >= RecvSize /\ Available(k) = RecvSize)
BY Constants DEF Available

-----------------------------------------------------------------------------
(* What the load consists of. *)

Most == WireSize + 2 * RecvSize + BatchLen + MsgLen

\* What is in the buffer of i and has not been answered.
Held(i) == sPos[i] - (IF spc = "reply" /\ si = i THEN MsgLen - owed ELSE 0)

Stocks == Types /\ Sizes /\ Serves /\ Sends

LEMMA Parts ==
  ASSUME Stocks, NEW i \in Clients, NEW j \in Clients
  PROVE  /\ up[j] \in 0..WireSize /\ down[i] \in 0..WireSize
         /\ Held(i) \in Nat /\ Back(i) = down[i] + Held(i)
         /\ Held(i) < MsgLen \/ (Held(i) < MsgLen + RecvSize /\ i \notin ready)
         /\ Ahead(i, j) \in 0..(2 * RecvSize) /\ (i \notin ready => Ahead(i, j) <= RecvSize)
         /\ ToSend(j) \in 0..BatchLen /\ ToRun(i) \in {0, BatchLen}
         /\ Credit(i, j) \in 0..BatchLen
<1>1. /\ up[j] \in 0..WireSize /\ down[i] \in 0..WireSize /\ sPos[i] \in Nat
      /\ owed \in Nat /\ left \in Nat /\ ci \in Nat /\ i \in Nat /\ j \in Nat
  BY Constants DEF Stocks, Types, Sizes
<1>2. /\ Held(i) \in Nat /\ Back(i) = down[i] + Held(i)
      /\ Held(i) < MsgLen \/ (Held(i) < MsgLen + RecvSize /\ i \notin ready)
  <2>1. CASE spc = "reply" /\ si = i
    <3>1. owed \in 1..MsgLen /\ sPos[i] >= MsgLen /\ i \notin ready
      BY <2>1 DEF Stocks, Serves, Handling
    <3>3. sPos[i] < MsgLen + RecvSize
      <4>1. sPos[i] < MsgLen \/ sPos[i] < MsgLen + RecvSize
        BY DEF Stocks, Sizes
      <4> QED BY <1>1, <4>1, Constants
    <3>2. Held(i) = sPos[i] - (MsgLen - owed) /\ Back(i) = down[i] + sPos[i] - (MsgLen - owed)
      BY <2>1 DEF Held, Back
    <3> QED BY <1>1, <3>1, <3>2, <3>3, Constants
  <2>2. CASE ~(spc = "reply" /\ si = i)
    <3>1. sPos[i] < MsgLen \/ (i \notin ready /\ sPos[i] < MsgLen + RecvSize)
      BY DEF Stocks, Serves, Sizes
    <3>2. Held(i) = sPos[i] - 0 /\ Back(i) = down[i] + sPos[i] - 0
      BY <2>2 DEF Held, Back
    <3> QED BY <1>1, <3>1, <3>2
  <2> QED BY <2>1, <2>2
<1>3. Ahead(i, j) \in 0..(2 * RecvSize) /\ (i \notin ready => Ahead(i, j) <= RecvSize)
  BY Constants DEF Ahead
<1>4. ToSend(j) \in 0..BatchLen /\ ToRun(i) \in {0, BatchLen}
  <2>1. ToSend(j) = 0 \/ ToSend(j) = BatchLen \/ (ToSend(j) = left /\ cpc = "send")
    BY DEF ToSend
  <2>2. cpc = "send" => left \in 0..BatchLen
    BY Constants DEF Stocks, Sends
  <2> QED BY <2>1, <2>2, Constants DEF ToRun
<1>5. Credit(i, j) \in 0..BatchLen
  <2>1. CASE i < j
    <3>1. ToRun(i) = BatchLen => ToSend(j) = BatchLen
      BY <1>1, <2>1, Constants DEF ToRun, ToSend
    <3>2. Credit(i, j) = ToSend(j) - ToRun(i) + 0
      BY <2>1 DEF Credit
    <3> QED BY <1>4, <3>1, <3>2, Constants
  <2>2. CASE ~(i < j)
    <3>1. ToSend(j) # 0 => ToRun(i) = BatchLen
      BY <1>1, <2>2, Constants DEF ToRun, ToSend
    <3>2. Credit(i, j) = ToSend(j) - ToRun(i) + BatchLen
      BY <2>2 DEF Credit
    <3> QED BY <1>4, <3>1, <3>2, Constants
  <2> QED BY <2>1, <2>2
<1> QED BY <1>1, <1>2, <1>3, <1>4, <1>5

LEMMA LoadIsInt == Stocks => \A i, j \in Clients : Load(i, j) \in Int
<1>1. ASSUME Stocks, NEW i \in Clients, NEW j \in Clients PROVE Load(i, j) \in Int
  <2>1. /\ up[j] \in 0..WireSize /\ down[i] \in 0..WireSize
        /\ Held(i) \in Nat /\ Back(i) = down[i] + Held(i)
        /\ Ahead(i, j) \in 0..(2 * RecvSize) /\ Credit(i, j) \in 0..BatchLen
    BY <1>1, Parts
  <2> QED BY <2>1, Constants DEF Load
<1> QED BY <1>1

\* When one of the two sockets is empty the load is within its bound.
LEMMA Reset ==
  Stocks => \A i, j \in Clients : up[j] = 0 \/ down[i] = 0 => Load(i, j) < Most
<1>1. ASSUME Stocks, NEW i \in Clients, NEW j \in Clients, up[j] = 0 \/ down[i] = 0
      PROVE  Load(i, j) < Most
  <2>1. /\ up[j] \in 0..WireSize /\ down[i] \in 0..WireSize
        /\ Held(i) \in Nat /\ Back(i) = down[i] + Held(i)
        /\ Held(i) < MsgLen \/ (Held(i) < MsgLen + RecvSize /\ i \notin ready)
        /\ Ahead(i, j) \in 0..(2 * RecvSize) /\ (i \notin ready => Ahead(i, j) <= RecvSize)
        /\ Credit(i, j) \in 0..BatchLen
    BY <1>1, Parts
  <2>2. Held(i) + Ahead(i, j) < MsgLen + 2 * RecvSize
    BY <2>1, Constants
  <2>3. up[j] + down[i] <= WireSize
    BY <1>1, <2>1, Constants
  <2> QED BY <2>1, <2>2, <2>3, Constants DEF Load, Most
<1> QED BY <1>1

LEMMA ResetNext ==
  Stocks' => \A i, j \in Clients : up'[j] = 0 \/ down'[i] = 0 => Load(i, j)' < Most
<1>1. (Stocks => \A i, j \in Clients : up[j] = 0 \/ down[i] = 0 => Load(i, j) < Most)'
  BY Reset, PTL
<1> QED BY <1>1 DEF Most

\* So a step keeps the bound if it does not add to the load of two connections
\* that are there and between which neither socket is empty.
LEMMA BoundedNext ==
  ASSUME IInv, Stocks',
         cpc \in {"clean", "done"} => cpc' \in {"clean", "done"},
         \A i, j \in Clients :
           Alive(i)' /\ Alive(j)' /\ up'[j] # 0 /\ down'[i] # 0 =>
             Alive(i) /\ Alive(j) /\ Load(i, j)' <= Load(i, j)
  PROVE  Bounded'
<1>1. \A i, j \in Clients : Load(i, j) \in Int
  BY LoadIsInt DEF IInv, Stocks
<1>2. \A i, j \in Clients : Load(i, j)' \in Int
  <2>1. (Stocks => \A i, j \in Clients : Load(i, j) \in Int)'
    BY LoadIsInt, PTL
  <2> QED BY <2>1
<1>3. Most \in Nat
  BY Constants DEF Most
<1>4. ASSUME NEW i \in Clients, NEW j \in Clients, cpc' \notin {"clean", "done"}, Alive(i)', Alive(j)'
      PROVE  Load(i, j)' < Most
  <2>1. CASE up'[j] = 0 \/ down'[i] = 0
    BY <2>1, ResetNext
  <2>2. CASE up'[j] # 0 /\ down'[i] # 0
    <3>1. Alive(i) /\ Alive(j) /\ Load(i, j)' <= Load(i, j)
      BY <1>4, <2>2
    <3>2. Load(i, j) < Most
      BY <1>4, <3>1 DEF IInv, Bounded, Most
    <3> QED BY <1>1, <1>2, <1>3, <3>1, <3>2
  <2> QED BY <2>1, <2>2
<1> QED BY <1>4 DEF Bounded, Most

\* What one end has sent, and will have sent when it is through with what it
\* is sending, and the other one has not handled.
UpStream(i) == up[i] + sPos[i] + (IF cpc = "send" /\ ci = i THEN left ELSE 0)
DownStream(i) == down[i] + cPos[i] + (IF spc = "reply" /\ si = i THEN owed ELSE 0)

LEMMA InStepIs ==
  InStep <=> \A i \in Clients : Alive(i) => Whole(UpStream(i)) /\ Whole(DownStream(i))
BY DEF InStep, Alive, Whole, UpStream, DownStream

LEMMA InStepNext ==
  ASSUME InStep,
         \A i \in Clients : Alive(i)' =>
           /\ Whole(UpStream(i)') \/ (Alive(i) /\ (Whole(UpStream(i)) => Whole(UpStream(i)')))
           /\ Whole(DownStream(i)') \/ (Alive(i) /\ (Whole(DownStream(i)) => Whole(DownStream(i)')))
  PROVE  InStep'
<1>1. \A i \in Clients : Alive(i)' => Whole(UpStream(i)') /\ Whole(DownStream(i)')
  BY InStepIs
<1>2. InStep' <=> \A i \in Clients : Alive(i)' => Whole(UpStream(i)') /\ Whole(DownStream(i)')
  <2>1. (InStep <=> \A i \in Clients : Alive(i) => Whole(UpStream(i)) /\ Whole(DownStream(i)))'
    BY InStepIs, PTL
  <2> QED BY <2>1 DEF Whole
<1> QED BY <1>1, <1>2

LEMMA StreamTypes ==
  ASSUME Stocks, NEW i \in Clients
  PROVE  up[i] \in Nat /\ down[i] \in Nat /\ sPos[i] \in Nat /\ cPos[i] \in Nat
BY DEF Stocks, Types

-----------------------------------------------------------------------------
(* The sending thread. *)

\* Steps that move no unit: no connection comes to be, and the sending thread
\* is as far in its round as it was.
LEMMA StillStep ==
  ASSUME IInv, Stocks', Connections',
         UNCHANGED <<up, sPos, spc, si, ready, owed>>,
         cpc \in {"clean", "done"} => cpc' \in {"clean", "done"},
         \A i \in Clients : Alive(i)' => Alive(i) /\ down'[i] = down[i] /\ cPos'[i] = cPos[i],
         \A i, j \in Clients : Alive(i)' /\ Alive(j)' => Credit(i, j)' = Credit(i, j),
         \A i \in Clients : Alive(i)' =>
           (IF cpc' = "send" /\ ci' = i THEN left' ELSE 0) = (IF cpc = "send" /\ ci = i THEN left ELSE 0)
  PROVE  IInv'
<1>1. ASSUME NEW i \in Clients, NEW j \in Clients, Alive(i)', Alive(j)'
      PROVE  Alive(i) /\ Alive(j) /\ Load(i, j)' <= Load(i, j)
  <2>1. Back(i)' = Back(i) /\ Ahead(i, j)' = Ahead(i, j)
    BY <1>1 DEF Back, Ahead
  <2>2. Load(i, j)' = Load(i, j) /\ Load(i, j) \in Int
    BY <1>1, <2>1, LoadIsInt DEF Load, IInv, Stocks
  <2> QED BY <1>1, <2>2
<1>2. Bounded'
  BY <1>1, BoundedNext
<1>3. ASSUME NEW i \in Clients, Alive(i)'
      PROVE  Alive(i) /\ UpStream(i)' = UpStream(i) /\ DownStream(i)' = DownStream(i)
  BY <1>3 DEF UpStream, DownStream
<1>4. InStep'
  BY <1>3, InStepNext DEF IInv
<1> QED BY <1>2, <1>4 DEF IInv, Stocks

LEMMA ServesStay == ASSUME Serves, UNCHANGED <<spc, owed, sPos, si, ready>> PROVE Serves'
BY DEF Serves

LEMMA SizesStay == ASSUME Sizes, UNCHANGED <<up, down, cPos, sPos, spc, si>> PROVE Sizes'
BY DEF Sizes

\* The place of the sending thread after a loop's step.
LEMMA LoopOverIs ==
  ASSUME IInv, NEW label, NEW after, LoopOver(label, after)
  PROVE  /\ ci' \in Clients
         /\ \/ ci # NClients /\ ci' = ci + 1 /\ ci < NClients /\ cpc' = label
            \/ ci = NClients /\ ci' = 1 /\ cpc' = after
BY Constants DEF IInv, Types, LoopOver, Clients

LEMMA CreateStep == ASSUME IInv, Create PROVE IInv'
<1>1. /\ UNCHANGED <<up, down, gRun, left, cPos, fault, spc, si, ready, sPos, owed, gone, serving>>
      /\ cpc = "create" /\ ci' \in Clients
      /\ cpc' = "create" \/ (cpc' = "connect" /\ ci' = 1)
      /\ cfd' = cfd \/ cfd' = [cfd EXCEPT ![ci] = "new"]
  <2>1. LoopOver("create", "connect") /\ (cfd' = [cfd EXCEPT ![ci] = IF gRun THEN "new" ELSE @])
    BY DEF Create
  <2>2. [cfd EXCEPT ![ci] = @] = cfd
    BY DEF IInv, Types
  <2> QED BY <2>1, <2>2, LoopOverIs DEF Create, srvVars
<1>2. \A i \in Clients : cfd[i] \in {"null", "new"} /\ cfd'[i] \in {"null", "new"}
  BY <1>1 DEF IInv, Types, Sends
<1>3. Types'
  BY <1>1 DEF IInv, Types
<1>4. Sizes' /\ Serves'
  BY <1>1, SizesStay, ServesStay DEF IInv
<1>5. Sends'
  <2>1. \A i \in Clients : ~(i < 1)
    BY DEF Clients
  <2> QED BY <1>1, <1>2, <2>1 DEF IInv, Sends, InRound
<1>6. Connections'
  BY <1>1, <1>2 DEF IInv, Connections
<1>7. \A i \in Clients : ~Alive(i)'
  BY <1>2 DEF Alive
<1> QED BY <1>1, <1>3, <1>4, <1>5, <1>6, <1>7, StillStep DEF Stocks

LEMMA ConnectStep == ASSUME IInv, Connect PROVE IInv'
<1>1. /\ UNCHANGED <<up, down, gRun, left, cPos, fault, spc, si, ready, sPos, owed, gone, serving>>
      /\ cpc = "connect" /\ ci' \in Clients /\ ci \in Clients
      /\ \/ ci # NClients /\ ci' = ci + 1 /\ ci < NClients /\ cpc' = "connect"
         \/ ci = NClients /\ ci' = 1 /\ cpc' = "rounds"
      /\ \/ gRun /\ cfd' = [cfd EXCEPT ![ci] = "open"]
         \/ gRun /\ cfd' = [cfd EXCEPT ![ci] = "down"]
         \/ ~gRun /\ UNCHANGED cfd
  BY LoopOverIs DEF Connect, srvVars, IInv, Types
<1>2. /\ \A i \in Clients : i # ci => cfd'[i] = cfd[i]
      /\ (gRun /\ cfd'[ci] \in {"open", "down"}) \/ (~gRun /\ cfd'[ci] = cfd[ci])
      /\ cfd[ci] \in {"null", "new"}
      /\ \A i \in Clients : i >= ci => cfd[i] \in {"null", "new"}
      /\ gRun => \A i \in Clients : i < ci => cfd[i] \notin {"null", "new"}
      /\ left = 0
  <2>1. ci >= ci
    BY <1>1, Constants
  <2> QED BY <1>1, <2>1 DEF IInv, Types, Sends
<1>3. Types'
  BY <1>1 DEF IInv, Types
<1>4. Sizes' /\ Serves'
  BY <1>1, SizesStay, ServesStay DEF IInv
<1>5. Sends'
  <2>1. \A i \in Clients : i \in Nat /\ i <= NClients
    BY DEF Clients
  <2>2. ci \in Nat
    BY <1>1, <2>1
  <2>3. cpc' = "connect" => \A i \in Clients : i >= ci' => cfd'[i] \in {"null", "new"}
    BY <1>1, <1>2, <2>1, <2>2
  <2>4. gRun' /\ cpc' = "connect" => \A i \in Clients : i < ci' => cfd'[i] \notin {"null", "new"}
    BY <1>1, <1>2, <2>1, <2>2
  <2>5. gRun' /\ cpc' = "rounds" => \A i \in Clients : cfd'[i] \notin {"null", "new"}
    BY <1>1, <1>2, <2>1, <2>2, Constants
  <2> QED BY <1>1, <1>2, <2>3, <2>4, <2>5 DEF Sends, InRound
<1>6. /\ up[ci] = 0 /\ down[ci] = 0 /\ sPos[ci] = 0 /\ cPos[ci] = 0
      /\ ci \notin ready /\ ci \notin gone
  BY <1>1, <1>2 DEF IInv, Connections
<1>7. Connections'
  BY <1>1, <1>2, <1>6 DEF IInv, Connections
<1>8. Stocks'
  BY <1>3, <1>4, <1>5 DEF Stocks
<1>9. Bounded'
  <2>1. ASSUME NEW i \in Clients, NEW j \in Clients, Alive(i)', Alive(j)', up'[j] # 0, down'[i] # 0
        PROVE  Alive(i) /\ Alive(j) /\ Load(i, j)' <= Load(i, j)
    <3>1. i # ci /\ j # ci
      BY <1>1, <1>6, <2>1
    <3>2. Alive(i) /\ Alive(j)
      BY <1>1, <1>2, <2>1, <3>1 DEF Alive
    <3>3. Back(i)' = Back(i) /\ Ahead(i, j)' = Ahead(i, j)
      BY <1>1 DEF Back, Ahead
    <3>4. Credit(i, j)' = Credit(i, j)
      BY <1>1 DEF Credit, ToSend, ToRun, InRound
    <3>5. Load(i, j)' = Load(i, j) /\ Load(i, j) \in Int
      BY <1>1, <3>3, <3>4, LoadIsInt DEF Load, IInv, Stocks
    <3> QED BY <3>2, <3>5
  <2> QED BY <1>1, <1>8, <2>1, BoundedNext
<1>10. InStep'
  <2>1. ASSUME NEW i \in Clients, Alive(i)'
        PROVE  /\ Whole(UpStream(i)') \/ (Alive(i) /\ (Whole(UpStream(i)) => Whole(UpStream(i)')))
               /\ Whole(DownStream(i)') \/ (Alive(i) /\ (Whole(DownStream(i)) => Whole(DownStream(i)')))
    <3>1. CASE i = ci
      <4>1. ~(spc = "reply" /\ si = ci)
        BY <1>1, <1>6, Constants DEF IInv, Serves
      <4>2. UpStream(i)' = 0 /\ DownStream(i)' = 0
        BY <1>1, <1>6, <3>1, <4>1 DEF UpStream, DownStream
      <4> QED BY <4>2, WholeBatch
    <3>2. CASE i # ci
      <4>1. Alive(i)
        BY <1>1, <1>2, <2>1, <3>2 DEF Alive
      <4>2. UpStream(i)' = UpStream(i) /\ DownStream(i)' = DownStream(i)
        BY <1>1 DEF UpStream, DownStream
      <4> QED BY <4>1, <4>2
    <3> QED BY <3>1, <3>2
  <2> QED BY <2>1, InStepNext DEF IInv
<1> QED BY <1>3, <1>4, <1>5, <1>7, <1>9, <1>10 DEF IInv

LEMMA RoundStep == ASSUME IInv, Round PROVE IInv'
<1>1. /\ UNCHANGED <<up, down, gRun, cfd, ci, left, cPos, fault, spc, si, ready, sPos, owed, gone, serving>>
      /\ cpc = "rounds" /\ ci = 1 /\ left = 0
      /\ (gRun /\ cpc' = "batch") \/ (~gRun /\ cpc' = "clean")
  BY DEF Round, srvVars, IInv, Sends
<1>2. Types' /\ Connections'
  BY <1>1 DEF IInv, Types, InRound, Connections
<1>3. Sizes' /\ Serves'
  BY <1>1, SizesStay, ServesStay DEF IInv
<1>4. Sends'
  BY <1>1 DEF IInv, Sends, InRound
<1>5. ASSUME NEW i \in Clients, NEW j \in Clients
      PROVE  Credit(i, j)' = Credit(i, j)
  <2>1. i \in Nat \ {0} /\ j \in Nat \ {0} /\ BatchLen \in Nat
    BY Constants DEF Clients
  <2>2. ToSend(j) = 0 /\ ToRun(i) = 0
    BY <1>1 DEF ToSend, ToRun, InRound
  <2>3. CASE cpc' = "clean"
    <3>1. ToSend(j)' = 0 /\ ToRun(i)' = 0
      BY <2>3 DEF ToSend, ToRun, InRound
    <3> QED BY <2>2, <3>1 DEF Credit
  <2>4. CASE cpc' = "batch"
    <3>1. ToSend(j)' = BatchLen
      <4>1. 1 < j \/ 1 = j
        BY <2>1
      <4> QED BY <1>1, <2>4, <4>1 DEF ToSend, InRound
    <3>2. ToRun(i)' = BatchLen
      <4>1. 1 <= i
        BY <2>1
      <4> QED BY <1>1, <2>4, <4>1 DEF ToRun, InRound
    <3>3. BatchLen - BatchLen = 0 - 0
      BY <2>1
    <3> QED BY <2>2, <3>1, <3>2, <3>3 DEF Credit
  <2> QED BY <1>1, <2>3, <2>4
<1>6. \A i \in Clients : Alive(i)' => Alive(i)
  BY <1>1 DEF Alive
<1> QED BY <1>1, <1>2, <1>3, <1>4, <1>5, <1>6, StillStep DEF Stocks

LEMMA StartSendStep == ASSUME IInv, StartSend PROVE IInv'
<1>1. /\ UNCHANGED <<up, down, gRun, cfd, ci, cPos, fault, spc, si, ready, sPos, owed, gone, serving>>
      /\ cpc = "batch" /\ left = 0 /\ ci \in Clients
      /\ \A i \in Clients : cfd[i] \notin {"null", "new"}
      /\ \/ cfd[ci] \in {"closed", "shut"} /\ cpc' = "run" /\ left' = 0
         \/ cfd[ci] \in {"open", "down"} /\ cpc' = "send" /\ left' = BatchLen
  BY DEF StartSend, srvVars, IInv, Sends, Types, InRound, BatchLen
<1>2. Types' /\ Connections'
  BY <1>1, Constants DEF IInv, Types, InRound, Connections
<1>3. Sizes' /\ Serves'
  BY <1>1, SizesStay, ServesStay DEF IInv
<1>4. Sends'
  BY <1>1, Constants DEF IInv, Sends, InRound
<1>5. \A i \in Clients : Alive(i)' => Alive(i)
  BY <1>1 DEF Alive
<1>6. ASSUME NEW i \in Clients, NEW j \in Clients, Alive(i)', Alive(j)'
      PROVE  Credit(i, j)' = Credit(i, j)
  <2>1. ToRun(i)' = ToRun(i)
    BY <1>1 DEF ToRun, InRound
  <2>2. ToSend(j)' = ToSend(j)
    <3>1. CASE cpc' = "run"
      <4>1. j # ci
        BY <1>1, <1>6, <3>1 DEF Alive
      <4> QED BY <1>1, <3>1, <4>1 DEF ToSend, InRound
    <3>2. CASE cpc' = "send"
      <4>1. ~(ci < ci)
        BY <1>1, Constants
      <4> QED BY <1>1, <3>2, <4>1 DEF ToSend, InRound
    <3> QED BY <1>1, <3>1, <3>2
  <2> QED BY <2>1, <2>2 DEF Credit
<1>7. Bounded'
  <2>1. ASSUME NEW i \in Clients, NEW j \in Clients, Alive(i)', Alive(j)'
        PROVE  Alive(i) /\ Alive(j) /\ Load(i, j)' <= Load(i, j)
    <3>1. Back(i)' = Back(i) /\ Ahead(i, j)' = Ahead(i, j)
      BY <1>1 DEF Back, Ahead
    <3>2. Load(i, j)' = Load(i, j) /\ Load(i, j) \in Int
      BY <1>1, <1>6, <2>1, <3>1, LoadIsInt DEF Load, IInv, Stocks
    <3> QED BY <1>5, <2>1, <3>2
  <2> QED BY <1>1, <1>2, <1>3, <1>4, <2>1, BoundedNext DEF Stocks
\* A batch is a whole number of messages.
<1>8. InStep'
  <2>1. ASSUME NEW i \in Clients, Alive(i)'
        PROVE  /\ Alive(i) /\ (Whole(UpStream(i)) => Whole(UpStream(i)'))
               /\ Alive(i) /\ (Whole(DownStream(i)) => Whole(DownStream(i)'))
    <3>1. Alive(i) /\ DownStream(i)' = DownStream(i)
      BY <1>1, <1>5, <2>1 DEF DownStream
    <3>2. up[i] + sPos[i] \in Nat
      BY StreamTypes DEF IInv, Stocks
    <3>3. UpStream(i) = (up[i] + sPos[i]) + 0
      BY <1>1 DEF UpStream
    <3>4. UpStream(i)' \in {(up[i] + sPos[i]) + 0, (up[i] + sPos[i]) + BatchLen}
      BY <1>1 DEF UpStream
    <3>5. Whole((up[i] + sPos[i]) + BatchLen) <=> Whole(up[i] + sPos[i])
      BY <3>2, WholeAddBatch
    <3> QED BY <3>1, <3>2, <3>3, <3>4, <3>5
  <2> QED BY <2>1, InStepNext DEF IInv
<1> QED BY <1>2, <1>3, <1>4, <1>7, <1>8 DEF IInv

LEMMA SendStep == ASSUME IInv, Send PROVE IInv'
<1>1. /\ UNCHANGED <<down, gRun, cfd, ci, cPos, fault, spc, si, ready, sPos, owed, gone, serving>>
      /\ cpc = "send" /\ left \in 1..BatchLen /\ ci \in Clients
      /\ up[ci] < WireSize /\ up' = [up EXCEPT ![ci] = @ + 1] /\ left' = left - 1
      /\ (left' = 0 /\ cpc' = "run") \/ (left' # 0 /\ cpc' = "send")
      /\ cfd[ci] = "open"
      /\ \A i \in Clients : cfd[i] \notin {"null", "new"}
  BY DEF Send, srvVars, IInv, Sends, Types, InRound, Lost
<1>2. /\ \A i \in Clients : i # ci => up'[i] = up[i]
      /\ up'[ci] = up[ci] + 1 /\ up[ci] \in Nat
      /\ left \in Nat /\ left' \in Nat /\ left = left' + 1 /\ left <= BatchLen
  BY <1>1, Constants DEF IInv, Types
<1>3. Types'
  <2>1. up' \in [Clients -> Nat]
    BY <1>1, <1>2 DEF IInv, Types
  <2> QED BY <1>1, <1>2, <2>1 DEF IInv, Types, InRound
<1>4. Sizes'
  <2>1. \A i \in Clients : up'[i] <= WireSize
    BY <1>1, <1>2, Constants DEF IInv, Sizes
  <2> QED BY <1>1, <2>1 DEF IInv, Sizes
<1>5. Serves'
  BY <1>1, ServesStay DEF IInv
<1>6. Sends'
  BY <1>1, <1>2, Constants DEF IInv, Sends, InRound
<1>7. Connections'
  BY <1>1, <1>2 DEF IInv, Connections
<1>8. \A i \in Clients : Alive(i)' => Alive(i)
  BY <1>1 DEF Alive
<1>9. ASSUME NEW i \in Clients, NEW j \in Clients
      PROVE  Load(i, j)' <= Load(i, j)
  <2>1. Back(i)' = Back(i) /\ Ahead(i, j)' = Ahead(i, j) /\ ToRun(i)' = ToRun(i)
    BY <1>1 DEF Back, Ahead, ToRun, InRound
  <2>2. i \in Nat /\ j \in Nat /\ ci \in Nat /\ BatchLen \in Nat
    BY <1>1, Constants
  <2>3. up'[j] + ToSend(j)' = up[j] + ToSend(j)
    <3>1. CASE j # ci
      BY <1>1, <1>2, <3>1 DEF ToSend, InRound
    <3>2. CASE j = ci
      <4>1. ToSend(j) = left
        BY <1>1, <2>2, <3>2 DEF ToSend, InRound
      <4>2. ToSend(j)' = left'
        BY <1>1, <2>2, <3>2 DEF ToSend, InRound
      <4> QED BY <1>2, <3>2, <4>1, <4>2
    <3> QED BY <3>1, <3>2
  <2>4. /\ up[j] \in Nat /\ up'[j] \in Nat /\ Back(i) \in Int /\ Ahead(i, j) \in Int
        /\ ToSend(j) \in Nat /\ ToSend(j)' \in Nat /\ ToRun(i) \in Nat
    <3>1. /\ up[j] \in Nat /\ up'[j] \in Nat
      BY <1>3 DEF IInv, Types
    <3>2. /\ down[i] \in 0..WireSize /\ Held(i) \in Nat /\ Back(i) = down[i] + Held(i)
          /\ Ahead(i, j) \in 0..(2 * RecvSize)
          /\ ToSend(j) \in 0..BatchLen /\ ToRun(i) \in {0, BatchLen}
      BY Parts DEF IInv, Stocks
    <3>3. ToSend(j)' \in Nat
      BY <1>2, <2>2 DEF ToSend
    <3> QED BY <2>2, <3>1, <3>2, <3>3, Constants
  <2> QED BY <2>1, <2>2, <2>3, <2>4 DEF Load, Credit
<1>10. Bounded'
  BY <1>1, <1>3, <1>4, <1>5, <1>6, <1>8, <1>9, BoundedNext DEF Stocks
<1>11. InStep'
  <2>1. ASSUME NEW i \in Clients, Alive(i)'
        PROVE  Alive(i) /\ UpStream(i)' = UpStream(i) /\ DownStream(i)' = DownStream(i)
    <3>1. Alive(i) /\ DownStream(i)' = DownStream(i)
      BY <1>1, <1>8, <2>1 DEF DownStream
    <3>2. CASE i = ci
      <4>1. UpStream(i) = up[ci] + sPos[i] + left
        BY <1>1, <3>2 DEF UpStream
      <4>2. UpStream(i)' = up'[ci] + sPos[i] + left'
        BY <1>1, <1>2, <3>2 DEF UpStream
      <4>3. sPos[i] \in Nat
        BY DEF IInv, Types
      <4> QED BY <1>2, <3>1, <4>1, <4>2, <4>3
    <3>3. CASE i # ci
      <4>1. UpStream(i)' = UpStream(i)
        BY <1>1, <1>2, <3>3 DEF UpStream
      <4> QED BY <3>1, <4>1
    <3> QED BY <3>2, <3>3
  <2> QED BY <2>1, InStepNext DEF IInv
<1> QED BY <1>3, <1>4, <1>5, <1>6, <1>7, <1>10, <1>11 DEF IInv

LEMMA SendFailsStep == ASSUME IInv, SendFails PROVE IInv'
<1>1. /\ UNCHANGED <<up, gRun, ci, cPos, fault, spc, si, ready, sPos, owed, gone, serving>>
      /\ cpc = "send" /\ ci \in Clients /\ cfd[ci] \in {"open", "down"}
      /\ cfd' = [cfd EXCEPT ![ci] = Closed(cfd[ci])] /\ down' = [down EXCEPT ![ci] = 0]
      /\ left' = 0 /\ cpc' = "run"
      /\ Lost(ci)
      /\ \A i \in Clients : cfd[i] \notin {"null", "new"}
  BY DEF SendFails, srvVars, IInv, Sends, Types, InRound
<1>2. /\ \A i \in Clients : i # ci => cfd'[i] = cfd[i] /\ down'[i] = down[i]
      /\ (cfd[ci] = "open" /\ cfd'[ci] = "closed" /\ ~serving) \/ (cfd[ci] = "down" /\ cfd'[ci] = "shut")
      /\ down'[ci] = 0
  BY <1>1 DEF IInv, Types, Closed, Lost, Connections
<1>3. Types'
  BY <1>1 DEF IInv, Types, InRound, Closed
<1>4. Sizes'
  <2>1. \A i \in Clients : down'[i] <= WireSize
    BY <1>1, <1>2, Constants DEF IInv, Sizes
  <2> QED BY <1>1, <2>1 DEF IInv, Sizes
<1>5. Serves'
  BY <1>1, ServesStay DEF IInv
<1>6. Sends'
  BY <1>1, <1>2 DEF IInv, Sends, InRound
<1>7. Connections'
  BY <1>1, <1>2 DEF IInv, Connections
<1>8. ASSUME NEW i \in Clients, Alive(i)'
      PROVE  Alive(i) /\ i # ci /\ down'[i] = down[i] /\ cPos'[i] = cPos[i]
  BY <1>1, <1>2, <1>8 DEF Alive
<1>9. \A i, j \in Clients : Alive(i)' /\ Alive(j)' => Credit(i, j)' = Credit(i, j)
  BY <1>1, <1>8 DEF Credit, ToSend, ToRun, InRound
<1> QED BY <1>1, <1>3, <1>4, <1>5, <1>6, <1>7, <1>8, <1>9, StillStep DEF Stocks

LEMMA CleanUpStep == ASSUME IInv, CleanUp PROVE IInv'
<1>1. /\ UNCHANGED <<up, gRun, left, spc, si, ready, sPos, owed, gone, serving>>
      /\ cpc = "clean" /\ ci \in Clients /\ ci' \in Clients /\ left = 0
      /\ cfd' = [cfd EXCEPT ![ci] = Closed(cfd[ci])]
      /\ down' = [down EXCEPT ![ci] = 0] /\ cPos' = [cPos EXCEPT ![ci] = 0]
      /\ cpc' = "clean" \/ cpc' = "done"
  <2>1. LoopOver("clean", "done")
    BY DEF CleanUp
  <2> QED BY <2>1, LoopOverIs DEF CleanUp, srvVars, IInv, Types, Sends
<1>2. /\ \A i \in Clients : i # ci => cfd'[i] = cfd[i] /\ down'[i] = down[i] /\ cPos'[i] = cPos[i]
      /\ \/ cfd[ci] \in {"open", "closed"} /\ cfd'[ci] = "closed"
         \/ cfd[ci] \in {"new", "down"} /\ cfd'[ci] = "shut"
         \/ cfd[ci] \in {"null", "shut"} /\ cfd'[ci] = cfd[ci]
      /\ down'[ci] = 0 /\ cPos'[ci] = 0
  BY <1>1 DEF IInv, Types, Closed
<1>3. Types'
  BY <1>1 DEF IInv, Types, Closed
<1>4. Sizes'
  <2>1. \A i \in Clients : down'[i] <= WireSize /\ cPos'[i] < MsgLen
    BY <1>1, <1>2, Constants DEF IInv, Sizes
  <2> QED BY <1>1, <2>1 DEF IInv, Sizes
<1>5. Serves'
  BY <1>1, ServesStay DEF IInv
<1>6. Sends'
  BY <1>1 DEF IInv, Sends, InRound
<1>7. Connections'
  BY <1>1, <1>2 DEF IInv, Connections
<1>8. ASSUME NEW i \in Clients, Alive(i)'
      PROVE  Alive(i) /\ i # ci /\ down'[i] = down[i] /\ cPos'[i] = cPos[i]
  BY <1>1, <1>2, <1>8 DEF Alive
<1>9. \A i, j \in Clients : Credit(i, j)' = Credit(i, j)
  BY <1>1 DEF Credit, ToSend, ToRun, InRound
<1> QED BY <1>1, <1>3, <1>4, <1>5, <1>6, <1>7, <1>8, <1>9, StillStep DEF Stocks

LEMMA ExitStep == ASSUME IInv, Exit PROVE IInv'
<1>1. /\ UNCHANGED <<up, down, cfd, cpc, ci, left, cPos, fault, spc, si, ready, sPos, owed, gone, serving>>
      /\ gRun /\ gRun' = FALSE
  BY DEF Exit, srvVars
<1>2. Types' /\ Connections'
  BY <1>1 DEF IInv, Types, Connections
<1>3. Sizes' /\ Serves'
  BY <1>1, SizesStay, ServesStay DEF IInv
<1>4. Sends'
  BY <1>1 DEF IInv, Sends
<1>5. \A i \in Clients : Alive(i)' => Alive(i)
  BY <1>1 DEF Alive
<1>6. \A i, j \in Clients : Credit(i, j)' = Credit(i, j)
  BY <1>1 DEF Credit, ToSend, ToRun
<1> QED BY <1>1, <1>2, <1>3, <1>4, <1>5, <1>6, StillStep DEF Stocks

LEMMA MainReturnsStep == ASSUME IInv, MainReturns PROVE IInv'
<1>1. /\ UNCHANGED <<up, gRun, fault, spc, si, ready, sPos, owed, gone, serving>>
      /\ cfd' = [i \in Clients |-> IF cfd[i] = "open" THEN "closed" ELSE cfd[i]]
      /\ cpc' = "done" /\ ci' = 1 /\ left' = 0
      /\ down' = [i \in Clients |-> 0] /\ cPos' = [i \in Clients |-> 0]
  BY DEF MainReturns, srvVars
<1>2. Types'
  BY <1>1, Constants DEF IInv, Types
<1>3. \A i \in Clients :
        /\ down'[i] = 0 /\ cPos'[i] = 0 /\ cfd'[i] # "open"
        /\ cfd'[i] = cfd[i] \/ (cfd[i] = "open" /\ cfd'[i] = "closed")
  BY <1>1
<1>4. Sizes'
  BY <1>1, <1>3, Constants DEF IInv, Sizes
<1>5. Serves' /\ Sends'
  BY <1>1, ServesStay DEF IInv, Sends, InRound
<1>6. Connections'
  BY <1>1, <1>3 DEF IInv, Connections
<1>7. \A i \in Clients : ~Alive(i)'
  BY <1>3 DEF Alive
<1> QED BY <1>1, <1>2, <1>4, <1>5, <1>6, <1>7, StillStep DEF Stocks

\* A connection's turn to receive gives back what the others were in advance;
\* and if that does not empty its socket it takes a receive buffer, more than
\* a batch, from it.
LEMMA OnRunStep == ASSUME IInv, OnRun PROVE IInv'
<1> DEFINE a == Available(down[ci])
<1>1. /\ UNCHANGED <<up, gRun, cfd, left, fault, spc, si, ready, sPos, owed, gone, serving>>
      /\ cpc = "run" /\ left = 0 /\ ci \in Clients /\ ci' \in Clients
      /\ \/ ci # NClients /\ ci' = ci + 1 /\ ci < NClients /\ cpc' = "batch"
         \/ ci = NClients /\ ci' = 1 /\ cpc' = "rounds"
      /\ \/ /\ Alive(ci)
            /\ cPos' = [cPos EXCEPT ![ci] = HandleAll(@ + a)]
            /\ down' = [down EXCEPT ![ci] = @ - a]
         \/ ~Alive(ci) /\ UNCHANGED <<cPos, down>>
      /\ \A i \in Clients : cfd[i] \notin {"null", "new"}
  <2>1. LoopOver("batch", "rounds")
    BY DEF OnRun
  <2>2. cfd[ci] = "open" /\ ~Lost(ci) <=> Alive(ci)
    BY DEF Alive, Lost
  <2>3. [down EXCEPT ![ci] = @ - Available(@)] = [down EXCEPT ![ci] = @ - a]
    BY DEF IInv, Types
  <2>4. cPos' = cPos /\ down' = down => UNCHANGED <<cPos, down>>
    OBVIOUS
  <2> QED BY <2>1, <2>2, <2>3, <2>4, LoopOverIs DEF OnRun, srvVars, IInv, Types, Sends, InRound
<1>2. /\ a \in Nat /\ a <= down[ci] /\ a <= RecvSize /\ down[ci] \in Nat /\ cPos[ci] \in Nat
      /\ (down[ci] < RecvSize /\ a = down[ci]) \/ (down[ci] >= RecvSize /\ a = RecvSize)
  <2>1. down[ci] \in Nat /\ cPos[ci] \in Nat
    BY <1>1 DEF IInv, Types
  <2> QED BY <2>1, AvailableIs
<1> HIDE DEF a
<1>3. /\ HandleAll(cPos[ci] + a) \in 0..(MsgLen - 1)
      /\ \A x \in Nat : Whole(x + HandleAll(cPos[ci] + a)) <=> Whole(x + (cPos[ci] + a))
  <2>1. cPos[ci] + a \in Nat
    BY <1>2
  <2> QED BY <2>1, HandleAllProperties
<1>4. /\ \A i \in Clients : i # ci => cPos'[i] = cPos[i] /\ down'[i] = down[i]
      /\ \/ Alive(ci) /\ cPos'[ci] = HandleAll(cPos[ci] + a) /\ down'[ci] = down[ci] - a
         \/ ~Alive(ci) /\ cPos'[ci] = cPos[ci] /\ down'[ci] = down[ci]
  BY <1>1 DEF IInv, Types
<1>5. Types'
  <2>1. HandleAll(cPos[ci] + a) \in Nat /\ down[ci] - a \in Nat
    BY <1>2, <1>3, Constants
  <2>2. cPos' \in [Clients -> Nat] /\ down' \in [Clients -> Nat]
    BY <1>1, <2>1 DEF IInv, Types
  <2> QED BY <1>1, <2>2 DEF IInv, Types, InRound
<1>6. Sizes'
  <2>1. \A i \in Clients : down'[i] <= WireSize /\ cPos'[i] < MsgLen
    <3>1. ASSUME NEW i \in Clients PROVE down'[i] <= WireSize /\ cPos'[i] < MsgLen
      <4>1. down[i] <= WireSize /\ cPos[i] < MsgLen
        BY DEF IInv, Sizes
      <4>2. CASE i = ci
        BY <1>2, <1>3, <1>4, <4>1, <4>2, Constants
      <4>3. CASE i # ci
        BY <1>4, <4>1, <4>3
      <4> QED BY <4>2, <4>3
    <3> QED BY <3>1
  <2> QED BY <1>1, <2>1 DEF IInv, Sizes
<1>7. Serves' /\ Sends'
  BY <1>1, ServesStay DEF IInv, Sends, InRound
<1>8. Connections'
  <2>1. Alive(ci) => cfd[ci] = "open"
    BY DEF Alive
  <2> QED BY <1>1, <1>4, <2>1 DEF IInv, Connections
<1>9. Stocks'
  BY <1>5, <1>6, <1>7 DEF Stocks
<1>10. ASSUME NEW i \in Clients, NEW j \in Clients
       PROVE  /\ ToSend(j)' = ToSend(j)
              /\ i # ci => ToRun(i)' = ToRun(i)
              /\ i = ci => ToRun(i) = BatchLen /\ ToRun(i)' = 0
  <2>1. i \in Nat /\ j \in Nat /\ ci \in Nat /\ i <= NClients /\ j <= NClients /\ NClients \in Nat
    BY <1>1, Constants DEF Clients
  <2>2. ToSend(j) = (IF ci < j THEN BatchLen ELSE 0) /\ ToRun(i) = (IF ci <= i THEN BatchLen ELSE 0)
    BY <1>1 DEF ToSend, ToRun, InRound
  <2>3. i = ci => ToRun(i) = BatchLen
    BY <2>1, <2>2
  <2>4. CASE ci' = ci + 1 /\ cpc' = "batch"
    <3>1. /\ ToSend(j)' = (IF ci + 1 < j \/ ci + 1 = j THEN BatchLen ELSE 0)
          /\ ToRun(i)' = (IF ci + 1 <= i THEN BatchLen ELSE 0)
      BY <2>4 DEF ToSend, ToRun, InRound
    <3> QED BY <2>1, <2>2, <2>3, <3>1
  <2>5. CASE ci = NClients /\ cpc' = "rounds"
    <3>1. ToSend(j)' = 0 /\ ToRun(i)' = 0
      BY <2>5 DEF ToSend, ToRun, InRound
    <3> QED BY <2>1, <2>2, <2>3, <2>5, <3>1
  <2> QED BY <1>1, <2>4, <2>5
<1>11. \A i \in Clients : Alive(i)' => Alive(i)
  BY <1>1 DEF Alive
<1>12. ASSUME NEW i \in Clients, NEW j \in Clients, Alive(i)', down'[i] # 0
       PROVE  Load(i, j)' <= Load(i, j)
  <2>1. Ahead(i, j)' = Ahead(i, j) /\ up'[j] = up[j] /\ ToSend(j)' = ToSend(j)
    BY <1>1, <1>10 DEF Ahead
  <2>2. /\ Load(i, j) \in Int /\ up[j] \in Nat /\ Held(i) \in Nat /\ Back(i) = down[i] + Held(i)
        /\ down[i] \in Nat /\ down'[i] \in Nat
        /\ Ahead(i, j) \in Int /\ ToSend(j) \in Int /\ BatchLen \in Nat /\ BatchLen <= RecvSize
        /\ RecvSize \in Nat
    <3>1. /\ up[j] \in 0..WireSize /\ down[i] \in 0..WireSize
          /\ Held(i) \in Nat /\ Back(i) = down[i] + Held(i)
          /\ Ahead(i, j) \in 0..(2 * RecvSize) /\ ToSend(j) \in 0..BatchLen
      BY Parts DEF IInv, Stocks
    <3>2. down'[i] \in Nat
      BY <1>5 DEF Types
    <3>3. Load(i, j) \in Int
      BY LoadIsInt DEF IInv, Stocks
    <3> QED BY <3>1, <3>2, <3>3, Constants
  <2>3. Back(i)' = down'[i] + Held(i)
    BY <1>1, <2>2 DEF Back, Held
  <2>4. CASE i # ci
    <3>1. Back(i)' = Back(i) /\ ToRun(i)' = ToRun(i)
      BY <1>4, <1>10, <2>2, <2>3, <2>4
    <3>2. Load(i, j)' = Load(i, j)
      BY <2>1, <3>1 DEF Load, Credit
    <3> QED BY <2>2, <3>2
  <2>5. CASE i = ci
    <3>1. Alive(ci)
      BY <1>11, <1>12, <2>5
    <3>2. down'[i] = down[i] - RecvSize
      BY <1>2, <1>4, <1>12, <2>5, <3>1
    <3>3. ToRun(i) = BatchLen /\ ToRun(i)' = 0
      BY <1>10, <2>5
    <3> QED BY <2>1, <2>2, <2>3, <3>2, <3>3 DEF Load, Credit
  <2> QED BY <2>4, <2>5
<1>13. Bounded'
  BY <1>1, <1>9, <1>11, <1>12, BoundedNext
<1>14. InStep'
  <2>1. ASSUME NEW i \in Clients, Alive(i)'
        PROVE  /\ Alive(i) /\ (Whole(UpStream(i)) => Whole(UpStream(i)'))
               /\ Alive(i) /\ (Whole(DownStream(i)) => Whole(DownStream(i)'))
    <3>1. Alive(i) /\ UpStream(i)' = UpStream(i)
      BY <1>1, <1>11, <2>1 DEF UpStream
    <3>2. CASE i # ci
      <4>1. DownStream(i)' = DownStream(i)
        BY <1>1, <1>4, <3>2 DEF DownStream
      <4> QED BY <3>1, <4>1
    <3>3. CASE i = ci
      <4>1. PICK o \in Nat : /\ DownStream(i) = down[i] + cPos[i] + o
                             /\ DownStream(i)' = down'[i] + cPos'[i] + o
        <5>1. PICK o \in Nat : o = IF spc = "reply" /\ si = i THEN owed ELSE 0
          BY DEF IInv, Types
        <5> QED BY <1>1, <5>1 DEF DownStream
      <4>2. /\ DownStream(i)' = (down[ci] - a) + HandleAll(cPos[ci] + a) + o
            /\ DownStream(i) = down[ci] + cPos[ci] + o
        BY <1>4, <3>1, <3>3, <4>1
      <4>3. /\ ((down[ci] - a) + o) \in Nat
            /\ DownStream(i)' = ((down[ci] - a) + o) + HandleAll(cPos[ci] + a)
            /\ DownStream(i) = ((down[ci] - a) + o) + (cPos[ci] + a)
        BY <1>2, <1>3, <4>2, Constants
      <4>4. Whole(DownStream(i)') <=> Whole(DownStream(i))
        BY <1>3, <4>3
      <4> QED BY <3>1, <4>4
    <3> QED BY <3>2, <3>3
  <2> QED BY <2>1, InStepNext DEF IInv
<1> QED BY <1>5, <1>6, <1>7, <1>8, <1>13, <1>14 DEF IInv

-----------------------------------------------------------------------------
(* The CellServer thread. *)

LEMMA SendsStay == ASSUME Sends, UNCHANGED <<gRun, cfd, cpc, ci, left>> PROVE Sends'
BY DEF Sends

\* A client that may be read is not ahead of any other client.
LEMMA SelectStep == ASSUME IInv, Select PROVE IInv'
<1>1. /\ UNCHANGED <<up, down, gRun, cfd, cpc, ci, left, cPos, fault, si, sPos, owed, gone, serving>>
      /\ spc = "select" /\ spc' = "read" /\ ready = {} /\ owed = 0
      /\ ready' = {i \in Served : Readable(i)}
  BY DEF Select, cliVars, IInv, Serves
<1>2. /\ ready' \in SUBSET Clients
      /\ \A i \in Clients : cfd[i] \notin {"open", "closed"} => i \notin ready'
      /\ \A i \in Clients : Alive(i) /\ up[i] # 0 => i \in ready'
  <2>1. \A i \in Clients : up[i] \in Nat
    BY DEF IInv, Types
  <2>2. \A i \in Clients : up[i] # 0 => up[i] > 0
    BY <2>1
  <2> QED BY <1>1, <2>2 DEF Served, Readable, Alive
<1>3. Types'
  BY <1>1, <1>2 DEF IInv, Types
<1>4. Sizes' /\ Serves' /\ Sends'
  BY <1>1, SendsStay DEF IInv, Sizes, Serves, Handling
<1>5. Connections'
  BY <1>1, <1>2 DEF IInv, Connections
<1>6. \A i \in Clients : Alive(i)' => Alive(i)
  BY <1>1 DEF Alive
<1>7. ASSUME NEW i \in Clients, NEW j \in Clients, Alive(j)', up'[j] # 0
      PROVE  Load(i, j)' <= Load(i, j)
  <2>1. Back(i)' = Back(i) /\ Credit(i, j)' = Credit(i, j) /\ up'[j] = up[j]
    BY <1>1 DEF Back, Credit, ToSend, ToRun
  <2>2. j \in ready'
    BY <1>1, <1>2, <1>6, <1>7
  <2>3. Ahead(i, j) = RecvSize /\ Ahead(i, j)' \in {0 + RecvSize, 0}
    BY <1>1, <2>2, Constants DEF Ahead
  <2>4. /\ up[j] \in Nat /\ Back(i) \in Int /\ Credit(i, j) \in Int
    <3>1. /\ up[j] \in 0..WireSize /\ down[i] \in 0..WireSize
          /\ Held(i) \in Nat /\ Back(i) = down[i] + Held(i)
          /\ Credit(i, j) \in 0..BatchLen
      BY Parts DEF IInv, Stocks
    <3> QED BY <3>1, Constants
  <2> QED BY <2>1, <2>3, <2>4, Constants DEF Load
<1>8. Bounded'
  BY <1>1, <1>3, <1>4, <1>6, <1>7, BoundedNext DEF Stocks
<1>9. InStep'
  <2>1. ASSUME NEW i \in Clients, Alive(i)'
        PROVE  Alive(i) /\ UpStream(i)' = UpStream(i) /\ DownStream(i)' = DownStream(i)
    BY <1>1, <1>6, <2>1 DEF UpStream, DownStream
  <2> QED BY <2>1, InStepNext DEF IInv
<1> QED BY <1>3, <1>4, <1>5, <1>8, <1>9 DEF IInv

\* What recv takes from k's socket is in k's buffer; k has had its turn.
LEMMA RecvDataStep == ASSUME IInv, NEW k \in Clients, RecvData(k) PROVE IInv'
<1> DEFINE a == Available(up[k])
<1>1. /\ UNCHANGED <<down, gRun, cfd, cpc, ci, left, cPos, fault, owed, gone, serving>>
      /\ spc = "read" /\ spc' = "messages" /\ owed = 0
      /\ k \in ready /\ up[k] > 0 /\ ready' = ready \ {k} /\ si' = k
      /\ sPos' = [sPos EXCEPT ![k] = @ + a] /\ up' = [up EXCEPT ![k] = @ - a]
  <2>1. [up EXCEPT ![k] = @ - Available(@)] = [up EXCEPT ![k] = @ - a]
    BY DEF IInv, Types
  <2> QED BY <2>1 DEF RecvData, cliVars, IInv, Serves
<1>2. /\ a \in Nat /\ a <= up[k] /\ a <= RecvSize /\ up[k] \in Nat /\ sPos[k] \in Nat
      /\ (up[k] < RecvSize /\ a = up[k]) \/ (up[k] >= RecvSize /\ a = RecvSize)
  <2>1. up[k] \in Nat /\ sPos[k] \in Nat
    BY DEF IInv, Types
  <2> QED BY <2>1, AvailableIs
<1> HIDE DEF a
<1>3. /\ \A i \in Clients : i # k => sPos'[i] = sPos[i] /\ up'[i] = up[i]
      /\ sPos'[k] = sPos[k] + a /\ up'[k] = up[k] - a
      /\ \A i \in Clients : i \in ready' <=> i \in ready /\ i # k
  BY <1>1 DEF IInv, Types
<1>4. Types'
  <2>1. sPos[k] + a \in Nat /\ up[k] - a \in Nat
    BY <1>2
  <2> QED BY <1>1, <2>1 DEF IInv, Types, Handling
<1>5. Sizes'
  <2>1. ASSUME NEW i \in Clients
        PROVE  /\ up'[i] <= WireSize
               /\ sPos'[i] < MsgLen \/ (i = k /\ sPos'[i] < MsgLen + RecvSize)
    <3>1. up[i] <= WireSize /\ sPos[i] < MsgLen
      BY <1>1 DEF IInv, Sizes, Handling
    <3>2. CASE i = k
      BY <1>2, <1>3, <3>1, <3>2, Constants
    <3>3. CASE i # k
      BY <1>3, <3>1, <3>3
    <3> QED BY <3>2, <3>3
  <2> QED BY <1>1, <2>1 DEF IInv, Sizes, Handling
<1>6. Serves' /\ Sends'
  BY <1>1, <1>3, SendsStay DEF IInv, Serves, Handling
<1>7. Connections'
  BY <1>1, <1>3 DEF IInv, Connections
<1>8. Stocks'
  BY <1>4, <1>5, <1>6 DEF Stocks
<1>9. \A i \in Clients : Alive(i)' => Alive(i)
  BY <1>1 DEF Alive
<1>10. ASSUME NEW i \in Clients, NEW j \in Clients, up'[j] # 0
       PROVE  Load(i, j)' <= Load(i, j)
  <2>1. /\ Credit(i, j)' = Credit(i, j)
        /\ Back(i) = down[i] + sPos[i] /\ Back(i)' = down[i] + sPos'[i]
    <3>1. Credit(i, j)' = Credit(i, j)
      BY <1>1 DEF Credit, ToSend, ToRun
    <3>2. Back(i) = down[i] + sPos[i] - 0 /\ Back(i)' = down[i] + sPos'[i] - 0
      BY <1>1 DEF Back
    <3>3. down[i] \in Nat /\ sPos[i] \in Nat /\ sPos'[i] \in Nat
      BY <1>4 DEF IInv, Types
    <3> QED BY <3>1, <3>2, <3>3
  <2>2. /\ up[j] \in Nat /\ up'[j] \in Nat /\ down[i] \in Nat /\ sPos[i] \in Nat /\ sPos'[i] \in Nat
        /\ Credit(i, j) \in Nat
    <3>1. Credit(i, j) \in 0..BatchLen
      BY Parts DEF IInv, Stocks
    <3>2. up[j] \in Nat /\ up'[j] \in Nat /\ down[i] \in Nat /\ sPos[i] \in Nat /\ sPos'[i] \in Nat
      BY <1>4 DEF IInv, Types
    <3> QED BY <3>1, <3>2, Constants
  <2>3. /\ sPos'[i] <= sPos[i] + (IF i = k THEN RecvSize ELSE 0)
        /\ up'[j] = up[j] - (IF j = k THEN RecvSize ELSE 0)
    <3>1. RecvSize \in Nat
      BY Constants
    <3>2. j = k => a = RecvSize
      BY <1>2, <1>3, <1>10
    <3> QED BY <1>2, <1>3, <2>2, <3>1, <3>2
  <2>4. Ahead(i, j)' = Ahead(i, j) - (IF i = k THEN RecvSize ELSE 0) + (IF j = k THEN RecvSize ELSE 0)
    <3>1. RecvSize \in Nat
      BY Constants
    <3>2. (IF i \in ready' THEN RecvSize ELSE 0) = (IF i \in ready THEN RecvSize ELSE 0) - (IF i = k THEN RecvSize ELSE 0)
      BY <1>1, <1>3, <3>1
    <3>3. (IF j \in ready' THEN RecvSize ELSE 0) = (IF j \in ready THEN RecvSize ELSE 0) - (IF j = k THEN RecvSize ELSE 0)
      BY <1>1, <1>3, <3>1
    <3> QED BY <3>1, <3>2, <3>3 DEF Ahead
  <2>5. Ahead(i, j) \in Int
    BY Constants DEF Ahead
  <2> QED BY <2>1, <2>2, <2>3, <2>4, <2>5, Constants DEF Load
<1>11. Bounded'
  BY <1>1, <1>8, <1>9, <1>10, BoundedNext
<1>12. InStep'
  <2>1. ASSUME NEW i \in Clients, Alive(i)'
        PROVE  Alive(i) /\ UpStream(i)' = UpStream(i) /\ DownStream(i)' = DownStream(i)
    <3>1. Alive(i) /\ DownStream(i)' = DownStream(i)
      BY <1>1, <1>9, <2>1 DEF DownStream
    <3>2. CASE i = k
      <4>1. up'[i] + sPos'[i] = up[i] + sPos[i]
        BY <1>2, <1>3, <3>2
      <4> QED BY <1>1, <3>1, <4>1 DEF UpStream
    <3>3. CASE i # k
      BY <1>1, <1>3, <3>1, <3>3 DEF UpStream
    <3> QED BY <3>2, <3>3
  <2> QED BY <2>1, InStepNext DEF IInv
<1> QED BY <1>4, <1>5, <1>6, <1>7, <1>11, <1>12 DEF IInv

LEMMA RecvFailsStep == ASSUME IInv, NEW k \in Clients, RecvFails(k) PROVE IInv'
<1>1. /\ UNCHANGED <<down, gRun, cfd, cpc, ci, left, cPos, fault, spc, si, owed, serving>>
      /\ spc = "read" /\ owed = 0 /\ cfd[k] = "closed"
      /\ ready' \subseteq ready \ {k} /\ gone' = gone \union {k}
      /\ sPos' = [sPos EXCEPT ![k] = 0] /\ up' = [up EXCEPT ![k] = 0]
  BY DEF RecvFails, cliVars, IInv, Serves
<1>2. /\ \A i \in Clients : i # k => sPos'[i] = sPos[i] /\ up'[i] = up[i]
      /\ sPos'[k] = 0 /\ up'[k] = 0
      /\ \A i \in Clients : i # k => (i \in gone' <=> i \in gone)
      /\ k \notin ready'
  BY <1>1 DEF IInv, Types
<1>3. Types'
  BY <1>1 DEF IInv, Types
<1>4. Sizes'
  <2>1. \A i \in Clients : up'[i] <= WireSize /\ sPos'[i] < MsgLen
    BY <1>1, <1>2, Constants DEF IInv, Sizes, Handling
  <2> QED BY <1>1, <2>1 DEF IInv, Sizes
<1>5. Serves' /\ Sends'
  BY <1>1, SendsStay DEF IInv, Serves, Handling
<1>6. Connections'
  BY <1>1, <1>2 DEF IInv, Connections
<1>7. ASSUME NEW i \in Clients, Alive(i)'
      PROVE  Alive(i) /\ i # k
  BY <1>1, <1>2, <1>7 DEF Alive
<1>8. Bounded'
  <2>1. serving => cpc' \in {"clean", "done"}
    BY <1>1 DEF IInv, Connections
  <2> QED BY <1>1, <2>1 DEF Bounded, Alive
<1>9. InStep'
  <2>1. ASSUME NEW i \in Clients, Alive(i)'
        PROVE  Alive(i) /\ UpStream(i)' = UpStream(i) /\ DownStream(i)' = DownStream(i)
    BY <1>1, <1>2, <1>7, <2>1 DEF UpStream, DownStream
  <2> QED BY <2>1, InStepNext DEF IInv
<1> QED BY <1>3, <1>4, <1>5, <1>6, <1>8, <1>9 DEF IInv

LEMMA ReadsEndStep == ASSUME IInv, ReadsEnd PROVE IInv'
<1>1. /\ UNCHANGED <<up, down, gRun, cfd, cpc, ci, left, cPos, fault, si, ready, sPos, owed, gone, serving>>
      /\ spc = "read" /\ spc' = "select" /\ ready = {} /\ owed = 0
  BY DEF ReadsEnd, cliVars, IInv, Serves
<1>2. Types' /\ Connections'
  BY <1>1 DEF IInv, Types, Connections
<1>3. Sizes' /\ Serves' /\ Sends'
  BY <1>1, SendsStay DEF IInv, Sizes, Serves, Handling
<1>4. Bounded'
  <2>1. ASSUME NEW i \in Clients, NEW j \in Clients, Alive(i)', Alive(j)'
        PROVE  Alive(i) /\ Alive(j) /\ Load(i, j)' <= Load(i, j)
    <3>1. /\ Back(i)' = Back(i) /\ Ahead(i, j)' = Ahead(i, j) /\ Credit(i, j)' = Credit(i, j)
          /\ Alive(i) /\ Alive(j)
      BY <1>1, <2>1 DEF Back, Ahead, Credit, ToSend, ToRun, Alive
    <3>2. Load(i, j)' = Load(i, j) /\ Load(i, j) \in Int
      BY <1>1, <3>1, LoadIsInt DEF Load, IInv, Stocks
    <3> QED BY <3>1, <3>2
  <2> QED BY <1>1, <1>2, <1>3, <2>1, BoundedNext DEF Stocks
<1>5. InStep'
  <2>1. ASSUME NEW i \in Clients, Alive(i)'
        PROVE  Alive(i) /\ UpStream(i)' = UpStream(i) /\ DownStream(i)' = DownStream(i)
    BY <1>1, <2>1 DEF UpStream, DownStream, Alive
  <2> QED BY <2>1, InStepNext DEF IInv
<1> QED BY <1>2, <1>3, <1>4, <1>5 DEF IInv

LEMMA NoMoreMsgStep == ASSUME IInv, NoMoreMsg PROVE IInv'
<1>1. /\ UNCHANGED <<up, down, gRun, cfd, cpc, ci, left, cPos, fault, si, ready, sPos, owed, gone, serving>>
      /\ spc = "messages" /\ spc' = "read" /\ owed = 0 /\ ~HasMsg
  BY DEF NoMoreMsg, cliVars, IInv, Serves
<1>2. \A i \in Clients : sPos[i] < MsgLen
  <2>1. sPos[si] \in Nat /\ si \in Clients
    BY DEF IInv, Types
  <2>2. sPos[si] < MsgLen
    BY <1>1, <2>1, MsgLenAssumption DEF HasMsg
  <2> QED BY <2>2 DEF IInv, Sizes
<1>3. Types' /\ Connections'
  BY <1>1 DEF IInv, Types, Connections
<1>4. Sizes' /\ Serves' /\ Sends'
  BY <1>1, <1>2, SendsStay DEF IInv, Sizes, Serves, Handling
<1>5. Bounded'
  <2>1. ASSUME NEW i \in Clients, NEW j \in Clients, Alive(i)', Alive(j)'
        PROVE  Alive(i) /\ Alive(j) /\ Load(i, j)' <= Load(i, j)
    <3>1. /\ Back(i)' = Back(i) /\ Ahead(i, j)' = Ahead(i, j) /\ Credit(i, j)' = Credit(i, j)
          /\ Alive(i) /\ Alive(j)
      BY <1>1, <2>1 DEF Back, Ahead, Credit, ToSend, ToRun, Alive
    <3>2. Load(i, j)' = Load(i, j) /\ Load(i, j) \in Int
      BY <1>1, <3>1, LoadIsInt DEF Load, IInv, Stocks
    <3> QED BY <3>1, <3>2
  <2> QED BY <1>1, <1>3, <1>4, <2>1, BoundedNext DEF Stocks
<1>6. InStep'
  <2>1. ASSUME NEW i \in Clients, Alive(i)'
        PROVE  Alive(i) /\ UpStream(i)' = UpStream(i) /\ DownStream(i)' = DownStream(i)
    BY <1>1, <2>1 DEF UpStream, DownStream, Alive
  <2> QED BY <2>1, InStepNext DEF IInv
<1> QED BY <1>3, <1>4, <1>5, <1>6 DEF IInv

\* A step from which nothing is added to what is on the way back to i, be it in
\* the socket or still to be answered, keeps the load as it was.
LEMMA AnswerStep ==
  ASSUME IInv, Stocks', UNCHANGED <<up, gRun, cfd, cpc, ci, left, gone, serving, ready>>,
         \A i \in Clients : Alive(i) => Back(i)' = Back(i)
  PROVE  Bounded'
<1>1. ASSUME NEW i \in Clients, NEW j \in Clients, Alive(i)', Alive(j)'
      PROVE  Alive(i) /\ Alive(j) /\ Load(i, j)' <= Load(i, j)
  <2>1. Alive(i) /\ Alive(j)
    BY <1>1 DEF Alive
  <2>2. Back(i)' = Back(i) /\ Ahead(i, j)' = Ahead(i, j) /\ Credit(i, j)' = Credit(i, j)
    BY <2>1 DEF Ahead, Credit, ToSend, ToRun
  <2>3. Load(i, j)' = Load(i, j) /\ Load(i, j) \in Int
    BY <2>2, LoadIsInt DEF Load, IInv, Stocks
  <2> QED BY <2>1, <2>3
<1> QED BY <1>1, BoundedNext

LEMMA OnNetMsgStep == ASSUME IInv, OnNetMsg PROVE IInv'
<1>1. /\ UNCHANGED <<up, down, gRun, cfd, cpc, ci, left, cPos, fault, si, ready, sPos, gone, serving>>
      /\ spc = "messages" /\ spc' = "reply" /\ owed = 0 /\ owed' = MsgLen
      /\ sPos[si] >= MsgLen
  BY DEF OnNetMsg, HasMsg, cliVars, IInv, Serves
<1>2. Types' /\ Connections'
  BY <1>1, Constants DEF IInv, Types, Handling, Connections
<1>3. Sizes' /\ Serves' /\ Sends'
  BY <1>1, SendsStay, Constants DEF IInv, Sizes, Serves, Handling
<1>4. Bounded'
  <2>1. MsgLen - MsgLen = 0
    BY Constants
  <2>2. \A i \in Clients : Back(i)' = Back(i)
    BY <1>1, <2>1 DEF Back
  <2> QED BY <1>1, <1>2, <1>3, <2>2, AnswerStep DEF Stocks
<1>5. InStep'
  <2>1. ASSUME NEW i \in Clients, Alive(i)'
        PROVE  /\ Alive(i) /\ (Whole(UpStream(i)) => Whole(UpStream(i)'))
               /\ Alive(i) /\ (Whole(DownStream(i)) => Whole(DownStream(i)'))
    <3>1. Alive(i) /\ UpStream(i)' = UpStream(i)
      BY <1>1, <2>1 DEF UpStream, Alive
    <3>2. down[i] + cPos[i] \in Nat
      BY StreamTypes DEF IInv, Stocks
    <3>3. DownStream(i) = (down[i] + cPos[i]) + 0
      BY <1>1 DEF DownStream
    <3>4. DownStream(i)' \in {(down[i] + cPos[i]) + 0, (down[i] + cPos[i]) + MsgLen}
      BY <1>1 DEF DownStream
    <3> QED BY <3>1, <3>2, <3>3, <3>4, WholeAdd
  <2> QED BY <2>1, InStepNext DEF IInv
<1> QED BY <1>2, <1>3, <1>4, <1>5 DEF IInv

\* The reply goes from the buffer to the socket, and with its last unit the
\* request leaves the buffer.
LEMMA SendReplyStep == ASSUME IInv, SendReply PROVE IInv'
<1>1. /\ UNCHANGED <<up, gRun, cfd, cpc, ci, left, cPos, fault, si, ready, gone, serving>>
      /\ spc = "reply" /\ owed \in 1..MsgLen /\ owed' = owed - 1 /\ sPos[si] >= MsgLen
      /\ si \in Clients /\ si \notin ready /\ cfd[si] = "open" /\ down[si] < WireSize
      /\ down' = [down EXCEPT ![si] = @ + 1]
      /\ \/ owed' = 0 /\ spc' = "messages" /\ sPos' = [sPos EXCEPT ![si] = @ - MsgLen]
         \/ owed' # 0 /\ spc' = "reply" /\ sPos' = sPos
  BY DEF SendReply, Pop, NextMsg, cliVars, IInv, Types, Serves, Handling
<1>2. /\ owed \in Nat /\ owed' \in Nat /\ owed' < MsgLen /\ owed = owed' + 1 /\ MsgLen \in Nat
      /\ sPos[si] \in Nat /\ down[si] \in Nat
  BY <1>1, Constants DEF IInv, Types
<1>3. /\ \A i \in Clients : i # si => sPos'[i] = sPos[i] /\ down'[i] = down[i]
      /\ down'[si] = down[si] + 1
      /\ \/ owed' = 0 /\ spc' = "messages" /\ sPos'[si] = sPos[si] - MsgLen
         \/ owed' # 0 /\ spc' = "reply" /\ sPos'[si] = sPos[si]
  BY <1>1 DEF IInv, Types
<1>4. Types'
  <2>1. sPos' \in [Clients -> Nat]
    <3>1. sPos[si] - MsgLen \in Nat
      BY <1>1, <1>2
    <3> QED BY <1>1, <3>1 DEF IInv, Types
  <2>2. down' \in [Clients -> Nat]
    BY <1>1, <1>2 DEF IInv, Types
  <2> QED BY <1>1, <1>2, <2>1, <2>2 DEF IInv, Types, Handling
<1>5. Sizes'
  <2>1. ASSUME NEW i \in Clients
        PROVE  /\ down'[i] <= WireSize
               /\ sPos'[i] < MsgLen \/ (i = si /\ sPos'[i] < MsgLen + RecvSize)
    <3>1. /\ down[i] <= WireSize
          /\ sPos[i] < MsgLen \/ (i = si /\ sPos[i] < MsgLen + RecvSize)
      BY DEF IInv, Sizes
    <3>2. CASE i = si
      BY <1>1, <1>2, <1>3, <3>1, <3>2, Constants
    <3>3. CASE i # si
      BY <1>3, <3>1, <3>3
    <3> QED BY <3>2, <3>3
  <2> QED BY <1>1, <2>1 DEF IInv, Sizes, Handling
<1>6. Serves' /\ Sends'
  <2>1. owed' # 0 => owed' \in 1..MsgLen
    BY <1>2
  <2> QED BY <1>1, <1>3, <2>1, SendsStay DEF IInv, Serves, Handling
<1>7. Connections'
  BY <1>1, <1>3 DEF IInv, Connections
<1>8. Bounded'
  <2>1. ASSUME NEW i \in Clients PROVE Back(i)' = Back(i)
    <3>1. CASE i = si
      <4>1. Back(i) = down[si] + sPos[si] - (MsgLen - owed)
        BY <1>1, <3>1 DEF Back
      <4>2. CASE owed' = 0
        <5>1. Back(i)' = down'[si] + sPos'[si] - 0
          BY <1>1, <1>3, <3>1, <4>2 DEF Back
        <5> QED BY <1>2, <1>3, <4>1, <4>2, <5>1
      <4>3. CASE owed' # 0
        <5>1. Back(i)' = down'[si] + sPos'[si] - (MsgLen - owed')
          BY <1>1, <1>3, <3>1, <4>3 DEF Back
        <5> QED BY <1>2, <1>3, <4>1, <4>3, <5>1
      <4> QED BY <4>2, <4>3
    <3>2. CASE i # si
      BY <1>1, <1>3, <3>2 DEF Back
    <3> QED BY <3>1, <3>2
  <2> QED BY <1>1, <1>4, <1>5, <1>6, <2>1, AnswerStep DEF Stocks
<1>9. InStep'
  <2>1. ASSUME NEW i \in Clients, Alive(i)'
        PROVE  /\ Alive(i) /\ (Whole(UpStream(i)) => Whole(UpStream(i)'))
               /\ Alive(i) /\ (Whole(DownStream(i)) => Whole(DownStream(i)'))
    <3>1. Alive(i)
      BY <1>1, <2>1 DEF Alive
    <3>2. up[i] \in Nat /\ sPos[i] \in Nat /\ sPos'[i] \in Nat /\ cPos[i] \in Nat
      BY <1>4 DEF IInv, Types
    <3>3. DownStream(i)' = DownStream(i)
      <4>1. CASE i = si
        <5>1. DownStream(i) = down[si] + cPos[i] + owed
          BY <1>1, <4>1 DEF DownStream
        <5>2. DownStream(i)' = down'[si] + cPos[i] + owed'
          <6>1. owed' = (IF spc' = "reply" /\ si' = i THEN owed' ELSE 0)
            BY <1>1, <4>1
          <6> QED BY <1>1, <4>1, <6>1 DEF DownStream
        <5> QED BY <1>2, <1>3, <3>2, <5>1, <5>2
      <4>2. CASE i # si
        BY <1>1, <1>3, <4>2 DEF DownStream
      <4> QED BY <4>1, <4>2
    <3>4. Whole(UpStream(i)) => Whole(UpStream(i)')
      <4>1. CASE sPos'[i] = sPos[i]
        BY <1>1, <4>1 DEF UpStream
      <4>2. CASE sPos'[i] = sPos[i] - MsgLen
        <5>1. PICK l \in Nat : /\ UpStream(i) = up[i] + sPos[i] + l
                               /\ UpStream(i)' = up[i] + sPos'[i] + l
          <6>1. PICK l \in Nat : l = IF cpc = "send" /\ ci = i THEN left ELSE 0
            BY DEF IInv, Types
          <6> QED BY <1>1, <6>1 DEF UpStream
        <5>2. UpStream(i)' \in Nat /\ UpStream(i) = UpStream(i)' + MsgLen
          BY <1>2, <3>2, <4>2, <5>1
        <5>3. \A x \in Nat : Whole(x + MsgLen) => Whole(x)
          BY WholeAdd
        <5> QED BY <5>2, <5>3
      <4> QED BY <1>3, <4>1, <4>2
    <3> QED BY <3>1, <3>3, <3>4
  <2> QED BY <2>1, InStepNext DEF IInv
<1> QED BY <1>4, <1>5, <1>6, <1>7, <1>8, <1>9 DEF IInv

LEMMA ReplyFailsStep == ASSUME IInv, ReplyFails PROVE IInv'
<1>1. /\ UNCHANGED <<up, down, gRun, cfd, cpc, ci, left, cPos, fault, si, ready, gone, serving>>
      /\ spc = "reply" /\ owed' = 0 /\ sPos[si] >= MsgLen /\ sPos[si] \in Nat
      /\ si \in Clients /\ si \notin ready /\ cfd[si] # "open"
      /\ spc' = "messages" /\ sPos' = [sPos EXCEPT ![si] = @ - MsgLen]
  BY DEF ReplyFails, Pop, NextMsg, cliVars, IInv, Types, Serves, Handling
<1>2. /\ \A i \in Clients : i # si => sPos'[i] = sPos[i]
      /\ sPos'[si] = sPos[si] - MsgLen /\ sPos'[si] \in Nat
  BY <1>1, Constants DEF IInv, Types
<1>3. Types'
  BY <1>1, <1>2 DEF IInv, Types, Handling
<1>4. Sizes'
  <2>1. ASSUME NEW i \in Clients
        PROVE  sPos'[i] < MsgLen \/ (i = si /\ sPos'[i] < MsgLen + RecvSize)
    <3>1. sPos[i] < MsgLen \/ (i = si /\ sPos[i] < MsgLen + RecvSize)
      BY DEF IInv, Sizes
    <3>2. CASE i = si
      BY <1>1, <1>2, <3>1, <3>2, Constants
    <3>3. CASE i # si
      BY <1>2, <3>1, <3>3
    <3> QED BY <3>2, <3>3
  <2> QED BY <1>1, <2>1 DEF IInv, Sizes, Handling
<1>5. Serves' /\ Sends'
  BY <1>1, SendsStay DEF IInv, Serves, Handling
<1>6. Connections'
  <2>1. cfd[si] \in {"open", "closed"}
    BY <1>1, Constants DEF IInv, Connections
  <2> QED BY <1>1, <1>2, <2>1 DEF IInv, Connections
<1>7. \A i \in Clients : Alive(i) => i # si
  BY <1>1 DEF Alive
<1>8. Bounded'
  <2>1. \A i \in Clients : Alive(i) => Back(i)' = Back(i)
    BY <1>1, <1>2, <1>7 DEF Back
  <2> QED BY <1>1, <1>3, <1>4, <1>5, <2>1, AnswerStep DEF Stocks
<1>9. InStep'
  <2>1. ASSUME NEW i \in Clients, Alive(i)'
        PROVE  Alive(i) /\ UpStream(i)' = UpStream(i) /\ DownStream(i)' = DownStream(i)
    <3>1. Alive(i)
      BY <1>1, <2>1 DEF Alive
    <3> QED BY <1>1, <1>2, <1>7, <3>1 DEF UpStream, DownStream
  <2> QED BY <2>1, InStepNext DEF IInv
<1> QED BY <1>3, <1>4, <1>5, <1>6, <1>8, <1>9 DEF IInv

LEMMA ServerEndsStep == ASSUME IInv, ServerEnds PROVE IInv'
<1>1. /\ UNCHANGED <<gRun, cfd, cpc, ci, left, cPos, fault, gone>>
      /\ serving' = FALSE
      /\ up' = [i \in Clients |-> 0] /\ down' = [i \in Clients |-> 0]
      /\ sPos' = [i \in Clients |-> 0]
      /\ spc' = "select" /\ si' = 1 /\ ready' = {} /\ owed' = 0
  BY DEF ServerEnds, cliVars
<1>2. \A i \in Clients : up'[i] = 0 /\ down'[i] = 0 /\ sPos'[i] = 0
  BY <1>1
<1>3. Types'
  BY <1>1, Constants DEF IInv, Types
<1>4. Sizes'
  BY <1>1, <1>2, Constants DEF IInv, Sizes
<1>5. Serves' /\ Sends'
  BY <1>1, SendsStay DEF IInv, Serves, Handling
<1>6. Connections'
  BY <1>1, <1>2 DEF IInv, Connections
<1>7. \A i \in Clients : ~Alive(i)'
  BY <1>1 DEF Alive
<1>8. Bounded'
  BY <1>7 DEF Bounded
<1>9. InStep'
  BY <1>7, InStepNext DEF IInv
<1> QED BY <1>3, <1>4, <1>5, <1>6, <1>8, <1>9 DEF IInv

-----------------------------------------------------------------------------
(* The theorems. *)

LEMMA InitIInv == Init => IInv
<1> SUFFICES ASSUME Init PROVE IInv
  OBVIOUS
<1>1. \A i \in Clients : /\ up[i] = 0 /\ down[i] = 0 /\ cPos[i] = 0 /\ sPos[i] = 0
                         /\ cfd[i] = "null"
  BY DEF Init
<1>2. Types
  BY Constants DEF Init, Types
<1>3. Sizes
  BY <1>1, Constants DEF Sizes
<1>4. Serves /\ Sends
  BY <1>1 DEF Init, Serves, Sends, Handling, InRound
<1>5. Connections
  BY <1>1 DEF Init, Connections
<1>6. Bounded /\ InStep
  BY <1>1 DEF Bounded, InStep, Alive
<1> QED BY <1>2, <1>3, <1>4, <1>5, <1>6 DEF IInv

LEMMA StutterStep == ASSUME IInv, UNCHANGED vars PROVE IInv'
<1>1. /\ UNCHANGED <<up, down, gRun, cfd, cpc, ci, left, cPos, fault>>
      /\ UNCHANGED <<spc, si, ready, sPos, owed, gone, serving>>
  BY DEF vars, cliVars, srvVars
<1>2. Types' /\ Connections'
  BY <1>1 DEF IInv, Types, Connections
<1>3. Sizes' /\ Serves' /\ Sends'
  BY <1>1, SizesStay, ServesStay, SendsStay DEF IInv
<1>4. \A i, j \in Clients : Credit(i, j)' = Credit(i, j)
  BY <1>1 DEF Credit, ToSend, ToRun
<1>5. \A i \in Clients : Alive(i)' => Alive(i)
  BY <1>1 DEF Alive
<1> QED BY <1>1, <1>2, <1>3, <1>4, <1>5, StillStep DEF Stocks

LEMMA NextIInv == IInv /\ [Next]_vars => IInv'
<1> SUFFICES ASSUME IInv, [Next]_vars PROVE IInv'
  OBVIOUS
<1>1. CASE SendThread
  <2>1. CASE Create BY <2>1, CreateStep
  <2>2. CASE Connect BY <2>2, ConnectStep
  <2>3. CASE Round BY <2>3, RoundStep
  <2>4. CASE StartSend BY <2>4, StartSendStep
  <2>5. CASE Send BY <2>5, SendStep
  <2>6. CASE SendFails BY <2>6, SendFailsStep
  <2>7. CASE OnRun BY <2>7, OnRunStep
  <2>8. CASE CleanUp BY <2>8, CleanUpStep
  <2> QED BY <1>1, <2>1, <2>2, <2>3, <2>4, <2>5, <2>6, <2>7, <2>8 DEF SendThread
<1>2. CASE Exit
  BY <1>2, ExitStep
<1>3. CASE MainReturns
  BY <1>3, MainReturnsStep
<1>4. CASE CellServer
  <2>1. CASE Select BY <2>1, SelectStep
  <2>2. CASE ReadsEnd BY <2>2, ReadsEndStep
  <2>3. CASE OnNetMsg BY <2>3, OnNetMsgStep
  <2>4. CASE SendReply BY <2>4, SendReplyStep
  <2>5. CASE ReplyFails BY <2>5, ReplyFailsStep
  <2>6. CASE NoMoreMsg BY <2>6, NoMoreMsgStep
  <2>7. ASSUME NEW i \in Clients, RecvData(i) PROVE IInv'
    BY <2>7, RecvDataStep
  <2>8. ASSUME NEW i \in Clients, RecvFails(i) PROVE IInv'
    BY <2>8, RecvFailsStep
  <2> QED BY <1>4, <2>1, <2>2, <2>3, <2>4, <2>5, <2>6, <2>7, <2>8 DEF CellServer
<1>5. CASE ServerEnds
  BY <1>5, ServerEndsStep
<1>6. CASE UNCHANGED vars
  BY <1>6, StutterStep
<1> QED BY <1>1, <1>2, <1>3, <1>4, <1>5, <1>6 DEF Next

LEMMA Invariant == Spec => []IInv
BY InitIInv, NextIInv, PTL DEF Spec

\* However the streams are cut and wherever the two threads wait, the
\* memcpy of RecvData never writes beyond the end of _szMsgBuf, at either
\* end: less than a message is left in it when recv is called.
THEOREM InBounds == Spec => []NoOverrun
<1>1. IInv => NoOverrun
  <2> SUFFICES ASSUME IInv, NEW i \in Clients
               PROVE  sPos[i] \in 0..MsgBufSize /\ cPos[i] \in 0..(MsgBufSize - RecvSize)
    BY DEF NoOverrun
  <2>1. sPos[i] \in Nat /\ cPos[i] \in Nat
    BY DEF IInv, Types
  <2>2. cPos[i] < MsgLen /\ (sPos[i] < MsgLen \/ sPos[i] < MsgLen + RecvSize)
    BY DEF IInv, Sizes
  <2> QED BY <2>1, <2>2, Constants
<1> QED BY <1>1, Invariant, PTL

\* Both ends of a connection that is there begin a message where the other
\* one began it, as SendData sends whole batches and RecvData handles whole
\* messages, whatever part of one recv returned.
THEOREM Framing == Spec => []InStep
BY Invariant, PTL DEF IInv

\* The client's thread, in send with the way to the server full, and the
\* CellServer's, in send with the way to the client full, never wait for
\* each other: by then more would be on its way than the turns of both loops
\* allow.
THEOREM NeverBothBlocked == Spec => []NoMutualBlock
<1>1. IInv => NoMutualBlock
  <2> SUFFICES ASSUME IInv,
                      cpc = "send", ~Lost(ci), up[ci] = WireSize,
                      spc = "reply", cfd[si] = "open", down[si] = WireSize
               PROVE  FALSE
    BY DEF NoMutualBlock
  <2>1. ci \in Clients /\ si \in Clients /\ ci \in Nat /\ si \in Nat
    BY Constants DEF IInv, Types
  <2>2. cfd[ci] = "open" /\ left \in 1..BatchLen
    BY DEF IInv, Sends, Lost
  <2>3. Alive(ci) /\ Alive(si)
    BY <2>1, <2>2 DEF Alive, Lost, IInv, Connections
  <2>4. Load(si, ci) < WireSize + 2 * RecvSize + BatchLen + MsgLen
    BY <2>1, <2>3 DEF IInv, Bounded
  <2>5. Back(si) >= WireSize
    <3>1. Held(si) \in Nat /\ Back(si) = WireSize + Held(si)
      BY <2>1, Parts DEF IInv, Stocks
    <3> QED BY <3>1, Constants
  <2>6. /\ Back(si) \in Int /\ Ahead(si, ci) \in 0..(2 * RecvSize)
        /\ Credit(si, ci) \in 0..BatchLen
    <3>1. /\ Held(si) \in Nat /\ Back(si) = WireSize + Held(si)
          /\ Ahead(si, ci) \in 0..(2 * RecvSize) /\ Credit(si, ci) \in 0..BatchLen
      BY <2>1, Parts DEF IInv, Stocks
    <3> QED BY <3>1, Constants
  <2> QED BY <2>4, <2>5, <2>6, Constants DEF Load
<1> QED BY <1>1, Invariant, PTL
=============================================================================
