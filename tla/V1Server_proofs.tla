--------------------------- MODULE V1Server_proofs ---------------------------
(***************************************************************************)
(* Proofs about V1Server, for any number of CellServers and clients,       *)
(* whoever sends and whatever fails: a client is deleted exactly when it   *)
(* leaves its vector, _clientCount is what it counts, and no thread closes *)
(* a socket that is still used before exit or a failed select.             *)
(***************************************************************************)
EXTENDS V1Server, SequenceTheorems, FiniteSetTheorems, TLAPS

-----------------------------------------------------------------------------
(* The inductive invariant. *)

InClients(c, s) == \E i \in 1..Len(clients[s]) : clients[s][i] = c
InClientsBuff(c, s) == \E i \in 1..Len(clientsBuff[s]) : clientsBuff[s][i] = c
Has(c, s) == InClients(c, s) \/ InClientsBuff(c, s)

Live(c) == obj[c] = "live"

\* main has a client that it has not given away, or has not counted.
StartingUp == {"init", "bind", "listen", "start"}
Giving == {"min_clients", "min_buff", "nxt_clients", "nxt_buff", "push"}

BoxTypes ==
  /\ obj \in [Clients -> {"none", "live", "freed"}]
  /\ clientsBuff \in [Servers -> Seq(Clients)]
  /\ clients \in [Servers -> Seq(Clients)]
  /\ cleared \in SUBSET Clients

ThreadTypes ==
  /\ lock \in [Servers -> BOOLEAN]
  /\ pc \in [Servers -> {"top", "merge", "select", "sweep", "reply", "done"}]
  /\ n \in [Servers -> Nat \ {0}]

MainTypes ==
  /\ mpc \in StartingUp \union Giving \union {"loop", "join", "closed"}
  /\ new \in Clients \union {NoClient}
  /\ min \in Servers /\ nxt \in Servers
  /\ winsock \in Nat

Types == BoxTypes /\ ThreadTypes /\ MainTypes

\* A vector and a buffer have each client once, and not both have it but while
\* the buffer is moved: then the vector has them all.
BoxOK(s) ==
  /\ \A i, j \in 1..Len(clients[s]) : clients[s][i] = clients[s][j] => i = j
  /\ \A i, j \in 1..Len(clientsBuff[s]) : clientsBuff[s][i] = clientsBuff[s][j] => i = j
  /\ \A c \in Clients :
       InClientsBuff(c, s) => (InClients(c, s) <=> pc[s] = "merge")
Boxes == \A s \in Servers : BoxOK(s)

\* No client belongs to two CellServers.
Disjoint == \A c \in Clients : \A s, t \in Servers : Has(c, s) /\ Has(c, t) => s = t

\* The live clients are those the CellServers have, and the one that main has
\* not given away, which no CellServer has.
Owned ==
  /\ \A c \in Clients : Live(c) <=> (mpc \in Giving /\ c = new) \/ \E s \in Servers : Has(c, s)
  /\ mpc \in Giving => \A s \in Servers : ~Has(new, s)
  /\ new \in Clients <=> mpc \in Giving \union {"join"}

ClearedFreed == \A c \in cleared : obj[c] = "freed"

\* A CellServer has its lock while it moves the buffer, and none runs before
\* Start.
Threads ==
  /\ \A s \in Servers : lock[s] <=> pc[s] = "merge"
  /\ mpc \in StartingUp => \A s \in Servers : pc[s] = "done"

\* _clientCount counts those who are with a CellServer, and those deleted
\* without OnNetLeave.
Counts(c) == c \in cleared \/ \E s \in Servers : Has(c, s)
Counted == {c \in Clients : Counts(c)}
CountOK == clientCount = Cardinality(Counted) - (IF mpc = "join" THEN 1 ELSE 0)

IInv ==
  /\ Types /\ Boxes /\ Disjoint /\ Owned /\ ClearedFreed /\ Threads /\ CountOK /\ SocketsOpen

-----------------------------------------------------------------------------
(* Lemmas about the constants, sequences and sets. *)

LEMMA Constants ==
  /\ NServers \in Nat \ {0} /\ NoClient \notin Clients /\ IsFiniteSet(Clients) /\ 1 \in Servers
BY NServersAssumption, NoClientAssumption, ClientsAssumption DEF Servers

LEMMA RemoveAtProperties ==
  ASSUME NEW T, NEW s \in Seq(T), NEW i \in 1..Len(s)
  PROVE  /\ RemoveAt(s, i) \in Seq(T)
         /\ Len(RemoveAt(s, i)) = Len(s) - 1
         /\ \A k \in 1..(Len(s) - 1) : RemoveAt(s, i)[k] = IF k < i THEN s[k] ELSE s[k + 1]
<1> DEFINE a == SubSeq(s, 1, i - 1)
           b == SubSeq(s, i + 1, Len(s))
<1>1. Len(s) \in Nat /\ i \in Int /\ \A k \in 1..Len(s) : s[k] \in T
  BY ElementOfSeq, LenProperties
<1>2. /\ a \in Seq(T) /\ Len(a) = i - 1 /\ \A k \in 1..(i - 1) : a[k] = s[k]
  <2>1. \A k \in 1..(i - 1) : s[k] \in T
    BY <1>1
  <2>2. /\ a \in Seq(T) /\ Len(a) = IF 1 <= i - 1 THEN (i - 1) - 1 + 1 ELSE 0
        /\ \A k \in 1..((i - 1) - 1 + 1) : a[k] = s[1 + k - 1]
    BY <1>1, <2>1, SubSeqProperties
  <2> QED BY <1>1, <2>2
<1>3. /\ b \in Seq(T) /\ Len(b) = Len(s) - i /\ \A k \in 1..(Len(s) - i) : b[k] = s[i + k]
  <2>1. \A k \in (i + 1)..Len(s) : s[k] \in T
    BY <1>1
  <2>2. /\ b \in Seq(T) /\ Len(b) = IF i + 1 <= Len(s) THEN Len(s) - (i + 1) + 1 ELSE 0
        /\ \A k \in 1..(Len(s) - (i + 1) + 1) : b[k] = s[(i + 1) + k - 1]
    BY <1>1, <2>1, SubSeqProperties
  <2> QED BY <1>1, <2>2
<1> HIDE DEF a, b
<1>4. /\ a \o b \in Seq(T) /\ Len(a \o b) = Len(a) + Len(b)
      /\ \A k \in 1..(Len(a) + Len(b)) : (a \o b)[k] = IF k <= Len(a) THEN a[k] ELSE b[k - Len(a)]
  BY <1>2, <1>3, ConcatProperties
<1>5. Len(a) + Len(b) = Len(s) - 1
  BY <1>1, <1>2, <1>3
<1>6. ASSUME NEW k \in 1..(Len(s) - 1)
      PROVE  /\ k < i => (a \o b)[k] = s[k]
             /\ ~(k < i) => (a \o b)[k] = s[k + 1]
  <2>1. k \in Int /\ i \in Int /\ Len(s) \in Int /\ k \in 1..(Len(a) + Len(b)) /\ Len(a) = i - 1
    BY <1>1, <1>2, <1>5
  <2>2. (a \o b)[k] = IF k <= Len(a) THEN a[k] ELSE b[k - Len(a)]
    BY <1>4, <2>1
  <2>3. ASSUME k < i PROVE (a \o b)[k] = s[k]
    <3>1. k \in 1..(i - 1) /\ k <= Len(a)
      BY <2>1, <2>3
    <3> QED BY <1>2, <2>2, <3>1
  <2>4. ASSUME ~(k < i) PROVE (a \o b)[k] = s[k + 1]
    <3>1. k - Len(a) \in 1..(Len(s) - i) /\ i + (k - Len(a)) = k + 1 /\ ~(k <= Len(a))
      BY <2>1, <2>4
    <3> QED BY <1>3, <2>2, <3>1
  <2> QED BY <2>3, <2>4
<1>7. RemoveAt(s, i) = a \o b
  BY DEF RemoveAt, a, b
<1> QED BY <1>4, <1>5, <1>6, <1>7

LEMMA MinOf == ASSUME NEW S \in SUBSET Nat, S # {} PROVE Min(S) \in S
<1>1. PICK x \in S : \A y \in S : <<y, x>> \notin OpToRel(<, Nat)
  BY NatLessThanWellFounded, WFMin, Zenon
<1>2. ASSUME NEW y \in S PROVE x <= y
  <2>1. <<y, x>> \notin OpToRel(<, Nat)
    BY <1>1, Zenon
  <2>2. ~(<<y, x>>[1] < <<y, x>>[2])
    BY <2>1, Zenon DEF OpToRel
  <2> QED BY <2>2
<1> QED BY <1>2 DEF Min

\* Has speaks of what the properties speak of.
LEMMA HasIs ==
  ASSUME Types, NEW s \in Servers
  PROVE  /\ DOMAIN clients[s] = 1..Len(clients[s]) /\ DOMAIN clientsBuff[s] = 1..Len(clientsBuff[s])
         /\ \A c : /\ c \in ToSet(clients[s]) <=> InClients(c, s)
                   /\ c \in ToSet(clientsBuff[s]) <=> InClientsBuff(c, s)
         /\ \A c : Has(c, s) => c \in Clients
<1>1. clients[s] \in Seq(Clients) /\ clientsBuff[s] \in Seq(Clients)
  BY DEF Types, BoxTypes
<1>2. DOMAIN clients[s] = 1..Len(clients[s]) /\ DOMAIN clientsBuff[s] = 1..Len(clientsBuff[s])
  BY <1>1
<1>3. /\ \A i \in 1..Len(clients[s]) : clients[s][i] \in Clients
      /\ \A i \in 1..Len(clientsBuff[s]) : clientsBuff[s][i] \in Clients
  BY <1>1
<1> QED BY <1>2, <1>3 DEF ToSet, Has, InClients, InClientsBuff

LEMMA CountedFinite == ASSUME Types PROVE IsFiniteSet(Counted) /\ Cardinality(Counted) \in Nat
BY Constants, FS_Subset, FS_CardinalityType DEF Counted

-----------------------------------------------------------------------------
(* What does not change when its variables do not. *)

LEMMA HasStays ==
  ASSUME UNCHANGED <<clients, clientsBuff>>
  PROVE  \A c, s : (Has(c, s)' <=> Has(c, s)) /\ (InClients(c, s)' <=> InClients(c, s))
                   /\ (InClientsBuff(c, s)' <=> InClientsBuff(c, s))
BY DEF Has, InClients, InClientsBuff

LEMMA CountStays ==
  ASSUME CountOK, UNCHANGED clientCount, mpc' = "join" <=> mpc = "join",
         \A c \in Clients : Counts(c)' <=> Counts(c)
  PROVE  CountOK'
<1>1. Counted' = Counted
  BY DEF Counted
<1> QED BY <1>1 DEF CountOK

\* Steps that leave clients where they are.
LEMMA Keep ==
  ASSUME IInv, Types',
         UNCHANGED <<obj, clients, clientsBuff, cleared, clientCount, new, lock>>,
         mpc' \in Giving <=> mpc \in Giving, mpc' = "join" <=> mpc = "join",
         \A s \in Servers : pc'[s] = "merge" <=> pc[s] = "merge",
         mpc' \in StartingUp => \A s \in Servers : pc'[s] = "done",
         SocketsOpen'
  PROVE  IInv'
<1>1. Boxes'
  BY HasStays DEF IInv, Boxes, BoxOK
<1>2. Disjoint' /\ ClearedFreed' /\ Threads'
  BY HasStays DEF IInv, Disjoint, ClearedFreed, Threads
<1>3. Owned'
  BY HasStays DEF IInv, Owned, Live
<1>4. CountOK'
  BY HasStays, CountStays DEF IInv, Counts
<1> QED BY <1>1, <1>2, <1>3, <1>4 DEF IInv

-----------------------------------------------------------------------------
(* Types. *)

LEMMA BoxTypesStay ==
  ASSUME BoxTypes, UNCHANGED <<obj, clients, clientsBuff, cleared>> PROVE BoxTypes'
BY DEF BoxTypes

LEMMA ThreadTypesStay == ASSUME ThreadTypes, UNCHANGED <<lock, pc, n>> PROVE ThreadTypes'
BY DEF ThreadTypes

LEMMA MainTypesStay == ASSUME MainTypes, UNCHANGED <<mpc, new, min, nxt, winsock>> PROVE MainTypes'
BY DEF MainTypes

LEMMA SocketsStay ==
  ASSUME SocketsOpen, UNCHANGED <<gRun, failed, lfd, mpc, winsock, obj, open>> PROVE SocketsOpen'
BY DEF SocketsOpen

LEMMA ThreadMoves ==
  ASSUME ThreadTypes, NEW s \in Servers, NEW label \in {"top", "merge", "select", "sweep", "reply", "done"},
         pc' = [pc EXCEPT ![s] = label], UNCHANGED <<lock, n>>
  PROVE  ThreadTypes'
BY DEF ThreadTypes

-----------------------------------------------------------------------------
(* The peers, the console and main. *)

LEMMA PeerStep ==
  ASSUME IInv, Exit \/ \E c \in Clients : Send(c) \/ Leave(c)
  PROVE  IInv'
<1>1. /\ UNCHANGED <<winsock, lfd, mpc, new, min, nxt, clientCount, obj, open, clientsBuff, clients,
                     lock, pc, n, ready, failed, cleared>>
      /\ gRun' = gRun \/ gRun' = FALSE
  BY DEF Exit, Send, Leave, mainVars, scanVars, objVars, boxVars, thrVars, history
<1>2. Types'
  BY <1>1, BoxTypesStay, ThreadTypesStay, MainTypesStay DEF IInv, Types
<1>3. SocketsOpen'
  BY <1>1 DEF IInv, SocketsOpen
<1> QED BY <1>1, <1>2, <1>3, Keep DEF IInv, Threads

LEMMA StartUpStep ==
  ASSUME IInv, InitSocket \/ Bind \/ Listen
  PROVE  IInv'
<1>1. /\ UNCHANGED <<gRun, new, min, nxt, clientCount, obj, open, clientsBuff, clients, lock, pc, n,
                     ready, failed, cleared>>
      /\ mpc \in StartingUp /\ mpc' \in StartingUp \ {"init"}
      /\ winsock' = winsock + 1 \/ (mpc # "init" /\ winsock' = winsock)
      /\ lfd' = lfd \/ lfd' # "closed"
  BY DEF InitSocket, Bind, Listen, StartingUp, scanVars, peerVars, objVars, boxVars, thrVars, history
<1>2. Types'
  BY <1>1, BoxTypesStay, ThreadTypesStay DEF IInv, Types, MainTypes
<1>3. SocketsOpen'
  BY <1>1 DEF IInv, SocketsOpen, Types, MainTypes
<1>4. \A s \in Servers : pc'[s] = "done"
  BY <1>1 DEF IInv, Threads
<1>5. mpc \notin Giving \union {"join"} /\ mpc' \notin Giving \union {"join"}
  BY <1>1 DEF Giving, StartingUp
<1> QED BY <1>1, <1>2, <1>3, <1>4, <1>5, Keep

LEMMA StartStep == ASSUME IInv, Start PROVE IInv'
<1>1. /\ UNCHANGED <<gRun, winsock, lfd, new, min, nxt, clientCount, obj, open, clientsBuff, clients,
                     lock, n, ready, failed, cleared>>
      /\ mpc = "start" /\ mpc' = "loop" /\ pc' = [s \in Servers |-> "top"]
  BY DEF Start, scanVars, peerVars, objVars, boxVars, history
<1>2. Types'
  BY <1>1, BoxTypesStay DEF IInv, Types, ThreadTypes, MainTypes
<1>3. SocketsOpen'
  BY <1>1 DEF IInv, SocketsOpen
<1>4. \A s \in Servers : pc[s] = "done" /\ pc'[s] = "top"
  BY <1>1 DEF IInv, Threads, StartingUp
<1> QED BY <1>1, <1>2, <1>3, <1>4, Keep DEF Giving, StartingUp

LEMMA MainCloses == ASSUME IInv, ListenFails \/ Close PROVE IInv'
<1>1. /\ UNCHANGED <<new, min, nxt, clientCount, obj, clientsBuff, clients, lock, pc, n, ready, cleared>>
      /\ mpc = "loop" /\ mpc' \in {"loop", "closed"}
      /\ gRun' = gRun /\ (~gRun \/ failed' # {})
      /\ winsock \in Nat => winsock' \in Nat
  BY DEF ListenFails, Close, CloseAll, scanVars, peerVars, boxVars, thrVars, history
<1>2. Types'
  BY <1>1, BoxTypesStay, ThreadTypesStay DEF IInv, Types, MainTypes
<1>3. SocketsOpen'
  BY <1>1 DEF SocketsOpen
<1> QED BY <1>1, <1>2, <1>3, Keep DEF Giving, StartingUp

\* main looks at the CellServers' sizes.
LEMMA ScanStep == ASSUME IInv, ReadMin \/ ReadNext \/ Scan PROVE IInv'
<1>1. /\ UNCHANGED <<gRun, winsock, lfd, new, clientCount, obj, open, clientsBuff, clients, lock, pc,
                     n, ready, failed, cleared>>
      /\ mpc \in Giving /\ mpc' \in Giving
      /\ min' = min \/ min' = nxt
      /\ nxt' = nxt \/ nxt' \in Servers \/ nxt' = 1
  BY DEF ReadMin, ReadNext, Scan, LookAt, Giving, peerVars, objVars, boxVars, thrVars, history
<1>2. nxt' \in Servers /\ min' \in Servers
  BY <1>1, Constants DEF IInv, Types, MainTypes
<1>3. Types'
  BY <1>1, <1>2, BoxTypesStay, ThreadTypesStay DEF IInv, Types, MainTypes, Giving
<1>4. SocketsOpen'
  BY <1>1 DEF IInv, SocketsOpen, Giving
<1> QED BY <1>1, <1>3, <1>4, Keep DEF Giving, StartingUp

LEMMA OnNetJoinStep == ASSUME IInv, OnNetJoin PROVE IInv'
<1>1. /\ UNCHANGED <<gRun, winsock, lfd, nxt, obj, open, clientsBuff, clients, lock, pc, n, ready,
                     failed, cleared>>
      /\ mpc = "join" /\ mpc' = "loop" /\ new' = NoClient /\ min' = 1 /\ clientCount' = clientCount + 1
  BY DEF OnNetJoin, peerVars, boxVars, thrVars, history
<1>2. Types'
  BY <1>1, BoxTypesStay, ThreadTypesStay, Constants DEF IInv, Types, MainTypes
<1>3. SocketsOpen'
  BY <1>1 DEF IInv, SocketsOpen
<1>4. Boxes' /\ Disjoint' /\ ClearedFreed' /\ Threads'
  BY <1>1, HasStays DEF IInv, Boxes, BoxOK, Disjoint, ClearedFreed, Threads, StartingUp
<1>5. Owned'
  BY <1>1, HasStays, Constants DEF IInv, Owned, Live, Giving
<1>6. CountOK'
  <2>1. Counted' = Counted
    BY <1>1, HasStays DEF Counted, Counts
  <2>2. Cardinality(Counted) \in Nat
    BY CountedFinite DEF IInv
  <2> QED BY <1>1, <2>1, <2>2 DEF IInv, CountOK
<1> QED BY <1>2, <1>3, <1>4, <1>5, <1>6 DEF IInv

\* A client without an object is nobody's.
LEMMA NoneHas ==
  ASSUME IInv, NEW c \in Clients, obj[c] = "none"
  PROVE  c \notin cleared /\ \A s \in Servers : ~Has(c, s)
BY DEF IInv, Owned, Live, ClearedFreed

LEMMA AcceptStep == ASSUME IInv, NEW c \in Clients, Accept(c) PROVE IInv'
<1>1. /\ UNCHANGED <<gRun, winsock, lfd, min, clientCount, clientsBuff, clients, lock, pc, n, ready,
                     failed, cleared>>
      /\ mpc = "loop" /\ mpc' \in Giving /\ new' = c /\ nxt' \in Servers \union {1}
      /\ obj[c] = "none" /\ obj' = [obj EXCEPT ![c] = "live"] /\ open' = open \union {c}
  BY DEF Accept, LookAt, Giving, peerVars, boxVars, thrVars, history
<1>2. obj'[c] = "live" /\ \A d \in Clients : d # c => obj'[d] = obj[d]
  BY <1>1 DEF IInv, Types, BoxTypes
<1>3. c \notin cleared /\ \A s \in Servers : ~Has(c, s)
  BY <1>1, NoneHas
<1>4. Types'
  BY <1>1, ThreadTypesStay, Constants DEF IInv, Types, BoxTypes, MainTypes, Giving
<1>5. SocketsOpen'
  BY <1>1, <1>2 DEF IInv, SocketsOpen
<1>6. Boxes' /\ Disjoint'
  BY <1>1, HasStays DEF IInv, Boxes, BoxOK, Disjoint
<1>7. Threads'
  BY <1>1 DEF IInv, Threads, StartingUp, Giving
<1>8. ClearedFreed'
  BY <1>1, <1>2, <1>3 DEF IInv, Types, BoxTypes, ClearedFreed
<1>9. Owned'
  BY <1>1, <1>2, <1>3, HasStays DEF IInv, Owned, Live, Giving
<1>10. CountOK'
  BY <1>1, HasStays, CountStays DEF IInv, Counts, Giving
<1> QED BY <1>4, <1>5, <1>6, <1>7, <1>8, <1>9, <1>10 DEF IInv

LEMMA AddClientsStep == ASSUME IInv, AddClients PROVE IInv'
<1> DEFINE k == Len(clientsBuff[min])
<1>1. /\ UNCHANGED <<gRun, winsock, lfd, new, min, nxt, clientCount, obj, open, clients, lock, pc, n,
                     ready, failed, cleared>>
      /\ mpc = "push" /\ mpc' = "join" /\ ~lock[min]
      /\ clientsBuff' = [clientsBuff EXCEPT ![min] = Append(@, new)]
  BY DEF AddClients, scanVars, peerVars, objVars, thrVars, history
<1>2. /\ new \in Clients /\ Live(new) /\ new \notin cleared /\ \A s \in Servers : ~Has(new, s)
      /\ min \in Servers /\ pc[min] # "merge"
  BY <1>1 DEF IInv, Owned, Giving, ClearedFreed, Live, Types, MainTypes, Threads
<1>3. /\ clientsBuff'[min] = Append(clientsBuff[min], new)
      /\ \A s \in Servers : s # min => clientsBuff'[s] = clientsBuff[s]
      /\ clientsBuff[min] \in Seq(Clients)
  BY <1>1, <1>2 DEF IInv, Types, BoxTypes
<1>4. /\ clientsBuff'[min] \in Seq(Clients) /\ Len(clientsBuff'[min]) = k + 1 /\ k \in Nat
      /\ \A i \in 1..k : clientsBuff'[min][i] = clientsBuff[min][i]
      /\ clientsBuff'[min][k + 1] = new
      /\ \A i \in 1..(k + 1) : i \in 1..k \/ i = k + 1
      /\ k + 1 \in 1..(k + 1) /\ \A i \in 1..k : i \in 1..(k + 1)
  BY <1>2, <1>3
<1> HIDE DEF k
<1>5. \A c, s : s \in Servers => (InClients(c, s)' <=> InClients(c, s))
  BY <1>1 DEF InClients
<1>6. \A c, s : s \in Servers =>
         (InClientsBuff(c, s)' <=> InClientsBuff(c, s) \/ (c = new /\ s = min))
  <2>1. ASSUME NEW c
        PROVE  (\E i \in 1..(k + 1) : clientsBuff'[min][i] = c) <=>
                 (\E i \in 1..k : clientsBuff[min][i] = c) \/ c = new
    <3>1. ASSUME NEW i \in 1..(k + 1), clientsBuff'[min][i] = c
          PROVE  (\E j \in 1..k : clientsBuff[min][j] = c) \/ c = new
      BY <1>4, <3>1
    <3>2. ASSUME NEW i \in 1..k, clientsBuff[min][i] = c
          PROVE  \E j \in 1..(k + 1) : clientsBuff'[min][j] = c
      BY <1>4, <3>2
    <3> QED BY <1>4, <3>1, <3>2
  <2>2. \A c, s : s \in Servers /\ s # min => (InClientsBuff(c, s)' <=> InClientsBuff(c, s))
    BY <1>3 DEF InClientsBuff
  <2>3. ASSUME NEW c, NEW s \in Servers
        PROVE  InClientsBuff(c, s)' <=> InClientsBuff(c, s) \/ (c = new /\ s = min)
    <3>1. CASE s = min
      <4>1. \A d : (\E i \in 1..(k + 1) : clientsBuff'[s][i] = d) <=> InClientsBuff(d, s) \/ d = new
        BY <2>1, <3>1 DEF InClientsBuff, k
      <4>2. Len(clientsBuff'[s]) = k + 1
        BY <1>4, <3>1
      <4> QED BY <3>1, <4>1, <4>2 DEF InClientsBuff
    <3>2. CASE s # min
      BY <2>2, <3>2
    <3> QED BY <3>1, <3>2
  <2> QED BY <2>3
<1>7. \A c, s : s \in Servers => (Has(c, s)' <=> Has(c, s) \/ (c = new /\ s = min))
  BY <1>5, <1>6 DEF Has
<1>8. Types'
  <2>1. clientsBuff' \in [Servers -> Seq(Clients)]
    BY <1>1, <1>2, <1>3, <1>4 DEF IInv, Types, BoxTypes
  <2> QED BY <1>1, <2>1, ThreadTypesStay DEF IInv, Types, BoxTypes, MainTypes
<1>9. SocketsOpen'
  BY <1>1 DEF IInv, SocketsOpen
<1>10. Boxes'
  <2> SUFFICES ASSUME NEW s \in Servers PROVE BoxOK(s)'
    BY DEF Boxes
  <2>1. CASE s # min
    <3>1. clientsBuff'[s] = clientsBuff[s] /\ BoxOK(s)
      BY <1>3, <2>1 DEF IInv, Boxes
    <3>2. \A c : InClientsBuff(c, s)' <=> InClientsBuff(c, s)
      BY <1>6, <2>1
    <3> QED BY <1>1, <1>5, <3>1, <3>2 DEF BoxOK
  <2>2. CASE s = min
    <3>1. \A i \in 1..k : clientsBuff[min][i] # new
      BY <1>2 DEF Has, InClientsBuff, k
    <3>2. \A i, j \in 1..k : clientsBuff[min][i] = clientsBuff[min][j] => i = j
      BY <1>2 DEF IInv, Boxes, BoxOK, k
    <3>3. ASSUME NEW i \in 1..(k + 1), NEW j \in 1..(k + 1),
                 clientsBuff'[min][i] = clientsBuff'[min][j]
          PROVE  i = j
      <4>1. (i \in 1..k \/ i = k + 1) /\ (j \in 1..k \/ j = k + 1)
        BY <1>4
      <4> QED BY <1>4, <3>1, <3>2, <3>3, <4>1
    <3>4. \A c \in Clients : InClientsBuff(c, min) => ~InClients(c, min)
      BY <1>2 DEF IInv, Boxes, BoxOK
    <3>5. ASSUME NEW c \in Clients, InClientsBuff(c, s)'
          PROVE  ~InClients(c, s)'
      BY <1>2, <1>5, <1>6, <2>2, <3>4, <3>5 DEF Has
    <3>6. \A i, j \in 1..Len(clients[min]) : clients[min][i] = clients[min][j] => i = j
      BY <1>2 DEF IInv, Boxes, BoxOK
    <3>7. Len(clientsBuff'[min]) = k + 1 /\ pc'[min] # "merge" /\ clients' = clients /\ min' = min
      BY <1>1, <1>2, <1>4
    <3> QED BY <2>2, <3>3, <3>5, <3>6, <3>7 DEF BoxOK
  <2> QED BY <2>1, <2>2
<1>11. Disjoint'
  BY <1>2, <1>7 DEF IInv, Disjoint
<1>12. ClearedFreed' /\ Threads'
  BY <1>1 DEF IInv, ClearedFreed, Threads, StartingUp
<1>13. Owned'
  BY <1>1, <1>2, <1>7 DEF IInv, Owned, Live, Giving
<1>14. CountOK'
  <2>1. \A c \in Clients : Counts(c)' <=> Counts(c) \/ c = new
    BY <1>1, <1>2, <1>7 DEF Counts
  <2>2. Counted' = Counted \union {new} /\ new \notin Counted
    BY <1>2, <2>1 DEF Counted, Counts
  <2>3. Cardinality(Counted') = Cardinality(Counted) + 1 /\ Cardinality(Counted) \in Nat
    BY <2>2, CountedFinite, FS_AddElement DEF IInv
  <2> QED BY <1>1, <2>3 DEF IInv, CountOK
<1> QED BY <1>8, <1>9, <1>10, <1>11, <1>12, <1>13, <1>14 DEF IInv

LEMMA MainStep == ASSUME IInv, Main \/ \E c \in Clients : Accept(c) PROVE IInv'
BY StartUpStep, StartStep, MainCloses, ScanStep, AddClientsStep, OnNetJoinStep, AcceptStep DEF Main

-----------------------------------------------------------------------------
(* The CellServer threads. *)

\* What every step of a thread leaves to main.
LEMMA ThreadRuns ==
  ASSUME IInv, NEW s \in Servers, pc[s] # "done" PROVE mpc \notin StartingUp
BY DEF IInv, Threads

LEMMA HereIs ==
  ASSUME IInv, NEW s \in Servers, Rest(s) # {}
  PROVE  /\ Here(s) \in 1..Len(clients[s]) /\ Here(s) + 1 \in Nat \ {0}
         /\ Current(s) \in Clients /\ Current(s) = clients[s][Here(s)]
<1>1. n[s] \in Nat /\ n[s] >= 1 /\ clients[s] \in Seq(Clients) /\ Len(clients[s]) \in Nat
  BY DEF IInv, Types, ThreadTypes, BoxTypes
<1>2. Rest(s) \in SUBSET Nat /\ Rest(s) \subseteq 1..Len(clients[s])
  BY <1>1 DEF Rest
<1>3. Here(s) \in 1..Len(clients[s])
  BY <1>2, MinOf DEF Here
<1>4. Current(s) = clients[s][Here(s)] /\ Current(s) \in Clients
  BY <1>1, <1>3 DEF Current
<1> QED BY <1>1, <1>3, <1>4

\* Steps that do not touch a container.
LEMMA QuietStep ==
  ASSUME IInv, NEW s \in Servers,
         \/ Top(s) /\ ~HasNew(s)
         \/ NotRun(s) \/ Select(s) \/ RecvData(s) \/ Reply(s) \/ SweepEnds(s)
  PROVE  IInv'
<1>1. /\ UNCHANGED <<gRun, winsock, lfd, mpc, new, min, nxt, clientCount, obj, open, clientsBuff, clients,
                     lock, failed, cleared>>
      /\ pc[s] \in {"top", "select", "sweep", "reply"}
      /\ pc' = pc \/ \E label \in {"top", "select", "sweep", "reply", "done"} : pc' = [pc EXCEPT ![s] = label]
  BY DEF Top, NotRun, Select, RecvData, Reply, SweepEnds, At, MoveTo, mainVars, scanVars, objVars, boxVars, history
<1>2. n' \in [Servers -> Nat \ {0}]
  <2>1. n \in [Servers -> Nat \ {0}]
    BY DEF IInv, Types, ThreadTypes
  <2>2. CASE UNCHANGED n
    BY <2>1, <2>2
  <2>3. CASE n' = [n EXCEPT ![s] = 1]
    BY <2>1, <2>3
  <2>4. CASE RecvData(s)
    BY <2>1, <2>4, HereIs DEF RecvData
  <2>5. CASE n' = [n EXCEPT ![s] = n[s] + 1]
    BY <2>1, <2>5
  <2> QED BY <2>2, <2>3, <2>4, <2>5 DEF Top, NotRun, Select, Reply, SweepEnds
<1>3. pc' \in [Servers -> {"top", "merge", "select", "sweep", "reply", "done"}]
      /\ \A t \in Servers : pc'[t] = "merge" <=> pc[t] = "merge"
  BY <1>1 DEF IInv, Types, ThreadTypes
<1>4. Types'
  BY <1>1, <1>2, <1>3, BoxTypesStay, MainTypesStay DEF IInv, Types, ThreadTypes
<1>5. SocketsOpen'
  BY <1>1, SocketsStay DEF IInv
<1>6. mpc \notin StartingUp
  BY <1>1, ThreadRuns
<1> QED BY <1>1, <1>3, <1>4, <1>5, <1>6, Keep

\* The vector gets the clients of the buffer.
LEMMA TakeOver == ASSUME IInv, NEW s \in Servers, Top(s), HasNew(s) PROVE IInv'
<1> DEFINE k == Len(clients[s])
           l == Len(clientsBuff[s])
<1>1. /\ UNCHANGED <<gRun, winsock, lfd, mpc, new, min, nxt, clientCount, obj, open, clientsBuff, n,
                     failed, cleared>>
      /\ pc[s] = "top" /\ pc' = [pc EXCEPT ![s] = "merge"] /\ lock' = [lock EXCEPT ![s] = TRUE]
      /\ clients' = [clients EXCEPT ![s] = clients[s] \o clientsBuff[s]]
  BY DEF Top, At, MoveTo, mainVars, scanVars, objVars, history
<1>2. /\ clients[s] \in Seq(Clients) /\ clientsBuff[s] \in Seq(Clients) /\ k \in Nat /\ l \in Nat
      /\ clients'[s] = clients[s] \o clientsBuff[s]
      /\ \A t \in Servers : t # s => clients'[t] = clients[t]
      /\ pc'[s] = "merge" /\ \A t \in Servers : t # s => pc'[t] = pc[t]
      /\ lock'[s] = TRUE /\ \A t \in Servers : t # s => lock'[t] = lock[t]
  BY <1>1 DEF IInv, Types, BoxTypes, ThreadTypes
<1> HIDE DEF k, l
<1>3. /\ clients'[s] \in Seq(Clients) /\ Len(clients'[s]) = k + l
      /\ \A i \in 1..k : clients'[s][i] = clients[s][i]
      /\ \A j \in 1..l : clients'[s][k + j] = clientsBuff[s][j]
      /\ \A i \in 1..(k + l) : i \in 1..k \/ \E j \in 1..l : i = k + j
      /\ (\A i \in 1..k : i \in 1..(k + l)) /\ (\A j \in 1..l : k + j \in 1..(k + l))
  <2>1. /\ clients'[s] \in Seq(Clients) /\ Len(clients'[s]) = k + l
        /\ \A i \in 1..(k + l) :
             clients'[s][i] = IF i <= k THEN clients[s][i] ELSE clientsBuff[s][i - k]
    <3> DEFINE a == clients[s]
               b == clientsBuff[s]
    <3>1. a \in Seq(Clients) /\ b \in Seq(Clients) /\ k = Len(a) /\ l = Len(b) /\ clients'[s] = a \o b
      BY <1>2 DEF k, l
    <3> HIDE DEF a, b
    <3>2. /\ a \o b \in Seq(Clients) /\ Len(a \o b) = Len(a) + Len(b)
          /\ \A i \in 1..(Len(a) + Len(b)) : (a \o b)[i] = IF i <= Len(a) THEN a[i] ELSE b[i - Len(a)]
      BY <3>1, ConcatProperties
    <3> QED BY <3>1, <3>2 DEF a, b
  <2>2. (\A i \in 1..k : i \in 1..(k + l)) /\ (\A j \in 1..l : k + j \in 1..(k + l))
    BY <1>2
  <2>3. ASSUME NEW i \in 1..(k + l) PROVE i \in 1..k \/ \E j \in 1..l : i = k + j
    <3>1. i \in 1..k \/ (i - k \in 1..l /\ i = k + (i - k))
      BY <1>2
    <3> QED BY <3>1
  <2>4. ASSUME NEW i \in 1..k PROVE clients'[s][i] = clients[s][i]
    <3>1. i <= k /\ i \in 1..(k + l)
      BY <1>2, <2>2
    <3> QED BY <2>1, <3>1
  <2>5. ASSUME NEW j \in 1..l PROVE clients'[s][k + j] = clientsBuff[s][j]
    <3>1. ~(k + j <= k) /\ (k + j) - k = j
      BY <1>2
    <3> QED BY <2>1, <2>2, <3>1
  <2> QED BY <2>1, <2>2, <2>3, <2>4, <2>5
<1>4. \A c : InClients(c, s)' <=> InClients(c, s) \/ InClientsBuff(c, s)
  <2>1. ASSUME NEW c
        PROVE  (\E i \in 1..(k + l) : clients'[s][i] = c) <=>
                 \/ \E i \in 1..k : clients[s][i] = c
                 \/ \E j \in 1..l : clientsBuff[s][j] = c
    BY <1>3
  <2> QED BY <1>3, <2>1 DEF InClients, InClientsBuff, k, l
<1>5. /\ \A c, t : InClientsBuff(c, t)' <=> InClientsBuff(c, t)
      /\ \A c, t : t \in Servers /\ t # s => (InClients(c, t)' <=> InClients(c, t))
  BY <1>1, <1>2 DEF InClients, InClientsBuff
<1>6. \A c, t : t \in Servers => (Has(c, t)' <=> Has(c, t))
  BY <1>4, <1>5 DEF Has
<1>7. Types'
  <2>1. BoxTypes'
    BY <1>1, <1>3 DEF IInv, Types, BoxTypes
  <2>2. ThreadTypes'
    BY <1>1 DEF IInv, Types, ThreadTypes
  <2> QED BY <1>1, <2>1, <2>2, MainTypesStay DEF IInv, Types
<1>8. SocketsOpen'
  BY <1>1, SocketsStay DEF IInv
<1>9. Boxes'
  <2> SUFFICES ASSUME NEW t \in Servers PROVE BoxOK(t)'
    BY DEF Boxes
  <2>1. CASE t # s
    <3>1. clients'[t] = clients[t] /\ pc'[t] = pc[t] /\ clientsBuff' = clientsBuff /\ BoxOK(t)
      BY <1>1, <1>2, <2>1 DEF IInv, Boxes
    <3> QED BY <1>5, <2>1, <3>1 DEF BoxOK
  <2>2. CASE t = s
    <3>1. /\ \A i, j \in 1..k : clients[s][i] = clients[s][j] => i = j
          /\ \A i, j \in 1..l : clientsBuff[s][i] = clientsBuff[s][j] => i = j
          /\ \A c \in Clients : InClientsBuff(c, s) => ~InClients(c, s)
      BY <1>1 DEF IInv, Boxes, BoxOK, k, l
    <3>2. \A i \in 1..k, j \in 1..l : clients[s][i] # clientsBuff[s][j]
      <4>1. \A j \in 1..l : clientsBuff[s][j] \in Clients
        BY <1>2 DEF l
      <4> QED BY <3>1, <4>1 DEF InClients, InClientsBuff, k, l
    <3>3. ASSUME NEW i \in 1..(k + l), NEW j \in 1..(k + l), clients'[s][i] = clients'[s][j]
          PROVE  i = j
      <4>1. CASE i \in 1..k /\ j \in 1..k
        BY <1>3, <3>1, <3>3, <4>1
      <4>2. ASSUME NEW a \in 1..l, i = k + a, j \in 1..k PROVE FALSE
        BY <1>3, <3>2, <3>3, <4>2
      <4>3. ASSUME NEW b \in 1..l, j = k + b, i \in 1..k PROVE FALSE
        BY <1>3, <3>2, <3>3, <4>3
      <4>4. ASSUME NEW a \in 1..l, i = k + a, NEW b \in 1..l, j = k + b PROVE a = b
        BY <1>3, <3>1, <3>3, <4>4
      <4> QED BY <1>3, <4>1, <4>2, <4>3, <4>4
    <3>4. \A c \in Clients : InClientsBuff(c, s)' => InClients(c, s)'
      BY <1>4, <1>5
    <3>5. Len(clients'[s]) = k + l /\ pc'[s] = "merge" /\ clientsBuff' = clientsBuff
      BY <1>1, <1>2, <1>3
    <3> QED BY <2>2, <3>1, <3>3, <3>4, <3>5 DEF BoxOK, l
  <2> QED BY <2>1, <2>2
<1>10. Disjoint'
  BY <1>6 DEF IInv, Disjoint
<1>11. Owned'
  BY <1>1, <1>6 DEF IInv, Owned, Live
<1>12. ClearedFreed' /\ Threads'
  <2>1. mpc \notin StartingUp
    BY <1>1, ThreadRuns
  <2> QED BY <1>1, <1>2, <2>1 DEF IInv, ClearedFreed, Threads
<1>13. CountOK'
  BY <1>1, <1>6, CountStays DEF IInv, Counts
<1> QED BY <1>7, <1>8, <1>9, <1>10, <1>11, <1>12, <1>13 DEF IInv

\* The buffer is cleared when the vector has all of its clients.
LEMMA MergeEndStep == ASSUME IInv, NEW s \in Servers, MergeEnd(s) PROVE IInv'
<1>1. /\ UNCHANGED <<gRun, winsock, lfd, mpc, new, min, nxt, clientCount, obj, open, clients, n,
                     failed, cleared>>
      /\ pc[s] = "merge" /\ pc' = [pc EXCEPT ![s] = "select"] /\ lock' = [lock EXCEPT ![s] = FALSE]
      /\ clientsBuff' = [clientsBuff EXCEPT ![s] = <<>>]
  BY DEF MergeEnd, MergeClears, At, MoveTo, mainVars, scanVars, objVars, history
<1>2. /\ clientsBuff'[s] = <<>> /\ Len(clientsBuff'[s]) = 0
      /\ \A t \in Servers : t # s => clientsBuff'[t] = clientsBuff[t]
      /\ pc'[s] = "select" /\ \A t \in Servers : t # s => pc'[t] = pc[t]
      /\ lock'[s] = FALSE /\ \A t \in Servers : t # s => lock'[t] = lock[t]
  BY <1>1 DEF IInv, Types, BoxTypes, ThreadTypes
<1>3. /\ \A c : ~InClientsBuff(c, s)'
      /\ \A c, t : t \in Servers /\ t # s => (InClientsBuff(c, t)' <=> InClientsBuff(c, t))
      /\ \A c, t : InClients(c, t)' <=> InClients(c, t)
  BY <1>1, <1>2 DEF InClients, InClientsBuff
<1>4. \A c \in Clients : \A t \in Servers : Has(c, t)' <=> Has(c, t)
  <2>1. \A c \in Clients : InClientsBuff(c, s) => InClients(c, s)
    BY <1>1 DEF IInv, Boxes, BoxOK
  <2> QED BY <1>3, <2>1 DEF Has
<1>5. Types'
  <2>1. BoxTypes' /\ ThreadTypes'
    BY <1>1 DEF IInv, Types, BoxTypes, ThreadTypes
  <2> QED BY <1>1, <2>1, MainTypesStay DEF IInv, Types
<1>6. SocketsOpen'
  BY <1>1, SocketsStay DEF IInv
<1>7. Boxes'
  BY <1>1, <1>2, <1>3 DEF IInv, Boxes, BoxOK
<1>8. Disjoint'
  BY <1>4 DEF IInv, Disjoint
<1>9. Owned'
  BY <1>1, <1>4 DEF IInv, Owned, Live, Types, MainTypes, Giving
<1>10. ClearedFreed' /\ Threads'
  <2>1. mpc \notin StartingUp
    BY <1>1, ThreadRuns
  <2> QED BY <1>1, <1>2, <2>1 DEF IInv, ClearedFreed, Threads
<1>11. CountOK'
  BY <1>1, <1>4, CountStays DEF IInv, Counts
<1> QED BY <1>5, <1>6, <1>7, <1>8, <1>9, <1>10, <1>11 DEF IInv

\* A CellServer fails: those in its vector are deleted and cleared, those in
\* its buffer stay.
LEMMA SelectFailsStep == ASSUME IInv, NEW s \in Servers, SelectFails(s) PROVE IInv'
<1>1. /\ UNCHANGED <<gRun, winsock, mpc, new, min, nxt, clientCount, clientsBuff, lock, n>>
      /\ pc[s] = "select" /\ pc' = [pc EXCEPT ![s] = "done"]
      /\ obj' = [c \in Clients |-> IF c \in ToSet(clients[s]) THEN "freed" ELSE obj[c]]
      /\ clients' = [clients EXCEPT ![s] = <<>>]
      /\ failed' = failed \union {s} /\ cleared' = cleared \union ToSet(clients[s])
  BY DEF SelectFails, CloseListen, DeleteClients, scanVars, At, MoveTo
<1>2. /\ clients'[s] = <<>> /\ Len(clients'[s]) = 0
      /\ \A t \in Servers : t # s => clients'[t] = clients[t]
      /\ pc'[s] = "done" /\ \A t \in Servers : t # s => pc'[t] = pc[t]
  BY <1>1 DEF IInv, Types, BoxTypes, ThreadTypes
<1>3. \A c : c \in ToSet(clients[s]) <=> InClients(c, s)
  BY HasIs DEF IInv
<1>4. \A c \in Clients : obj'[c] = IF InClients(c, s) THEN "freed" ELSE obj[c]
  BY <1>1, <1>3
<1>5. \A c : c \in cleared' <=> c \in cleared \/ InClients(c, s)
  BY <1>1, <1>3
<1>6. /\ \A c : ~InClients(c, s)'
      /\ \A c, t : t \in Servers /\ t # s => (InClients(c, t)' <=> InClients(c, t))
      /\ \A c, t : InClientsBuff(c, t)' <=> InClientsBuff(c, t)
  BY <1>1, <1>2 DEF InClients, InClientsBuff
<1>7. \A c \in Clients : InClientsBuff(c, s) => ~InClients(c, s)
  BY <1>1 DEF IInv, Boxes, BoxOK
<1>8. \A c \in Clients : InClients(c, s) => \A t \in Servers : ~Has(c, t)'
  <2>1. ASSUME NEW c \in Clients, InClients(c, s), NEW t \in Servers, Has(c, t)' PROVE FALSE
    <3>1. Has(c, s)
      BY <2>1 DEF Has
    <3>2. Has(c, t)
      BY <1>6, <2>1, <3>1 DEF Has
    <3>3. s = t
      BY <3>1, <3>2 DEF IInv, Disjoint
    <3> QED BY <1>6, <1>7, <2>1, <3>3 DEF Has
  <2> QED BY <2>1
<1>9. \A c \in Clients : ~InClients(c, s) => \A t \in Servers : Has(c, t)' <=> Has(c, t)
  <2>1. ASSUME NEW c \in Clients, ~InClients(c, s), NEW t \in Servers PROVE Has(c, t)' <=> Has(c, t)
    <3>1. CASE t = s
      BY <1>6, <2>1, <3>1 DEF Has
    <3>2. CASE t # s
      BY <1>6, <2>1, <3>2 DEF Has
    <3> QED BY <3>1, <3>2
  <2> QED BY <2>1
<1>10. Types'
  <2>1. \A c : InClients(c, s) => c \in Clients
    BY HasIs DEF IInv, Has
  <2>2. cleared' \in SUBSET Clients
    BY <1>5, <2>1 DEF IInv, Types, BoxTypes
  <2>3. BoxTypes' /\ ThreadTypes'
    BY <1>1, <2>2 DEF IInv, Types, BoxTypes, ThreadTypes
  <2> QED BY <1>1, <2>3, MainTypesStay DEF IInv, Types
<1>11. SocketsOpen'
  BY <1>1 DEF SocketsOpen
<1>12. Boxes'
  BY <1>1, <1>2, <1>6 DEF IInv, Boxes, BoxOK
<1>13. Disjoint'
  BY <1>8, <1>9 DEF IInv, Disjoint
<1>14. Owned'
  <2>1. \A c \in Clients : InClients(c, s) => Live(c) /\ ~(mpc \in Giving /\ c = new)
    BY DEF IInv, Owned, Has
  <2>2. \A c \in Clients : Live(c)' <=> Live(c) /\ ~InClients(c, s)
    BY <1>4 DEF Live
  <2>3. \A c \in Clients :
           Live(c)' <=> (mpc' \in Giving /\ c = new') \/ \E t \in Servers : Has(c, t)'
    BY <1>1, <1>8, <1>9, <2>1, <2>2 DEF IInv, Owned
  <2>4. mpc' \in Giving => \A t \in Servers : ~Has(new, t)'
    BY <1>1, <1>8, <1>9, Constants DEF IInv, Owned
  <2>5. UNCHANGED <<mpc, new>> /\ (new \in Clients <=> mpc \in Giving \union {"join"})
    BY <1>1 DEF IInv, Owned
  <2> QED BY <2>3, <2>4, <2>5 DEF Owned
<1>15. ClearedFreed'
  <2>1. \A c : InClients(c, s) => c \in Clients
    BY HasIs DEF IInv, Has
  <2> QED BY <1>4, <1>5, <2>1 DEF IInv, ClearedFreed, Types, BoxTypes
<1>16. Threads'
  <2>1. mpc \notin StartingUp
    BY <1>1, ThreadRuns
  <2> QED BY <1>1, <1>2, <2>1 DEF IInv, Threads
<1>17. CountOK'
  <2>1. \A c \in Clients : Counts(c)' <=> Counts(c)
    <3>1. ASSUME NEW c \in Clients, InClients(c, s) PROVE Counts(c)' /\ Counts(c)
      BY <1>5, <3>1 DEF Counts, Has
    <3>2. ASSUME NEW c \in Clients, ~InClients(c, s) PROVE Counts(c)' <=> Counts(c)
      BY <1>5, <1>9, <3>2 DEF Counts
    <3> QED BY <3>1, <3>2
  <2> QED BY <1>1, <2>1, CountStays DEF IInv
<1> QED BY <1>10, <1>11, <1>12, <1>13, <1>14, <1>15, <1>16, <1>17 DEF IInv

\* A client leaves: it is deleted and erased.
LEMMA Erased ==
  ASSUME IInv, NEW s \in Servers, pc[s] = "sweep",
         NEW h \in 1..Len(clients[s]), NEW c \in Clients, c = clients[s][h],
         UNCHANGED <<gRun, winsock, lfd, mpc, new, min, nxt, open, clientsBuff, lock, pc, failed,
                     cleared>>,
         clientCount' = clientCount - 1,
         obj' = [obj EXCEPT ![c] = "freed"],
         clients' = [clients EXCEPT ![s] = RemoveAt(clients[s], h)],
         n' = [n EXCEPT ![s] = h + 1]
  PROVE  IInv'
<1> DEFINE k == Len(clients[s])
<1>1. /\ UNCHANGED <<gRun, winsock, lfd, mpc, new, min, nxt, open, clientsBuff, lock, pc, failed,
                     cleared>>
      /\ pc[s] = "sweep" /\ clientCount' = clientCount - 1
      /\ n' = [n EXCEPT ![s] = h + 1]
  OBVIOUS
<1>2. h \in 1..k /\ h + 1 \in Nat \ {0} /\ c \in Clients /\ c = clients[s][h]
  <2>1. Len(clients[s]) \in Nat
    BY DEF IInv, Types, BoxTypes
  <2> QED BY <2>1
<1>3. /\ clients[s] \in Seq(Clients) /\ k \in Nat
      /\ clients'[s] = RemoveAt(clients[s], h)
      /\ \A t \in Servers : t # s => clients'[t] = clients[t]
      /\ obj'[c] = "freed" /\ \A d \in Clients : d # c => obj'[d] = obj[d]
  BY DEF IInv, Types, BoxTypes
<1>4. /\ clients'[s] \in Seq(Clients) /\ Len(clients'[s]) = k - 1
      /\ \A i \in 1..(k - 1) : clients'[s][i] = IF i < h THEN clients[s][i] ELSE clients[s][i + 1]
  <2> DEFINE a == clients[s]
  <2>1. a \in Seq(Clients) /\ h \in 1..Len(a) /\ clients'[s] = RemoveAt(a, h) /\ k = Len(a)
    BY <1>2, <1>3
  <2> HIDE DEF a, k
  <2>2. /\ RemoveAt(a, h) \in Seq(Clients) /\ Len(RemoveAt(a, h)) = Len(a) - 1
        /\ \A i \in 1..(Len(a) - 1) : RemoveAt(a, h)[i] = IF i < h THEN a[i] ELSE a[i + 1]
    BY <2>1, RemoveAtProperties
  <2> QED BY <2>1, <2>2 DEF a
<1>5. \A i, j \in 1..k : clients[s][i] = clients[s][j] => i = j
  BY DEF IInv, Boxes, BoxOK
<1> HIDE DEF k
\* The old place of what is now at i.
<1> DEFINE old(i) == IF i < h THEN i ELSE i + 1
<1>6. /\ \A i \in 1..(k - 1) : /\ old(i) \in 1..k /\ old(i) # h
                               /\ clients'[s][i] = clients[s][old(i)]
      /\ \A i, j \in 1..(k - 1) : old(i) = old(j) => i = j
      /\ \A j \in 1..k : j # h => \E i \in 1..(k - 1) : old(i) = j
  <2>1. h \in Int /\ k \in Int /\ 1 <= h /\ h <= k
    BY <1>2, <1>3 DEF k
  <2>2. ASSUME NEW j \in 1..k, j # h PROVE \E i \in 1..(k - 1) : old(i) = j
    <3>1. CASE j < h
      <4>1. j \in 1..(k - 1) /\ old(j) = j
        BY <2>1, <3>1
      <4> QED BY <4>1
    <3>2. CASE j > h
      <4>1. j - 1 \in 1..(k - 1) /\ old(j - 1) = j
        BY <2>1, <3>2
      <4> QED BY <4>1
    <3> QED BY <2>1, <2>2, <3>1, <3>2
  <2>3. ASSUME NEW i \in 1..(k - 1)
        PROVE  old(i) \in 1..k /\ old(i) # h /\ clients'[s][i] = clients[s][old(i)]
    BY <1>4, <2>1
  <2>4. \A i, j \in 1..(k - 1) : old(i) = old(j) => i = j
    BY <2>1
  <2> QED BY <2>2, <2>3, <2>4
<1> HIDE DEF old
<1>7. \A d : InClients(d, s)' <=> InClients(d, s) /\ d # c
  <2>1. ASSUME NEW d
        PROVE  (\E i \in 1..(k - 1) : clients'[s][i] = d) <=> (\E i \in 1..k : clients[s][i] = d) /\ d # c
    <3>1. ASSUME NEW i \in 1..(k - 1), clients'[s][i] = d
          PROVE  (\E j \in 1..k : clients[s][j] = d) /\ d # c
      <4>1. old(i) \in 1..k /\ old(i) # h /\ clients[s][old(i)] = d
        BY <1>6, <3>1
      <4> QED BY <1>2, <1>5, <4>1 DEF k
    <3>2. ASSUME NEW j \in 1..k, clients[s][j] = d, d # c
          PROVE  \E i \in 1..(k - 1) : clients'[s][i] = d
      <4>1. j # h
        BY <1>2, <3>2
      <4>2. PICK i \in 1..(k - 1) : old(i) = j
        BY <1>6, <4>1
      <4> QED BY <1>6, <3>2, <4>2
    <3> QED BY <3>1, <3>2
  <2> QED BY <1>4, <2>1 DEF InClients, k
<1>8. /\ \A d, t : t \in Servers /\ t # s => (InClients(d, t)' <=> InClients(d, t))
      /\ \A d, t : InClientsBuff(d, t)' <=> InClientsBuff(d, t)
  BY <1>1, <1>3 DEF InClients, InClientsBuff
<1>9. InClients(c, s) /\ ~InClientsBuff(c, s) /\ Has(c, s) /\ Live(c)
  <2>1. InClients(c, s) /\ Has(c, s)
    BY <1>2 DEF InClients, Has, k
  <2> QED BY <1>1, <1>2, <2>1 DEF IInv, Boxes, BoxOK, Owned
<1>10. \A t \in Servers : ~Has(c, t)'
  <2>1. \A t \in Servers : Has(c, t) => t = s
    BY <1>2, <1>9 DEF IInv, Disjoint
  <2> QED BY <1>7, <1>8, <1>9, <2>1 DEF Has
<1>11. \A d \in Clients : d # c => \A t \in Servers : Has(d, t)' <=> Has(d, t)
  <2>1. ASSUME NEW d \in Clients, d # c, NEW t \in Servers PROVE Has(d, t)' <=> Has(d, t)
    <3>1. CASE t = s
      BY <1>7, <1>8, <2>1, <3>1 DEF Has
    <3>2. CASE t # s
      BY <1>8, <2>1, <3>2 DEF Has
    <3> QED BY <3>1, <3>2
  <2> QED BY <2>1
<1>12. Types'
  <2>1. BoxTypes'
    BY <1>1, <1>2, <1>4 DEF IInv, Types, BoxTypes
  <2>2. ThreadTypes'
    BY <1>1, <1>2 DEF IInv, Types, ThreadTypes
  <2> QED BY <1>1, <2>1, <2>2, MainTypesStay DEF IInv, Types
<1>13. SocketsOpen'
  BY <1>1, <1>3 DEF IInv, SocketsOpen
<1>14. Boxes'
  <2> SUFFICES ASSUME NEW t \in Servers PROVE BoxOK(t)'
    BY DEF Boxes
  <2>1. CASE t # s
    <3>1. clients'[t] = clients[t] /\ UNCHANGED <<pc, clientsBuff>> /\ BoxOK(t)
      BY <1>1, <1>3, <2>1 DEF IInv, Boxes
    <3> QED BY <1>8, <2>1, <3>1 DEF BoxOK
  <2>2. CASE t = s
    <3>1. ASSUME NEW i \in 1..(k - 1), NEW j \in 1..(k - 1), clients'[s][i] = clients'[s][j]
          PROVE  i = j
      <4>1. clients[s][old(i)] = clients[s][old(j)] /\ old(i) \in 1..k /\ old(j) \in 1..k
        BY <1>6, <3>1
      <4>2. old(i) = old(j)
        BY <1>5, <4>1
      <4> QED BY <1>6, <4>2
    <3>2. \A d \in Clients : InClientsBuff(d, s)' => ~InClients(d, s)'
      BY <1>1, <1>7, <1>8 DEF IInv, Boxes, BoxOK
    <3>3. \A i, j \in 1..Len(clientsBuff[s]) : clientsBuff[s][i] = clientsBuff[s][j] => i = j
      BY DEF IInv, Boxes, BoxOK
    <3>4. Len(clients'[s]) = k - 1 /\ pc'[s] # "merge" /\ clientsBuff' = clientsBuff
      BY <1>1, <1>4
    <3> QED BY <2>2, <3>1, <3>2, <3>3, <3>4 DEF BoxOK
  <2> QED BY <2>1, <2>2
<1>15. Disjoint'
  BY <1>10, <1>11 DEF IInv, Disjoint
<1>16. Owned'
  <2>1. ~(mpc \in Giving /\ c = new)
    BY <1>9 DEF IInv, Owned
  <2>2. \A d \in Clients : Live(d)' <=> Live(d) /\ d # c
    BY <1>2, <1>3 DEF Live
  <2>3. \A d \in Clients :
           Live(d)' <=> (mpc' \in Giving /\ d = new') \/ \E t \in Servers : Has(d, t)'
    BY <1>1, <1>10, <1>11, <2>1, <2>2 DEF IInv, Owned
  <2>4. mpc' \in Giving => \A t \in Servers : ~Has(new, t)'
    BY <1>1, <1>10, <1>11 DEF IInv, Owned
  <2>5. UNCHANGED <<mpc, new>> /\ (new \in Clients <=> mpc \in Giving \union {"join"})
    BY <1>1 DEF IInv, Owned
  <2> QED BY <2>3, <2>4, <2>5 DEF Owned
<1>17. ClearedFreed'
  BY <1>1, <1>2, <1>3 DEF IInv, ClearedFreed, Types, BoxTypes
<1>18. Threads'
  <2>1. mpc \notin StartingUp
    BY <1>1, ThreadRuns
  <2> QED BY <1>1, <2>1 DEF IInv, Threads
<1>19. CountOK'
  <2>1. c \notin cleared
    BY <1>9 DEF IInv, ClearedFreed, Live
  <2>2. \A d \in Clients : Counts(d)' <=> Counts(d) /\ d # c
    BY <1>1, <1>10, <1>11, <2>1 DEF Counts
  <2>3. Counted' = Counted \ {c} /\ c \in Counted
    BY <1>2, <1>9, <2>2 DEF Counted, Counts
  <2>4. Cardinality(Counted') = Cardinality(Counted) - 1 /\ Cardinality(Counted) \in Nat
    BY <2>3, CountedFinite, FS_RemoveElement DEF IInv
  <2> QED BY <1>1, <2>4 DEF IInv, CountOK
<1> QED BY <1>12, <1>13, <1>14, <1>15, <1>16, <1>17, <1>18, <1>19 DEF IInv

LEMMA RecvFailsStep == ASSUME IInv, NEW s \in Servers, RecvFails(s) PROVE IInv'
<1>1. PICK h \in 1..Len(clients[s]), c \in Clients : h = Here(s) /\ c = Current(s) /\ c = clients[s][h]
  BY HereIs DEF RecvFails
<1>2. /\ UNCHANGED <<gRun, winsock, lfd, mpc, new, min, nxt, open, clientsBuff, lock, pc, failed,
                     cleared>>
      /\ pc[s] = "sweep" /\ clientCount' = clientCount - 1
      /\ obj' = [obj EXCEPT ![c] = "freed"]
      /\ clients' = [clients EXCEPT ![s] = RemoveAt(clients[s], h)]
      /\ n' = [n EXCEPT ![s] = h + 1]
  BY <1>1 DEF RecvFails, OnNetLeave, Erase, At, mainVars, scanVars, peerVars, history
<1> QED BY <1>1, <1>2, Erased

LEMMA ServerThreadStep ==
  ASSUME IInv, NEW s \in Servers, ServerThread(s) \/ Reply(s)
  PROVE  IInv'
BY QuietStep, TakeOver, MergeEndStep, SelectFailsStep, RecvFailsStep DEF ServerThread

-----------------------------------------------------------------------------
(* The invariant, and what follows from it. *)

LEMMA InitIInv == ASSUME Init PROVE IInv
<1>1. /\ \A c \in Clients : obj[c] = "none"
      /\ \A s \in Servers : /\ clients[s] = <<>> /\ Len(clients[s]) = 0
                            /\ clientsBuff[s] = <<>> /\ Len(clientsBuff[s]) = 0
                            /\ lock[s] = FALSE /\ pc[s] = "done"
      /\ mpc = "init" /\ new = NoClient /\ cleared = {} /\ clientCount = 0 /\ lfd = "none"
  BY DEF Init
<1>2. \A c, s : s \in Servers => ~Has(c, s) /\ ~InClientsBuff(c, s)
  BY <1>1 DEF Has, InClients, InClientsBuff
<1>3. Types
  BY Constants DEF Init, Types, BoxTypes, ThreadTypes, MainTypes, StartingUp
<1>4. Boxes /\ Disjoint /\ Owned /\ ClearedFreed /\ Threads /\ SocketsOpen
  BY <1>1, <1>2, Constants
     DEF Boxes, BoxOK, Disjoint, Owned, Live, Giving, ClearedFreed, Threads, SocketsOpen
<1>5. CountOK
  <2>1. Counted = {}
    BY <1>1, <1>2 DEF Counted, Counts
  <2> QED BY <1>1, <2>1, FS_EmptySet DEF CountOK
<1> QED BY <1>3, <1>4, <1>5 DEF IInv

LEMMA NextIInv == ASSUME IInv, [Next]_vars PROVE IInv'
<1>1. CASE Next
  BY <1>1, PeerStep, MainStep, ServerThreadStep DEF Next
<1>2. CASE UNCHANGED vars
  <2>1. UNCHANGED <<gRun, winsock, lfd, mpc, new, min, nxt, clientCount, obj, open, clientsBuff, clients,
                    lock, pc, n, failed, cleared>>
    BY <1>2 DEF vars, mainVars, scanVars, objVars, boxVars, thrVars, history
  <2>2. Types' /\ SocketsOpen'
    BY <2>1, BoxTypesStay, ThreadTypesStay, MainTypesStay, SocketsStay DEF IInv, Types
  <2> QED BY <2>1, <2>2, Keep DEF IInv, Threads
<1> QED BY <1>1, <1>2

LEMMA Invariant == Spec => []IInv
BY InitIInv, NextIInv, PTL DEF Spec

\* A CellServer's vector and buffer have no client twice, a live client has
\* exactly one holder, a deleted one none.
THEOREM OneOwner == Spec => []OwnedOnce
<1>1. ASSUME IInv PROVE OwnedOnce
  <2>1. ASSUME NEW s \in Servers PROVE IsInjective(clients[s]) /\ IsInjective(clientsBuff[s])
    BY <1>1, HasIs DEF IInv, Boxes, BoxOK, IsInjective
  <2>2. ASSUME NEW c \in Clients PROVE Cardinality(Holders(c)) = IF obj[c] = "live" THEN 1 ELSE 0
    <3>1. \A s : s \in Holders(c) <=> \/ s \in Servers /\ Has(c, s)
                                      \/ s = 0 /\ new = c /\ mpc # "join"
      BY <1>1, HasIs DEF Holders, Has, IInv, InMap, InBuff
    <3>2. new = c /\ mpc # "join" => mpc \in Giving /\ \A s \in Servers : ~Has(c, s)
      BY <1>1 DEF IInv, Owned
    <3>3. \A s, t \in Servers : Has(c, s) /\ Has(c, t) => s = t
      BY <1>1 DEF IInv, Disjoint
    <3>4. \A s, t \in Holders(c) : s = t
      BY <3>1, <3>2, <3>3
    <3>5. Live(c) <=> Holders(c) # {}
      BY <1>1, <3>1, <3>2 DEF IInv, Owned, Giving
    <3>6. CASE ~Live(c)
      BY <3>5, <3>6, FS_EmptySet DEF Live
    <3>7. CASE Live(c)
      <4>1. PICK s \in Holders(c) : Holders(c) = {s}
        BY <3>4, <3>5, <3>7
      <4> QED BY <3>7, <4>1, FS_Singleton DEF Live
    <3> QED BY <3>6, <3>7
  <2> QED BY <2>1, <2>2 DEF OwnedOnce
<1> QED BY <1>1, Invariant, PTL

\* _clientCount counts the clients that the CellServers have, and those deleted
\* without OnNetLeave.
THEOREM Count == Spec => []CountExact
<1>1. ASSUME IInv PROVE CountExact
  <2>1. \A c \in Clients : c \in Members <=> \E s \in Servers : Has(c, s)
    <3>1. ASSUME NEW c \in Clients
          PROVE  \A s \in Servers : s \in Holders(c) <=> Has(c, s)
      <4>1. 0 \notin Servers
        BY DEF Servers
      <4> QED BY <1>1, <4>1, HasIs DEF Holders, Has, IInv, InMap, InBuff
    <3> QED BY <3>1 DEF Members
  <2>2. Members \subseteq Clients /\ cleared \subseteq Clients
    BY <1>1 DEF Members, IInv, Types, BoxTypes
  <2>3. Members \union cleared = Counted
    BY <2>1, <2>2 DEF Counted, Counts
  <2> QED BY <1>1, <2>3 DEF IInv, CountOK, CountExact
<1> QED BY <1>1, Invariant, PTL

\* Until exit is typed or a select fails the listening socket and those of all
\* live clients are open.
THEOREM AllOpen == Spec => []SocketsOpen
<1>1. ASSUME IInv PROVE SocketsOpen
  BY <1>1 DEF IInv
<1> QED BY <1>1, Invariant, PTL
=============================================================================
