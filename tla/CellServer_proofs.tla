-------------------------- MODULE CellServer_proofs --------------------------
(***************************************************************************)
(* Proofs about CellServer, for any number of CellServer threads, clients, *)
(* socket handles and starts of the server, and whatever the environment   *)
(* does: what a thread finds in its containers is alive, a client belongs  *)
(* to one thread, the trusted backup of the fd_set is right, _clientCount  *)
(* is what it counts, and Close leaves nothing behind.                     *)
(***************************************************************************)
EXTENDS CellServer, FiniteSetTheorems, TLAPS

-----------------------------------------------------------------------------
(* The inductive invariant. *)

\* Who has a client: a CellServer, in its map or in its buffer.
InClients(c, s) == \E h \in Handles : clients[s][h] = c
InClientsBuff(c, s) == \E i \in 1..Len(clientsBuff[s]) : clientsBuff[s][i] = c
Has(c, s) == InClients(c, s) \/ InClientsBuff(c, s)

Live(c) == obj[c] = "live"

\* TypeOK, without the bounds of the count.
DataTypes ==
  /\ obj \in [Clients -> {"none", "live", "freed"}]
  /\ sock \in [Clients -> Handles \union {NoHandle}]
  /\ clientsBuff \in [Servers -> Seq(Clients)]
  /\ clients \in [Servers -> [Handles -> Clients \union {NoClient}]]
  /\ cleared \in SUBSET Clients

AccTypes ==
  /\ accRun \in BOOLEAN /\ apc \in AccLabels
  /\ acc \in [client : Clients \union {NoClient}, min : Servers, next : Nat,
              minLoad : Nat, load : Nat]

ThreadTypes ==
  /\ lock \in [Servers -> BOOLEAN]
  /\ clientsChange \in [Servers -> BOOLEAN]
  /\ fdBack \in [Servers -> SUBSET Handles]
  /\ isRun \in [Servers -> BOOLEAN]
  /\ pc \in [Servers -> ServerLabels]
  /\ phase \in [Servers -> {"read", "write", "time"}]
  /\ cur \in [Servers -> Handles \union {NoHandle}]
  /\ merged \in [Servers -> Nat]
  /\ failed \in SUBSET (Servers \union {0})

MainTypes ==
  /\ lfd \in {"none", "open", "bound", "listening"}
  /\ mpc \in {"init", "bind", "listen", "start", "serving", "join_acc", "stop", "join", "asleep", "closed"}
  /\ credit \in BOOLEAN
  /\ ms \in 1..(NServers + 1) /\ life \in 0..MaxLives /\ restart \in BOOLEAN
  /\ crashed \in BOOLEAN

Types == DataTypes /\ AccTypes /\ ThreadTypes /\ MainTypes

\* Two live clients never have the same socket.
Sockets ==
  /\ \A c \in Clients : Live(c) => sock[c] \in Handles
  /\ \A c, d \in Clients : Live(c) /\ Live(d) /\ sock[c] = sock[d] => c = d

\* An entry of a map is live and under its socket, but for the one that is
\* being erased.
EntryOK(s, h) ==
  clients[s][h] # NoClient =>
    \/ Live(clients[s][h]) /\ sock[clients[s][h]] = h
    \/ pc[s] = "erase" /\ cur[s] = h
MapLive == \A s \in Servers, h \in Handles : EntryOK(s, h)

\* What a thread is about to delete, or has just deleted, is in its map.
Leaving ==
  \A s \in Servers : pc[s] \in {"delete", "erase"} =>
    /\ cur[s] \in Handles /\ clients[s][cur[s]] # NoClient
    /\ clientsChange[s]
    /\ pc[s] = "erase" => obj[clients[s][cur[s]]] = "freed"

\* A buffer holds live clients, each once, until they are deleted; they are not
\* in the map, but for the first ones while they are moved.
BuffOK(s) ==
  /\ \A i, j \in 1..Len(clientsBuff[s]) : clientsBuff[s][i] = clientsBuff[s][j] => i = j
  /\ \A i \in 1..Len(clientsBuff[s]) :
       obj[clientsBuff[s][i]] # "none" /\ (pc[s] # "clear_end" => Live(clientsBuff[s][i]))
  /\ \A i \in 1..Len(clientsBuff[s]) :
       IF pc[s] = "merging" /\ i <= merged[s]
       THEN clients[s][sock[clientsBuff[s][i]]] = clientsBuff[s][i]
       ELSE ~InClients(clientsBuff[s][i], s)
  /\ pc[s] = "merging" => merged[s] <= Len(clientsBuff[s])
Buffers == \A s \in Servers : BuffOK(s)

\* No client belongs to two CellServers.
Disjoint == \A c \in Clients : \A s, t \in Servers : Has(c, s) /\ Has(c, t) => s = t

\* The accept thread has a live client until it has pushed it, and nobody else
\* has it.
Scanning == {"min_clients", "min_buff", "next_clients", "next_buff", "push"}
AccHolds ==
  /\ apc \in Scanning \union {"join"} => acc.client \in Clients
  /\ apc \in Scanning =>
       /\ Live(acc.client) /\ acc.client \notin cleared
       /\ \A s \in Servers : ~Has(acc.client, s)
  /\ apc \notin Scanning \union {"join"} => acc.client = NoClient
  /\ apc \in Scanning \ {"push"} => acc.next \in Servers

\* What is cleared has been accepted, and nobody has it but a thread that is
\* about to clear its buffer.
ClearedGone ==
  \A c \in cleared :
    /\ obj[c] # "none"
    /\ \A s \in Servers : Has(c, s) => pc[s] = "clear_end"

\* The map of a thread that has left its loop is empty.
Emptied ==
  \A s \in Servers : pc[s] \in Clearing => \A h \in Handles : clients[s][h] = NoClient

\* The backup of the fd_set.
FdSets ==
  \A s \in Servers :
    pc[s] \in {"top", "merge", "poll", "visit"} /\ ~clientsChange[s] => fdBack[s] = Watched(s)

\* A thread holds its lock while it moves clients, and has left its loop only
\* when it was told to stop.
Threads ==
  \A s \in Servers :
    /\ lock[s] <=> pc[s] = "merging"
    /\ isRun[s] => pc[s] \notin {"clear"} \union Clearing

\* The accept thread runs from Start to JoinAcc or Exit, unless main has not
\* waited for it, the CellServer threads from Start to JoinServer.
MainWaits ==
  /\ accRun => mpc = "serving"
  /\ mpc = "serving" => accRun \/ apc = "done"
  /\ mpc \notin {"serving", "join_acc"} /\ 0 \notin failed => apc = "done"
  /\ mpc \in {"serving", "join_acc"} => ms = 1
  /\ mpc = "join" => ms \in Servers
  /\ mpc \in {"init", "bind", "listen", "start"} =>
       life < MaxLives /\ apc = "done" /\ \A s \in Servers : pc[s] = "done"
  /\ restart => mpc \in {"join_acc", "stop", "join", "asleep"} /\ life < MaxLives

\* As long as no thread has failed they run until main stops them, one after
\* the other, every live client is with one of them or with the accept thread,
\* and none is left when they are all through.
NoFailure ==
  failed = {} =>
    /\ mpc \in {"serving", "join_acc", "stop", "join", "asleep"} =>
         \A s \in Servers : /\ s < ms => pc[s] = "done"
                            /\ s > ms \/ (s = ms /\ mpc \notin {"join", "asleep"}) => isRun[s]
    /\ \A c \in Clients : Live(c) => c = acc.client \/ \E s \in Servers : Has(c, s)
    /\ apc = "join" /\ Live(acc.client) => \E s \in Servers : Has(acc.client, s)
    /\ \A s \in Servers : pc[s] = "clear_end" => \A i \in 1..Len(clientsBuff[s]) : ~Live(clientsBuff[s][i])
    /\ \A s \in Servers : pc[s] = "done" => clientsBuff[s] = <<>>
    /\ lfd # "listening" \/ mpc \notin {"serving", "join_acc", "stop", "join", "asleep"} =>
         \A c \in Clients : ~Live(c)

\* _clientCount counts those who are with a thread, but for the one it is
\* about to delete, and those who are cleared.
Goes(c, s) == pc[s] \in {"delete", "erase"} /\ clients[s][cur[s]] = c
Counts(c) == c \in cleared \/ \E s \in Servers : Has(c, s) /\ ~Goes(c, s)
Counted == {c \in Clients : Counts(c)}
CountOK == clientCount = Cardinality(Counted) - (IF apc = "join" THEN 1 ELSE 0)

IInv ==
  /\ Types /\ Sockets /\ MapLive /\ Leaving /\ Buffers /\ Disjoint /\ AccHolds /\ ClearedGone
  /\ Emptied /\ FdSets /\ Threads /\ MainWaits /\ NoFailure /\ CountOK

LEMMA Constants ==
  /\ NServers \in Nat \ {0} /\ NHandles \in Nat \ {0} /\ MaxLives \in Nat \ {0}
  /\ NoHandle \notin Handles /\ NoClient \notin Clients
  /\ IsFiniteSet(Clients) /\ IsFiniteSet(Handles) /\ 1 \in Servers
BY NServersAssumption, NHandlesAssumption, MaxLivesAssumption, NoClientAssumption,
   ClientsAssumption, FS_Interval
   DEF Handles, Servers, NoHandle

-----------------------------------------------------------------------------
(* What does not change when its variables do not. *)

LEMMA HasStays ==
  ASSUME UNCHANGED <<clients, clientsBuff>>
  PROVE  \A c, s : Has(c, s)' <=> Has(c, s)
BY DEF Has, InClients, InClientsBuff

LEMMA DataTypesStay ==
  ASSUME DataTypes, UNCHANGED <<obj, sock, clientsBuff, clients, cleared>> PROVE DataTypes'
BY DEF DataTypes

LEMMA AccTypesStay ==
  ASSUME AccTypes, UNCHANGED <<accRun, apc, acc>> PROVE AccTypes'
<1>1. accRun' \in BOOLEAN
  BY Zenon DEF AccTypes
<1> QED BY <1>1 DEF AccTypes

LEMMA ThreadTypesStay ==
  ASSUME ThreadTypes,
         UNCHANGED <<lock, clientsChange, fdBack, isRun, pc, phase, cur, merged, failed>>
  PROVE  ThreadTypes'
BY DEF ThreadTypes

LEMMA MainTypesStay ==
  ASSUME MainTypes, UNCHANGED <<lfd, mpc, ms, life, restart, credit, crashed>> PROVE MainTypes'
<1>1. restart' \in BOOLEAN /\ crashed' \in BOOLEAN /\ credit' \in BOOLEAN
  BY Zenon DEF MainTypes
<1> QED BY <1>1 DEF MainTypes

LEMMA SocketsStay == ASSUME Sockets, UNCHANGED <<obj, sock>> PROVE Sockets'
BY DEF Sockets, Live

LEMMA MapLiveStays == ASSUME MapLive, UNCHANGED <<obj, sock, clients, pc, cur>> PROVE MapLive'
BY DEF MapLive, EntryOK, Live

LEMMA LeavingStays == ASSUME Leaving, UNCHANGED <<obj, clients, clientsChange, pc, cur>> PROVE Leaving'
BY DEF Leaving

LEMMA BuffersStay ==
  ASSUME Buffers, UNCHANGED <<obj, sock, clients, clientsBuff, pc, merged>> PROVE Buffers'
BY DEF Buffers, BuffOK, Live, InClients

LEMMA DisjointStays == ASSUME Disjoint, UNCHANGED <<clients, clientsBuff>> PROVE Disjoint'
BY HasStays DEF Disjoint

LEMMA AccHoldsStays ==
  ASSUME AccHolds, UNCHANGED <<apc, acc, obj, clients, clientsBuff, cleared>> PROVE AccHolds'
BY HasStays DEF AccHolds, Live

LEMMA ClearedGoneStays ==
  ASSUME ClearedGone, UNCHANGED <<obj, clients, clientsBuff, cleared, pc>> PROVE ClearedGone'
BY HasStays DEF ClearedGone

LEMMA EmptiedStays == ASSUME Emptied, UNCHANGED <<clients, pc>> PROVE Emptied'
BY DEF Emptied

LEMMA FdSetsStay == ASSUME FdSets, UNCHANGED <<clients, clientsChange, fdBack, pc>> PROVE FdSets'
BY DEF FdSets, Watched, Keys

LEMMA ThreadsStay == ASSUME Threads, UNCHANGED <<lock, isRun, pc>> PROVE Threads'
BY DEF Threads

LEMMA MainWaitsStay ==
  ASSUME MainWaits, UNCHANGED <<accRun, apc, mpc, ms, life, restart, pc, failed>> PROVE MainWaits'
BY DEF MainWaits

LEMMA CountStays ==
  ASSUME CountOK, UNCHANGED clientCount, apc' = "join" <=> apc = "join",
         \A c \in Clients : Counts(c)' <=> Counts(c)
  PROVE  CountOK'
<1>1. Counted' = Counted
  BY DEF Counted
<1> QED BY <1>1 DEF CountOK

LEMMA CountsStays ==
  ASSUME UNCHANGED <<clients, clientsBuff, cleared, pc, cur>>
  PROVE  \A c : Counts(c)' <=> Counts(c)
<1>1. \A c, s : Goes(c, s)' <=> Goes(c, s)
  BY DEF Goes
<1> QED BY <1>1, HasStays DEF Counts

LEMMA NoFailureStays ==
  ASSUME NoFailure,
         UNCHANGED <<failed, mpc, ms, pc, isRun, obj, acc, apc, clients, clientsBuff, lfd>>
  PROVE  NoFailure'
BY HasStays DEF NoFailure, Live

-----------------------------------------------------------------------------
(* The containers. *)

LEMMA BuffTypes ==
  ASSUME Types, NEW s \in Servers
  PROVE  /\ clientsBuff[s] \in Seq(Clients) /\ Len(clientsBuff[s]) \in Nat
         /\ \A i \in 1..Len(clientsBuff[s]) : clientsBuff[s][i] \in Clients
<1>1. clientsBuff[s] \in Seq(Clients)
  BY DEF Types, DataTypes
<1> QED BY <1>1

\* Has speaks of what the properties speak of.
LEMMA HasIs ==
  ASSUME Types, NEW c \in Clients, NEW s \in Servers
  PROVE  /\ InClients(c, s) <=> c \in InMap(s)
         /\ InClientsBuff(c, s) <=> c \in InBuff(s)
<1>1. InClients(c, s) <=> c \in InMap(s)
  BY Constants DEF InClients, InMap, Keys
<1>2. DOMAIN clientsBuff[s] = 1..Len(clientsBuff[s])
  BY BuffTypes
<1>3. InClientsBuff(c, s) <=> c \in InBuff(s)
  BY <1>2 DEF InClientsBuff, InBuff
<1> QED BY <1>1, <1>3

\* Nobody has a client that has not been accepted.
LEMMA NoneHas ==
  ASSUME IInv, NEW c \in Clients, obj[c] = "none", NEW s \in Servers
  PROVE  ~Has(c, s)
<1>1. ~InClients(c, s)
  <2>1. SUFFICES ASSUME NEW h \in Handles, clients[s][h] = c PROVE FALSE
    BY DEF InClients
  <2>2. c # NoClient /\ ~Live(c)
    BY Constants DEF Live
  <2>3. pc[s] = "erase" /\ cur[s] = h
    BY <2>1, <2>2 DEF IInv, MapLive, EntryOK
  <2>4. obj[c] = "freed"
    BY <2>1, <2>3 DEF IInv, Leaving
  <2> QED BY <2>4
<1>2. ~InClientsBuff(c, s)
  BY DEF IInv, Buffers, BuffOK, InClientsBuff
<1> QED BY <1>1, <1>2 DEF Has

-----------------------------------------------------------------------------
(* The accept thread. *)

LEMMA AcceptStep ==
  ASSUME IInv, NEW c \in Clients, NEW h \in Handles, Accept(c, h)
  PROVE  IInv'
<1>1. /\ apc = "loop" /\ accRun /\ lfd = "listening" /\ obj[c] = "none" /\ ~Open(h)
      /\ obj' = [obj EXCEPT ![c] = "live"] /\ sock' = [sock EXCEPT ![c] = h]
      /\ acc' = [client |-> c, min |-> 1, next |-> 2, minLoad |-> 0, load |-> 0]
      /\ apc' = ScanFrom(2)
      /\ UNCHANGED <<clientCount, accRun, clientsBuff, lock, clients, clientsChange, fdBack, isRun,
                     pc, phase, cur, merged, lfd, mpc, ms, life, restart, credit, crashed, failed, cleared>>
  BY DEF Accept, NoScan, buffVars, mapVars, thrVars, mainVars, history
<1>2. /\ obj'[c] = "live" /\ sock'[c] = h
      /\ \A d \in Clients : d # c => obj'[d] = obj[d] /\ sock'[d] = sock[d]
  BY <1>1 DEF IInv, Types, DataTypes
<1>3. apc' \in Scanning /\ apc' # "join" /\ (apc' # "push" => 2 \in Servers)
  BY <1>1, Constants DEF ScanFrom, Scanning, Servers
<1>4. Types'
  <2>1. DataTypes'
    BY <1>1 DEF IInv, Types, DataTypes
  <2>2. AccTypes'
    <3>1. accRun' \in BOOLEAN
      BY <1>1, Zenon DEF IInv, Types, AccTypes
    <3>2. apc' \in AccLabels
      BY <1>3 DEF AccLabels, Scanning
    <3> QED BY <1>1, <3>1, <3>2, Constants DEF AccTypes
  <2>3. ThreadTypes' /\ MainTypes'
    BY <1>1, ThreadTypesStay, MainTypesStay DEF IInv, Types
  <2> QED BY <2>1, <2>2, <2>3 DEF Types
<1>5. Sockets'
  <2>1. \A d \in Clients : Live(d) => sock[d] # h
    BY <1>1 DEF Open, Live
  <2> QED BY <1>2, <2>1 DEF IInv, Sockets, Live
<1>6. \A s \in Servers : ~Has(c, s)
  BY <1>1, NoneHas
<1>7. \A s \in Servers, g \in Handles : clients[s][g] # c
  BY <1>6 DEF Has, InClients
<1>8. \A s \in Servers : \A i \in 1..Len(clientsBuff[s]) : clientsBuff[s][i] # c
  BY <1>6 DEF Has, InClientsBuff
<1>9. \A s \in Servers, g \in Handles : clients[s][g] # NoClient => clients[s][g] \in Clients
  BY DEF IInv, Types, DataTypes
<1>10. \A s \in Servers : \A i \in 1..Len(clientsBuff[s]) : clientsBuff[s][i] \in Clients
  BY BuffTypes DEF IInv
<1>11. MapLive'
  BY <1>1, <1>2, <1>7, <1>9 DEF IInv, MapLive, EntryOK, Live
<1>12. Leaving'
  BY <1>1, <1>2, <1>7, <1>9 DEF IInv, Leaving
<1>13. Buffers'
  BY <1>1, <1>2, <1>8, <1>10 DEF IInv, Buffers, BuffOK, Live, InClients
<1>14. Disjoint' /\ Emptied' /\ FdSets' /\ Threads'
  BY <1>1, DisjointStays, EmptiedStays, FdSetsStay, ThreadsStay DEF IInv
<1>15. AccHolds'
  <2>1. c \notin cleared
    BY <1>1 DEF IInv, ClearedGone
  <2> QED BY <1>1, <1>2, <1>3, <1>6, <2>1, HasStays DEF AccHolds, Live
<1>16. ClearedGone'
  BY <1>1, <1>2, HasStays DEF IInv, ClearedGone, Types, DataTypes
<1>17. MainWaits'
  BY <1>1, <1>3 DEF IInv, MainWaits, Scanning
<1>18. NoFailure'
  <2>1. acc.client \notin Clients
    BY <1>1, Constants DEF IInv, AccHolds, Scanning
  <2>2. mpc \in {"serving", "join_acc"}
    BY <1>1 DEF IInv, MainWaits
  <2>3. \A d \in Clients : Live(d)' <=> d = c \/ Live(d)
    BY <1>2 DEF Live
  <2>4. \A d \in Clients : Live(d)' => d = acc'.client \/ Live(d)
    BY <1>1, <2>3
  <2> QED BY <1>1, <1>3, <1>8, <1>10, <2>1, <2>2, <2>3, <2>4, HasStays DEF IInv, NoFailure
<1>19. CountOK'
  BY <1>1, <1>3, CountsStays, CountStays DEF IInv
<1> QED BY <1>4, <1>5, <1>11, <1>12, <1>13, <1>14, <1>15, <1>16, <1>17, <1>18, <1>19 DEF IInv

\* The scan over the CellServers.
LEMMA ScanStep == ASSUME IInv, ReadMin \/ ReadNext PROVE IInv'
<1>1. /\ UNCHANGED <<obj, sock, clientCount, accRun, clientsBuff, lock, clients, clientsChange, fdBack,
                     isRun, pc, phase, cur, merged, lfd, mpc, ms, life, restart, credit, crashed, failed,
                     cleared>>
      /\ apc \in Scanning \ {"push"}
  BY DEF ReadMin, ReadNext, objVars, buffVars, mapVars, thrVars, mainVars, history, Scanning
<1>2. acc.next \in Servers /\ acc.min \in Servers /\ acc.next \in Nat /\ acc.minLoad \in Nat /\ acc.load \in Nat
  BY <1>1 DEF IInv, AccHolds, Types, AccTypes
<1>3. ASSUME NEW s \in Servers
      PROVE  Cardinality(Keys(s)) \in Nat /\ Len(clientsBuff[s]) \in Nat
  <2>1. Cardinality(Keys(s)) \in Nat
    BY Constants, FS_Subset, FS_CardinalityType DEF Keys
  <2> QED BY <2>1, BuffTypes DEF IInv
<1>4. /\ apc' \in Scanning /\ (apc' # "push" => acc'.next \in Servers) /\ acc'.client = acc.client
      /\ acc' \in [client : Clients \union {NoClient}, min : Servers, next : Nat,
                   minLoad : Nat, load : Nat]
  <2>1. acc \in [client : Clients \union {NoClient}, min : Servers, next : Nat,
                 minLoad : Nat, load : Nat]
    BY DEF IInv, Types, AccTypes
  <2>2. CASE apc = "min_clients"
    <3>1. apc' = "min_buff" /\ acc' = [acc EXCEPT !.minLoad = Cardinality(Keys(acc.min))]
      BY <2>2 DEF ReadMin, ReadNext
    <3> QED BY <1>2, <1>3, <2>1, <3>1 DEF Scanning
  <2>3. CASE apc = "min_buff"
    <3>1. apc' = "next_clients" /\ acc' = [acc EXCEPT !.minLoad = @ + Len(clientsBuff[acc.min])]
      BY <2>3 DEF ReadMin, ReadNext
    <3>2. acc.minLoad + Len(clientsBuff[acc.min]) \in Nat
      BY <1>2, <1>3
    <3> QED BY <1>2, <2>1, <3>1, <3>2 DEF Scanning
  <2>4. CASE apc = "next_clients"
    <3>1. apc' = "next_buff" /\ acc' = [acc EXCEPT !.load = Cardinality(Keys(acc.next))]
      BY <2>4 DEF ReadMin, ReadNext
    <3> QED BY <1>2, <1>3, <2>1, <3>1 DEF Scanning
  <2>5. CASE apc = "next_buff"
    <3> DEFINE min == IF acc.minLoad > acc.load + Len(clientsBuff[acc.next]) THEN acc.next ELSE acc.min
    <3>1. /\ apc' = ScanFrom(acc.next + 1)
          /\ acc' = [acc EXCEPT !.min = min, !.next = @ + 1, !.minLoad = 0, !.load = 0]
      BY <2>5 DEF ReadMin, ReadNext
    <3>2. min \in Servers
      BY <1>2
    <3> HIDE DEF min
    <3>3. acc.next + 1 \in Nat /\ apc' \in Scanning /\ (apc' # "push" => acc.next + 1 \in Servers)
      BY <1>2, <3>1, Constants DEF ScanFrom, Servers, Scanning
    <3> QED BY <2>1, <3>1, <3>2, <3>3
  <2> QED BY <1>1, <2>2, <2>3, <2>4, <2>5 DEF Scanning
<1>5. Types'
  <2>1. AccTypes'
    <3>1. accRun' \in BOOLEAN
      BY <1>1, Zenon DEF IInv, Types, AccTypes
    <3>2. apc' \in AccLabels
      BY <1>4 DEF AccLabels, Scanning
    <3> QED BY <1>4, <3>1, <3>2 DEF AccTypes
  <2> QED BY <1>1, <2>1, DataTypesStay, ThreadTypesStay, MainTypesStay DEF IInv, Types
<1>6. Sockets' /\ MapLive' /\ Leaving' /\ Buffers' /\ Disjoint' /\ ClearedGone'
  BY <1>1, SocketsStay, MapLiveStays, LeavingStays, BuffersStay, DisjointStays, ClearedGoneStays
     DEF IInv
<1>7. Emptied' /\ FdSets' /\ Threads'
  BY <1>1, EmptiedStays, FdSetsStay, ThreadsStay DEF IInv
<1>8. AccHolds'
  BY <1>1, <1>4, HasStays DEF IInv, AccHolds, Live, Scanning
<1>9. MainWaits'
  BY <1>1, <1>4 DEF IInv, MainWaits, Scanning
<1>10. NoFailure'
  <2>1. \A d : Live(d)' <=> Live(d)
    BY <1>1 DEF Live
  <2>2. apc' # "join"
    BY <1>4 DEF Scanning
  <2> QED BY <1>1, <1>4, <2>1, <2>2, HasStays DEF IInv, NoFailure
<1>11. CountOK'
  <2>1. apc' = "join" <=> apc = "join"
    BY <1>1, <1>4 DEF Scanning
  <2> QED BY <1>1, <2>1, CountsStays, CountStays DEF IInv
<1> QED BY <1>5, <1>6, <1>7, <1>8, <1>9, <1>10, <1>11 DEF IInv

LEMMA CountedFinite == ASSUME Types PROVE IsFiniteSet(Counted) /\ Cardinality(Counted) \in Nat
BY Constants, FS_Subset, FS_CardinalityType DEF Counted

\* While the accept thread serves and no thread has failed, all threads run.
LEMMA AllRun ==
  ASSUME IInv, failed = {}, apc # "done", NEW s \in Servers
  PROVE  pc[s] \notin {"clear"} \union Clearing
<1>1. mpc \in {"serving", "join_acc"} /\ ms = 1
  BY DEF IInv, MainWaits
<1>2. s > ms \/ (s = ms /\ mpc # "join")
  BY <1>1, Constants DEF Servers
<1>3. isRun[s]
  BY <1>1, <1>2 DEF IInv, NoFailure
<1> QED BY <1>3 DEF IInv, Threads

LEMMA AddClientsStep == ASSUME IInv, AddClients PROVE IInv'
<1> DEFINE c == acc.client
           m == acc.min
           n == Len(clientsBuff[m])
<1>1. /\ apc = "push" /\ ~lock[m] /\ apc' = "join"
      /\ clientsBuff' = [clientsBuff EXCEPT ![m] = Append(@, c)]
      /\ UNCHANGED <<obj, sock, clientCount, accRun, acc, lock, clients, clientsChange, fdBack,
                     isRun, pc, phase, cur, merged, lfd, mpc, ms, life, restart, credit, crashed, failed,
                     cleared>>
  BY DEF AddClients, objVars, mapVars, thrVars, mainVars, history
<1>2. c \in Clients /\ Live(c) /\ c \notin cleared /\ (\A s \in Servers : ~Has(c, s))
  BY <1>1 DEF IInv, AccHolds, Scanning
<1>3. m \in Servers
  BY DEF IInv, Types, AccTypes
<1> HIDE DEF c, m
<1>4. /\ clientsBuff'[m] = Append(clientsBuff[m], c)
      /\ \A s \in Servers : s # m => clientsBuff'[s] = clientsBuff[s]
  BY <1>1, <1>3 DEF IInv, Types, DataTypes
<1>5. /\ clientsBuff'[m] \in Seq(Clients) /\ Len(clientsBuff'[m]) = n + 1 /\ n \in Nat
      /\ \A i \in 1..n : clientsBuff'[m][i] = clientsBuff[m][i]
      /\ clientsBuff'[m][n + 1] = c
      /\ clientsBuff[m] \in Seq(Clients)
  BY <1>2, <1>3, <1>4, BuffTypes DEF IInv
<1> HIDE DEF n
<1>6. \A d, s : s \in Servers => (Has(d, s)' <=> Has(d, s) \/ (d = c /\ s = m))
  <2>1. ASSUME NEW d, NEW s \in Servers PROVE Has(d, s)' <=> Has(d, s) \/ (d = c /\ s = m)
    <3>1. InClients(d, s)' <=> InClients(d, s)
      BY <1>1 DEF InClients
    <3>2. CASE s = m
      <4>1. /\ InClientsBuff(d, s)' <=> \E i \in 1..(n + 1) : clientsBuff'[m][i] = d
            /\ InClientsBuff(d, s) <=> \E i \in 1..n : clientsBuff[m][i] = d
        BY <1>5, <3>2 DEF InClientsBuff, n
      <4>2. InClientsBuff(d, s)' <=> InClientsBuff(d, s) \/ d = c
        <5>1. /\ n + 1 \in 1..(n + 1) /\ \A i \in 1..(n + 1) : i \in 1..n \/ i = n + 1
              /\ \A i \in 1..n : i \in 1..(n + 1)
          BY <1>5
        <5>2. (\E i \in 1..(n + 1) : clientsBuff'[m][i] = d) <=>
                (\E i \in 1..n : clientsBuff[m][i] = d) \/ d = c
          <6>1. ASSUME NEW i \in 1..(n + 1), clientsBuff'[m][i] = d
                PROVE  (\E j \in 1..n : clientsBuff[m][j] = d) \/ d = c
            BY <1>5, <5>1, <6>1
          <6>2. ASSUME NEW i \in 1..n, clientsBuff[m][i] = d
                PROVE  \E j \in 1..(n + 1) : clientsBuff'[m][j] = d
            BY <1>5, <5>1, <6>2
          <6> QED BY <1>5, <5>1, <6>1, <6>2
        <5> QED BY <4>1, <5>2
      <4> QED BY <3>1, <3>2, <4>2 DEF Has
    <3>3. CASE s # m
      <4>1. InClientsBuff(d, s)' <=> InClientsBuff(d, s)
        BY <1>4, <3>3 DEF InClientsBuff
      <4> QED BY <3>1, <3>3, <4>1 DEF Has
    <3> QED BY <3>2, <3>3
  <2> QED BY <2>1
<1>7. Types'
  <2>1. clientsBuff' \in [Servers -> Seq(Clients)]
    BY <1>1, <1>2, <1>3, <1>5 DEF IInv, Types, DataTypes
  <2>2. DataTypes'
    BY <1>1, <2>1 DEF IInv, Types, DataTypes
  <2>3. AccTypes'
    <3>1. accRun' \in BOOLEAN
      BY <1>1, Zenon DEF IInv, Types, AccTypes
    <3> QED BY <1>1, <3>1 DEF IInv, Types, AccTypes, AccLabels
  <2> QED BY <1>1, <2>2, <2>3, ThreadTypesStay, MainTypesStay DEF IInv, Types
<1>8. Sockets' /\ MapLive' /\ Leaving'
  BY <1>1, SocketsStay, MapLiveStays, LeavingStays DEF IInv
<1>9. Emptied' /\ FdSets' /\ Threads'
  BY <1>1, EmptiedStays, FdSetsStay, ThreadsStay DEF IInv
<1>10. Buffers'
  <2> SUFFICES ASSUME NEW s \in Servers PROVE BuffOK(s)'
    BY DEF Buffers
  <2>1. CASE s # m
    <3>1. clientsBuff'[s] = clientsBuff[s] /\ BuffOK(s)
      BY <1>4, <2>1 DEF IInv, Buffers
    <3> QED BY <1>1, <3>1 DEF BuffOK, Live, InClients
  <2>2. CASE s = m
    <3>1. pc[m] # "merging"
      BY <1>1, <1>3, <2>2 DEF IInv, Threads, m
    <3>2. \A i \in 1..n : clientsBuff[m][i] # c
      BY <1>2, <1>3 DEF Has, InClientsBuff, n
    <3>3. \A i, j \in 1..n : clientsBuff[m][i] = clientsBuff[m][j] => i = j
      BY <1>3 DEF IInv, Buffers, BuffOK, n
    <3>4. ASSUME NEW i \in 1..(n + 1), NEW j \in 1..(n + 1), clientsBuff'[m][i] = clientsBuff'[m][j]
          PROVE  i = j
      <4>1. (i \in 1..n \/ i = n + 1) /\ (j \in 1..n \/ j = n + 1)
        BY <1>5
      <4> QED BY <1>5, <3>2, <3>3, <3>4, <4>1
    <3>5. \A i \in 1..n : /\ obj[clientsBuff[m][i]] # "none"
                          /\ pc[m] # "clear_end" => obj[clientsBuff[m][i]] = "live"
                          /\ \A h \in Handles : clients[m][h] # clientsBuff[m][i]
      BY <1>3, <3>1 DEF IInv, Buffers, BuffOK, n, Live, InClients
    <3>6. obj[c] = "live" /\ \A h \in Handles : clients[m][h] # c
      BY <1>2, <1>3 DEF Live, Has, InClients
    <3>7. \A i \in 1..(n + 1) : /\ obj[clientsBuff'[m][i]] # "none"
                                /\ pc[m] # "clear_end" => obj[clientsBuff'[m][i]] = "live"
                                /\ \A h \in Handles : clients[m][h] # clientsBuff'[m][i]
      BY <1>5, <3>5, <3>6
    <3>8. Len(clientsBuff'[m]) = n + 1 /\ pc' = pc /\ obj' = obj /\ clients' = clients
      BY <1>1, <1>5
    <3> QED BY <2>2, <3>1, <3>4, <3>7, <3>8 DEF BuffOK, Live, InClients
  <2> QED BY <2>1, <2>2
<1>11. Disjoint'
  BY <1>2, <1>6 DEF IInv, Disjoint
<1>12. AccHolds'
  BY <1>1, <1>2 DEF AccHolds, Scanning, c
<1>13. ClearedGone'
  BY <1>1, <1>2, <1>6 DEF IInv, ClearedGone
<1>14. MainWaits'
  BY <1>1 DEF IInv, MainWaits
<1>15. NoFailure'
  <2>1. \A d : Live(d)' <=> Live(d)
    BY <1>1 DEF Live
  <2>2. SUFFICES ASSUME failed = {} PROVE NoFailure'
    BY <1>1 DEF NoFailure
  <2>3. \A s \in Servers : pc[s] \notin {"clear"} \union Clearing
    BY <1>1, <2>2, AllRun
  <2>4. \A s \in Servers : pc'[s] # "clear_end" /\ pc'[s] # "done"
    BY <1>1, <2>3 DEF Clearing
  <2>5. \A s \in Servers : s < ms => pc[s] = "done"
    BY <1>1, <1>2, <2>2 DEF IInv, NoFailure, MainWaits
  <2> QED BY <1>1, <1>2, <1>3, <1>6, <2>1, <2>2, <2>4 DEF IInv, NoFailure, c
<1>16. CountOK'
  <2>1. \A d, s : Goes(d, s)' <=> Goes(d, s)
    BY <1>1 DEF Goes
  <2>2. ~Goes(c, m)
    <3>1. \A h \in Handles : clients[m][h] # c
      BY <1>2, <1>3 DEF Has, InClients
    <3> QED BY <1>3, <3>1 DEF IInv, Leaving, Goes
  <2>3. \A d \in Clients : Counts(d)' <=> Counts(d) \/ d = c
    BY <1>1, <1>3, <1>6, <2>1, <2>2 DEF Counts
  <2>4. ~Counts(c)
    BY <1>2 DEF Counts
  <2>5. Counted' = Counted \union {c} /\ c \notin Counted
    BY <1>2, <2>3, <2>4 DEF Counted
  <2>6. Cardinality(Counted') = Cardinality(Counted) + 1 /\ Cardinality(Counted) \in Nat
    BY <2>5, CountedFinite, FS_AddElement DEF IInv
  <2> QED BY <1>1, <2>6 DEF IInv, CountOK
<1> QED BY <1>7, <1>8, <1>9, <1>10, <1>11, <1>12, <1>13, <1>14, <1>15, <1>16 DEF IInv

LEMMA OnNetJoinStep == ASSUME IInv, OnNetJoin PROVE IInv'
<1>1. /\ apc = "join" /\ apc' = "loop" /\ clientCount' = clientCount + 1
      /\ acc' = [client |-> NoClient, min |-> 1, next |-> 2, minLoad |-> 0, load |-> 0]
      /\ UNCHANGED <<obj, sock, accRun, clientsBuff, lock, clients, clientsChange, fdBack,
                     isRun, pc, phase, cur, merged, lfd, mpc, ms, life, restart, credit, crashed, failed,
                     cleared>>
  BY DEF OnNetJoin, NoScan, buffVars, mapVars, thrVars, mainVars, history
<1>2. Types'
  <2>1. AccTypes'
    <3>1. accRun' \in BOOLEAN
      BY <1>1, Zenon DEF IInv, Types, AccTypes
    <3> QED BY <1>1, <3>1, Constants DEF AccTypes, AccLabels
  <2> QED BY <1>1, <2>1, DataTypesStay, ThreadTypesStay, MainTypesStay DEF IInv, Types
<1>3. Sockets' /\ MapLive' /\ Leaving' /\ Buffers' /\ Disjoint' /\ ClearedGone'
  BY <1>1, SocketsStay, MapLiveStays, LeavingStays, BuffersStay, DisjointStays, ClearedGoneStays
     DEF IInv
<1>4. Emptied' /\ FdSets' /\ Threads'
  BY <1>1, EmptiedStays, FdSetsStay, ThreadsStay DEF IInv
<1>5. AccHolds'
  BY <1>1 DEF AccHolds, Scanning
<1>6. MainWaits'
  BY <1>1 DEF IInv, MainWaits
<1>7. NoFailure'
  <2>1. \A d : Live(d)' <=> Live(d)
    BY <1>1 DEF Live
  <2>2. failed = {} => \A d \in Clients : Live(d) => \E s \in Servers : Has(d, s)
    BY <1>1 DEF IInv, NoFailure
  <2> QED BY <1>1, <2>1, <2>2, HasStays DEF IInv, NoFailure
<1>8. CountOK'
  <2>1. Counted' = Counted
    BY <1>1, CountsStays DEF Counted
  <2>2. Cardinality(Counted) \in Nat
    BY CountedFinite DEF IInv
  <2> QED BY <1>1, <2>1, <2>2 DEF IInv, CountOK
<1> QED BY <1>2, <1>3, <1>4, <1>5, <1>6, <1>7, <1>8 DEF IInv

\* Exit leaves a credit, the other two leave none.
LEMMA AccLeavesStep == ASSUME IInv, AccStops \/ AccSelectFails \/ AccExit PROVE IInv'
<1>1. /\ apc \in {"loop", "exit"} /\ apc' \in {"exit", "done"} /\ (apc' = "done" => ~accRun')
      /\ (accRun' = accRun /\ accRun) \/ (accRun' = FALSE /\ apc' = "done") \/ (accRun' = accRun /\ apc' = "done")
      /\ credit' = credit \/ credit' = TRUE
      /\ UNCHANGED <<obj, sock, clientCount, acc, clientsBuff, lock, clients, clientsChange, fdBack,
                     isRun, pc, phase, cur, merged, lfd, mpc, ms, life, restart, crashed, failed,
                     cleared>>
  BY DEF AccStops, AccSelectFails, AccExit, objVars, buffVars, mapVars, thrVars, mainVars, history
<1>2. Types'
  <2>1. accRun' \in BOOLEAN
    <3>1. accRun \in BOOLEAN /\ (accRun' = accRun \/ accRun' = FALSE)
      BY <1>1 DEF IInv, Types, AccTypes
    <3> QED BY <3>1, Zenon
  <2>2. AccTypes'
    BY <1>1, <2>1 DEF IInv, Types, AccTypes, AccLabels
  <2>3. credit' \in BOOLEAN /\ restart' \in BOOLEAN /\ crashed' \in BOOLEAN
    <3>1. credit \in BOOLEAN /\ restart \in BOOLEAN /\ crashed \in BOOLEAN
      BY Zenon DEF IInv, Types, MainTypes
    <3> QED BY <1>1, <3>1, Zenon
  <2>4. MainTypes'
    BY <1>1, <2>3 DEF IInv, Types, MainTypes
  <2> QED BY <1>1, <2>2, <2>4, DataTypesStay, ThreadTypesStay DEF IInv, Types
<1>3. Sockets' /\ MapLive' /\ Leaving' /\ Buffers' /\ Disjoint' /\ ClearedGone'
  BY <1>1, SocketsStay, MapLiveStays, LeavingStays, BuffersStay, DisjointStays, ClearedGoneStays
     DEF IInv
<1>4. Emptied' /\ FdSets' /\ Threads'
  BY <1>1, EmptiedStays, FdSetsStay, ThreadsStay DEF IInv
<1>5. AccHolds'
  BY <1>1 DEF IInv, AccHolds, Scanning
<1>6. MainWaits'
  BY <1>1 DEF IInv, MainWaits
<1>7. NoFailure'
  <2>1. \A d : Live(d)' <=> Live(d)
    BY <1>1 DEF Live
  <2> QED BY <1>1, <2>1, HasStays DEF IInv, NoFailure
<1>8. CountOK'
  BY <1>1, CountsStays, CountStays DEF IInv
<1> QED BY <1>2, <1>3, <1>4, <1>5, <1>6, <1>7, <1>8 DEF IInv

LEMMA AcceptThreadStep == ASSUME IInv, AcceptThread PROVE IInv'
BY AcceptStep, ScanStep, AddClientsStep, OnNetJoinStep, AccLeavesStep DEF AcceptThread

-----------------------------------------------------------------------------
(* The CellServer threads. *)

\* Main and the accept thread, and the threads other than s, stay where they are.
LEMMA OthersWait ==
  ASSUME IInv, NEW s \in Servers, pc[s] # "done", NEW l \in ServerLabels, pc' = [pc EXCEPT ![s] = l],
         UNCHANGED <<accRun, apc, acc, lfd, mpc, ms, life, restart>>, failed \subseteq failed'
  PROVE  /\ AccTypes' /\ MainWaits'
         /\ pc' \in [Servers -> ServerLabels] /\ pc'[s] = l
         /\ \A t \in Servers : t # s => pc'[t] = pc[t]
         /\ mpc \notin {"init", "bind", "listen", "start"}
<1>1. AccTypes'
  BY AccTypesStay DEF IInv, Types
<1>2. /\ pc' \in [Servers -> ServerLabels] /\ pc'[s] = l
      /\ \A t \in Servers : t # s => pc'[t] = pc[t]
  BY DEF IInv, Types, ThreadTypes
<1>3. mpc \notin {"init", "bind", "listen", "start"}
  BY DEF IInv, MainWaits
<1>4. MainWaits'
  BY <1>3 DEF IInv, MainWaits
<1> QED BY <1>1, <1>2, <1>3, <1>4

Quiet == {"top", "merge", "poll", "visit", "exit", "clear"}

\* A step that touches no client.
LEMMA QuietStep ==
  ASSUME IInv, NEW s \in Servers, pc[s] \in Quiet,
         NEW l \in Quiet \union {"merging"}, pc' = [pc EXCEPT ![s] = l],
         UNCHANGED <<obj, sock, clientCount, accRun, apc, acc, clientsBuff, clients, cur,
                     lfd, mpc, ms, life, restart, credit, crashed, cleared>>,
         l = "merging" => merged'[s] = 0,
         \A t \in Servers : t # s => merged'[t] = merged[t] /\ clientsChange'[t] = clientsChange[t],
         failed \subseteq failed', failed' = {} => isRun' = isRun,
         ThreadTypes', FdSets', Threads'
  PROVE  IInv'
<1>1. /\ pc'[s] = l /\ \A t \in Servers : t # s => pc'[t] = pc[t]
      /\ AccTypes' /\ MainWaits' /\ mpc \notin {"init", "bind", "listen", "start"}
  BY OthersWait DEF ServerLabels, Quiet, Clearing
<1>2. Types'
  BY <1>1, DataTypesStay, MainTypesStay DEF IInv, Types
<1>3. Sockets' /\ Disjoint' /\ AccHolds'
  BY SocketsStay, DisjointStays, AccHoldsStays DEF IInv
<1>4. MapLive' /\ Leaving' /\ Emptied'
  BY <1>1 DEF IInv, MapLive, EntryOK, Leaving, Emptied, Live, Quiet, Clearing
<1>5. Buffers'
  <2> SUFFICES ASSUME NEW t \in Servers PROVE BuffOK(t)'
    BY DEF Buffers
  <2>1. BuffOK(t) /\ Len(clientsBuff[t]) \in Nat
    BY BuffTypes DEF IInv, Buffers
  <2>2. CASE t # s
    BY <1>1, <2>1, <2>2 DEF BuffOK, Live, InClients
  <2>3. CASE t = s
    <3>1. \A i \in 1..Len(clientsBuff[s]) :
            /\ obj[clientsBuff[s][i]] = "live"
            /\ \A h \in Handles : clients[s][h] # clientsBuff[s][i]
      BY <2>1, <2>3 DEF BuffOK, Live, InClients, Quiet
    <3>2. \A i \in 1..Len(clientsBuff[s]) : ~(pc'[s] = "merging" /\ i <= merged'[s])
      BY <1>1, <2>1, <2>3
    <3>3. pc'[s] = "merging" => merged'[s] <= Len(clientsBuff[s])
      BY <1>1, <2>1, <2>3
    <3> QED BY <2>1, <2>3, <3>1, <3>2, <3>3 DEF BuffOK, Live, InClients
  <2> QED BY <2>2, <2>3
<1>6. ClearedGone'
  BY <1>1, HasStays DEF IInv, ClearedGone, Quiet
<1>7. NoFailure'
  <2>1. SUFFICES ASSUME failed = {}, isRun' = isRun PROVE NoFailure'
    BY DEF NoFailure
  <2>2. \A d : Live(d)' <=> Live(d)
    BY DEF Live
  <2>3. pc'[s] \notin {"clear_end", "done"} /\ pc[s] # "done"
    BY <1>1 DEF Quiet
  <2> QED BY <1>1, <2>1, <2>2, <2>3, HasStays DEF IInv, NoFailure
<1>8. CountOK'
  <2>1. \A d : \A t \in Servers : Goes(d, t)' <=> Goes(d, t)
    BY <1>1 DEF Goes, Quiet
  <2>2. \A d \in Clients : Counts(d)' <=> Counts(d)
    BY <2>1, HasStays DEF Counts
  <2> QED BY <2>2, CountStays DEF IInv
<1> QED BY <1>1, <1>2, <1>3, <1>4, <1>5, <1>6, <1>7, <1>8 DEF IInv

LEMMA TopStep == ASSUME IInv, NEW s \in Servers, Top(s) PROVE IInv'
<1> DEFINE l == IF ~isRun[s] THEN "clear" ELSE IF NewClients(s) THEN "merge" ELSE "poll"
<1>1. /\ pc[s] = "top" /\ pc' = [pc EXCEPT ![s] = l]
      /\ UNCHANGED <<obj, sock, clientCount, accRun, apc, acc, clientsBuff, lock, clients,
                     clientsChange, fdBack, isRun, phase, cur, merged, lfd, mpc, ms, life, restart, credit,
                     crashed, failed, cleared>>
  BY DEF Top, At, MoveTo, objVars, accVars, buffVars, mapVars, mainVars, history
<1>2. l \in {"clear", "merge", "poll"} /\ (l = "clear" <=> ~isRun[s])
  OBVIOUS
<1> HIDE DEF l
<1>3. /\ pc' \in [Servers -> ServerLabels] /\ pc'[s] = l
      /\ \A t \in Servers : t # s => pc'[t] = pc[t]
  BY <1>1, <1>2, OthersWait DEF ServerLabels
<1>4. ThreadTypes'
  BY <1>1, <1>3 DEF IInv, Types, ThreadTypes
<1>5. FdSets'
  <2>1. \A t \in Servers : Watched(t)' = Watched(t)
    BY <1>1 DEF Watched, Keys
  <2> QED BY <1>1, <1>3, <2>1 DEF IInv, FdSets
<1>6. Threads'
  BY <1>1, <1>2, <1>3 DEF IInv, Threads, Clearing
<1> QED BY <1>1, <1>2, <1>4, <1>5, <1>6, QuietStep DEF Quiet

LEMMA MergeStep == ASSUME IInv, NEW s \in Servers, Merge(s) PROVE IInv'
<1>1. /\ pc[s] = "merge" /\ pc' = [pc EXCEPT ![s] = "merging"]
      /\ lock' = [lock EXCEPT ![s] = TRUE] /\ merged' = [merged EXCEPT ![s] = 0]
      /\ UNCHANGED <<obj, sock, clientCount, accRun, apc, acc, clientsBuff, clients,
                     clientsChange, fdBack, isRun, phase, cur, lfd, mpc, ms, life, restart, credit,
                     crashed, failed, cleared>>
  BY DEF Merge, At, MoveTo, objVars, accVars, mapVars, mainVars, history
<1>2. /\ pc' \in [Servers -> ServerLabels] /\ pc'[s] = "merging"
      /\ \A t \in Servers : t # s => pc'[t] = pc[t]
  BY <1>1, OthersWait DEF ServerLabels
<1>3. merged'[s] = 0 /\ (\A t \in Servers : t # s => merged'[t] = merged[t])
      /\ merged' \in [Servers -> Nat]
  BY <1>1 DEF IInv, Types, ThreadTypes
<1>4. lock' \in [Servers -> BOOLEAN] /\ lock'[s] /\ \A t \in Servers : t # s => lock'[t] = lock[t]
  BY <1>1 DEF IInv, Types, ThreadTypes
<1>5. ThreadTypes'
  BY <1>1, <1>2, <1>3, <1>4 DEF IInv, Types, ThreadTypes
<1>6. FdSets'
  <2>1. \A t \in Servers : Watched(t)' = Watched(t)
    BY <1>1 DEF Watched, Keys
  <2> QED BY <1>1, <1>2, <2>1 DEF IInv, FdSets
<1>7. Threads'
  BY <1>1, <1>2, <1>4 DEF IInv, Threads, Clearing
<1> QED BY <1>1, <1>3, <1>5, <1>6, <1>7, QuietStep DEF Quiet

LEMMA IdleStep == ASSUME IInv, NEW s \in Servers, Idle(s) \/ SweepEnds(s) PROVE IInv'
<1>1. PICK l \in {"top", "visit"} :
        /\ pc[s] \in {"poll", "visit"} /\ pc' = [pc EXCEPT ![s] = l]
        /\ phase' \in [Servers -> {"read", "write", "time"}]
        /\ UNCHANGED <<obj, sock, clientCount, accRun, apc, acc, clientsBuff, lock, clients,
                       clientsChange, fdBack, isRun, cur, merged, lfd, mpc, ms, life, restart, credit,
                       crashed, failed, cleared>>
  <2>1. UNCHANGED <<obj, sock, clientCount, accRun, apc, acc, clientsBuff, lock, clients,
                    clientsChange, fdBack, isRun, cur, merged, lfd, mpc, ms, life, restart, credit,
                    crashed, failed, cleared>>
    BY DEF Idle, SweepEnds, objVars, accVars, buffVars, mapVars, mainVars, history
  <2>2. phase' \in [Servers -> {"read", "write", "time"}]
    BY DEF Idle, SweepEnds, IInv, Types, ThreadTypes
  <2>3. \E l \in {"top", "visit"} : pc[s] \in {"poll", "visit"} /\ pc' = [pc EXCEPT ![s] = l]
    <3>1. CASE Idle(s)
      BY <3>1 DEF Idle, At, MoveTo
    <3>2. CASE SweepEnds(s) /\ phase[s] = "time"
      BY <3>2 DEF SweepEnds, At, MoveTo
    <3>3. CASE SweepEnds(s) /\ phase[s] # "time"
      BY <3>3 DEF SweepEnds, At, MoveTo
    <3> QED BY <3>1, <3>2, <3>3
  <2> QED BY <2>1, <2>2, <2>3
<1>2. /\ pc' \in [Servers -> ServerLabels] /\ pc'[s] = l
      /\ \A t \in Servers : t # s => pc'[t] = pc[t]
  BY <1>1, OthersWait DEF ServerLabels
<1>3. ThreadTypes'
  BY <1>1, <1>2 DEF IInv, Types, ThreadTypes
<1>4. FdSets'
  <2>1. \A t \in Servers : Watched(t)' = Watched(t)
    BY <1>1 DEF Watched, Keys
  <2> QED BY <1>1, <1>2, <2>1 DEF IInv, FdSets
<1>5. Threads'
  BY <1>1, <1>2 DEF IInv, Threads, Clearing
<1> QED BY <1>1, <1>3, <1>4, <1>5, QuietStep DEF Quiet

\* The backup is built anew, or is what it would be.
LEMMA SelectStep == ASSUME IInv, NEW s \in Servers, Select(s) \/ SelectFails(s) PROVE IInv'
<1>1. PICK l \in {"visit", "exit"} :
        /\ pc[s] = "poll" /\ pc' = [pc EXCEPT ![s] = l]
        /\ fdBack' = [fdBack EXCEPT ![s] = FdSet(s)]
        /\ clientsChange' = [clientsChange EXCEPT ![s] = FALSE]
        /\ phase' \in [Servers -> {"read", "write", "time"}]
        /\ UNCHANGED <<obj, sock, clientCount, accRun, apc, acc, clientsBuff, lock, clients,
                       isRun, cur, merged, lfd, mpc, ms, life, restart, credit, crashed, failed, cleared>>
  <2>1. /\ UNCHANGED <<obj, sock, clientCount, accRun, apc, acc, clientsBuff, lock, clients,
                       isRun, cur, merged, lfd, mpc, ms, life, restart, credit, crashed, failed, cleared>>
        /\ PrepareFdSet(s)
    BY DEF Select, SelectFails, objVars, accVars, buffVars, mainVars, history
  <2>2. phase' \in [Servers -> {"read", "write", "time"}]
    BY DEF Select, SelectFails, IInv, Types, ThreadTypes
  <2>3. \E l \in {"visit", "exit"} : pc' = [pc EXCEPT ![s] = l]
    BY DEF Select, SelectFails, MoveTo
  <2> QED BY <2>1, <2>2, <2>3 DEF PrepareFdSet, At
<1>2. /\ pc' \in [Servers -> ServerLabels] /\ pc'[s] = l
      /\ \A t \in Servers : t # s => pc'[t] = pc[t]
  BY <1>1, OthersWait DEF ServerLabels
<1>3. FdSet(s) \in SUBSET Handles /\ FdSet(s) = Watched(s)
  <2>1. Watched(s) \subseteq Handles
    BY DEF Watched, Keys
  <2> QED BY <1>1, <2>1 DEF FdSet, IInv, FdSets
<1>4. /\ fdBack' \in [Servers -> SUBSET Handles] /\ fdBack'[s] = Watched(s)
      /\ \A t \in Servers : t # s => fdBack'[t] = fdBack[t]
  BY <1>1, <1>3 DEF IInv, Types, ThreadTypes
<1>5. /\ clientsChange' \in [Servers -> BOOLEAN]
      /\ \A t \in Servers : t # s => clientsChange'[t] = clientsChange[t]
  BY <1>1 DEF IInv, Types, ThreadTypes
<1>6. ThreadTypes'
  BY <1>1, <1>2, <1>4, <1>5 DEF IInv, Types, ThreadTypes
<1>7. FdSets'
  <2>1. \A t \in Servers : Watched(t)' = Watched(t)
    BY <1>1 DEF Watched, Keys
  <2> QED BY <1>2, <1>4, <1>5, <2>1 DEF IInv, FdSets
<1>8. Threads'
  BY <1>1, <1>2 DEF IInv, Threads, Clearing
<1> QED BY <1>1, <1>5, <1>6, <1>7, <1>8, QuietStep DEF Quiet

LEMMA ExitStep == ASSUME IInv, NEW s \in Servers, Exit(s) PROVE IInv'
<1>1. /\ pc[s] = "exit" /\ pc' = [pc EXCEPT ![s] = "clear"]
      /\ isRun' = [isRun EXCEPT ![s] = FALSE] /\ failed' = failed \union {s}
      /\ UNCHANGED <<obj, sock, clientCount, accRun, apc, acc, clientsBuff, lock, clients,
                     clientsChange, fdBack, phase, cur, merged, lfd, mpc, ms, life, restart, credit,
                     crashed, cleared>>
  BY DEF Exit, At, MoveTo, Stop, objVars, accVars, buffVars, mapVars, mainVars
<1>2. /\ pc' \in [Servers -> ServerLabels] /\ pc'[s] = "clear"
      /\ \A t \in Servers : t # s => pc'[t] = pc[t]
  BY <1>1, OthersWait DEF ServerLabels
<1>3. /\ isRun' \in [Servers -> BOOLEAN] /\ ~isRun'[s]
      /\ \A t \in Servers : t # s => isRun'[t] = isRun[t]
  BY <1>1 DEF IInv, Types, ThreadTypes
<1>4. ThreadTypes'
  BY <1>1, <1>2, <1>3 DEF IInv, Types, ThreadTypes
<1>5. FdSets'
  <2>1. \A t \in Servers : Watched(t)' = Watched(t)
    BY <1>1 DEF Watched, Keys
  <2> QED BY <1>1, <1>2, <2>1 DEF IInv, FdSets
<1>6. Threads'
  BY <1>1, <1>2, <1>3 DEF IInv, Threads
<1>7. failed' # {}
  BY <1>1
<1> QED BY <1>1, <1>4, <1>5, <1>6, <1>7, QuietStep DEF Quiet

\* The client that is moved was not in the map, nor was another under its socket.
LEMMA MergeOneStep == ASSUME IInv, NEW s \in Servers, MergeOne(s) PROVE IInv'
<1> DEFINE n == merged[s] + 1
           c == clientsBuff[s][n]
           h == sock[c]
<1>1. /\ pc[s] = "merging" /\ merged[s] < Len(clientsBuff[s])
      /\ clients' = [clients EXCEPT ![s][h] = c]
      /\ merged' = [merged EXCEPT ![s] = @ + 1]
      /\ UNCHANGED <<obj, sock, clientCount, accRun, apc, acc, clientsBuff, lock, clientsChange,
                     fdBack, isRun, pc, phase, cur, lfd, mpc, ms, life, restart, credit, crashed, failed,
                     cleared>>
  BY DEF MergeOne, At, objVars, accVars, buffVars, mainVars, history
<1>2. /\ merged[s] \in Nat /\ n \in Nat /\ n \in 1..Len(clientsBuff[s]) /\ Len(clientsBuff[s]) \in Nat
      /\ c \in Clients
  BY <1>1, BuffTypes DEF IInv, Types, ThreadTypes
<1>3. Live(c) /\ h \in Handles /\ c # NoClient
  BY <1>1, <1>2, Constants DEF IInv, Buffers, BuffOK, Sockets
<1>4. ~InClients(c, s)
  BY <1>1, <1>2 DEF IInv, Buffers, BuffOK
<1> HIDE DEF c, h
<1>5. /\ clients'[s][h] = c
      /\ \A g \in Handles : g # h => clients'[s][g] = clients[s][g]
      /\ \A t \in Servers : t # s => clients'[t] = clients[t]
      /\ clients' \in [Servers -> [Handles -> Clients \union {NoClient}]]
  BY <1>1, <1>2, <1>3 DEF IInv, Types, DataTypes
<1>6. clients[s][h] = NoClient
  <2>1. SUFFICES ASSUME clients[s][h] # NoClient PROVE FALSE
    OBVIOUS
  <2>2. clients[s][h] \in Clients /\ Live(clients[s][h]) /\ sock[clients[s][h]] = h
    BY <1>1, <1>3, <2>1 DEF IInv, MapLive, EntryOK, Types, DataTypes
  <2>3. clients[s][h] = c
    BY <1>2, <1>3, <2>2 DEF IInv, Sockets, h
  <2> QED BY <1>3, <1>4, <2>3 DEF InClients
<1>7. /\ merged'[s] = n /\ \A t \in Servers : t # s => merged'[t] = merged[t]
      /\ merged' \in [Servers -> Nat]
  BY <1>1, <1>2 DEF IInv, Types, ThreadTypes
<1>8. \A d \in Clients : \A t \in Servers : Has(d, t)' <=> Has(d, t)
  <2> SUFFICES ASSUME NEW d \in Clients, NEW t \in Servers PROVE Has(d, t)' <=> Has(d, t)
    OBVIOUS
  <2>1. InClientsBuff(d, t)' <=> InClientsBuff(d, t)
    BY <1>1 DEF InClientsBuff
  <2>2. InClientsBuff(c, s)
    BY <1>2 DEF InClientsBuff, c
  <2>3. CASE t # s
    BY <1>5, <2>1, <2>3 DEF Has, InClients
  <2>4. CASE t = s
    <3>1. InClients(d, s)' <=> InClients(d, s) \/ d = c
      BY <1>3, <1>5, <1>6, Constants DEF InClients
    <3> QED BY <2>1, <2>2, <2>4, <3>1 DEF Has
  <2> QED BY <2>3, <2>4
<1>9. Types'
  <2>1. DataTypes'
    BY <1>1, <1>5 DEF IInv, Types, DataTypes
  <2>2. ThreadTypes'
    BY <1>1, <1>7 DEF IInv, Types, ThreadTypes
  <2> QED BY <1>1, <2>1, <2>2, AccTypesStay, MainTypesStay DEF IInv, Types
<1>10. Sockets' /\ MainWaits' /\ Threads'
  BY <1>1, SocketsStay, MainWaitsStay, ThreadsStay DEF IInv
<1>11. MapLive'
  <2>1. obj'[c] = "live" /\ sock'[c] = h
    BY <1>1, <1>3 DEF Live, h
  <2> SUFFICES ASSUME NEW t \in Servers, NEW g \in Handles PROVE EntryOK(t, g)'
    BY DEF MapLive
  <2>2. CASE t = s /\ g = h
    BY <1>5, <2>1, <2>2 DEF EntryOK, Live
  <2>3. CASE ~(t = s /\ g = h)
    BY <1>1, <1>5, <2>3 DEF IInv, MapLive, EntryOK, Live
  <2> QED BY <2>2, <2>3
<1>12. Leaving'
  BY <1>1, <1>5 DEF IInv, Leaving
<1>13. Buffers'
  <2> SUFFICES ASSUME NEW t \in Servers PROVE BuffOK(t)'
    BY DEF Buffers
  <2>1. BuffOK(t)
    BY DEF IInv, Buffers
  <2>2. CASE t # s
    BY <1>1, <1>5, <1>7, <2>1, <2>2 DEF BuffOK, Live, InClients
  <2>3. CASE t = s
    <3>1. ASSUME NEW i \in 1..Len(clientsBuff[s]), i <= n
          PROVE  clients'[s][sock[clientsBuff[s][i]]] = clientsBuff[s][i]
      <4>1. CASE i = n
        BY <1>5, <4>1 DEF c, h
      <4>2. CASE i # n
        <5>1. i <= merged[s]
          BY <1>2, <3>1, <4>2
        <5>2. clients[s][sock[clientsBuff[s][i]]] = clientsBuff[s][i] /\ Live(clientsBuff[s][i])
          BY <1>1, <2>1, <2>3, <5>1 DEF BuffOK
        <5>3. clientsBuff[s][i] \in Clients /\ sock[clientsBuff[s][i]] \in Handles
          BY <5>2, BuffTypes DEF IInv, Sockets
        <5>4. sock[clientsBuff[s][i]] # h
          <6>1. clientsBuff[s][i] # NoClient
            BY <5>3, Constants
          <6> QED BY <1>6, <5>2, <6>1
        <5> QED BY <1>5, <5>2, <5>3, <5>4
      <4> QED BY <4>1, <4>2
    <3>2. ASSUME NEW i \in 1..Len(clientsBuff[s]), ~(i <= n)
          PROVE  ~InClients(clientsBuff[s][i], s)'
      <4>1. ~(i <= merged[s]) /\ i # n
        BY <1>2, <3>2
      <4>2. ~InClients(clientsBuff[s][i], s) /\ clientsBuff[s][i] # c
        BY <1>2, <2>1, <2>3, <4>1 DEF BuffOK, c
      <4> QED BY <1>1, <1>5, <4>2 DEF InClients
    <3>3. /\ \A i, j \in 1..Len(clientsBuff[s]) : clientsBuff[s][i] = clientsBuff[s][j] => i = j
          /\ \A i \in 1..Len(clientsBuff[s]) : Live(clientsBuff[s][i])
      BY <1>1, <2>1, <2>3 DEF BuffOK
    <3>4. n <= Len(clientsBuff[s])
      BY <1>2
    <3>5. \A i \in 1..Len(clientsBuff[s]) : ~InClients(clientsBuff[s][i], s)' =>
            \A g \in Handles : clients'[s][g] # clientsBuff[s][i]
      BY <1>1 DEF InClients
    <3> HIDE DEF n
    <3> QED BY <1>1, <1>7, <2>3, <3>1, <3>2, <3>3, <3>4, <3>5 DEF BuffOK, Live, InClients
  <2> QED BY <2>2, <2>3
<1>14. Disjoint'
  BY <1>8 DEF IInv, Disjoint
<1>15. AccHolds'
  BY <1>1, <1>8 DEF IInv, AccHolds, Live
<1>16. ClearedGone'
  <2>1. cleared \subseteq Clients
    BY DEF IInv, Types, DataTypes
  <2> QED BY <1>1, <1>8, <2>1 DEF IInv, ClearedGone
<1>17. Emptied'
  BY <1>1, <1>5 DEF IInv, Emptied, Clearing
<1>18. FdSets'
  <2>1. \A t \in Servers : t # s => Watched(t)' = Watched(t)
    BY <1>5 DEF Watched, Keys
  <2> QED BY <1>1, <2>1 DEF IInv, FdSets
<1>19. NoFailure'
  <2>1. \A d : Live(d)' <=> Live(d)
    BY <1>1 DEF Live
  <2>2. apc = "join" => acc.client \in Clients
    BY DEF IInv, AccHolds
  <2> QED BY <1>1, <1>8, <2>1, <2>2 DEF IInv, NoFailure
<1>20. CountOK'
  <2>1. \A d \in Clients : \A t \in Servers : Goes(d, t)' <=> Goes(d, t)
    BY <1>1, <1>5 DEF Goes
  <2>2. \A d \in Clients : Counts(d)' <=> Counts(d)
    BY <1>1, <1>8, <2>1 DEF Counts
  <2> QED BY <1>1, <2>2, CountStays DEF IInv
<1> QED BY <1>9, <1>10, <1>11, <1>12, <1>13, <1>14, <1>15, <1>16, <1>17, <1>18, <1>19, <1>20 DEF IInv

LEMMA MergeEndStep == ASSUME IInv, NEW s \in Servers, MergeEnd(s) PROVE IInv'
<1>1. /\ pc[s] = "merging" /\ pc' = [pc EXCEPT ![s] = "poll"] /\ merged[s] = Len(clientsBuff[s])
      /\ clientsBuff' = [clientsBuff EXCEPT ![s] = <<>>]
      /\ clientsChange' = [clientsChange EXCEPT ![s] = TRUE]
      /\ lock' = [lock EXCEPT ![s] = FALSE] /\ merged' = [merged EXCEPT ![s] = 0]
      /\ UNCHANGED <<obj, sock, clientCount, accRun, apc, acc, clients, fdBack, isRun, phase, cur,
                     lfd, mpc, ms, life, restart, credit, crashed, failed, cleared>>
  BY DEF MergeEnd, MergedAll, NoteChange, At, MoveTo, objVars, accVars, mainVars, history
<1>2. /\ pc' \in [Servers -> ServerLabels] /\ pc'[s] = "poll"
      /\ \A t \in Servers : t # s => pc'[t] = pc[t]
      /\ AccTypes' /\ MainWaits'
  BY <1>1, OthersWait DEF ServerLabels
<1>3. /\ clientsBuff'[s] = <<>> /\ Len(clientsBuff'[s]) = 0
      /\ \A t \in Servers : t # s => clientsBuff'[t] = clientsBuff[t]
      /\ clientsBuff' \in [Servers -> Seq(Clients)]
  BY <1>1 DEF IInv, Types, DataTypes
<1>4. /\ lock' \in [Servers -> BOOLEAN] /\ ~lock'[s] /\ (\A t \in Servers : t # s => lock'[t] = lock[t])
      /\ merged' \in [Servers -> Nat] /\ (\A t \in Servers : t # s => merged'[t] = merged[t])
      /\ clientsChange' \in [Servers -> BOOLEAN] /\ clientsChange'[s]
      /\ \A t \in Servers : t # s => clientsChange'[t] = clientsChange[t]
  BY <1>1 DEF IInv, Types, ThreadTypes
<1>5. \A d : \A t \in Servers : Has(d, t)' <=> Has(d, t)
  <2> SUFFICES ASSUME NEW d, NEW t \in Servers PROVE Has(d, t)' <=> Has(d, t)
    OBVIOUS
  <2>1. InClients(d, t)' <=> InClients(d, t)
    BY <1>1 DEF InClients
  <2>2. CASE t # s
    BY <1>3, <2>1, <2>2 DEF Has, InClientsBuff
  <2>3. CASE t = s
    <3>1. ~InClientsBuff(d, s)'
      BY <1>3 DEF InClientsBuff
    <3>2. ASSUME NEW i \in 1..Len(clientsBuff[s]) PROVE InClients(clientsBuff[s][i], s)
      <4>1. /\ Len(clientsBuff[s]) \in Nat /\ i <= merged[s] /\ clientsBuff[s][i] \in Clients
        BY <1>1, BuffTypes DEF IInv
      <4>2. clients[s][sock[clientsBuff[s][i]]] = clientsBuff[s][i] /\ Live(clientsBuff[s][i])
        BY <1>1, <4>1 DEF IInv, Buffers, BuffOK
      <4>3. sock[clientsBuff[s][i]] \in Handles
        BY <4>1, <4>2 DEF IInv, Sockets
      <4> QED BY <4>2, <4>3 DEF InClients
    <3>3. InClientsBuff(d, s) => InClients(d, s)
      BY <3>2 DEF InClientsBuff
    <3> QED BY <2>1, <2>3, <3>1, <3>3 DEF Has
  <2> QED BY <2>2, <2>3
<1>6. Types'
  <2>1. DataTypes'
    BY <1>1, <1>3 DEF IInv, Types, DataTypes
  <2>2. ThreadTypes'
    BY <1>1, <1>2, <1>4 DEF IInv, Types, ThreadTypes
  <2> QED BY <1>1, <1>2, <2>1, <2>2, MainTypesStay DEF IInv, Types
<1>7. Sockets' /\ Threads'
  <2>1. Threads'
    BY <1>1, <1>2, <1>4 DEF IInv, Threads, Clearing
  <2> QED BY <1>1, <2>1, SocketsStay DEF IInv
<1>8. MapLive' /\ Leaving' /\ Emptied'
  BY <1>1, <1>2, <1>4 DEF IInv, MapLive, EntryOK, Leaving, Emptied, Live, Clearing
<1>9. Buffers'
  <2> SUFFICES ASSUME NEW t \in Servers PROVE BuffOK(t)'
    BY DEF Buffers
  <2>1. CASE t # s
    <3>1. BuffOK(t)
      BY DEF IInv, Buffers
    <3> QED BY <1>1, <1>2, <1>3, <1>4, <2>1, <3>1 DEF BuffOK, Live, InClients
  <2>2. CASE t = s
    BY <1>2, <1>3, <2>2 DEF BuffOK
  <2> QED BY <2>1, <2>2
<1>10. Disjoint' /\ AccHolds' /\ ClearedGone'
  BY <1>1, <1>2, <1>5 DEF IInv, Disjoint, AccHolds, ClearedGone, Live
<1>11. FdSets'
  <2>1. \A t \in Servers : Watched(t)' = Watched(t)
    BY <1>1 DEF Watched, Keys
  <2> QED BY <1>1, <1>2, <1>4, <2>1 DEF IInv, FdSets
<1>12. NoFailure'
  <2>1. \A d : Live(d)' <=> Live(d)
    BY <1>1 DEF Live
  <2> QED BY <1>1, <1>2, <1>3, <1>5, <2>1 DEF IInv, NoFailure
<1>13. CountOK'
  <2>1. \A d : \A t \in Servers : Goes(d, t)' <=> Goes(d, t)
    BY <1>1, <1>2 DEF Goes
  <2>2. \A d \in Clients : Counts(d)' <=> Counts(d)
    BY <1>1, <1>5, <2>1 DEF Counts
  <2> QED BY <1>1, <2>2, CountStays DEF IInv
<1> QED BY <1>2, <1>6, <1>7, <1>8, <1>9, <1>10, <1>11, <1>12, <1>13 DEF IInv

\* OnNetLeave: the client does not count any more, though it is still there.
LEMMA ClientLeavesStep ==
  ASSUME IInv, NEW s \in Servers, NEW h \in Handles, ClientLeaves(s, h)
  PROVE  IInv'
<1> DEFINE c == clients[s][h]
<1>1. /\ pc[s] = "visit" /\ pc' = [pc EXCEPT ![s] = "delete"] /\ h \in Keys(s)
      /\ clientCount' = clientCount - 1
      /\ clientsChange' = [clientsChange EXCEPT ![s] = TRUE]
      /\ cur' = [cur EXCEPT ![s] = h]
      /\ UNCHANGED <<obj, sock, accRun, apc, acc, clientsBuff, lock, clients, fdBack, isRun, phase,
                     merged, lfd, mpc, ms, life, restart, credit, crashed, failed, cleared>>
  BY DEF ClientLeaves, OnNetLeave, NoteChange, At, MoveTo, accVars, buffVars, mainVars, history
<1>2. /\ pc' \in [Servers -> ServerLabels] /\ pc'[s] = "delete"
      /\ \A t \in Servers : t # s => pc'[t] = pc[t]
      /\ AccTypes' /\ MainWaits'
  BY <1>1, OthersWait DEF ServerLabels
<1>3. c \in Clients /\ c # NoClient
  BY <1>1, Constants DEF Keys, IInv, Types, DataTypes
<1> HIDE DEF c
<1>4. /\ clientsChange' \in [Servers -> BOOLEAN] /\ clientsChange'[s]
      /\ \A t \in Servers : t # s => clientsChange'[t] = clientsChange[t]
      /\ cur' \in [Servers -> Handles \union {NoHandle}] /\ cur'[s] = h
      /\ \A t \in Servers : t # s => cur'[t] = cur[t]
  BY <1>1 DEF IInv, Types, ThreadTypes
<1>5. Types'
  <2>1. ThreadTypes'
    BY <1>1, <1>2, <1>4 DEF IInv, Types, ThreadTypes
  <2> QED BY <1>1, <1>2, <2>1, DataTypesStay, MainTypesStay DEF IInv, Types
<1>6. Sockets' /\ Disjoint' /\ AccHolds'
  BY <1>1, SocketsStay, DisjointStays, AccHoldsStays DEF IInv
<1>7. MapLive'
  BY <1>1, <1>2, <1>4 DEF IInv, MapLive, EntryOK, Live
<1>8. Leaving'
  BY <1>1, <1>2, <1>3, <1>4 DEF IInv, Leaving, c
<1>9. Buffers'
  <2> SUFFICES ASSUME NEW t \in Servers PROVE BuffOK(t)'
    BY DEF Buffers
  <2>1. BuffOK(t)
    BY DEF IInv, Buffers
  <2> QED BY <1>1, <1>2, <2>1 DEF BuffOK, Live, InClients
<1>10. ClearedGone'
  BY <1>1, <1>2, HasStays DEF IInv, ClearedGone
<1>11. Emptied' /\ Threads'
  BY <1>1, <1>2 DEF IInv, Emptied, Threads, Clearing
<1>12. FdSets'
  <2>1. \A t \in Servers : Watched(t)' = Watched(t)
    BY <1>1 DEF Watched, Keys
  <2> QED BY <1>1, <1>2, <1>4, <2>1 DEF IInv, FdSets
<1>13. NoFailure'
  <2>1. \A d : Live(d)' <=> Live(d)
    BY <1>1 DEF Live
  <2> QED BY <1>1, <1>2, <2>1, HasStays DEF IInv, NoFailure
<1>14. CountOK'
  <2>1. Has(c, s) /\ \A t \in Servers : Has(c, t) => t = s
    <3>1. Has(c, s)
      BY DEF Has, InClients, c
    <3> QED BY <1>3, <3>1 DEF IInv, Disjoint
  <2>2. c \notin cleared
    BY <1>1, <2>1 DEF IInv, ClearedGone
  <2>3. \A d : \A t \in Servers : Goes(d, t)' <=> Goes(d, t) \/ (t = s /\ d = c)
    BY <1>1, <1>2, <1>4 DEF Goes, c
  <2>4. ~Goes(c, s)
    BY <1>1 DEF Goes
  <2>5. Counts(c)
    BY <2>1, <2>4 DEF Counts
  <2>6. \A d, t : Has(d, t)' <=> Has(d, t)
    BY <1>1, HasStays
  <2>7. \A d \in Clients : Counts(d)' <=> Counts(d) /\ d # c
    BY <1>1, <2>1, <2>2, <2>3, <2>6 DEF Counts
  <2>8. Counted' = Counted \ {c} /\ c \in Counted
    BY <1>3, <2>5, <2>7 DEF Counted
  <2>9. Cardinality(Counted') = Cardinality(Counted) - 1 /\ Cardinality(Counted) \in Nat
    BY <2>8, CountedFinite, FS_RemoveElement DEF IInv
  <2> QED BY <1>1, <2>9 DEF IInv, CountOK
<1> QED BY <1>2, <1>5, <1>6, <1>7, <1>8, <1>9, <1>10, <1>11, <1>12, <1>13, <1>14 DEF IInv

\* The socket is free again, but nobody else had the client.
LEMMA DeleteClientStep == ASSUME IInv, NEW s \in Servers, DeleteClient(s) PROVE IInv'
<1> DEFINE h == cur[s]
           c == clients[s][h]
<1>1. /\ pc[s] = "delete" /\ pc' = [pc EXCEPT ![s] = "erase"]
      /\ obj' = [obj EXCEPT ![c] = "freed"] /\ sock' = [sock EXCEPT ![c] = NoHandle]
      /\ UNCHANGED <<clientCount, accRun, apc, acc, clientsBuff, lock, clients, clientsChange, fdBack,
                     isRun, phase, cur, merged, lfd, mpc, ms, life, restart, credit, crashed, failed, cleared>>
  BY DEF DeleteClient, At, MoveTo, accVars, buffVars, mapVars, mainVars, history
<1>2. /\ pc' \in [Servers -> ServerLabels] /\ pc'[s] = "erase"
      /\ \A t \in Servers : t # s => pc'[t] = pc[t]
      /\ AccTypes' /\ MainWaits'
  BY <1>1, OthersWait DEF ServerLabels
<1>3. h \in Handles /\ c # NoClient /\ c \in Clients /\ clientsChange[s]
  BY <1>1 DEF IInv, Leaving, Types, DataTypes
<1>4. Live(c) /\ sock[c] = h
  BY <1>1, <1>3 DEF IInv, MapLive, EntryOK
<1>5. Has(c, s) /\ \A t \in Servers : Has(c, t) => t = s
  <2>1. Has(c, s)
    BY <1>3 DEF Has, InClients
  <2> QED BY <1>3, <2>1 DEF IInv, Disjoint
<1>6. \A t \in Servers, g \in Handles : clients[t][g] = c => t = s /\ g = h
  <2> SUFFICES ASSUME NEW t \in Servers, NEW g \in Handles, clients[t][g] = c PROVE t = s /\ g = h
    OBVIOUS
  <2>1. t = s
    BY <1>5 DEF Has, InClients
  <2>2. EntryOK(t, g)
    BY DEF IInv, MapLive
  <2> QED BY <1>1, <1>3, <1>4, <2>1, <2>2 DEF EntryOK
<1>7. \A t \in Servers : \A i \in 1..Len(clientsBuff[t]) : clientsBuff[t][i] # c
  <2> SUFFICES ASSUME NEW t \in Servers, NEW i \in 1..Len(clientsBuff[t]), clientsBuff[t][i] = c
               PROVE  FALSE
    OBVIOUS
  <2>1. t = s
    BY <1>5 DEF Has, InClientsBuff
  <2>2. BuffOK(s) /\ InClients(c, s)
    BY <1>3 DEF IInv, Buffers, InClients
  <2> QED BY <1>1, <2>1, <2>2 DEF BuffOK
<1> HIDE DEF c, h
<1>8. /\ obj'[c] = "freed" /\ sock'[c] = NoHandle
      /\ \A d \in Clients : d # c => obj'[d] = obj[d] /\ sock'[d] = sock[d]
      /\ obj' \in [Clients -> {"none", "live", "freed"}]
      /\ sock' \in [Clients -> Handles \union {NoHandle}]
  BY <1>1, <1>3 DEF IInv, Types, DataTypes
<1>9. \A d \in Clients : Live(d)' <=> Live(d) /\ d # c
  BY <1>4, <1>8 DEF Live
<1>10. \A t \in Servers, g \in Handles : clients[t][g] # NoClient => clients[t][g] \in Clients
  BY DEF IInv, Types, DataTypes
<1>11. \A t \in Servers : \A i \in 1..Len(clientsBuff[t]) : clientsBuff[t][i] \in Clients
  BY BuffTypes DEF IInv
<1>12. Types'
  <2>1. DataTypes'
    BY <1>1, <1>8 DEF IInv, Types, DataTypes
  <2>2. ThreadTypes'
    BY <1>1, <1>2 DEF IInv, Types, ThreadTypes
  <2> QED BY <1>1, <1>2, <2>1, <2>2, MainTypesStay DEF IInv, Types
<1>13. Sockets'
  BY <1>8, <1>9 DEF IInv, Sockets
<1>14. MapLive'
  <2> SUFFICES ASSUME NEW t \in Servers, NEW g \in Handles PROVE EntryOK(t, g)'
    BY DEF MapLive
  <2>1. EntryOK(t, g)
    BY DEF IInv, MapLive
  <2>2. CASE t = s /\ g = h
    BY <1>1, <1>2, <2>2 DEF EntryOK, h
  <2>3. CASE clients[t][g] # c
    BY <1>1, <1>2, <1>8, <1>10, <2>1, <2>3 DEF EntryOK, Live
  <2> QED BY <1>6, <2>2, <2>3
<1>15. Leaving'
  <2> SUFFICES ASSUME NEW t \in Servers, pc'[t] \in {"delete", "erase"}
               PROVE  /\ cur[t] \in Handles /\ clients[t][cur[t]] # NoClient
                      /\ clientsChange[t]
                      /\ pc'[t] = "erase" => obj'[clients[t][cur[t]]] = "freed"
    BY <1>1 DEF Leaving
  <2>1. CASE t = s
    BY <1>3, <1>8, <2>1 DEF c, h
  <2>2. CASE t # s
    <3>1. /\ cur[t] \in Handles /\ clients[t][cur[t]] # NoClient /\ clientsChange[t]
          /\ pc[t] = "erase" => obj[clients[t][cur[t]]] = "freed"
      BY <1>2, <2>2 DEF IInv, Leaving
    <3> QED BY <1>2, <1>6, <1>8, <1>10, <2>2, <3>1
  <2> QED BY <2>1, <2>2
<1>16. Buffers'
  <2> SUFFICES ASSUME NEW t \in Servers PROVE BuffOK(t)'
    BY DEF Buffers
  <2>1. BuffOK(t)
    BY DEF IInv, Buffers
  <2>2. \A i \in 1..Len(clientsBuff[t]) :
          /\ obj'[clientsBuff[t][i]] = obj[clientsBuff[t][i]]
          /\ sock'[clientsBuff[t][i]] = sock[clientsBuff[t][i]]
    BY <1>7, <1>8, <1>11
  <2> QED BY <1>1, <1>2, <2>1, <2>2 DEF BuffOK, Live, InClients
<1>17. Disjoint'
  BY <1>1, DisjointStays DEF IInv
<1>18. AccHolds'
  BY <1>1, <1>5, <1>9, HasStays DEF IInv, AccHolds, Scanning
<1>19. ClearedGone'
  <2>1. cleared \subseteq Clients
    BY DEF IInv, Types, DataTypes
  <2> QED BY <1>1, <1>2, <1>8, <2>1, HasStays DEF IInv, ClearedGone
<1>20. Emptied' /\ Threads'
  BY <1>1, <1>2 DEF IInv, Emptied, Threads, Clearing
<1>21. FdSets'
  <2>1. \A t \in Servers : Watched(t)' = Watched(t)
    BY <1>1 DEF Watched, Keys
  <2> QED BY <1>1, <1>2, <2>1 DEF IInv, FdSets
<1>22. NoFailure'
  <2>1. apc = "join" => acc.client \in Clients
    BY DEF IInv, AccHolds
  <2>2. \A t \in Servers : \A i \in 1..Len(clientsBuff[t]) :
          obj'[clientsBuff[t][i]] = "live" => obj[clientsBuff[t][i]] = "live"
    BY <1>8, <1>11
  <2>3. \A d \in Clients : obj'[d] = "live" => obj[d] = "live"
    BY <1>8
  <2> QED BY <1>1, <1>2, <2>1, <2>2, <2>3, HasStays DEF IInv, NoFailure, Live
<1>23. CountOK'
  <2>1. \A d : \A t \in Servers : Goes(d, t)' <=> Goes(d, t)
    BY <1>1, <1>2 DEF Goes
  <2>2. \A d \in Clients : Counts(d)' <=> Counts(d)
    BY <1>1, <2>1, HasStays DEF Counts
  <2> QED BY <1>1, <2>2, CountStays DEF IInv
<1> QED BY <1>2, <1>12, <1>13, <1>14, <1>15, <1>16, <1>17, <1>18, <1>19, <1>20, <1>21, <1>22, <1>23
        DEF IInv

LEMMA EraseClientStep == ASSUME IInv, NEW s \in Servers, EraseClient(s) PROVE IInv'
<1> DEFINE h == cur[s]
           c == clients[s][h]
<1>1. /\ pc[s] = "erase" /\ pc' = [pc EXCEPT ![s] = "visit"]
      /\ clients' = [clients EXCEPT ![s][h] = NoClient]
      /\ cur' = [cur EXCEPT ![s] = NoHandle]
      /\ crashed' \in {FALSE, phase[s] = "time"}
      /\ UNCHANGED <<obj, sock, clientCount, accRun, apc, acc, clientsBuff, lock, clientsChange, fdBack,
                     isRun, phase, merged, lfd, mpc, ms, life, restart, credit, failed, cleared>>
  BY DEF EraseClient, Erase, At, MoveTo, objVars, accVars, buffVars, mainVars
<1>2. /\ pc' \in [Servers -> ServerLabels] /\ pc'[s] = "visit"
      /\ \A t \in Servers : t # s => pc'[t] = pc[t]
      /\ AccTypes' /\ MainWaits'
  BY <1>1, OthersWait DEF ServerLabels
<1>3. h \in Handles /\ c # NoClient /\ c \in Clients /\ clientsChange[s] /\ ~Live(c)
  BY <1>1 DEF IInv, Leaving, Types, DataTypes, Live
<1>4. \A g \in Handles : clients[s][g] = c => g = h
  <2> SUFFICES ASSUME NEW g \in Handles, clients[s][g] = c PROVE g = h
    OBVIOUS
  <2>1. EntryOK(s, g)
    BY DEF IInv, MapLive
  <2> QED BY <1>3, <2>1 DEF EntryOK
<1>5. ~InClientsBuff(c, s)
  BY <1>1, <1>3 DEF IInv, Buffers, BuffOK, InClientsBuff
<1> HIDE DEF c, h
<1>6. /\ clients'[s][h] = NoClient
      /\ \A g \in Handles : g # h => clients'[s][g] = clients[s][g]
      /\ \A t \in Servers : t # s => clients'[t] = clients[t]
      /\ clients' \in [Servers -> [Handles -> Clients \union {NoClient}]]
      /\ clients[s][h] = c
  BY <1>1, <1>3 DEF IInv, Types, DataTypes, c
<1>7. /\ cur' \in [Servers -> Handles \union {NoHandle}]
      /\ \A t \in Servers : t # s => cur'[t] = cur[t]
  BY <1>1 DEF IInv, Types, ThreadTypes
<1>8. \A d \in Clients : \A t \in Servers : Has(d, t)' <=> Has(d, t) /\ ~(d = c /\ t = s)
  <2> SUFFICES ASSUME NEW d \in Clients, NEW t \in Servers
               PROVE  Has(d, t)' <=> Has(d, t) /\ ~(d = c /\ t = s)
    OBVIOUS
  <2>1. InClientsBuff(d, t)' <=> InClientsBuff(d, t)
    BY <1>1 DEF InClientsBuff
  <2>2. CASE t # s
    BY <1>6, <2>1, <2>2 DEF Has, InClients
  <2>3. CASE t = s
    <3>1. InClients(d, s)' <=> InClients(d, s) /\ d # c
      BY <1>3, <1>4, <1>6, Constants DEF InClients
    <3> QED BY <1>5, <2>1, <2>3, <3>1 DEF Has
  <2> QED BY <2>2, <2>3
<1>9. Types'
  <2>1. DataTypes'
    BY <1>1, <1>6 DEF IInv, Types, DataTypes
  <2>2. ThreadTypes'
    BY <1>1, <1>2, <1>7 DEF IInv, Types, ThreadTypes
  <2>3. MainTypes'
    <3>1. restart' \in BOOLEAN /\ credit' \in BOOLEAN
      BY <1>1, Zenon DEF IInv, Types, MainTypes
    <3>2. crashed' \in BOOLEAN
      BY <1>1, Zenon
    <3> QED BY <1>1, <3>1, <3>2 DEF IInv, Types, MainTypes
  <2> QED BY <1>2, <2>1, <2>2, <2>3 DEF Types
<1>10. Sockets'
  BY <1>1, SocketsStay DEF IInv
<1>11. MapLive'
  <2> SUFFICES ASSUME NEW t \in Servers, NEW g \in Handles PROVE EntryOK(t, g)'
    BY DEF MapLive
  <2>1. EntryOK(t, g)
    BY DEF IInv, MapLive
  <2>2. CASE t = s /\ g = h
    BY <1>6, <2>2 DEF EntryOK
  <2>3. CASE t = s /\ g # h
    BY <1>1, <1>6, <2>1, <2>3 DEF EntryOK, Live, h
  <2>4. CASE t # s
    BY <1>1, <1>2, <1>6, <1>7, <2>1, <2>4 DEF EntryOK, Live
  <2> QED BY <2>2, <2>3, <2>4
<1>12. Leaving'
  BY <1>1, <1>2, <1>6, <1>7 DEF IInv, Leaving
<1>13. Buffers'
  <2> SUFFICES ASSUME NEW t \in Servers PROVE BuffOK(t)'
    BY DEF Buffers
  <2>1. BuffOK(t)
    BY DEF IInv, Buffers
  <2>2. CASE t # s
    BY <1>1, <1>2, <1>6, <2>1, <2>2 DEF BuffOK, Live, InClients
  <2>3. CASE t = s
    <3>1. \A i \in 1..Len(clientsBuff[s]) :
            \A g \in Handles : clients'[s][g] # clientsBuff[s][i]
      <4>1. \A i \in 1..Len(clientsBuff[s]) : clientsBuff[s][i] # NoClient
        BY BuffTypes, Constants DEF IInv
      <4>2. \A i \in 1..Len(clientsBuff[s]) :
              \A g \in Handles : clients[s][g] # clientsBuff[s][i]
        BY <1>1, <2>1, <2>3 DEF BuffOK, InClients
      <4> QED BY <1>6, <4>1, <4>2
    <3>2. /\ \A i, j \in 1..Len(clientsBuff[s]) : clientsBuff[s][i] = clientsBuff[s][j] => i = j
          /\ \A i \in 1..Len(clientsBuff[s]) : obj[clientsBuff[s][i]] = "live"
      BY <1>1, <2>1, <2>3 DEF BuffOK, Live
    <3> QED BY <1>1, <1>2, <2>3, <3>1, <3>2 DEF BuffOK, Live, InClients
  <2> QED BY <2>2, <2>3
<1>14. Disjoint'
  BY <1>8 DEF IInv, Disjoint
<1>15. AccHolds'
  BY <1>1, <1>8 DEF IInv, AccHolds, Live, Scanning
<1>16. ClearedGone'
  <2>1. cleared \subseteq Clients
    BY DEF IInv, Types, DataTypes
  <2> QED BY <1>1, <1>2, <1>8, <2>1 DEF IInv, ClearedGone
<1>17. Emptied' /\ Threads'
  BY <1>1, <1>2, <1>6 DEF IInv, Emptied, Threads, Clearing
<1>18. FdSets'
  <2>1. \A t \in Servers : t # s => Watched(t)' = Watched(t)
    BY <1>6 DEF Watched, Keys
  <2> QED BY <1>1, <1>2, <1>3, <2>1 DEF IInv, FdSets
<1>19. NoFailure'
  <2>1. \A d : Live(d)' <=> Live(d)
    BY <1>1 DEF Live
  <2>2. apc = "join" => acc.client \in Clients
    BY DEF IInv, AccHolds
  <2>3. \A d \in Clients : \A t \in Servers : Live(d) /\ Has(d, t) => Has(d, t)'
    BY <1>3, <1>8
  <2> QED BY <1>1, <1>2, <2>1, <2>2, <2>3 DEF IInv, NoFailure
<1>20. CountOK'
  <2>1. \A d : \A t \in Servers : Goes(d, t)' <=> Goes(d, t) /\ ~(t = s /\ d = c)
    BY <1>1, <1>2, <1>6, <1>7 DEF Goes, h
  <2>2. Goes(c, s)
    BY <1>1, <1>6 DEF Goes, h
  <2>3. \A d \in Clients : Counts(d)' <=> Counts(d)
    BY <1>1, <1>8, <2>1, <2>2 DEF Counts
  <2> QED BY <1>1, <2>3, CountStays DEF IInv
<1> QED BY <1>2, <1>9, <1>10, <1>11, <1>12, <1>13, <1>14, <1>15, <1>16, <1>17, <1>18, <1>19, <1>20
        DEF IInv

LEMMA FreeIs ==
  ASSUME Types, NEW cs \in SUBSET Clients, Free(cs)
  PROVE  /\ obj' \in [Clients -> {"none", "live", "freed"}]
         /\ sock' \in [Clients -> Handles \union {NoHandle}]
         /\ cleared' = cleared \union cs /\ cleared' \in SUBSET Clients
         /\ \A c \in Clients : c \in cs => obj'[c] = "freed"
         /\ \A c \in Clients : c \notin cs => obj'[c] = obj[c] /\ sock'[c] = sock[c]
BY DEF Free, Types, DataTypes

\* ClearClients: the map ...
LEMMA ClearMapStep == ASSUME IInv, NEW s \in Servers, ClearMap(s) PROVE IInv'
<1> DEFINE cs == InMap(s)
<1>1. /\ pc[s] = "clear" /\ pc' = [pc EXCEPT ![s] = "clear_buff"] /\ Free(cs)
      /\ clients' = [clients EXCEPT ![s] = [h \in Handles |-> NoClient]]
      /\ UNCHANGED <<clientCount, accRun, apc, acc, clientsBuff, lock, clientsChange, fdBack,
                     isRun, phase, cur, merged, lfd, mpc, ms, life, restart, credit, crashed, failed>>
  BY DEF ClearMap, At, MoveTo, accVars, buffVars, mainVars
<1>2. /\ pc' \in [Servers -> ServerLabels] /\ pc'[s] = "clear_buff"
      /\ \A t \in Servers : t # s => pc'[t] = pc[t]
      /\ AccTypes' /\ MainWaits'
  BY <1>1, OthersWait DEF ServerLabels, Clearing
<1>3. cs \in SUBSET Clients /\ \A c \in Clients : c \in cs <=> InClients(c, s)
  <2>1. \A c \in Clients : c \in cs <=> InClients(c, s)
    BY HasIs DEF IInv
  <2>2. cs \subseteq Clients
    BY DEF InMap, Keys, IInv, Types, DataTypes
  <2> QED BY <2>1, <2>2
<1> HIDE DEF cs
<1>4. /\ obj' \in [Clients -> {"none", "live", "freed"}]
      /\ sock' \in [Clients -> Handles \union {NoHandle}]
      /\ cleared' = cleared \union cs /\ cleared' \in SUBSET Clients
      /\ \A c \in Clients : c \in cs => obj'[c] = "freed"
      /\ \A c \in Clients : c \notin cs => obj'[c] = obj[c] /\ sock'[c] = sock[c]
  BY <1>1, <1>3, FreeIs DEF IInv
<1>5. /\ \A h \in Handles : clients'[s][h] = NoClient
      /\ \A t \in Servers : t # s => clients'[t] = clients[t]
      /\ clients' \in [Servers -> [Handles -> Clients \union {NoClient}]]
  BY <1>1 DEF IInv, Types, DataTypes
<1>6. \A c \in cs : Has(c, s) /\ \A t \in Servers : Has(c, t) => t = s
  BY <1>3 DEF IInv, Disjoint, Has
<1>7. \A t \in Servers, h \in Handles :
        clients[t][h] # NoClient => clients[t][h] \in Clients /\ (t # s => clients[t][h] \notin cs)
  <2>1. \A t \in Servers, h \in Handles : clients[t][h] # NoClient => clients[t][h] \in Clients
    BY DEF IInv, Types, DataTypes
  <2>2. \A t \in Servers, h \in Handles : clients[t][h] \in cs => t = s
    BY <1>6 DEF Has, InClients
  <2> QED BY <2>1, <2>2
<1>8. \A t \in Servers : \A i \in 1..Len(clientsBuff[t]) :
        clientsBuff[t][i] \in Clients /\ clientsBuff[t][i] \notin cs
  <2> SUFFICES ASSUME NEW t \in Servers, NEW i \in 1..Len(clientsBuff[t])
               PROVE  clientsBuff[t][i] \in Clients /\ clientsBuff[t][i] \notin cs
    OBVIOUS
  <2>1. clientsBuff[t][i] \in Clients /\ BuffOK(t)
    BY BuffTypes DEF IInv, Buffers
  <2>2. clientsBuff[t][i] \in cs => t = s
    BY <1>6 DEF Has, InClientsBuff
  <2>3. t = s => ~InClients(clientsBuff[t][i], s)
    BY <1>1, <2>1 DEF BuffOK
  <2> QED BY <1>3, <2>1, <2>2, <2>3
<1>9. \A c \in Clients : \A t \in Servers : Has(c, t)' <=> Has(c, t) /\ ~(c \in cs /\ t = s)
  <2> SUFFICES ASSUME NEW c \in Clients, NEW t \in Servers
               PROVE  Has(c, t)' <=> Has(c, t) /\ ~(c \in cs /\ t = s)
    OBVIOUS
  <2>1. InClientsBuff(c, t)' <=> InClientsBuff(c, t)
    BY <1>1 DEF InClientsBuff
  <2>2. CASE t # s
    BY <1>5, <2>1, <2>2 DEF Has, InClients
  <2>3. CASE t = s
    <3>1. ~InClients(c, s)'
      BY <1>5, Constants DEF InClients
    <3>2. InClientsBuff(c, s) => c \notin cs
      BY <1>8 DEF InClientsBuff
    <3> QED BY <1>3, <2>1, <2>3, <3>1, <3>2 DEF Has
  <2> QED BY <2>2, <2>3
<1>10. Types'
  <2>1. DataTypes'
    BY <1>1, <1>4, <1>5 DEF IInv, Types, DataTypes
  <2>2. ThreadTypes'
    BY <1>1, <1>2 DEF IInv, Types, ThreadTypes
  <2> QED BY <1>1, <1>2, <2>1, <2>2, MainTypesStay DEF IInv, Types
<1>11. \A c \in Clients : (obj'[c] = "live" => obj[c] = "live" /\ c \notin cs)
  BY <1>4
<1>12. Sockets'
  BY <1>4, <1>11 DEF IInv, Sockets, Live
<1>13. MapLive'
  <2> SUFFICES ASSUME NEW t \in Servers, NEW h \in Handles PROVE EntryOK(t, h)'
    BY DEF MapLive
  <2>1. CASE t = s
    BY <1>5, <2>1 DEF EntryOK
  <2>2. CASE t # s
    <3>1. EntryOK(t, h)
      BY DEF IInv, MapLive
    <3> QED BY <1>1, <1>2, <1>4, <1>5, <1>7, <2>2, <3>1 DEF EntryOK, Live
  <2> QED BY <2>1, <2>2
<1>14. Leaving'
  BY <1>1, <1>2, <1>4, <1>5, <1>7 DEF IInv, Leaving
<1>15. Buffers'
  <2> SUFFICES ASSUME NEW t \in Servers PROVE BuffOK(t)'
    BY DEF Buffers
  <2>1. BuffOK(t)
    BY DEF IInv, Buffers
  <2>2. \A i \in 1..Len(clientsBuff[t]) :
          /\ obj'[clientsBuff[t][i]] = obj[clientsBuff[t][i]]
          /\ sock'[clientsBuff[t][i]] = sock[clientsBuff[t][i]]
          /\ clientsBuff[t][i] # NoClient
    BY <1>4, <1>8, Constants
  <2>3. CASE t # s
    BY <1>1, <1>2, <1>5, <2>1, <2>2, <2>3 DEF BuffOK, Live, InClients
  <2>4. CASE t = s
    BY <1>1, <1>2, <1>5, <2>1, <2>2, <2>4 DEF BuffOK, Live, InClients
  <2> QED BY <2>3, <2>4
<1>16. Disjoint'
  BY <1>9 DEF IInv, Disjoint
<1>17. AccHolds'
  <2>1. apc \in Scanning => acc.client \in Clients /\ acc.client \notin cs
    BY <1>6 DEF IInv, AccHolds, Scanning
  <2> QED BY <1>1, <1>4, <1>9, <2>1 DEF IInv, AccHolds, Live
<1>18. ClearedGone'
  <2> SUFFICES ASSUME NEW c \in cleared'
               PROVE  obj'[c] # "none" /\ \A t \in Servers : Has(c, t)' => pc'[t] = "clear_end"
    BY DEF ClearedGone
  <2>1. c \in Clients
    BY <1>4
  <2>2. CASE c \in cs
    BY <1>4, <1>6, <1>9, <2>1, <2>2
  <2>3. CASE c \notin cs
    BY <1>1, <1>2, <1>4, <1>9, <2>1, <2>3 DEF IInv, ClearedGone
  <2> QED BY <2>2, <2>3
<1>19. Emptied' /\ Threads'
  BY <1>1, <1>2, <1>5 DEF IInv, Emptied, Threads, Clearing
<1>20. FdSets'
  <2>1. \A t \in Servers : t # s => Watched(t)' = Watched(t)
    BY <1>5 DEF Watched, Keys
  <2> QED BY <1>1, <1>2, <2>1 DEF IInv, FdSets
<1>21. NoFailure'
  <2>1. apc = "join" => acc.client \in Clients
    BY DEF IInv, AccHolds
  <2>2. \A t \in Servers : \A i \in 1..Len(clientsBuff[t]) :
          obj'[clientsBuff[t][i]] = obj[clientsBuff[t][i]]
    BY <1>4, <1>8
  <2> QED BY <1>1, <1>2, <1>9, <1>11, <2>1, <2>2 DEF IInv, NoFailure, Live
<1>22. CountOK'
  <2>1. \A d : \A t \in Servers : Goes(d, t)' <=> Goes(d, t)
    BY <1>1, <1>2, <1>5 DEF Goes
  <2>2. \A d : ~Goes(d, s)
    BY <1>1 DEF Goes
  <2>3. \A d \in Clients : Counts(d)' <=> Counts(d)
    BY <1>4, <1>6, <1>9, <2>1, <2>2 DEF Counts
  <2> QED BY <1>1, <2>3, CountStays DEF IInv
<1> QED BY <1>2, <1>10, <1>12, <1>13, <1>14, <1>15, <1>16, <1>17, <1>18, <1>19, <1>20, <1>21, <1>22
        DEF IInv

\* ... and the buffer, which is deleted first ...
LEMMA ClearBuffStep == ASSUME IInv, NEW s \in Servers, ClearBuff(s) PROVE IInv'
<1> DEFINE cs == InBuff(s)
<1>1. /\ pc[s] = "clear_buff" /\ pc' = [pc EXCEPT ![s] = "clear_end"] /\ Free(cs)
      /\ UNCHANGED <<clientCount, accRun, apc, acc, clientsBuff, lock, clients, clientsChange, fdBack,
                     isRun, phase, cur, merged, lfd, mpc, ms, life, restart, credit, crashed, failed>>
  BY DEF ClearBuff, At, MoveTo, accVars, buffVars, mapVars, mainVars
<1>2. /\ pc' \in [Servers -> ServerLabels] /\ pc'[s] = "clear_end"
      /\ \A t \in Servers : t # s => pc'[t] = pc[t]
      /\ AccTypes' /\ MainWaits'
  BY <1>1, OthersWait DEF ServerLabels, Clearing
<1>3. cs \in SUBSET Clients /\ \A c \in Clients : c \in cs <=> InClientsBuff(c, s)
  <2>1. \A c \in Clients : c \in cs <=> InClientsBuff(c, s)
    BY HasIs DEF IInv
  <2>2. cs \subseteq Clients
    BY BuffTypes DEF InBuff, IInv
  <2> QED BY <2>1, <2>2
<1> HIDE DEF cs
<1>4. /\ obj' \in [Clients -> {"none", "live", "freed"}]
      /\ sock' \in [Clients -> Handles \union {NoHandle}]
      /\ cleared' = cleared \union cs /\ cleared' \in SUBSET Clients
      /\ \A c \in Clients : c \in cs => obj'[c] = "freed"
      /\ \A c \in Clients : c \notin cs => obj'[c] = obj[c] /\ sock'[c] = sock[c]
  BY <1>1, <1>3, FreeIs DEF IInv
<1>5. \A h \in Handles : clients[s][h] = NoClient
  BY <1>1 DEF IInv, Emptied, Clearing
<1>6. \A c \in cs : Has(c, s) /\ \A t \in Servers : Has(c, t) => t = s
  BY <1>3 DEF IInv, Disjoint, Has
<1>7. \A t \in Servers, h \in Handles :
        clients[t][h] # NoClient => clients[t][h] \in Clients /\ clients[t][h] \notin cs
  <2>1. \A t \in Servers, h \in Handles : clients[t][h] # NoClient => clients[t][h] \in Clients
    BY DEF IInv, Types, DataTypes
  <2>2. \A t \in Servers, h \in Handles : clients[t][h] \in cs => t = s
    BY <1>6 DEF Has, InClients
  <2> QED BY <1>5, <2>1, <2>2
<1>8. \A t \in Servers : \A i \in 1..Len(clientsBuff[t]) :
        clientsBuff[t][i] \in Clients /\ (clientsBuff[t][i] \in cs <=> t = s)
  <2> SUFFICES ASSUME NEW t \in Servers, NEW i \in 1..Len(clientsBuff[t])
               PROVE  clientsBuff[t][i] \in Clients /\ (clientsBuff[t][i] \in cs <=> t = s)
    OBVIOUS
  <2>1. clientsBuff[t][i] \in Clients
    BY BuffTypes DEF IInv
  <2>2. clientsBuff[t][i] \in cs => t = s
    BY <1>6 DEF Has, InClientsBuff
  <2>3. t = s => clientsBuff[t][i] \in cs
    BY <1>3, <2>1 DEF InClientsBuff
  <2> QED BY <2>1, <2>2, <2>3
<1>9. \A c, t : Has(c, t)' <=> Has(c, t)
  BY <1>1, HasStays
<1>10. Types'
  <2>1. DataTypes'
    BY <1>1, <1>4 DEF IInv, Types, DataTypes
  <2>2. ThreadTypes'
    BY <1>1, <1>2 DEF IInv, Types, ThreadTypes
  <2> QED BY <1>1, <1>2, <2>1, <2>2, MainTypesStay DEF IInv, Types
<1>11. \A c \in Clients : (obj'[c] = "live" => obj[c] = "live" /\ c \notin cs)
  BY <1>4
<1>12. Sockets'
  BY <1>4, <1>11 DEF IInv, Sockets, Live
<1>13. MapLive'
  <2> SUFFICES ASSUME NEW t \in Servers, NEW h \in Handles PROVE EntryOK(t, h)'
    BY DEF MapLive
  <2>1. EntryOK(t, h)
    BY DEF IInv, MapLive
  <2>2. CASE t = s
    BY <1>1, <1>5, <2>2 DEF EntryOK
  <2>3. CASE t # s
    BY <1>1, <1>2, <1>4, <1>7, <2>1, <2>3 DEF EntryOK, Live
  <2> QED BY <2>2, <2>3
<1>14. Leaving'
  BY <1>1, <1>2, <1>4, <1>7 DEF IInv, Leaving
<1>15. Buffers'
  <2> SUFFICES ASSUME NEW t \in Servers PROVE BuffOK(t)'
    BY DEF Buffers
  <2>1. BuffOK(t)
    BY DEF IInv, Buffers
  <2>2. CASE t # s
    <3>1. \A i \in 1..Len(clientsBuff[t]) :
            /\ obj'[clientsBuff[t][i]] = obj[clientsBuff[t][i]]
            /\ sock'[clientsBuff[t][i]] = sock[clientsBuff[t][i]]
      BY <1>4, <1>8, <2>2
    <3> QED BY <1>1, <1>2, <2>1, <2>2, <3>1 DEF BuffOK, Live, InClients
  <2>3. CASE t = s
    <3>1. \A i \in 1..Len(clientsBuff[t]) : obj'[clientsBuff[t][i]] = "freed"
      BY <1>4, <1>8, <2>3
    <3> QED BY <1>1, <1>2, <2>1, <2>3, <3>1 DEF BuffOK, Live, InClients
  <2> QED BY <2>2, <2>3
<1>16. Disjoint'
  BY <1>9 DEF IInv, Disjoint
<1>17. AccHolds'
  <2>1. apc \in Scanning => acc.client \in Clients /\ acc.client \notin cs
    BY <1>6 DEF IInv, AccHolds, Scanning
  <2> QED BY <1>1, <1>4, <1>9, <2>1 DEF IInv, AccHolds, Live
<1>18. ClearedGone'
  <2> SUFFICES ASSUME NEW c \in cleared'
               PROVE  obj'[c] # "none" /\ \A t \in Servers : Has(c, t)' => pc'[t] = "clear_end"
    BY DEF ClearedGone
  <2>1. c \in Clients
    BY <1>4
  <2>2. CASE c \in cs
    BY <1>2, <1>4, <1>6, <1>9, <2>1, <2>2
  <2>3. CASE c \notin cs
    BY <1>1, <1>2, <1>4, <1>9, <2>1, <2>3 DEF IInv, ClearedGone
  <2> QED BY <2>2, <2>3
<1>19. Emptied' /\ Threads'
  BY <1>1, <1>2, <1>5 DEF IInv, Emptied, Threads, Clearing
<1>20. FdSets'
  <2>1. \A t \in Servers : Watched(t)' = Watched(t)
    BY <1>1 DEF Watched, Keys
  <2> QED BY <1>1, <1>2, <2>1 DEF IInv, FdSets
<1>21. NoFailure'
  <2>1. apc = "join" => acc.client \in Clients
    BY DEF IInv, AccHolds
  <2>2. \A t \in Servers : \A i \in 1..Len(clientsBuff[t]) :
          IF t = s THEN obj'[clientsBuff[t][i]] = "freed"
                   ELSE obj'[clientsBuff[t][i]] = obj[clientsBuff[t][i]]
    BY <1>4, <1>8
  <2> QED BY <1>1, <1>2, <1>9, <1>11, <2>1, <2>2 DEF IInv, NoFailure, Live
<1>22. CountOK'
  <2>1. \A d : \A t \in Servers : Goes(d, t)' <=> Goes(d, t)
    BY <1>1, <1>2 DEF Goes
  <2>2. \A d : ~Goes(d, s)
    BY <1>1 DEF Goes
  <2>3. \A d \in Clients : Counts(d)' <=> Counts(d)
    BY <1>4, <1>6, <1>9, <2>1, <2>2 DEF Counts
  <2> QED BY <1>1, <2>3, CountStays DEF IInv
<1> QED BY <1>2, <1>10, <1>12, <1>13, <1>14, <1>15, <1>16, <1>17, <1>18, <1>19, <1>20, <1>21, <1>22
        DEF IInv

\* ... and then cleared, with whatever has been added meanwhile.
LEMMA ClearEndStep == ASSUME IInv, NEW s \in Servers, ClearEnd(s) PROVE IInv'
<1> DEFINE cs == InBuff(s)
<1>1. /\ pc[s] = "clear_end" /\ pc' = [pc EXCEPT ![s] = "done"]
      /\ clientsBuff' = [clientsBuff EXCEPT ![s] = <<>>] /\ cleared' = cleared \union cs
      /\ UNCHANGED <<obj, sock, clientCount, accRun, apc, acc, lock, clients, clientsChange, fdBack,
                     isRun, phase, cur, merged, lfd, mpc, ms, life, restart, credit, crashed, failed>>
  BY DEF ClearEnd, At, MoveTo, objVars, accVars, mapVars, mainVars
<1>2. /\ pc' \in [Servers -> ServerLabels] /\ pc'[s] = "done"
      /\ \A t \in Servers : t # s => pc'[t] = pc[t]
      /\ AccTypes' /\ MainWaits'
  BY <1>1, OthersWait DEF ServerLabels, Clearing
<1>3. cs \in SUBSET Clients /\ \A c \in Clients : c \in cs <=> InClientsBuff(c, s)
  <2>1. \A c \in Clients : c \in cs <=> InClientsBuff(c, s)
    BY HasIs DEF IInv
  <2>2. cs \subseteq Clients
    BY BuffTypes DEF InBuff, IInv
  <2> QED BY <2>1, <2>2
<1> HIDE DEF cs
<1>4. /\ clientsBuff'[s] = <<>> /\ Len(clientsBuff'[s]) = 0
      /\ \A t \in Servers : t # s => clientsBuff'[t] = clientsBuff[t]
      /\ clientsBuff' \in [Servers -> Seq(Clients)]
  BY <1>1 DEF IInv, Types, DataTypes
<1>5. \A h \in Handles : clients[s][h] = NoClient
  BY <1>1 DEF IInv, Emptied, Clearing
<1>6. \A c \in Clients : Has(c, s) <=> c \in cs
  BY <1>3, <1>5, Constants DEF Has, InClients
<1>7. \A c \in cs : \A t \in Servers : Has(c, t) => t = s
  BY <1>3, <1>6 DEF IInv, Disjoint
<1>8. \A c \in Clients : \A t \in Servers : Has(c, t)' <=> Has(c, t) /\ t # s
  <2> SUFFICES ASSUME NEW c \in Clients, NEW t \in Servers
               PROVE  Has(c, t)' <=> Has(c, t) /\ t # s
    OBVIOUS
  <2>1. InClients(c, t)' <=> InClients(c, t)
    BY <1>1 DEF InClients
  <2>2. CASE t # s
    BY <1>4, <2>1, <2>2 DEF Has, InClientsBuff
  <2>3. CASE t = s
    <3>1. ~InClientsBuff(c, t)' /\ ~InClients(c, t)
      BY <1>4, <1>5, <2>3, Constants DEF InClients, InClientsBuff
    <3> QED BY <2>1, <2>3, <3>1 DEF Has
  <2> QED BY <2>2, <2>3
<1>9. cleared' \subseteq Clients
  BY <1>1, <1>3 DEF IInv, Types, DataTypes
<1>10. Types'
  <2>1. DataTypes'
    BY <1>1, <1>4, <1>9 DEF IInv, Types, DataTypes
  <2>2. ThreadTypes'
    BY <1>1, <1>2 DEF IInv, Types, ThreadTypes
  <2> QED BY <1>1, <1>2, <2>1, <2>2, MainTypesStay DEF IInv, Types
<1>11. Sockets'
  BY <1>1, SocketsStay DEF IInv
<1>12. MapLive'
  <2> SUFFICES ASSUME NEW t \in Servers, NEW h \in Handles PROVE EntryOK(t, h)'
    BY DEF MapLive
  <2>1. EntryOK(t, h)
    BY DEF IInv, MapLive
  <2> QED BY <1>1, <1>2, <2>1 DEF EntryOK, Live
<1>13. Leaving'
  BY <1>1, <1>2 DEF IInv, Leaving
<1>14. Buffers'
  <2> SUFFICES ASSUME NEW t \in Servers PROVE BuffOK(t)'
    BY DEF Buffers
  <2>1. BuffOK(t)
    BY DEF IInv, Buffers
  <2>2. CASE t # s
    BY <1>1, <1>2, <1>4, <2>1, <2>2 DEF BuffOK, Live, InClients
  <2>3. CASE t = s
    BY <1>2, <1>4, <2>3 DEF BuffOK
  <2> QED BY <2>2, <2>3
<1>15. Disjoint'
  BY <1>8 DEF IInv, Disjoint
<1>16. AccHolds'
  <2>1. apc \in Scanning => acc.client \in Clients /\ acc.client \notin cs
    BY <1>6 DEF IInv, AccHolds, Scanning
  <2> QED BY <1>1, <1>8, <2>1 DEF IInv, AccHolds, Live
<1>17. ClearedGone'
  <2> SUFFICES ASSUME NEW c \in cleared'
               PROVE  obj'[c] # "none" /\ \A t \in Servers : Has(c, t)' => pc'[t] = "clear_end"
    BY DEF ClearedGone
  <2>1. c \in Clients
    BY <1>9
  <2>2. CASE c \in cs
    <3>1. obj[c] # "none"
      BY <1>3, <2>1, <2>2 DEF IInv, Buffers, BuffOK, InClientsBuff
    <3> QED BY <1>1, <1>7, <1>8, <2>1, <2>2, <3>1
  <2>3. CASE c \notin cs
    BY <1>1, <1>2, <1>8, <2>1, <2>3 DEF IInv, ClearedGone
  <2> QED BY <2>2, <2>3
<1>18. Emptied' /\ Threads'
  BY <1>1, <1>2, <1>5 DEF IInv, Emptied, Threads, Clearing
<1>19. FdSets'
  <2>1. \A t \in Servers : Watched(t)' = Watched(t)
    BY <1>1 DEF Watched, Keys
  <2> QED BY <1>1, <1>2, <2>1 DEF IInv, FdSets
<1>20. NoFailure'
  <2>1. SUFFICES ASSUME failed = {} PROVE NoFailure'
    BY <1>1 DEF NoFailure
  <2>2. \A c \in cs : ~Live(c)
    <3>1. \A i \in 1..Len(clientsBuff[s]) : ~Live(clientsBuff[s][i])
      BY <1>1, <2>1 DEF IInv, NoFailure
    <3> QED BY <1>3, <3>1 DEF InClientsBuff
  <2>3. \A d : Live(d)' <=> Live(d)
    BY <1>1 DEF Live
  <2>4. apc = "join" => acc.client \in Clients
    BY DEF IInv, AccHolds
  <2>5. \A c \in Clients : \A t \in Servers : Live(c) /\ Has(c, t) => Has(c, t)'
    BY <1>6, <1>8, <2>2
  <2> QED BY <1>1, <1>2, <1>4, <2>1, <2>3, <2>4, <2>5 DEF IInv, NoFailure
<1>21. CountOK'
  <2>1. \A d : \A t \in Servers : Goes(d, t)' <=> Goes(d, t)
    BY <1>1, <1>2 DEF Goes
  <2>2. \A d : ~Goes(d, s)
    BY <1>1 DEF Goes
  <2>3. \A d \in Clients : Counts(d)' <=> Counts(d)
    BY <1>1, <1>6, <1>7, <1>8, <2>1, <2>2 DEF Counts
  <2> QED BY <1>1, <2>3, CountStays DEF IInv
<1> QED BY <1>2, <1>10, <1>11, <1>12, <1>13, <1>14, <1>15, <1>16, <1>17, <1>18, <1>19, <1>20, <1>21
        DEF IInv

LEMMA ServerThreadStep == ASSUME IInv, NEW s \in Servers, ServerThread(s) PROVE IInv'
BY TopStep, MergeStep, MergeOneStep, MergeEndStep, IdleStep, SelectStep, ExitStep, ClientLeavesStep,
   DeleteClientStep, EraseClientStep, ClearMapStep, ClearBuffStep, ClearEndStep
   DEF ServerThread

-----------------------------------------------------------------------------
(* main. *)

MainLabels == {"init", "bind", "listen", "start", "serving", "join_acc", "stop", "join", "asleep", "closed"}

\* What main does to the threads is to tell them to stop.
LEMMA MainQuiet ==
  ASSUME IInv,
         UNCHANGED <<obj, sock, clientCount, apc, acc, clientsBuff, lock, clients, clientsChange, fdBack,
                     pc, phase, cur, merged, credit, crashed, cleared>>,
         failed' = failed \/ failed' = failed \union {0},
         accRun' = accRun \/ accRun' = FALSE,
         isRun' = isRun \/ isRun' = [isRun EXCEPT ![ms] = FALSE],
         lfd' \in {"none", "open", "bound", "listening"}, mpc' \in MainLabels,
         ms' \in 1..(NServers + 1), life' = life,
         restart' = restart \/ restart' = FALSE \/ restart' = TRUE,
         MainWaits', NoFailure'
  PROVE  IInv'
<1>1. AccTypes'
  <2>1. accRun' \in BOOLEAN
    BY Zenon DEF IInv, Types, AccTypes
  <2> QED BY <2>1 DEF IInv, Types, AccTypes
<1>2. ThreadTypes' /\ \A s \in Servers : isRun'[s] => isRun[s]
  BY DEF IInv, Types, ThreadTypes
<1>3. MainTypes'
  <2>1. restart' \in BOOLEAN
    BY Zenon DEF IInv, Types, MainTypes
  <2>2. crashed' \in BOOLEAN /\ credit' \in BOOLEAN
    BY Zenon DEF IInv, Types, MainTypes
  <2> QED BY <2>1, <2>2 DEF IInv, Types, MainTypes, MainLabels
<1>4. Types'
  BY <1>1, <1>2, <1>3, DataTypesStay DEF IInv, Types
<1>5. Sockets' /\ MapLive' /\ Leaving' /\ Buffers' /\ Disjoint' /\ ClearedGone'
  BY SocketsStay, MapLiveStays, LeavingStays, BuffersStay, DisjointStays, ClearedGoneStays DEF IInv
<1>6. AccHolds' /\ Emptied' /\ FdSets'
  BY AccHoldsStays, EmptiedStays, FdSetsStay DEF IInv
<1>7. Threads'
  BY <1>2 DEF IInv, Threads
<1>8. CountOK'
  BY CountsStays, CountStays DEF IInv
<1> QED BY <1>4, <1>5, <1>6, <1>7, <1>8 DEF IInv

\* No thread is running yet: as long as none has failed there is no client.
LEMMA OpenStep == ASSUME IInv, InitSocket \/ Bind \/ Listen PROVE IInv'
<1>1. /\ mpc \in {"init", "bind", "listen"} /\ mpc' \in {"bind", "listen", "start"}
      /\ lfd' \in {lfd, "open", "bound", "listening"}
      /\ UNCHANGED <<obj, sock, clientCount, accRun, apc, acc, clientsBuff, lock, clients,
                     clientsChange, fdBack, isRun, pc, phase, cur, merged, credit, ms, life, restart, crashed,
                     failed, cleared>>
  BY DEF InitSocket, Bind, Listen, objVars, accVars, buffVars, mapVars, thrVars, history
<1>2. lfd' \in {"none", "open", "bound", "listening"} /\ mpc' \in MainLabels
      /\ ms' \in 1..(NServers + 1)
  BY <1>1 DEF IInv, Types, MainTypes, MainLabels
<1>3. MainWaits'
  BY <1>1 DEF IInv, MainWaits
<1>4. NoFailure'
  <2>1. \A d : Live(d)' <=> Live(d)
    BY <1>1 DEF Live
  <2> QED BY <1>1, <2>1, HasStays DEF IInv, NoFailure
<1> QED BY <1>1, <1>2, <1>3, <1>4, MainQuiet

\* The CellServers of an earlier life are dropped, with their buffers.
LEMMA StartStep == ASSUME IInv, Start PROVE IInv'
<1> DEFINE cs == UNION {InBuff(s) : s \in Servers}
<1>1. /\ mpc = "start" /\ mpc' = "serving" /\ accRun' = TRUE /\ apc' = "loop" /\ ms' = 1
      /\ life' = life + 1 /\ cleared' = cleared \union cs
      /\ clientsBuff' = [s \in Servers |-> <<>>] /\ clientsChange' = [s \in Servers |-> TRUE]
      /\ fdBack' = [s \in Servers |-> {}] /\ isRun' = [s \in Servers |-> TRUE]
      /\ pc' = [s \in Servers |-> "top"] /\ phase' = [s \in Servers |-> "read"]
      /\ UNCHANGED <<credit, lfd, restart, obj, sock, clientCount, acc, lock, clients, cur, merged, crashed,
                     failed>>
  BY DEF Start, objVars
<1>2. /\ life < MaxLives /\ ~restart /\ apc = "done" /\ \A s \in Servers : pc[s] = "done"
  BY <1>1 DEF IInv, MainWaits
<1>3. \A s \in Servers : \A h \in Handles : clients[s][h] = NoClient
  BY <1>2 DEF IInv, Emptied, Clearing
<1>4. \A c \in Clients : c \in cs <=> \E s \in Servers : Has(c, s)
  <2>1. \A c \in Clients : \A s \in Servers : c \in InBuff(s) <=> Has(c, s)
    <3> SUFFICES ASSUME NEW c \in Clients, NEW s \in Servers PROVE c \in InBuff(s) <=> Has(c, s)
      OBVIOUS
    <3>1. ~InClients(c, s)
      BY <1>3, Constants DEF InClients
    <3> QED BY <3>1, HasIs DEF IInv, Has
  <2> QED BY <2>1
<1>5. cs \subseteq Clients
  <2>1. \A s \in Servers : InBuff(s) \subseteq Clients
    BY BuffTypes DEF IInv, InBuff
  <2> QED BY <2>1
<1> HIDE DEF cs
<1>6. \A s \in Servers : clientsBuff'[s] = <<>> /\ Len(clientsBuff'[s]) = 0 /\ pc'[s] = "top"
  BY <1>1
<1>7. \A c \in Clients : \A s \in Servers : ~Has(c, s)'
  <2> SUFFICES ASSUME NEW c \in Clients, NEW s \in Servers PROVE ~Has(c, s)'
    OBVIOUS
  <2>1. ~InClients(c, s)'
    BY <1>1, <1>3, Constants DEF InClients
  <2>2. ~InClientsBuff(c, s)'
    BY <1>6 DEF InClientsBuff
  <2> QED BY <2>1, <2>2 DEF Has
<1>8. Types'
  <2>1. DataTypes'
    BY <1>1, <1>5 DEF IInv, Types, DataTypes
  <2>2. AccTypes'
    <3>1. accRun' \in BOOLEAN
      BY <1>1, Zenon
    <3> QED BY <1>1, <3>1 DEF IInv, Types, AccTypes, AccLabels
  <2>3. ThreadTypes'
    BY <1>1 DEF IInv, Types, ThreadTypes, ServerLabels
  <2>4. MainTypes'
    <3>1. restart' \in BOOLEAN
      BY <1>1, Zenon DEF IInv, Types, MainTypes
    <3>2. crashed' \in BOOLEAN /\ credit' \in BOOLEAN
      BY <1>1, Zenon DEF IInv, Types, MainTypes
    <3>3. life' \in 0..MaxLives /\ ms' \in 1..(NServers + 1)
      BY <1>1, <1>2, Constants DEF IInv, Types, MainTypes
    <3> QED BY <1>1, <3>1, <3>2, <3>3 DEF IInv, Types, MainTypes
  <2> QED BY <2>1, <2>2, <2>3, <2>4 DEF Types
<1>9. Sockets'
  BY <1>1, SocketsStay DEF IInv
<1>10. MapLive' /\ Leaving' /\ Emptied'
  BY <1>1, <1>3, <1>6 DEF MapLive, EntryOK, Leaving, Emptied, Clearing
<1>11. Buffers'
  BY <1>6 DEF Buffers, BuffOK
<1>12. Disjoint'
  BY <1>7 DEF Disjoint
<1>13. AccHolds'
  BY <1>1, <1>2 DEF IInv, AccHolds, Scanning
<1>14. ClearedGone'
  <2> SUFFICES ASSUME NEW c \in cleared' PROVE obj[c] # "none" /\ c \in Clients
    BY <1>1, <1>7 DEF ClearedGone
  <2>1. c \in Clients
    BY <1>1, <1>5 DEF IInv, Types, DataTypes
  <2>2. CASE c \in cleared
    BY <2>1, <2>2 DEF IInv, ClearedGone
  <2>3. CASE c \in cs
    BY <1>4, <2>1, <2>3, NoneHas
  <2> QED BY <1>1, <2>1, <2>2, <2>3
<1>15. FdSets'
  BY <1>1 DEF FdSets
<1>16. Threads'
  BY <1>1, <1>2 DEF IInv, Threads, Clearing
<1>17. MainWaits'
  BY <1>1, <1>2 DEF MainWaits
<1>18. NoFailure'
  <2>1. SUFFICES ASSUME failed = {} PROVE NoFailure'
    BY <1>1 DEF NoFailure
  <2>2. \A d \in Clients : ~Live(d)
    BY <1>1, <2>1 DEF IInv, NoFailure
  <2>3. \A d : Live(d)' <=> Live(d)
    BY <1>1 DEF Live
  <2> QED BY <1>1, <1>6, <2>2, <2>3, Constants DEF NoFailure, Servers
<1>19. CountOK'
  <2>1. \A d, s : s \in Servers => ~Goes(d, s)
    BY <1>2 DEF Goes
  <2>2. \A d \in Clients : Counts(d)' <=> Counts(d)
    BY <1>1, <1>4, <1>7, <2>1 DEF Counts
  <2> QED BY <1>1, <1>2, <2>2, CountStays DEF IInv
<1> QED BY <1>8, <1>9, <1>10, <1>11, <1>12, <1>13, <1>14, <1>15, <1>16, <1>17, <1>18, <1>19 DEF IInv

LEMMA CloseAccStep == ASSUME IInv, CloseAcc \/ JoinAcc \/ JoinAccOvertakes PROVE IInv'
<1>1. /\ mpc \in {"serving", "join_acc"} /\ mpc' \in {"join_acc", "stop", "asleep"}
      /\ mpc' = "join_acc" => mpc = "serving"
      /\ mpc' = "stop" /\ mpc = "serving" => ~accRun
      /\ mpc' = "stop" /\ mpc = "join_acc" => apc = "done" \/ 0 \in failed'
      /\ mpc' = "asleep" => mpc = "join_acc" /\ apc = "done"
      /\ failed' = failed \/ failed' = failed \union {0}
      /\ accRun' = accRun \/ accRun' = FALSE
      /\ mpc = "serving" => accRun' = FALSE
      /\ mpc = "join_acc" => accRun' = accRun
      /\ restart' = restart \/ (restart' = TRUE /\ life < MaxLives)
      /\ UNCHANGED <<obj, sock, clientCount, apc, acc, clientsBuff, lock, clients,
                     clientsChange, fdBack, isRun, pc, phase, cur, merged, credit, lfd, ms, life, crashed,
                     cleared>>
  BY DEF CloseAcc, JoinAcc, JoinAccOvertakes, objVars, accVars, buffVars, mapVars, thrVars, history
<1>2. mpc' \in MainLabels /\ ms' \in 1..(NServers + 1) /\ lfd' \in {"none", "open", "bound", "listening"}
  BY <1>1 DEF IInv, Types, MainTypes, MainLabels
<1>3. ~accRun'
  BY <1>1 DEF IInv, MainWaits
<1>4. MainWaits'
  <2>1. restart' => life < MaxLives
    BY <1>1 DEF IInv, MainWaits
  <2> QED BY <1>1, <1>3, <2>1 DEF IInv, MainWaits
<1>5. NoFailure'
  <2>1. \A d : Live(d)' <=> Live(d)
    BY <1>1 DEF Live
  <2> QED BY <1>1, <2>1, HasStays DEF IInv, NoFailure
<1> QED BY <1>1, <1>2, <1>4, <1>5, MainQuiet

\* A thread that is not running has failed, or main has stopped it before.
LEMMA StopServerStep == ASSUME IInv, StopServer \/ JoinServer PROVE IInv'
<1>1. /\ mpc \in {"stop", "join"} /\ mpc' \in {"stop", "join", "asleep"} /\ ms \in Servers
      /\ isRun' = isRun \/ isRun' = [isRun EXCEPT ![ms] = FALSE]
      /\ mpc' = "join" => mpc = "stop" /\ ms' = ms
      /\ mpc' = "stop" => ms' = ms + 1
      /\ mpc' = "asleep" => mpc = "join" /\ pc[ms] = "done" /\ ms' = ms
      /\ mpc' = "stop" => (mpc = "stop" /\ ~isRun[ms]) \/ (mpc = "join" /\ pc[ms] = "done")
      /\ UNCHANGED <<obj, sock, clientCount, accRun, apc, acc, clientsBuff, lock, clients,
                     clientsChange, fdBack, pc, phase, cur, merged, lfd, life, restart, credit, crashed,
                     failed, cleared>>
  <2>1. CASE StopServer
    BY <2>1 DEF StopServer, Stop, objVars, accVars, buffVars, mapVars, thrVars, history
  <2>2. CASE JoinServer
    <3>1. ms \in Servers
      BY <2>2 DEF JoinServer, IInv, MainWaits
    <3> QED BY <2>2, <3>1 DEF JoinServer, At, objVars, accVars, buffVars, mapVars, thrVars, history
  <2> QED BY <2>1, <2>2
<1>2. ms \in Nat /\ ms' \in 1..(NServers + 1) /\ (mpc' = "join" => ms' \in Servers)
  BY <1>1, Constants DEF Servers
<1>3. mpc' \in MainLabels /\ lfd' \in {"none", "open", "bound", "listening"}
  BY <1>1 DEF IInv, Types, MainTypes, MainLabels
<1>4. MainWaits'
  BY <1>1, <1>2 DEF IInv, MainWaits
<1>5. NoFailure'
  <2>1. SUFFICES ASSUME failed = {} PROVE NoFailure'
    BY <1>1 DEF NoFailure
  <2>2. \A d : Live(d)' <=> Live(d)
    BY <1>1 DEF Live
  <2>3. \A s \in Servers : /\ s < ms => pc[s] = "done"
                           /\ s > ms \/ (s = ms /\ mpc \notin {"join", "asleep"}) => isRun[s]
    BY <1>1, <2>1 DEF IInv, NoFailure
  <2>4. mpc' = "stop" => mpc = "join" /\ pc[ms] = "done"
    BY <1>1, <2>3
  <2>5. \A s \in Servers : s # ms => isRun'[s] = isRun[s]
    BY <1>1 DEF IInv, Types, ThreadTypes
  <2>6. \A s \in Servers : /\ s < ms' => pc[s] = "done"
                           /\ s > ms' \/ (s = ms' /\ mpc' \notin {"join", "asleep"}) => isRun'[s]
    <3> SUFFICES ASSUME NEW s \in Servers
                 PROVE  /\ s < ms' => pc[s] = "done"
                        /\ s > ms' \/ (s = ms' /\ mpc' \notin {"join", "asleep"}) => isRun'[s]
      OBVIOUS
    <3>1. s \in Nat
      BY Constants DEF Servers
    <3>2. CASE mpc' \in {"join", "asleep"}
      <4>1. ms' = ms
        BY <1>1, <3>2
      <4> QED BY <1>2, <2>3, <2>5, <3>1, <3>2, <4>1
    <3>3. CASE mpc' = "stop"
      <4>1. ms' = ms + 1
        BY <1>1, <3>3
      <4>2. s < ms' => s < ms \/ s = ms
        BY <1>2, <3>1, <4>1
      <4>3. s > ms' \/ s = ms' => s > ms /\ s # ms
        BY <1>2, <3>1, <4>1
      <4> QED BY <2>3, <2>4, <2>5, <3>3, <4>2, <4>3
    <3> QED BY <1>1, <3>2, <3>3
  <2> QED BY <1>1, <2>1, <2>2, <2>6, HasStays DEF IInv, NoFailure
<1> QED BY <1>1, <1>2, <1>3, <1>4, <1>5, MainQuiet

\* When main is past the last thread, or never listened, there is no client.
LEMMA CloseReturnsStep == ASSUME IInv, CloseReturns PROVE IInv'
<1>1. /\ mpc = "stop" /\ (ms > NServers \/ lfd = "none")
      /\ restart => apc = "done" /\ \A s \in Servers : pc[s] = "done"
      /\ lfd' = "none" /\ restart' = FALSE
      /\ mpc' \in {"init", "closed"} /\ (mpc' = "init" => restart)
      /\ UNCHANGED <<obj, sock, clientCount, accRun, apc, acc, clientsBuff, lock, clients,
                     clientsChange, fdBack, isRun, pc, phase, cur, merged, credit, ms, life, crashed,
                     failed, cleared>>
  BY DEF CloseReturns, At, objVars, accVars, buffVars, mapVars, thrVars, history
<1>2. mpc' \in MainLabels /\ ms' \in 1..(NServers + 1) /\ lfd' \in {"none", "open", "bound", "listening"}
  BY <1>1 DEF IInv, Types, MainTypes, MainLabels
<1>3. MainWaits'
  BY <1>1 DEF IInv, MainWaits
<1>4. NoFailure'
  <2>1. SUFFICES ASSUME failed = {} PROVE NoFailure'
    BY <1>1 DEF NoFailure
  <2>2. \A d : Live(d)' <=> Live(d)
    BY <1>1 DEF Live
  <2>3. \A d \in Clients : ~Live(d)
    <3>1. CASE lfd = "none"
      BY <2>1, <3>1 DEF IInv, NoFailure
    <3>2. CASE ms > NServers
      <4>1. \A s \in Servers : s < ms
        BY <3>2, Constants DEF Servers, IInv, Types, MainTypes
      <4>2. \A s \in Servers : pc[s] = "done"
        BY <1>1, <2>1, <4>1 DEF IInv, NoFailure
      <4>3. \A s \in Servers : /\ \A h \in Handles : clients[s][h] = NoClient
                               /\ clientsBuff[s] = <<>> /\ Len(<<>>) = 0
        BY <2>1, <4>2 DEF IInv, Emptied, Clearing, NoFailure
      <4>4. \A d \in Clients : \A s \in Servers : ~Has(d, s)
        BY <4>3, Constants DEF Has, InClients, InClientsBuff
      <4>5. acc.client \notin Clients
        BY <1>1, <2>1, Constants DEF IInv, MainWaits, AccHolds, Scanning
      <4> QED BY <2>1, <4>4, <4>5 DEF IInv, NoFailure
    <3> QED BY <1>1, <3>1, <3>2
  <2> QED BY <1>1, <2>1, <2>2, <2>3, HasStays DEF IInv, NoFailure
<1> QED BY <1>1, <1>2, <1>3, <1>4, MainQuiet

LEMMA MainStep == ASSUME IInv, Main PROVE IInv'
BY OpenStep, StartStep, CloseAccStep, StopServerStep, CloseReturnsStep DEF Main, StartUp, ShutDown

-----------------------------------------------------------------------------
(* The invariant. *)

LEMMA InitIInv == ASSUME Init PROVE IInv
<1>1. /\ \A c \in Clients : obj[c] = "none" /\ sock[c] = NoHandle
      /\ \A s \in Servers : /\ clientsBuff[s] = <<>> /\ Len(clientsBuff[s]) = 0 /\ lock[s] = FALSE
                            /\ isRun[s] = FALSE /\ pc[s] = "done" /\ clientsChange[s] = TRUE
                            /\ \A h \in Handles : clients[s][h] = NoClient
      /\ apc = "done" /\ accRun = FALSE /\ mpc = "init" /\ life = 0 /\ restart = FALSE
      /\ failed = {} /\ cleared = {} /\ clientCount = 0 /\ acc.client = NoClient
  BY DEF Init, NoScan
<1>2. \A c \in Clients, s \in Servers : ~Has(c, s)
  BY <1>1, Constants DEF Has, InClients, InClientsBuff
<1>3. Types
  <2>1. DataTypes
    BY <1>1 DEF Init, DataTypes
  <2>2. AccTypes
    BY Constants DEF Init, AccTypes, AccLabels, NoScan
  <2>3. ThreadTypes
    BY DEF Init, ThreadTypes, ServerLabels, Clearing
  <2>4. MainTypes
    <3>1. restart \in BOOLEAN /\ crashed \in BOOLEAN /\ credit \in BOOLEAN
      BY Zenon DEF Init
    <3>2. ms \in 1..(NServers + 1) /\ life \in 0..MaxLives
      BY Constants DEF Init
    <3> QED BY <3>1, <3>2 DEF Init, MainTypes
  <2> QED BY <2>1, <2>2, <2>3, <2>4 DEF Types
<1>4. Sockets /\ MapLive /\ Leaving /\ Disjoint /\ AccHolds /\ ClearedGone
  BY <1>1, <1>2 DEF Sockets, Live, MapLive, EntryOK, Leaving, Disjoint, AccHolds, Scanning, ClearedGone
<1>5. Buffers /\ Emptied /\ FdSets /\ Threads
  BY <1>1 DEF Buffers, BuffOK, Emptied, FdSets, Threads, Clearing
<1>6. MainWaits /\ NoFailure
  BY <1>1, Constants DEF MainWaits, NoFailure, Live
<1>7. CountOK
  <2>1. Counted = {}
    BY <1>1, <1>2 DEF Counted, Counts
  <2> QED BY <1>1, <2>1, FS_EmptySet DEF CountOK
<1> QED BY <1>3, <1>4, <1>5, <1>6, <1>7 DEF IInv

LEMMA NextIInv == ASSUME IInv, [Next]_vars PROVE IInv'
<1>1. CASE Next
  BY <1>1, AcceptThreadStep, ServerThreadStep, MainStep DEF Next
<1>2. CASE UNCHANGED vars
  <2>1. UNCHANGED <<obj, sock, clientCount, accRun, apc, acc, clientsBuff, lock, clients,
                    clientsChange, fdBack, isRun, pc, phase, cur, merged, lfd, mpc, ms, life,
                    restart, credit, crashed, failed, cleared>>
    BY <1>2 DEF vars, objVars, accVars, buffVars, mapVars, thrVars, mainVars, history
  <2>2. Types'
    BY <2>1, DataTypesStay, AccTypesStay, ThreadTypesStay, MainTypesStay DEF IInv, Types
  <2>3. Sockets' /\ MapLive' /\ Leaving' /\ Buffers' /\ Disjoint' /\ AccHolds' /\ ClearedGone'
    BY <2>1, SocketsStay, MapLiveStays, LeavingStays, BuffersStay, DisjointStays, AccHoldsStays,
       ClearedGoneStays DEF IInv
  <2>4. Emptied' /\ FdSets' /\ Threads' /\ MainWaits' /\ NoFailure'
    BY <2>1, EmptiedStays, FdSetsStay, ThreadsStay, MainWaitsStay, NoFailureStays DEF IInv
  <2>5. CountOK'
    BY <2>1, CountStays, CountsStays DEF IInv
  <2> QED BY <2>2, <2>3, <2>4, <2>5 DEF IInv
<1> QED BY <1>1, <1>2

LEMMA Invariant == Spec => []IInv
BY InitIInv, NextIInv, PTL DEF Spec

-----------------------------------------------------------------------------
(* What follows from it. *)

\* Every variable has its type; _clientCount is never less than -1, when a
\* client has left before the accept thread counts it, and never more than the
\* clients there are.
THEOREM TypeCorrect == Spec => []TypeOK
<1>1. ASSUME IInv PROVE TypeOK
  <2>1. clientCount \in -1..Cardinality(Clients)
    <3>1. /\ IsFiniteSet(Counted) /\ Cardinality(Counted) \in Nat
          /\ Cardinality(Counted) <= Cardinality(Clients) /\ Cardinality(Clients) \in Nat
      BY Constants, FS_Subset, FS_CardinalityType DEF Counted
    <3> QED BY <1>1, <3>1 DEF IInv, CountOK
  <2>2. accRun \in BOOLEAN /\ restart \in BOOLEAN /\ crashed \in BOOLEAN /\ credit \in BOOLEAN
    BY <1>1, Zenon DEF IInv, Types, AccTypes, MainTypes
  <2> QED BY <1>1, <2>1, <2>2 DEF TypeOK, IInv, Types, DataTypes, AccTypes, ThreadTypes, MainTypes
<1> QED BY <1>1, Invariant, PTL

\* No thread finds a deleted client in its map or in its buffer, whichever
\* sockets the system reuses in between.
THEOREM NoneDangles == Spec => []NoDangling
<1>1. ASSUME IInv PROVE NoDangling
  <2>1. ASSUME NEW s \in Servers, NEW h \in Keys(s)
        PROVE  \/ obj[clients[s][h]] = "live" /\ sock[clients[s][h]] = h
               \/ At(s, "erase") /\ cur[s] = h
    BY <1>1, <2>1 DEF IInv, MapLive, EntryOK, Live, Keys, At
  <2>2. ASSUME NEW s \in Servers, ~At(s, "clear_end"), NEW c \in InBuff(s)
        PROVE  obj[c] = "live"
    <3>1. DOMAIN clientsBuff[s] = 1..Len(clientsBuff[s])
      BY <1>1, BuffTypes DEF IInv
    <3> QED BY <1>1, <2>2, <3>1 DEF IInv, Buffers, BuffOK, Live, InBuff, At
  <2> QED BY <2>1, <2>2 DEF NoDangling
<1> QED BY <1>1, Invariant, PTL

\* A live client has at most one holder, and exactly one as long as no thread
\* has failed.
THEOREM OneOwner == Spec => []OwnedOnce
<1>1. ASSUME IInv PROVE OwnedOnce
  <2>1. SUFFICES ASSUME NEW c \in Clients, obj[c] = "live"
                 PROVE  /\ Cardinality(Holders(c)) <= 1
                        /\ failed = {} => Holders(c) # {}
    BY DEF OwnedOnce
  <2>2. \A s : s \in Holders(c) <=> \/ s \in Servers /\ Has(c, s)
                                    \/ s = 0 /\ acc.client = c /\ apc # "join"
    BY <1>1, HasIs DEF Holders, Has, IInv
  <2>3. \A s, t \in Servers : Has(c, s) /\ Has(c, t) => s = t
    BY <1>1 DEF IInv, Disjoint
  <2>4. acc.client = c /\ apc # "join" => \A s \in Servers : ~Has(c, s)
    BY <1>1, Constants DEF IInv, AccHolds
  <2>5. \A s, t \in Holders(c) : s = t
    BY <2>2, <2>3, <2>4
  <2>6. Cardinality(Holders(c)) <= 1
    <3>1. CASE Holders(c) = {}
      BY <3>1, FS_EmptySet
    <3>2. CASE Holders(c) # {}
      <4>1. PICK s \in Holders(c) : Holders(c) = {s}
        BY <2>5, <3>2
      <4> QED BY <4>1, FS_Singleton
    <3> QED BY <3>1, <3>2
  <2>7. ASSUME failed = {} PROVE Holders(c) # {}
    <3>1. /\ c = acc.client \/ \E s \in Servers : Has(c, s)
          /\ apc = "join" /\ c = acc.client => \E s \in Servers : Has(c, s)
      BY <1>1, <2>1, <2>7 DEF IInv, NoFailure, Live
    <3> QED BY <2>2, <3>1
  <2> QED BY <2>6, <2>7
<1> QED BY <1>1, Invariant, PTL

\* The backup of the fd_set is right whenever it is trusted.
THEOREM BackupFresh == Spec => []FdSetFresh
<1>1. ASSUME IInv PROVE FdSetFresh
  BY <1>1 DEF IInv, FdSets, FdSetFresh
<1> QED BY <1>1, Invariant, PTL

\* _clientCount counts the clients that have joined and not left, and those
\* that ClearClients has dropped.
THEOREM Count == Spec => []CountExact
<1>1. ASSUME IInv PROVE CountExact
  <2>1. Members \union cleared = Counted
    <3>1. \A c \in Clients : c \in Members <=> \E s \in Servers : Has(c, s) /\ ~Goes(c, s)
      BY <1>1, HasIs DEF Members, Has, Goes, IInv
    <3>2. Members \subseteq Clients /\ cleared \subseteq Clients
      BY <1>1 DEF Members, IInv, Types, DataTypes
    <3> QED BY <3>1, <3>2 DEF Counted, Counts
  <2> QED BY <1>1, <2>1 DEF IInv, CountOK, CountExact
<1> QED BY <1>1, Invariant, PTL

\* When Close returns every connection is closed, unless a thread has failed.
THEOREM NothingLeft == Spec => []AllReleased
<1>1. ASSUME IInv PROVE AllReleased
  BY <1>1 DEF IInv, NoFailure, AllReleased, Live
<1> QED BY <1>1, Invariant, PTL
=============================================================================
