--------------------------- MODULE Heartbeat_proofs ---------------------------
(***************************************************************************)
(* Proofs about Heartbeat, for any number of clients, any dead time, any   *)
(* bound of the lag and any interval between heartbeats that the protocol  *)
(* allows: lively peers are never disconnected for the lack of a heartbeat *)
(* and quiet ones are not kept.                                            *)
(***************************************************************************)
EXTENDS Heartbeat, WellFoundedInduction, TLAPS

-----------------------------------------------------------------------------
(* The inductive invariant.  _dtHeart is compared with the time since the  *)
(* peer's last heartbeat.  They differ by the parts of a round that one of  *)
(* them counts and the other does not: a client is aged, at the end, by all *)
(* of a round, also by what was before its heartbeat was read or before it  *)
(* connected.                                                               *)

Shape ==
  /\ ready \subseteq InMap
  /\ pc # "read" => ready = {}
  /\ pc = "sweep" => iter \in InMap \union {End}
  /\ pc # "sweep" => dt = 0
  /\ \A c \in Clients : status[c] = "none" => quiet[c] = 0 /\ socket[c] = {}
  /\ \A c \in Present : dtHeart[c] < DeadTime
  /\ \A c \in Clients \ late : quiet[c] <= Interval

\* A heartbeat that was sent and not read yet.
Waiting(c) == socket[c] \intersect KeepAlive # {}

\* What the sweep that is going on will still add to the client's age.
ToCome(c) == IF pc = "sweep" /\ status[c] = "map" /\ iter <= c THEN dt ELSE 0

\* This round has no reading of the client's socket to come.
PastRead(c) == pc \in {"read", "check"} /\ c \notin ready

\* A client's age exceeds the time since the last heartbeat by the length of
\* a round at most, or a second one when a heartbeat came after the reading.
NotTooOld(c) ==
  /\ ~Waiting(c) => dtHeart[c] + lag + ToCome(c) <= quiet[c] + MaxLag
  /\ Waiting(c) /\ PastRead(c) => dtHeart[c] <= Interval + MaxLag
  /\ Waiting(c) /\ pc = "sweep" => dtHeart[c] + ToCome(c) <= Interval + 2 * MaxLag

\* And it falls behind by the length of the round that passes clients over:
\* the one in which the heartbeat came, or in which the client connected.
Fresh(c) == status[c] = "buff" \/ Waiting(c)

NotTooYoung(c) ==
  /\ ~Fresh(c) => quiet[c] <= dtHeart[c] + lag + ToCome(c) + MaxLag
  /\ Fresh(c) => quiet[c] <= lag + (IF pc = "top" \/ c \in ready THEN MaxLag ELSE dt)

Timely ==
  expired = {} =>
    /\ \A c \in Present \ late : NotTooOld(c)
    /\ \A c \in Present : NotTooYoung(c)

IInv == TypeOK /\ Shape /\ Timely /\ LivelyPeersStay

-----------------------------------------------------------------------------
(* Lemmas about the operators. *)

LEMMA FirstIs ==
  ASSUME NEW S \in SUBSET Clients
  PROVE  /\ S = {} => First(S) = End
         /\ S # {} => First(S) \in S /\ \A d \in S : First(S) <= d
<1>1. CASE S = {}
  BY <1>1 DEF First
<1>2. CASE S # {}
  <2>1. S \subseteq Nat
    BY NClientsAssumption DEF Clients
  <2>2. PICK c \in S : \A d \in S : <<d, c>> \notin OpToRel(<, Nat)
    BY <1>2, <2>1, NatLessThanWellFounded, WFMin, Zenon
  <2>3. ASSUME NEW d \in S PROVE c <= d
    <3>1. <<d, c>> \notin OpToRel(<, Nat)
      BY <2>2, Zenon
    <3>2. ~(<<d, c>>[1] < <<d, c>>[2])
      BY <3>1, <2>1, Zenon DEF OpToRel
    <3> QED BY <2>1, <3>2
  <2> QED BY <1>2, <2>3 DEF First
<1> QED BY <1>1, <1>2

LEMMA Numbers ==
  /\ DeadTime \in Nat /\ MaxLag \in Nat /\ Interval \in Nat
  /\ DeadTime > 0 /\ MaxLag > 0 /\ Interval + 2 * MaxLag < DeadTime
  /\ QuietCap = DeadTime + 3 * MaxLag
  /\ Clients \subseteq Nat /\ End \in Nat /\ \A c \in Clients : c < End /\ c \in 1..End
  /\ End \notin Clients /\ End \in 1..End
BY NClientsAssumption, DeadTimeAssumption, MaxLagAssumption, IntervalAssumption
   DEF QuietCap, Clients, End

-----------------------------------------------------------------------------
(* The initial states and the steps. *)

LEMMA InitIInv == ASSUME Init PROVE IInv
<1> USE Numbers
<1>1. TypeOK
  <2>1. crashed \in BOOLEAN
    BY Zenon DEF Init
  <2> QED BY <2>1 DEF Init, TypeOK
<1>2. Shape
  BY DEF Init, Shape, InMap, Present
<1>3. Timely /\ LivelyPeersStay
  BY DEF Init, Timely, Present, LivelyPeersStay
<1> QED BY <1>1, <1>2, <1>3 DEF IInv

LEMMA TickKeeps == ASSUME IInv, Tick PROVE IInv'
<1> USE Numbers DEF IInv
<1>1. /\ \A c \in Clients : quiet'[c] = IF c \in Present /\ quiet[c] <= QuietCap
                                         THEN quiet[c] + 1 ELSE quiet[c]
      /\ Present' = Present /\ InMap' = InMap
  BY DEF Tick, Present, InMap
<1>2. TypeOK'
  <2>1. \A c \in Clients : quiet'[c] \in 0..(QuietCap + 1)
    BY <1>1 DEF TypeOK
  <2>2. quiet' \in [Clients -> 0..(QuietCap + 1)]
    BY <2>1 DEF Tick
  <2>3. crashed' \in BOOLEAN
    BY Zenon DEF Tick, TypeOK
  <2>4. lag' \in 0..MaxLag
    BY DEF Tick, TypeOK
  <2>5. late' \in SUBSET Clients
    BY Zenon DEF Tick, TypeOK, Present
  <2> QED BY <2>2, <2>3, <2>4, <2>5 DEF Tick, TypeOK, peerVars, thrVars
<1>3. Shape'
  BY <1>1 DEF Tick, TypeOK, Shape, Present, InMap, peerVars, thrVars
<1>4. Timely'
  <2> SUFFICES ASSUME expired = {}, NEW c \in Present
               PROVE  NotTooYoung(c)' /\ (c \notin late' => NotTooOld(c)')
    BY <1>1 DEF Timely, Tick
  <2>1. /\ Waiting(c)' = Waiting(c) /\ ToCome(c)' = ToCome(c) /\ Fresh(c)' = Fresh(c)
        /\ PastRead(c)' = PastRead(c)
    BY DEF Tick, Waiting, ToCome, Fresh, PastRead, peerVars, thrVars
  <2>2. /\ c \in Clients /\ quiet[c] \in Nat /\ dtHeart[c] \in Nat /\ dtHeart[c] < DeadTime
        /\ dt \in 0..MaxLag /\ lag \in 0..MaxLag /\ lag < MaxLag /\ lag' = lag + 1
        /\ ToCome(c) \in 0..MaxLag
        /\ dtHeart' = dtHeart /\ dt' = dt /\ pc' = pc /\ ready' = ready
    BY DEF Tick, TypeOK, Shape, Present, ToCome, thrVars
  <2>3. NotTooYoung(c)'
    BY <1>1, <2>1, <2>2 DEF Timely, NotTooYoung
  <2>4. ASSUME c \notin late' PROVE NotTooOld(c)'
    <3>1. c \notin late /\ quiet[c] < Interval
      BY <2>2, <2>4 DEF Tick
    <3> QED BY <1>1, <2>1, <2>2, <3>1 DEF Timely, NotTooOld
  <2> QED BY <2>3, <2>4
<1>5. LivelyPeersStay'
  BY DEF Tick, LivelyPeersStay
<1> QED BY <1>2, <1>3, <1>4, <1>5

\* A client whose own variables do not change, in a step that leaves the
\* thread's alone, stays as old as it was.
LEMMA Bystander ==
  ASSUME IInv, expired = {}, NEW d \in Present,
         status'[d] = status[d], dtHeart'[d] = dtHeart[d], quiet'[d] = quiet[d],
         Waiting(d)' = Waiting(d), UNCHANGED <<lag, pc, dt, iter>>,
         d \in ready' <=> d \in ready, late' = late
  PROVE  NotTooYoung(d)' /\ (d \notin late => NotTooOld(d)')
<1>1. ToCome(d)' = ToCome(d) /\ Fresh(d)' = Fresh(d) /\ PastRead(d)' = PastRead(d)
  BY DEF ToCome, Fresh, PastRead
<1>2. NotTooYoung(d) /\ (d \notin late => NotTooOld(d))
  BY DEF IInv, Timely
<1> QED BY <1>1, <1>2 DEF NotTooYoung, NotTooOld

LEMMA ConnectKeeps == ASSUME IInv, NEW c \in Clients, Connect(c) PROVE IInv'
<1> USE Numbers DEF IInv
<1>1. /\ status[c] = "none" /\ status'[c] = "buff" /\ dtHeart'[c] = 0
      /\ \A d \in Clients \ {c} : status'[d] = status[d] /\ dtHeart'[d] = dtHeart[d]
      /\ InMap' = InMap /\ Present' = Present \union {c} /\ c \notin Present
  BY DEF Connect, TypeOK, Present, InMap
<1>2. TypeOK'
  <2>1. crashed' \in BOOLEAN
    BY Zenon DEF Connect, TypeOK
  <2> QED BY <2>1 DEF Connect, TypeOK, peerVars, thrVars, history
<1>3. Shape'
  BY <1>1 DEF Connect, TypeOK, Shape, peerVars, thrVars, history
<1>4. Timely'
  <2> SUFFICES ASSUME expired = {}, NEW d \in Present'
               PROVE  NotTooYoung(d)' /\ (d \notin late => NotTooOld(d)')
    BY <1>1 DEF Timely, Connect, history
  <2>1. CASE d # c
    BY <1>1, <2>1, Bystander DEF Connect, peerVars, thrVars, history, Present, Waiting
  <2>2. CASE d = c
    <3>1. ~Waiting(c)' /\ quiet'[c] \in {0} /\ Fresh(c)' /\ ToCome(c)' \in {0}
      BY <1>1 DEF Connect, Shape, Waiting, Fresh, ToCome, peerVars, history
    <3>2. lag' \in Nat /\ lag' <= MaxLag /\ dt' \in Nat
      BY <1>2 DEF TypeOK
    <3>3. dtHeart'[c] \in {0}
      BY <1>1
    <3>4. NotTooOld(c)' /\ NotTooYoung(c)'
      BY <3>1, <3>2, <3>3 DEF NotTooOld, NotTooYoung
    <3> QED BY <2>2, <3>4
  <2> QED BY <2>1, <2>2
<1>5. LivelyPeersStay'
  BY DEF Connect, LivelyPeersStay, history
<1> QED BY <1>2, <1>3, <1>4, <1>5

LEMMA SendKeeps ==
  ASSUME IInv, NEW c \in Clients, NEW m \in Messages, Send(c, m) PROVE IInv'
<1> USE Numbers DEF IInv
<1>1. /\ c \in Present
      /\ socket'[c] = socket[c] \union {m}
      /\ quiet'[c] = IF m \in KeepAlive THEN 0 ELSE quiet[c]
      /\ \A d \in Clients \ {c} : socket'[d] = socket[d] /\ quiet'[d] = quiet[d]
      /\ InMap' = InMap /\ Present' = Present
  BY DEF Send, TypeOK, Present, InMap
<1>2. TypeOK'
  <2>1. crashed' \in BOOLEAN
    BY Zenon DEF Send, TypeOK
  <2>2. quiet' \in [Clients -> 0..(QuietCap + 1)]
    BY DEF Send, TypeOK
  <2>3. socket' \in [Clients -> SUBSET (AllMessages \union {"close"})]
    BY MessagesAssumption DEF Send, TypeOK
  <2> QED BY <2>1, <2>2, <2>3 DEF Send, TypeOK, thrVars
<1>3. Shape'
  BY <1>1 DEF Send, TypeOK, Shape, Present, thrVars
<1>4. Timely'
  <2> SUFFICES ASSUME expired = {}, NEW d \in Present
               PROVE  NotTooYoung(d)' /\ (d \notin late => NotTooOld(d)')
    BY <1>1 DEF Timely, Send
  <2>1. CASE d # c
    BY <1>1, <2>1, Bystander DEF Send, thrVars, Present, Waiting
  <2>2. CASE d = c /\ m \notin KeepAlive
    <3>1. Waiting(c)' = Waiting(c)
      BY <1>1, <2>2 DEF Waiting
    <3> QED BY <1>1, <2>2, <3>1, Bystander DEF Send, thrVars
  <2>3. CASE d = c /\ m \in KeepAlive
    <3>1. Waiting(c)' /\ Fresh(c)' /\ ToCome(c)' = ToCome(c) /\ PastRead(c)' = PastRead(c)
      BY <1>1, <2>3 DEF Send, Waiting, Fresh, ToCome, PastRead, thrVars
    <3>2. /\ lag' = lag /\ dt' = dt /\ pc' = pc /\ dtHeart' = dtHeart
          /\ lag \in 0..MaxLag /\ dt \in 0..MaxLag /\ dtHeart[c] \in Nat /\ quiet[c] \in Nat
          /\ ToCome(c) \in 0..MaxLag
      BY DEF Send, TypeOK, ToCome, thrVars
    <3>3. NotTooYoung(c)'
      BY <1>1, <2>3, <3>1, <3>2 DEF NotTooYoung
    <3>4. ASSUME c \notin late PROVE NotTooOld(c)'
      <4>1. NotTooOld(c) /\ quiet[c] <= Interval
        BY <1>1, <3>4 DEF Timely, Shape
      <4> QED BY <3>1, <3>2, <4>1 DEF NotTooOld
    <3> QED BY <2>3, <3>3, <3>4
  <2> QED BY <2>1, <2>2, <2>3
<1>5. LivelyPeersStay'
  BY DEF Send, LivelyPeersStay
<1> QED BY <1>2, <1>3, <1>4, <1>5

\* A peer that goes, or hangs, sends no heartbeat.
LEMMA PeerStopsKeeps ==
  ASSUME IInv, NEW c \in Clients, Leave(c) \/ Hang(c) PROVE IInv'
<1> USE Numbers DEF IInv
<1>1. /\ socket' \in [Clients -> SUBSET (AllMessages \union {"close"})]
      /\ \A d \in Clients : Waiting(d)' = Waiting(d)
      /\ \A d \in Clients : status[d] = "none" => socket'[d] = socket[d]
      /\ hung' \in SUBSET Clients
      /\ UNCHANGED <<status, dtHeart, lag, thrVars, crashed, history>>
  <2>1. CASE Leave(c)
    <3>1. /\ socket'[c] = socket[c] \union {"close"} /\ status[c] # "none"
          /\ \A d \in Clients \ {c} : socket'[d] = socket[d]
          /\ socket' \in [Clients -> SUBSET (AllMessages \union {"close"})]
      BY <2>1 DEF Leave, TypeOK, Present
    <3>2. \A d \in Clients : Waiting(d)' = Waiting(d)
      BY <3>1 DEF Waiting, KeepAlive
    <3> QED BY <2>1, <3>1, <3>2 DEF Leave, TypeOK
  <2>2. CASE Hang(c)
    BY <2>2 DEF Hang, TypeOK, Waiting
  <2> QED BY <2>1, <2>2
<1>2. TypeOK'
  <2>1. crashed' \in BOOLEAN
    BY <1>1, Zenon DEF TypeOK
  <2> QED BY <1>1, <2>1 DEF TypeOK, thrVars, history
<1>3. Shape'
  BY <1>1 DEF Shape, InMap, Present, thrVars, history
<1>4. Timely'
  BY <1>1, Bystander DEF Timely, Present, thrVars, history
<1>5. LivelyPeersStay'
  BY <1>1 DEF LivelyPeersStay, history
<1> QED BY <1>2, <1>3, <1>4, <1>5

LEMMA TopKeeps == ASSUME IInv, Top PROVE IInv'
<1> USE Numbers DEF IInv
<1>1. /\ \A d \in Clients : status'[d] = IF d \in Present THEN "map" ELSE status[d]
      /\ InMap' = Present /\ Present' = Present
      /\ ready' = {d \in Present : socket[d] # {}}
      /\ pc = "top" /\ ready = {} /\ dt \in {0} /\ dt' = dt
      /\ pc' = IF Present = {} THEN "top" ELSE "read"
      /\ lag' = IF Present = {} THEN 0 ELSE lag
  BY DEF Top, Shape, NobodyIn, Present, InMap
<1>2. TypeOK'
  <2>1. crashed' \in BOOLEAN
    BY Zenon DEF Top, TypeOK
  <2>2. lag' \in 0..MaxLag
    BY <1>1 DEF TypeOK
  <2>3. status' \in [Clients -> {"none", "buff", "map", "gone"}]
    BY DEF Top, TypeOK
  <2>4. ready' \in SUBSET Clients
    BY <1>1 DEF Present
  <2> QED BY <1>1, <2>1, <2>2, <2>3, <2>4 DEF Top, TypeOK, peerVars, history
<1>3. Shape'
  <2>1. \A d \in Clients : status'[d] = "none" => status[d] = "none"
    BY <1>1
  <2> QED BY <1>1, <2>1 DEF Top, Shape, peerVars, history
<1>4. Timely'
  <2> SUFFICES ASSUME expired = {}, NEW d \in Present
               PROVE  NotTooYoung(d)' /\ (d \notin late => NotTooOld(d)')
    BY <1>1 DEF Timely, Top, history
  <2>1. /\ pc' = "read" /\ lag' = lag /\ ToCome(d) \in {0} /\ ToCome(d)' \in {0}
        /\ Waiting(d)' <=> Waiting(d)
        /\ Waiting(d) => d \in ready'
        /\ Fresh(d)' => Waiting(d)
        /\ Waiting(d) => Fresh(d)
        /\ PastRead(d)' => d \notin ready'
    BY <1>1 DEF Top, ToCome, Waiting, Fresh, PastRead, peerVars, Present
  <2>2. /\ dtHeart' = dtHeart /\ quiet' = quiet
        /\ lag \in 0..MaxLag /\ dtHeart[d] \in Nat /\ quiet[d] \in Nat
    BY DEF Top, TypeOK, Present, history
  <2>3. NotTooYoung(d) /\ (d \notin late => NotTooOld(d))
    BY DEF Timely
  <2>4. NotTooYoung(d)'
    BY <1>1, <2>1, <2>2, <2>3 DEF NotTooYoung
  <2>5. d \notin late => NotTooOld(d)'
    BY <1>1, <2>1, <2>2, <2>3 DEF NotTooOld
  <2> QED BY <2>4, <2>5
<1>5. LivelyPeersStay'
  BY DEF Top, LivelyPeersStay, history
<1> QED BY <1>2, <1>3, <1>4, <1>5

LEMMA ReadDataKeeps == ASSUME IInv, NEW c \in Clients, ReadData(c) PROVE IInv'
<1> USE Numbers DEF IInv
<1> DEFINE ms == socket[c] \ {"close"}
<1>1. /\ c \in ready /\ ready' = ready \ {c} /\ pc = "read" /\ dt = 0
      /\ c \in InMap /\ c \in Present /\ status[c] = "map"
      /\ UNCHANGED <<hung, lag, pc, dt, iter, crashed, late, expired>>
  BY DEF ReadData, Shape, InMap, Present
<1>2. crashed' \in BOOLEAN
  BY <1>1, Zenon DEF TypeOK
<1>3. CASE ms # {}
  <2>1. /\ status' = status /\ quiet' = quiet
        /\ socket' = [socket EXCEPT ![c] = @ \ ms]
        /\ dtHeart' = IF Resets(ms) THEN [dtHeart EXCEPT ![c] = 0] ELSE dtHeart
    BY <1>3 DEF ReadData
  <2>2. /\ \A d \in Clients \ {c} : socket'[d] = socket[d] /\ dtHeart'[d] = dtHeart[d]
        /\ dtHeart'[c] = IF Waiting(c) THEN 0 ELSE dtHeart[c]
        /\ Present' = Present /\ InMap' = InMap
    BY <2>1 DEF TypeOK, Resets, Waiting, KeepAlive, Present, InMap
  <2>3. ~Waiting(c)' /\ \A d \in Clients : status'[d] = "none" => socket'[d] = {}
    BY <2>1 DEF TypeOK, Shape, Waiting, KeepAlive
  <2>4. TypeOK'
    <3>1. dtHeart' \in [Clients -> 0..(DeadTime + MaxLag)]
      BY <2>1 DEF TypeOK
    <3>2. socket' \in [Clients -> SUBSET (AllMessages \union {"close"})]
      BY <2>1 DEF TypeOK
    <3> QED BY <1>1, <1>2, <2>1, <3>1, <3>2 DEF TypeOK
  <2>5. Shape'
    <3>1. \A d \in Present : dtHeart'[d] < DeadTime
      BY <2>2 DEF Shape, Present
    <3> QED BY <1>1, <2>1, <2>2, <2>3, <3>1 DEF Shape
  <2>6. Timely'
    <3> SUFFICES ASSUME expired = {}, NEW d \in Present
                 PROVE  NotTooYoung(d)' /\ (d \notin late => NotTooOld(d)')
      BY <1>1, <2>2 DEF Timely
    <3>1. CASE d # c
      BY <1>1, <2>1, <2>2, <3>1, Bystander DEF Waiting, Present
    <3>2. CASE d = c
      <4>1. ~Fresh(c)' /\ ToCome(c) = 0 /\ ToCome(c)' \in {0}
        BY <1>1, <2>1, <2>3 DEF Fresh, ToCome
      <4>2. lag \in 0..MaxLag /\ dtHeart[c] \in Nat /\ quiet[c] \in Nat /\ lag' = lag
        BY <1>1 DEF TypeOK
      <4>3. NotTooYoung(c) /\ (c \notin late => NotTooOld(c))
        BY <1>1 DEF Timely
      <4>4. Fresh(c) <=> Waiting(c)
        BY <1>1 DEF Fresh
      <4>5. NotTooYoung(c)' /\ (c \notin late => NotTooOld(c)')
        BY <1>1, <2>1, <2>2, <2>3, <4>1, <4>2, <4>3, <4>4 DEF NotTooYoung, NotTooOld
      <4> QED BY <3>2, <4>5
    <3> QED BY <3>1, <3>2
  <2> QED BY <1>1, <2>4, <2>5, <2>6 DEF LivelyPeersStay
<1>4. CASE ms = {}
  <2>1. /\ status' = [status EXCEPT ![c] = "gone"] /\ dtHeart' = dtHeart
        /\ socket' = [socket EXCEPT ![c] = {}] /\ quiet' = [quiet EXCEPT ![c] = 0]
    BY <1>4 DEF ReadData, Erase, Forget
  <2>2. /\ \A d \in Clients \ {c} :
             socket'[d] = socket[d] /\ quiet'[d] = quiet[d] /\ status'[d] = status[d]
        /\ Present' = Present \ {c} /\ InMap' = InMap \ {c}
        /\ status'[c] = "gone" /\ quiet'[c] = 0
    BY <2>1 DEF TypeOK, Present, InMap
  <2>3. TypeOK'
    BY <1>1, <1>2, <2>1 DEF TypeOK
  <2>4. Shape'
    BY <1>1, <2>1, <2>2 DEF Shape
  <2>5. Timely'
    <3> SUFFICES ASSUME expired = {}, NEW d \in Present \ {c}
                 PROVE  NotTooYoung(d)' /\ (d \notin late => NotTooOld(d)')
      BY <1>1, <2>2 DEF Timely
    <3> QED BY <1>1, <2>1, <2>2, Bystander DEF Waiting, Present
  <2> QED BY <1>1, <2>3, <2>4, <2>5 DEF LivelyPeersStay
<1> QED BY <1>3, <1>4

LEMMA WriteDataKeeps == ASSUME IInv, WriteData PROVE IInv'
<1> USE Numbers DEF IInv
<1>1. /\ pc = "read" /\ ready = {} /\ pc' = "check"
      /\ UNCHANGED <<status, dtHeart, peerVars, lag, ready, dt, iter, crashed, history>>
  BY DEF WriteData
<1>2. TypeOK'
  <2>1. crashed' \in BOOLEAN
    BY <1>1, Zenon DEF TypeOK
  <2> QED BY <1>1, <2>1 DEF TypeOK, peerVars, history
<1>3. Shape'
  BY <1>1 DEF Shape, InMap, Present, peerVars, history
<1>4. Timely' /\ LivelyPeersStay'
  BY <1>1 DEF Timely, Present, NotTooOld, NotTooYoung, Waiting, ToCome, Fresh, PastRead,
     LivelyPeersStay, peerVars, history
<1> QED BY <1>2, <1>3, <1>4

LEMMA CheckTimeKeeps == ASSUME IInv, CheckTime PROVE IInv'
<1> USE Numbers DEF IInv
<1>1. /\ pc = "check" /\ ready = {} /\ pc' = "sweep" /\ dt' = lag /\ lag' = 0
      /\ dt \in {0} /\ lag \in 0..MaxLag
      /\ UNCHANGED <<status, dtHeart, peerVars, ready, crashed, history>>
  BY DEF CheckTime, Shape, TypeOK
<1>2. /\ iter' \in InMap \union {End} /\ iter' \in 1..End
      /\ \A d \in InMap : iter' <= d
  <2>1. InMap \in SUBSET Clients
    BY DEF InMap
  <2> QED BY <2>1, FirstIs DEF CheckTime
<1>3. TypeOK'
  <2>1. crashed' \in BOOLEAN
    BY <1>1, Zenon DEF TypeOK
  <2> QED BY <1>1, <1>2, <2>1 DEF TypeOK, peerVars, history
<1>4. Shape'
  BY <1>1, <1>2 DEF Shape, InMap, Present, peerVars, history
<1>5. Timely'
  <2> SUFFICES ASSUME expired = {}, NEW d \in Present
               PROVE  NotTooYoung(d)' /\ (d \notin late => NotTooOld(d)')
    BY <1>1 DEF Timely, Present, history
  <2>1. /\ Waiting(d)' <=> Waiting(d)
        /\ Fresh(d)' <=> Fresh(d)
        /\ PastRead(d)
        /\ ToCome(d) \in {0}
        /\ status[d] = "map" => ToCome(d)' = lag
        /\ status[d] = "buff" => ToCome(d)' \in {0} /\ Fresh(d)
        /\ status[d] \in {"map", "buff"}
    BY <1>1, <1>2 DEF Waiting, Fresh, PastRead, ToCome, InMap, Present, peerVars
  <2>2. /\ dtHeart' = dtHeart /\ quiet' = quiet /\ lag' \in {0}
        /\ dtHeart[d] \in Nat /\ quiet[d] \in Nat
    BY <1>1 DEF TypeOK, Present, history
  <2>3. NotTooYoung(d) /\ (d \notin late => NotTooOld(d) /\ quiet[d] <= Interval)
    BY DEF Timely, Shape, Present
  <2>4. NotTooYoung(d)'
    BY <1>1, <2>1, <2>2, <2>3 DEF NotTooYoung
  <2>5. d \notin late => NotTooOld(d)'
    BY <1>1, <2>1, <2>2, <2>3 DEF NotTooOld
  <2> QED BY <2>4, <2>5
<1>6. LivelyPeersStay'
  BY <1>1 DEF LivelyPeersStay, history
<1> QED BY <1>3, <1>4, <1>5, <1>6

LEMMA KeepKeeps == ASSUME IInv, Keep PROVE IInv'
<1> USE Numbers DEF IInv
<1> DEFINE rest == {c \in InMap : c > iter}
<1>1. /\ pc = "sweep" /\ iter \in InMap /\ iter \in Clients /\ status[iter] = "map"
      /\ dtHeart[iter] + dt < DeadTime
      /\ dtHeart' = [dtHeart EXCEPT ![iter] = dtHeart[iter] + dt]
      /\ UNCHANGED <<status, peerVars, lag, pc, ready, dt, crashed, history>>
      /\ dtHeart[iter] \in Nat /\ dt \in Nat /\ iter \in Nat
  BY DEF Keep, checkHeart, Aged, Shape, TypeOK, InMap
<1>2. /\ iter' \in InMap \union {End} /\ iter' \in 1..End /\ iter' > iter
      /\ \A d \in InMap : iter' <= d <=> iter < d
  <2>1. rest \in SUBSET Clients /\ iter' = First(rest) /\ InMap \subseteq Clients
    BY DEF InMap, Keep
  <2>2. rest = {} => iter' = End
    BY <2>1, FirstIs
  <2>3. rest # {} => iter' \in rest /\ \A d \in rest : iter' <= d
    BY <2>1, FirstIs
  <2>4. InMap \subseteq Nat /\ \A d \in InMap : d < End /\ d \in 1..End
    BY <2>1
  <2>5. CASE rest = {}
    <3>1. \A d \in InMap : d <= iter
      BY <1>1, <2>4, <2>5
    <3> QED BY <1>1, <2>2, <2>4, <2>5, <3>1
  <2>6. CASE rest # {}
    <3>1. iter' \in InMap /\ iter' > iter /\ \A d \in InMap : d > iter => iter' <= d
      BY <2>3, <2>6
    <3>2. iter' \in Nat /\ iter' \in 1..End
      BY <2>4, <3>1
    <3>3. ASSUME NEW d \in InMap PROVE iter' <= d <=> iter < d
      BY <1>1, <2>4, <3>1, <3>2
    <3> QED BY <3>1, <3>2, <3>3
  <2> QED BY <2>5, <2>6
<1>3. TypeOK'
  <2>1. crashed' \in BOOLEAN
    BY <1>1, Zenon DEF TypeOK
  <2>2. dtHeart' \in [Clients -> 0..(DeadTime + MaxLag)]
    BY <1>1 DEF TypeOK
  <2> QED BY <1>1, <1>2, <2>1, <2>2 DEF TypeOK, peerVars, history
<1>4. Shape'
  <2>1. \A d \in Present : dtHeart'[d] < DeadTime
    BY <1>1 DEF Shape, TypeOK, Present
  <2> QED BY <1>1, <1>2, <2>1 DEF Shape, InMap, Present, peerVars, history
<1>5. Timely'
  <2> SUFFICES ASSUME expired = {}, NEW d \in Present
               PROVE  NotTooYoung(d)' /\ (d \notin late => NotTooOld(d)')
    BY <1>1 DEF Timely, Present, history
  <2>1. /\ Waiting(d)' <=> Waiting(d)
        /\ Fresh(d)' <=> Fresh(d)
        /\ ~PastRead(d)'
        /\ d = iter \/ d # iter
    BY <1>1 DEF Waiting, Fresh, PastRead, peerVars
  <2>2. dtHeart'[d] + ToCome(d)' = dtHeart[d] + ToCome(d)
    BY <1>1, <1>2 DEF ToCome, TypeOK, Present, InMap
  <2>3. /\ quiet' = quiet /\ lag' = lag /\ pc' = pc /\ ready' = ready /\ dt' = dt
        /\ dtHeart[d] \in Nat /\ quiet[d] \in Nat /\ lag \in Nat /\ dt \in Nat
        /\ dtHeart'[d] \in Nat /\ ToCome(d) \in Nat /\ ToCome(d)' \in Nat
    BY <1>1, <1>3 DEF TypeOK, Present, history, ToCome
  <2>4. NotTooYoung(d) /\ (d \notin late => NotTooOld(d))
    BY DEF Timely
  <2>5. NotTooYoung(d)'
    BY <1>1, <2>1, <2>2, <2>3, <2>4 DEF NotTooYoung
  <2>6. d \notin late => NotTooOld(d)'
    BY <1>1, <2>1, <2>2, <2>3, <2>4 DEF NotTooOld
  <2> QED BY <2>5, <2>6
<1>6. LivelyPeersStay'
  BY <1>1 DEF LivelyPeersStay, history
<1> QED BY <1>3, <1>4, <1>5, <1>6

\* Only a late peer's client is old enough to expire first.
LEMMA ExpireKeeps == ASSUME IInv, Expire PROVE IInv'
<1> USE Numbers DEF IInv
<1>1. /\ pc = "sweep" /\ iter \in InMap /\ iter \in Clients /\ status[iter] = "map"
      /\ iter \in Present
      /\ DeadTime <= dtHeart[iter] + dt
      /\ dtHeart' = [dtHeart EXCEPT ![iter] = dtHeart[iter] + dt]
      /\ status' = [status EXCEPT ![iter] = "gone"]
      /\ socket' = [socket EXCEPT ![iter] = {}]
      /\ quiet' = [quiet EXCEPT ![iter] = 0]
      /\ expired' = expired \union {iter}
      /\ iter' \in (InMap \ {iter}) \union {End}
      /\ UNCHANGED <<hung, lag, pc, ready, dt, late>>
      /\ dtHeart[iter] \in Nat /\ dt \in 0..MaxLag
  BY DEF Expire, checkHeart, Aged, Shape, TypeOK, InMap, Present, Erase, Forget
<1>2. /\ InMap' = InMap \ {iter} /\ Present' = Present \ {iter}
      /\ \A d \in Clients \ {iter} : /\ dtHeart'[d] = dtHeart[d] /\ status'[d] = status[d]
                                     /\ socket'[d] = socket[d] /\ quiet'[d] = quiet[d]
      /\ status'[iter] = "gone" /\ quiet'[iter] = 0 /\ InMap \subseteq Clients
  BY <1>1 DEF TypeOK, InMap, Present
<1>3. TypeOK'
  <2>1. crashed' \in BOOLEAN
    BY Zenon DEF Expire
  <2>2. dtHeart' \in [Clients -> 0..(DeadTime + MaxLag)]
    <3>1. dtHeart[iter] < DeadTime
      BY <1>1 DEF Shape
    <3>2. dtHeart[iter] + dt \in 0..(DeadTime + MaxLag)
      BY <1>1, <3>1
    <3> QED BY <1>1, <3>2 DEF TypeOK
  <2>3. iter' \in 1..End
    BY <1>1, <1>2
  <2> QED BY <1>1, <2>1, <2>2, <2>3 DEF TypeOK
<1>4. Shape'
  <2>1. ready = {} /\ ready' = {}
    BY <1>1 DEF Shape
  <2> QED BY <1>1, <1>2, <2>1 DEF Shape
<1>5. expired' # {} /\ late' = late
  BY <1>1
<1>6. expired = {} => iter \in late
  <2> SUFFICES ASSUME expired = {}, iter \notin late PROVE FALSE
    OBVIOUS
  <2>1. NotTooOld(iter) /\ quiet[iter] <= Interval
    BY <1>1 DEF Timely, Shape
  <2>2. ToCome(iter) = dt
    BY <1>1 DEF ToCome
  <2>3. lag \in Nat /\ quiet[iter] \in Nat
    BY <1>1 DEF TypeOK
  <2> QED BY <1>1, <2>1, <2>2, <2>3 DEF NotTooOld
<1>7. Timely'
  BY <1>5 DEF Timely
<1>8. LivelyPeersStay'
  BY <1>1, <1>6 DEF LivelyPeersStay
<1> QED BY <1>3, <1>4, <1>7, <1>8

LEMMA SweepEndsKeeps == ASSUME IInv, SweepEnds PROVE IInv'
<1> USE Numbers DEF IInv
<1>1. /\ pc = "sweep" /\ iter = End /\ ready = {} /\ pc' = "top" /\ dt' = 0
      /\ dt \in 0..MaxLag
      /\ UNCHANGED <<status, dtHeart, peerVars, lag, ready, iter, crashed, history>>
  BY DEF SweepEnds, Shape, TypeOK
<1>2. TypeOK'
  <2>1. crashed' \in BOOLEAN
    BY <1>1, Zenon DEF TypeOK
  <2> QED BY <1>1, <2>1 DEF TypeOK, peerVars, history
<1>3. Shape'
  BY <1>1 DEF Shape, InMap, Present, peerVars, history
<1>4. Timely'
  <2> SUFFICES ASSUME expired = {}, NEW d \in Present
               PROVE  NotTooYoung(d)' /\ (d \notin late => NotTooOld(d)')
    BY <1>1 DEF Timely, Present, history
  <2>1. /\ Waiting(d)' <=> Waiting(d)
        /\ Fresh(d)' <=> Fresh(d)
        /\ ~PastRead(d)'
        /\ ToCome(d) \in {0} /\ ToCome(d)' \in {0}
    BY <1>1 DEF Waiting, Fresh, PastRead, ToCome, Present, peerVars
  <2>2. /\ dtHeart' = dtHeart /\ quiet' = quiet /\ lag' = lag
        /\ dtHeart[d] \in Nat /\ quiet[d] \in Nat /\ lag \in Nat
    BY <1>1 DEF TypeOK, Present, history
  <2>3. NotTooYoung(d) /\ (d \notin late => NotTooOld(d))
    BY DEF Timely
  <2>4. NotTooYoung(d)'
    BY <1>1, <2>1, <2>2, <2>3 DEF NotTooYoung
  <2>5. d \notin late => NotTooOld(d)'
    BY <1>1, <2>1, <2>2, <2>3 DEF NotTooOld
  <2> QED BY <2>4, <2>5
<1>5. LivelyPeersStay'
  BY <1>1 DEF LivelyPeersStay, history
<1> QED BY <1>2, <1>3, <1>4, <1>5

-----------------------------------------------------------------------------
LEMMA StepIInv == ASSUME IInv, [Next]_vars PROVE IInv'
<1>1. CASE UNCHANGED vars
  BY <1>1 DEF vars, peerVars, thrVars, history, IInv, TypeOK, Shape, Timely, LivelyPeersStay,
     InMap, Present, NotTooOld, NotTooYoung, Waiting, ToCome, PastRead, Fresh
<1>2. CASE Next
  BY <1>2, TickKeeps, TopKeeps, ReadDataKeeps, WriteDataKeeps, CheckTimeKeeps, KeepKeeps,
     ExpireKeeps, SweepEndsKeeps, ConnectKeeps, SendKeeps, PeerStopsKeeps
     DEF Next, ServerThread, Peer
<1> QED BY <1>1, <1>2

LEMMA Invariance == Spec => []IInv
BY InitIInv, StepIInv, PTL DEF Spec

\* The counters stay in their ranges: a client's age never exceeds the dead
\* time by more than one round, and quiet's bound is never what ends a count
\* that a property looks at.
THEOREM TypeCorrect == Spec => []TypeOK
<1>1. IInv => TypeOK
  BY DEF IInv
<1> QED BY <1>1, Invariance, PTL

\* The first client that the heartbeat disconnects is one whose peer was
\* quiet for longer than it should have been.
THEOREM Lively == Spec => []LivelyPeersStay
<1>1. IInv => LivelyPeersStay
  BY DEF IInv
<1> QED BY <1>1, Invariance, PTL

\* As long as no sweep has deleted a client, none is left in the map whose
\* peer has been quiet for the dead time and three rounds.
THEOREM Quiet == Spec => []QuietPeersLeave
<1>1. ASSUME IInv PROVE QuietPeersLeave
  <2> SUFFICES ASSUME expired = {}, NEW c \in InMap PROVE quiet[c] < QuietCap
    BY DEF QuietPeersLeave
  <2>1. /\ NotTooYoung(c) /\ dtHeart[c] < DeadTime
        /\ dtHeart[c] \in Nat /\ quiet[c] \in Nat /\ lag \in 0..MaxLag /\ dt \in 0..MaxLag
    BY <1>1 DEF IInv, Timely, Shape, TypeOK, InMap, Present
  <2>2. ToCome(c) \in 0..MaxLag
    BY <2>1, Numbers DEF ToCome
  <2> QED BY <2>1, <2>2, Numbers DEF NotTooYoung
<1> QED BY <1>1, Invariance, PTL
=============================================================================
