--------------------------- MODULE ClientApp_proofs ---------------------------
(***************************************************************************)
(* Proofs about ClientApp, for any number of threads and clients and at    *)
(* whatever moment exit is typed: what the barrier is for, and who may use *)
(* a client that is not there.                                             *)
(***************************************************************************)
EXTENDS ClientApp, FiniteSetTheorems, TLAPS

-----------------------------------------------------------------------------
(* The inductive invariant. *)

SendLabels == {"create", "connect", "ready", "barrier", "send", "cleanup", "done"}

Types ==
  /\ gRun \in BOOLEAN
  /\ client \in [Ids -> [Slots -> {"null", "live", "deleted"}]]
  /\ connected \in [Ids -> SUBSET Slots]
  /\ readyCount \in Nat
  /\ send \in [Ids -> SendLabels] /\ at \in [Ids -> Slots]
  /\ recv \in [Ids -> {"none", "test", "sweep", "done"}] /\ rat \in [Ids -> Slots]

\* The threads that have counted themselves ready, and those that have seen
\* that everybody has.
Passed == {t \in Ids : send[t] \notin {"create", "connect", "ready"}}
Out == {t \in Ids : send[t] \in {"send", "cleanup", "done"}}

Counted == readyCount = Cardinality(Passed)

Waited == Out # {} => Passed = Ids

\* A receiving thread exists only beside a sending thread that is out.
Receiving == \A t \in Ids : recv[t] # "none" => t \in Out

AllLive(t) == \A i \in Slots : client[t][i] = "live"

\* As long as g_bRun is set the loops skip nothing: what they have passed is
\* created, and connected.
Complete ==
  gRun => \A t \in Ids :
    /\ send[t] \notin {"cleanup", "done"}
    /\ send[t] = "create" => \A i \in Slots : i < at[t] => client[t][i] = "live"
    /\ send[t] = "connect" => AllLive(t) /\ \A i \in Slots : i < at[t] => i \in connected[t]
    /\ send[t] \in {"ready", "barrier", "send"} => AllLive(t) /\ connected[t] = Slots

\* Between the loops i is back at the first client; a round of sending that
\* has begun goes on over clients that are there.
InRound == \A t \in Ids :
  /\ send[t] \in {"ready", "barrier"} => at[t] = 1
  /\ send[t] = "send" /\ at[t] > 1 => AllLive(t)

IInv ==
  Types /\ Counted /\ Waited /\ Receiving /\ Complete /\ InRound /\ FaultsOnlyAtTheEnd

-----------------------------------------------------------------------------
LEMMA IdsFinite == IsFiniteSet(Ids) /\ Cardinality(Ids) = ThreadCount /\ Ids # {}
<1>1. 1 \in Int /\ ThreadCount \in Int /\ ThreadCount >= 1
  BY ThreadCountAssumption
<1>2. IsFiniteSet(1..ThreadCount) /\ Cardinality(1..ThreadCount) = ThreadCount
  BY <1>1, FS_Interval
<1> QED BY <1>1, <1>2 DEF Ids

LEMMA SlotsAre ==
  /\ 1 \in Slots /\ Share \in Slots
  /\ \A i \in Slots : i \in Nat /\ 1 <= i /\ i <= Share /\ (i < Share => i + 1 \in Slots)
BY ShareAssumption DEF Slots

LEMMA LoopStep ==
  ASSUME Types, NEW t \in Ids, NEW here \in SendLabels, NEW next \in SendLabels,
         LoopOver(t, here, next)
  PROVE  /\ send[t] = here
         /\ send' \in [Ids -> SendLabels] /\ at' \in [Ids -> Slots]
         /\ \A u \in Ids \ {t} : send'[u] = send[u] /\ at'[u] = at[u]
         /\ at[t] \in Slots
         /\ \/ at[t] < Share /\ send'[t] = here /\ at'[t] = at[t] + 1
            \/ at[t] = Share /\ send'[t] = next /\ at'[t] = 1
<1>1. at[t] \in Slots /\ at[t] <= Share /\ at[t] \in Nat /\ Share \in Nat
  BY SlotsAre DEF Types
<1>2. CASE at[t] < Share
  <2>1. /\ send[t] = here /\ send' = [send EXCEPT ![t] = here]
        /\ at' = [at EXCEPT ![t] = at[t] + 1]
    BY <1>2 DEF LoopOver, Step
  <2>2. at[t] + 1 \in Slots
    BY <1>1, <1>2, SlotsAre
  <2> QED BY <1>1, <1>2, <2>1, <2>2 DEF Types
<1>3. CASE ~(at[t] < Share)
  <2>1. /\ send[t] = here /\ send' = [send EXCEPT ![t] = next]
        /\ at' = [at EXCEPT ![t] = 1]
    BY <1>3 DEF LoopOver, Step
  <2>2. at[t] = Share
    BY <1>1, <1>3
  <2> QED BY <2>1, <2>2, SlotsAre DEF Types
<1> QED BY <1>2, <1>3

LEMMA PassedFinite == IsFiniteSet(Passed) /\ Cardinality(Passed) <= ThreadCount
                      /\ (Cardinality(Passed) = ThreadCount => Passed = Ids)
<1>1. Passed \in SUBSET Ids
  BY DEF Passed
<1> QED BY <1>1, IdsFinite, FS_Subset

LEMMA InitIInv == ASSUME Init PROVE IInv
<1> USE SlotsAre
<1>1. gRun \in BOOLEAN
  BY Zenon DEF Init
<1>2. Types
  BY <1>1 DEF Init, Types, SendLabels
<1>3. Passed = {} /\ Out = {}
  BY DEF Init, Passed, Out
<1>4. Counted
  BY <1>3, FS_EmptySet DEF Init, Counted
<1>5. Waited /\ Receiving
  BY <1>3 DEF Init, Waited, Receiving
<1>6. Complete /\ InRound /\ FaultsOnlyAtTheEnd
  BY DEF Init, Complete, InRound, FaultsOnlyAtTheEnd
<1> QED BY <1>2, <1>4, <1>5, <1>6 DEF IInv

\* A step that leaves the sending threads' labels alone, or moves one of them
\* without passing ready or the barrier, leaves the count alone.
LEMMA SamePlace ==
  ASSUME IInv, Passed' = Passed, Out' = Out, readyCount' = readyCount, UNCHANGED recv
  PROVE  Counted' /\ Waited' /\ Receiving'
BY DEF IInv, Counted, Waited, Receiving

LEMMA MainKeeps == ASSUME IInv, Exit \/ MainReturns, fault = {} PROVE IInv'
<1>1. /\ UNCHANGED <<client, connected, readyCount, sendVars, recvVars, fault>>
      /\ gRun' => gRun
  BY DEF Exit, MainReturns
<1>2. gRun' \in BOOLEAN
  BY Zenon DEF Exit, MainReturns, IInv, Types
<1>3. Types'
  BY <1>1, <1>2 DEF IInv, Types, sendVars, recvVars
<1>4. Counted' /\ Waited' /\ Receiving'
  BY <1>1, SamePlace DEF Passed, Out, sendVars, recvVars
<1>5. Complete' /\ InRound' /\ FaultsOnlyAtTheEnd'
  BY <1>1 DEF IInv, Complete, InRound, AllLive, FaultsOnlyAtTheEnd, sendVars
<1> QED BY <1>3, <1>4, <1>5 DEF IInv

LEMMA CreateKeeps == ASSUME IInv, NEW t \in Ids, Create(t), fault = {} PROVE IInv'
<1> USE SlotsAre DEF IInv
<1>1. /\ send[t] = "create" /\ at[t] \in Slots
      /\ \/ at[t] < Share /\ send'[t] = "create" /\ at'[t] = at[t] + 1
         \/ at[t] = Share /\ send'[t] = "connect" /\ at'[t] = 1
      /\ \A u \in Ids \ {t} : send'[u] = send[u] /\ at'[u] = at[u] /\ client'[u] = client[u]
      /\ gRun => client'[t][at[t]] = "live" /\
                 \A i \in Slots \ {at[t]} : client'[t][i] = client[t][i]
      /\ UNCHANGED <<gRun, connected, readyCount, recvVars, alive, fault>>
  <2>1. LoopOver(t, "create", "connect")
    BY DEF Create
  <2>2. \/ at[t] < Share /\ send'[t] = "create" /\ at'[t] = at[t] + 1
        \/ at[t] = Share /\ send'[t] = "connect" /\ at'[t] = 1
    BY <2>1, LoopStep DEF SendLabels
  <2>3. /\ send[t] = "create" /\ at[t] \in Slots
        /\ \A u \in Ids \ {t} : send'[u] = send[u] /\ at'[u] = at[u]
    BY <2>1, LoopStep DEF SendLabels
  <2> QED BY <2>2, <2>3 DEF Create, Types
<1>2. gRun' \in BOOLEAN
  BY <1>1, Zenon DEF Types
<1>3. Types'
  <2>1. client' \in [Ids -> [Slots -> {"null", "live", "deleted"}]]
    BY <1>1 DEF Create, Types
  <2>2. send' \in [Ids -> SendLabels] /\ at' \in [Ids -> Slots]
    BY LoopStep DEF Create, SendLabels
  <2> QED BY <1>1, <1>2, <2>1, <2>2 DEF Types, recvVars
<1>4. Counted' /\ Waited' /\ Receiving'
  <2>1. Passed' = Passed /\ Out' = Out
    BY <1>1 DEF Passed, Out
  <2> QED BY <1>1, <2>1, SamePlace DEF recvVars
<1>5. Complete'
  <2> SUFFICES ASSUME gRun, NEW u \in Ids
               PROVE  /\ send'[u] \notin {"cleanup", "done"}
                      /\ send'[u] = "create" => \A i \in Slots : i < at'[u] => client'[u][i] = "live"
                      /\ send'[u] = "connect" =>
                            /\ \A i \in Slots : client'[u][i] = "live"
                            /\ \A i \in Slots : i < at'[u] => i \in connected[u]
                      /\ send'[u] \in {"ready", "barrier", "send"} =>
                            (\A i \in Slots : client'[u][i] = "live") /\ connected[u] = Slots
    BY <1>1 DEF Complete, AllLive
  <2>1. CASE u # t
    BY <1>1, <2>1 DEF Complete, AllLive
  <2>2. CASE u = t
    <3>1. \A i \in Slots : i <= at[t] => client'[t][i] = "live"
      <4>1. \A i \in Slots : i < at[t] => client[t][i] = "live"
        BY <1>1 DEF Complete
      <4>2. ASSUME NEW i \in Slots, i <= at[t] PROVE i < at[t] \/ i = at[t]
        BY <1>1, <4>2
      <4> QED BY <1>1, <4>1, <4>2
    <3>2. CASE at[t] < Share
      <4>1. \A i \in Slots : i < at'[t] => i <= at[t]
        BY <1>1, <3>2
      <4> QED BY <1>1, <2>2, <3>1, <3>2, <4>1
    <3>3. CASE at[t] = Share
      BY <1>1, <2>2, <3>1, <3>3
    <3> QED BY <1>1, <3>2, <3>3
  <2> QED BY <2>1, <2>2
<1>6. InRound' /\ FaultsOnlyAtTheEnd'
  BY <1>1 DEF InRound, AllLive, FaultsOnlyAtTheEnd
<1> QED BY <1>3, <1>4, <1>5, <1>6

LEMMA ConnectKeeps == ASSUME IInv, NEW t \in Ids, Connect(t), fault = {} PROVE IInv'
<1> USE SlotsAre DEF IInv
<1>1. /\ send[t] = "connect" /\ at[t] \in Slots
      /\ \/ at[t] < Share /\ send'[t] = "connect" /\ at'[t] = at[t] + 1
         \/ at[t] = Share /\ send'[t] = "ready" /\ at'[t] = 1
      /\ \A u \in Ids \ {t} : send'[u] = send[u] /\ at'[u] = at[u]
                              /\ connected'[u] = connected[u]
      /\ gRun => connected'[t] = connected[t] \union {at[t]}
      /\ UNCHANGED <<gRun, client, readyCount, recvVars, alive>>
  <2>1. LoopOver(t, "connect", "ready")
    BY DEF Connect
  <2>2. \/ at[t] < Share /\ send'[t] = "connect" /\ at'[t] = at[t] + 1
        \/ at[t] = Share /\ send'[t] = "ready" /\ at'[t] = 1
    BY <2>1, LoopStep DEF SendLabels
  <2>3. /\ send[t] = "connect" /\ at[t] \in Slots
        /\ \A u \in Ids \ {t} : send'[u] = send[u] /\ at'[u] = at[u]
    BY <2>1, LoopStep DEF SendLabels
  <2> QED BY <2>2, <2>3 DEF Connect, Types
<1>2. gRun' \in BOOLEAN
  BY <1>1, Zenon DEF Types
<1>3. fault' = {}
  <2>1. gRun => client[t][at[t]] = "live"
    BY <1>1 DEF Complete, AllLive
  <2> QED BY <2>1 DEF Connect, Use
<1>4. Types'
  <2>1. connected' \in [Ids -> SUBSET Slots]
    BY <1>1 DEF Connect, Types
  <2>2. send' \in [Ids -> SendLabels] /\ at' \in [Ids -> Slots]
    BY LoopStep DEF Connect, SendLabels
  <2> QED BY <1>1, <1>2, <2>1, <2>2 DEF Types, recvVars
<1>5. Counted' /\ Waited' /\ Receiving'
  <2>1. Passed' = Passed /\ Out' = Out
    BY <1>1 DEF Passed, Out
  <2> QED BY <1>1, <2>1, SamePlace DEF recvVars
<1>6. Complete'
  <2> SUFFICES ASSUME gRun, NEW u \in Ids
               PROVE  /\ send'[u] \notin {"cleanup", "done"}
                      /\ send'[u] = "create" => \A i \in Slots : i < at'[u] => client[u][i] = "live"
                      /\ send'[u] = "connect" =>
                            /\ \A i \in Slots : client[u][i] = "live"
                            /\ \A i \in Slots : i < at'[u] => i \in connected'[u]
                      /\ send'[u] \in {"ready", "barrier", "send"} =>
                            (\A i \in Slots : client[u][i] = "live") /\ connected'[u] = Slots
    BY <1>1 DEF Complete, AllLive
  <2>1. CASE u # t
    BY <1>1, <2>1 DEF Complete, AllLive
  <2>2. CASE u = t
    <3>1. \A i \in Slots : i <= at[t] => i \in connected'[t]
      <4>1. \A i \in Slots : i < at[t] => i \in connected[t]
        BY <1>1 DEF Complete
      <4>2. ASSUME NEW i \in Slots, i <= at[t] PROVE i < at[t] \/ i = at[t]
        BY <1>1, <4>2
      <4> QED BY <1>1, <4>1, <4>2
    <3>2. connected'[t] \subseteq Slots /\ \A i \in Slots : client[t][i] = "live"
      BY <1>1, <1>4 DEF Types, Complete, AllLive
    <3>3. CASE at[t] < Share
      <4>1. \A i \in Slots : i < at'[t] => i <= at[t]
        <5>1. at'[t] = at[t] + 1 /\ at[t] \in Nat
          BY <1>1, <3>3
        <5> QED BY <5>1
      <4> QED BY <1>1, <2>2, <3>1, <3>2, <3>3, <4>1
    <3>4. CASE at[t] = Share
      <4>1. connected'[t] = Slots
        BY <3>1, <3>2, <3>4
      <4> QED BY <1>1, <2>2, <3>2, <3>4, <4>1
    <3> QED BY <1>1, <3>3, <3>4
  <2> QED BY <2>1, <2>2
<1>7. InRound' /\ FaultsOnlyAtTheEnd'
  BY <1>1, <1>3 DEF InRound, AllLive, FaultsOnlyAtTheEnd
<1> QED BY <1>4, <1>5, <1>6, <1>7

LEMMA ReadyKeeps == ASSUME IInv, NEW t \in Ids, Ready(t), fault = {} PROVE IInv'
<1> USE SlotsAre DEF IInv
<1>1. /\ send[t] = "ready" /\ send'[t] = "barrier" /\ readyCount' = readyCount + 1
      /\ \A u \in Ids \ {t} : send'[u] = send[u]
      /\ UNCHANGED <<gRun, client, connected, at, recvVars, alive, fault>>
  BY DEF Ready, Step, Types
<1>2. gRun' \in BOOLEAN
  BY <1>1, Zenon DEF Types
<1>3. Types'
  <2>1. send' \in [Ids -> SendLabels]
    BY DEF Ready, Step, Types, SendLabels
  <2> QED BY <1>1, <1>2, <2>1 DEF Types, recvVars
<1>4. Passed' = Passed \union {t} /\ t \notin Passed /\ Out' = Out
  BY <1>1 DEF Passed, Out
<1>5. Counted'
  BY <1>1, <1>4, PassedFinite, FS_AddElement DEF Counted
<1>6. Waited' /\ Receiving'
  BY <1>1, <1>4 DEF Waited, Receiving, recvVars
<1>7. Complete' /\ InRound' /\ FaultsOnlyAtTheEnd'
  BY <1>1 DEF Complete, InRound, AllLive, FaultsOnlyAtTheEnd
<1> QED BY <1>3, <1>5, <1>6, <1>7

\* The thread that leaves the barrier sees the count of all threads.
LEMMA BarrierKeeps == ASSUME IInv, NEW t \in Ids, Barrier(t), fault = {} PROVE IInv'
<1> USE SlotsAre DEF IInv
<1>1. /\ send[t] = "barrier" /\ send'[t] = "send"
      /\ \A u \in Ids \ {t} : send'[u] = send[u] /\ recv'[u] = recv[u]
      /\ UNCHANGED <<gRun, client, connected, readyCount, at, rat, slow, alive, fault>>
  BY DEF Barrier, Step, Types
<1>2. gRun' \in BOOLEAN
  BY <1>1, Zenon DEF Types
<1>3. Types'
  <2>1. send' \in [Ids -> SendLabels]
    BY DEF Barrier, Step, Types, SendLabels
  <2>2. recv' \in [Ids -> {"none", "test", "sweep", "done"}]
    BY DEF Barrier, Types
  <2> QED BY <1>1, <1>2, <2>1, <2>2 DEF Types
<1>4. Passed' = Passed /\ Out' = Out \union {t}
  BY <1>1 DEF Passed, Out
<1>5. Passed = Ids
  <2>1. readyCount >= ThreadCount
    BY DEF Barrier, AllReady
  <2>2. Cardinality(Passed) \in Nat
    BY PassedFinite, FS_CardinalityType
  <2>3. Cardinality(Passed) = ThreadCount
    BY <2>1, <2>2, PassedFinite, ThreadCountAssumption DEF Counted
  <2> QED BY <2>3, PassedFinite
<1>6. Counted' /\ Waited' /\ Receiving'
  BY <1>1, <1>4, <1>5 DEF Counted, Waited, Receiving
<1>7. Complete' /\ InRound' /\ FaultsOnlyAtTheEnd'
  <2>1. at[t] = 1
    BY <1>1 DEF InRound
  <2> QED BY <1>1, <2>1 DEF Complete, InRound, AllLive, FaultsOnlyAtTheEnd
<1> QED BY <1>3, <1>6, <1>7

LEMMA SendDataKeeps == ASSUME IInv, NEW t \in Ids, SendData(t), fault = {} PROVE IInv'
<1> USE SlotsAre DEF IInv
<1>1. /\ send[t] = "send" /\ at[t] \in Slots
      /\ send' \in [Ids -> SendLabels] /\ at' \in [Ids -> Slots]
      /\ \A u \in Ids \ {t} : send'[u] = send[u] /\ at'[u] = at[u]
      /\ send'[t] = "send"
  <2>1. LoopOver(t, "send", "send")
    BY DEF SendData
  <2> QED BY <2>1, LoopStep DEF SendLabels
<1>2. /\ UNCHANGED <<gRun, client, connected, readyCount, recvVars, alive>>
      /\ at[t] = 1 => gRun
      /\ Use(t, at[t], "send")
  BY DEF SendData
<1>3. gRun' \in BOOLEAN
  BY <1>2, Zenon DEF Types
<1>4. AllLive(t)
  <2>1. CASE gRun
    BY <1>1, <2>1 DEF Complete
  <2>2. CASE ~gRun
    <3>1. at[t] > 1
      BY <1>1, <1>2, <2>2
    <3> QED BY <1>1, <3>1 DEF InRound
  <2> QED BY <2>1, <2>2
<1>5. fault' = {}
  BY <1>1, <1>2, <1>4 DEF Use, AllLive
<1>6. Types'
  BY <1>1, <1>2, <1>3 DEF Types, recvVars
<1>7. Counted' /\ Waited' /\ Receiving'
  <2>1. Passed' = Passed /\ Out' = Out
    BY <1>1 DEF Passed, Out
  <2> QED BY <1>2, <2>1, SamePlace DEF recvVars
<1>8. Complete' /\ InRound' /\ FaultsOnlyAtTheEnd'
  BY <1>1, <1>2, <1>4, <1>5 DEF Complete, InRound, AllLive, FaultsOnlyAtTheEnd
<1> QED BY <1>6, <1>7, <1>8

\* Nobody cleans up before exit is typed.
LEMMA StopsKeeps ==
  ASSUME IInv, NEW t \in Ids, StopSending(t) \/ CleanUp(t), fault = {} PROVE IInv'
<1> USE SlotsAre DEF IInv
<1>1. /\ send[t] \in {"send", "cleanup"} /\ send'[t] \in {"cleanup", "done"}
      /\ send' \in [Ids -> SendLabels] /\ at' \in [Ids -> Slots]
      /\ \A u \in Ids \ {t} : send'[u] = send[u] /\ at'[u] = at[u]
  <2>1. CASE StopSending(t)
    BY <2>1 DEF StopSending, Step, Types, SendLabels
  <2>2. CASE CleanUp(t)
    <3>1. LoopOver(t, "cleanup", "done")
      BY <2>2 DEF CleanUp
    <3> QED BY <3>1, LoopStep DEF SendLabels
  <2> QED BY <2>1, <2>2
<1>2. /\ UNCHANGED <<gRun, connected, readyCount, recvVars, alive>>
      /\ client' \in [Ids -> [Slots -> {"null", "live", "deleted"}]]
      /\ \A u \in Ids \ {t} : client'[u] = client[u]
      /\ \A f \in fault' : f.by = "cleanup"
  <2>1. CASE StopSending(t)
    BY <2>1 DEF StopSending, Types
  <2>2. CASE CleanUp(t)
    BY <2>2 DEF CleanUp, Use, Types
  <2> QED BY <2>1, <2>2
<1>3. ~gRun
  <2>1. CASE StopSending(t)
    BY <2>1 DEF StopSending
  <2>2. CASE CleanUp(t)
    <3>1. send[t] = "cleanup"
      BY <2>2 DEF CleanUp, LoopOver, Step
    <3> QED BY <3>1 DEF Complete
  <2> QED BY <2>1, <2>2
<1>4. gRun' \in BOOLEAN
  BY <1>2, Zenon DEF Types
<1>5. Types'
  BY <1>1, <1>2, <1>4 DEF Types, recvVars
<1>6. Counted' /\ Waited' /\ Receiving'
  <2>1. Passed' = Passed /\ Out' = Out
    BY <1>1 DEF Passed, Out
  <2> QED BY <1>2, <2>1, SamePlace DEF recvVars
<1>7. Complete'
  BY <1>2, <1>3 DEF Complete
<1>8. InRound'
  BY <1>1, <1>2 DEF InRound, AllLive
<1>9. FaultsOnlyAtTheEnd'
  BY <1>2, <1>3 DEF FaultsOnlyAtTheEnd
<1> QED BY <1>5, <1>6, <1>7, <1>8, <1>9

LEMMA RecvKeeps == ASSUME IInv, NEW t \in Ids, RecvThread(t), fault = {} PROVE IInv'
<1> USE SlotsAre DEF IInv
<1>1. /\ UNCHANGED <<gRun, client, connected, readyCount, sendVars, alive>>
      /\ recv' \in [Ids -> {"none", "test", "sweep", "done"}] /\ rat' \in [Ids -> Slots]
      /\ recv[t] # "none" /\ \A u \in Ids \ {t} : recv'[u] = recv[u]
  <2>1. CASE TestRun(t)
    BY <2>1 DEF TestRun, Types
  <2>2. CASE ThreeSeconds(t)
    BY <2>2 DEF ThreeSeconds, Types
  <2>3. CASE OnRun(t)
    BY <2>3 DEF OnRun, Types
  <2> QED BY <2>1, <2>2, <2>3 DEF RecvThread
<1>2. gRun' \in BOOLEAN
  BY <1>1, Zenon DEF Types
<1>3. Types'
  BY <1>1, <1>2 DEF Types, sendVars
<1>4. Counted' /\ Waited' /\ Receiving'
  BY <1>1 DEF Counted, Waited, Receiving, Passed, Out, sendVars
<1>5. Complete' /\ InRound'
  BY <1>1 DEF Complete, InRound, AllLive, sendVars
<1>6. FaultsOnlyAtTheEnd'
  <2>1. CASE fault' = {}
    BY <2>1 DEF FaultsOnlyAtTheEnd
  <2>2. CASE fault' # {}
    <3>1. Use(t, rat[t], "recv") /\ fault' # fault
      BY <2>2 DEF RecvThread, TestRun, ThreeSeconds, OnRun
    <3>2. client[t][rat[t]] # "live" /\ \A f \in fault' : f.by = "recv"
      BY <3>1 DEF Use
    <3>3. ~gRun
      <4>1. t \in Out
        BY <1>1 DEF Receiving
      <4>2. rat[t] \in Slots
        BY DEF Types
      <4> QED BY <3>2, <4>1, <4>2 DEF Complete, AllLive, Out
    <3> QED BY <1>1, <3>2, <3>3 DEF FaultsOnlyAtTheEnd
  <2> QED BY <2>1, <2>2
<1> QED BY <1>3, <1>4, <1>5, <1>6

-----------------------------------------------------------------------------
LEMMA StepIInv == ASSUME IInv, [Next]_vars PROVE IInv'
<1>1. CASE UNCHANGED vars
  BY <1>1 DEF vars, sendVars, recvVars, IInv, Types, Counted, Waited, Receiving, Complete,
     InRound, AllLive, Passed, Out, FaultsOnlyAtTheEnd
<1>2. CASE Next
  BY <1>2, MainKeeps, CreateKeeps, ConnectKeeps, ReadyKeeps, BarrierKeeps, SendDataKeeps,
     StopsKeeps, RecvKeeps
     DEF Next, SendThread, RecvThread
<1> QED BY <1>1, <1>2

LEMMA Invariance == Spec => []IInv
BY InitIInv, StepIInv, PTL DEF Spec

\* The barrier does what it is for: when a thread sends, the count was that of
\* all threads, and each of them has connected all of its clients, unless exit
\* was typed.
THEOREM AllConnected == Spec => []SendsAfterAllConnected
<1>1. ASSUME IInv PROVE SendsAfterAllConnected
  <2> SUFFICES ASSUME gRun, NEW t \in Ids, send[t] = "send", NEW u \in Ids
               PROVE  connected[u] = Slots
    BY DEF SendsAfterAllConnected
  <2>1. u \in Passed
    BY <1>1 DEF IInv, Waited, Out
  <2>2. send[u] \in {"barrier", "send"}
    BY <1>1, <2>1 DEF IInv, Types, SendLabels, Passed, Complete
  <2> QED BY <1>1, <2>2 DEF IInv, Complete
<1> QED BY <1>1, Invariance, PTL

\* Before exit is typed no thread uses a client that does not exist, and
\* afterwards only the receiving threads and the clean-up may.
THEOREM FaultsAtTheEnd == Spec => []FaultsOnlyAtTheEnd
<1>1. IInv => FaultsOnlyAtTheEnd
  BY DEF IInv
<1> QED BY <1>1, Invariance, PTL
=============================================================================
