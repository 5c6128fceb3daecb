-------------------------- MODULE CELLThread_proofs --------------------------
(***************************************************************************)
(* Proofs about CELLThread, for any number of starts, any interleaving and *)
(* with spurious wakeups: when OnRun never leaves through Exit, whatever   *)
(* the semaphore may lose, Close never returns too early; and when it      *)
(* leaves through Exit, Close does not get to the semaphore.               *)
(***************************************************************************)
EXTENDS CELLThread, TLAPS

-----------------------------------------------------------------------------
(* The inductive invariant.  The semaphore's counters mean something only   *)
(* together with the labels of the two threads that are changing them, so   *)
(* it says, for each place the owner can be at, where the worker it started *)
(* last can be and what the counters are then.                              *)

Types ==
  /\ wait \in Int
  /\ wakeup \in Int
  /\ pc \in [Threads -> OwnerLabels \union WorkerLabels]
  /\ pc[Owner] \in OwnerLabels
  /\ \A w \in Workers : pc[w] \in WorkerLabels \ {"exit"}
  /\ reg \in [Threads -> Int]
  /\ isRun \in BOOLEAN
  /\ mutex \in {Free, Owner}
  /\ starts \in 0..MaxStarts
  /\ exited = {}

\* There is one worker at a time: earlier ones are through, but for their
\* notify_one, and later ones do not exist.
OneWorker ==
  /\ \A w \in Workers : w > starts <=> pc[w] = "unborn"
  /\ \A w \in Workers : w < starts => pc[w] \in {"notify", "dead"}

\* Every value loaded but not stored is in the range of its counter.
Loaded == \A p \in Threads : reg[p] \in -1..1

MutexHeld == mutex = Owner <=> pc[Owner] \in InWaitForCall \union {"woken"}

\* The owner is not in Close: the counters are back at 0.
Outside ==
  /\ pc[Owner] = "out" =>
       /\ wait = 0 /\ wakeup = 0
       /\ IF starts = 0 THEN ~isRun ELSE isRun /\ pc[starts] = "run"
  /\ pc[Owner] \in {"woken", "closed", "gone"} =>
       /\ wait = 0 /\ wakeup = 0
       /\ ~isRun
       /\ starts > 0 => pc[starts] \in {"notify", "dead"}

\* Before the owner has stored its --_wait.
Entering ==
  pc[Owner] \in {"wait_load", "wait_store"} =>
    /\ wakeup = 0
    /\ \/ pc[starts] \in {"run", "destory", "call_load"} /\ wait = 0
       \/ pc[starts] = "call_store" /\ wait = 0 /\ reg[starts] = 0
       \/ pc[starts] = "dead" /\ wait = 1
    /\ pc[Owner] = "wait_store" =>
         reg[Owner] = 0 \/ (reg[Owner] = 1 /\ pc[starts] = "dead")

\* The owner waits for _wakeup: the worker has not stored its ++_wait, or it
\* is granting the signal, or the signal is there, or it was lost.
Sleeping ==
  pc[Owner] \in {"pred", "block", "asleep"} =>
    \/ pc[starts] \in {"run", "destory", "call_load"} /\ wait = -1 /\ wakeup = 0
    \/ pc[starts] = "call_store" /\ wait = -1 /\ wakeup = 0 /\ reg[starts] \in {-1, 0}
    \/ pc[starts] = "grant_load" /\ wait = 0 /\ wakeup = 0
    \/ pc[starts] = "grant_store" /\ wait = 0 /\ wakeup = 0 /\ reg[starts] = 0
    \/ pc[starts] \in {"notify", "dead"} /\ wait = 0 /\ wakeup = 1
    \/ pc[starts] = "dead" /\ wait \in {-1, 1} /\ wakeup = 0

\* The owner takes the signal.
Taking ==
  pc[Owner] \in {"take_load", "take_store"} =>
    /\ pc[starts] \in {"notify", "dead"} /\ wait = 0 /\ wakeup = 1
    /\ pc[Owner] = "take_store" => reg[Owner] = 1

InClose == pc[Owner] \in InWaitForCall => ~isRun /\ starts > 0

IInv ==
  /\ Types /\ OneWorker /\ Loaded /\ MutexHeld
  /\ Outside /\ Entering /\ Sleeping /\ Taking /\ InClose

LEMMA LabelSets ==
  /\ OwnerLabels = {"out", "closed", "gone", "woken", "wait_load", "wait_store",
                    "pred", "block", "asleep", "take_load", "take_store"}
  /\ WorkerLabels = {"unborn", "dead", "run", "exit", "destory", "call_load",
                     "call_store", "grant_load", "grant_store", "notify"}
BY DEF OwnerLabels, WorkerLabels, InWaitForCall, InWakeUp, Working

LEMMA InitIInv == ASSUME Init PROVE IInv
<1>1. Types
  <2>1. Owner \in Threads /\ Owner \notin Workers /\ 0 \in 0..MaxStarts
    BY MaxStartsAssumption DEF Threads, Workers, Owner
  <2>2. pc \in [Threads -> OwnerLabels \union WorkerLabels]
    BY LabelSets DEF Init
  <2>3. pc[Owner] \in OwnerLabels /\ \A w \in Workers : pc[w] \in WorkerLabels \ {"exit"}
    BY <2>1, LabelSets DEF Init, Threads
  <2>4. reg \in [Threads -> Int] /\ mutex \in {Free, Owner}
    BY DEF Init
  <2>5. wait \in Int /\ wakeup \in Int /\ exited = {} /\ starts \in 0..MaxStarts
    BY <2>1 DEF Init
  <2>6. isRun \in BOOLEAN
    BY Zenon DEF Init
  <2> QED BY <2>2, <2>3, <2>4, <2>5, <2>6 DEF Types
<1>2. OneWorker /\ Loaded
  BY <1>1 DEF Init, Types, OneWorker, Loaded, Threads, Workers, Owner
<1>3. MutexHeld /\ Outside /\ Entering /\ Sleeping /\ Taking /\ InClose
  BY DEF Init, MutexHeld, Outside, Entering, Sleeping, Taking, InClose,
         InWaitForCall, Threads, Owner, Free
<1> QED BY <1>1, <1>2, <1>3 DEF IInv

\* One step of the owner, or of a worker that is not the current one, or of
\* the current one.
LEMMA StartKeeps == ASSUME IInv, Start PROVE IInv'
<1>1. /\ starts' = starts + 1 /\ starts \in Nat
      /\ starts' \in Workers /\ Owner \notin Workers
      /\ Workers \subseteq Nat /\ Workers \subseteq Threads /\ Owner \in Threads
  BY MaxStartsAssumption DEF IInv, Start, Types, Threads, Workers, Owner
<1>2. /\ pc'[Owner] = "out" /\ pc'[starts'] = "run"
      /\ \A w \in Workers \ {starts'} : pc'[w] = pc[w]
  BY <1>1 DEF IInv, Start, Types
<1>3. Types'
  BY <1>1, <1>2, LabelSets DEF IInv, Start, Types, Workers
<1>4. OneWorker'
  <2>1. ASSUME NEW w \in Workers PROVE w > starts' <=> pc'[w] = "unborn"
    BY <1>1, <1>2 DEF IInv, OneWorker
  <2>2. starts > 0 => pc[starts] \in {"notify", "dead"}
    <3>1. pc[Owner] \in {"out", "closed"} /\ ~isRun
      BY DEF Start
    <3> QED BY <1>1, <3>1 DEF IInv, Outside
  <2>3. ASSUME NEW w \in Workers, w < starts' PROVE pc'[w] \in {"notify", "dead"}
    <3>1. w < starts \/ (w = starts /\ starts > 0)
      BY <1>1, <2>3 DEF Workers
    <3> QED BY <1>1, <1>2, <2>2, <2>3, <3>1 DEF IInv, OneWorker
  <2> QED BY <2>1, <2>3 DEF OneWorker
<1>5. Loaded' /\ MutexHeld' /\ Outside' /\ Entering' /\ Sleeping' /\ Taking' /\ InClose'
  BY <1>1, <1>2 DEF IInv, Start, Types, Loaded, MutexHeld, Outside, Entering, Sleeping, Taking,
     InClose, InWaitForCall, Free, Owner
<1> QED BY <1>3, <1>4, <1>5 DEF IInv

LEMMA OwnerKeeps ==
  ASSUME IInv,
         CloseRunning \/ CloseIdle \/ CloseReturn \/ Destroy \/ Waiting \/ WakeSpuriously
  PROVE  IInv'
<1> USE DEF IInv, Goto
<1>1. /\ Owner \in Threads /\ Owner \notin Workers
      /\ starts > 0 => starts \in Workers /\ starts # Owner
      /\ Workers \subseteq Threads
  BY DEF Types, Threads, Workers, Owner
<1>2. /\ starts' = starts /\ exited' = exited
      /\ \A w \in Workers : pc'[w] = pc[w] /\ reg'[w] = reg[w]
  BY <1>1 DEF Types, CloseRunning, CloseIdle, CloseReturn, Destroy, Waiting, WakeSpuriously,
     waitForCall, WaitLoad, WaitStore, TestPredicate, Block, TakeLoad, TakeStore, SpuriousWakeup
<1>3. OneWorker'
  BY <1>2 DEF OneWorker
<1>4. CASE CloseRunning
  <2>1. pc'[Owner] = "wait_load"
    BY <1>1, <1>4 DEF CloseRunning, Types
  <2>2. starts > 0 /\ pc[starts] = "run" /\ wait = 0 /\ wakeup = 0
    BY <1>1, <1>4 DEF CloseRunning, Outside, Types
  <2>3. Types'
    BY <1>1, <1>2, <1>4, <2>1, LabelSets DEF CloseRunning, Types
  <2> QED
    BY <1>1, <1>2, <1>3, <1>4, <2>1, <2>2, <2>3 DEF CloseRunning, Loaded, MutexHeld, Outside,
       Entering, Sleeping, Taking, InClose, InWaitForCall, Free, Owner
<1>5. CASE CloseIdle
  BY <1>1, <1>2, <1>3, <1>5 DEF CloseIdle, Types, Loaded, MutexHeld, Outside, Entering, Sleeping,
     Taking, InClose, InWaitForCall, OwnerLabels, Free, Owner
<1>6. CASE CloseReturn
  BY <1>1, <1>2, <1>3, <1>6 DEF CloseReturn, Types, Loaded, MutexHeld, Outside, Entering, Sleeping,
     Taking, InClose, InWaitForCall, OwnerLabels, Free, Owner
<1>7. CASE Destroy
  BY <1>1, <1>2, <1>3, <1>7 DEF Destroy, Types, Loaded, MutexHeld, Outside, Entering, Sleeping,
     Taking, InClose, InWaitForCall, OwnerLabels, Free, Owner
<1>8. CASE WakeSpuriously
  BY <1>1, <1>2, <1>3, <1>8 DEF WakeSpuriously, SpuriousWakeup, Types, Loaded, MutexHeld, Outside,
     Entering, Sleeping, Taking, InClose, InWaitForCall, OwnerLabels, Free, Owner
<1>9. CASE Waiting
  BY <1>1, <1>2, <1>3, <1>9 DEF Waiting, waitForCall, WaitLoad, WaitStore, MustWait,
     TestPredicate, Signalled, Block, TakeLoad, TakeStore, Types, Loaded, MutexHeld, Outside,
     Entering, Sleeping, Taking, InClose, InWaitForCall, OwnerLabels, Free, Owner
<1> QED BY <1>4, <1>5, <1>6, <1>7, <1>8, <1>9

LEMMA WorkerKeeps ==
  ASSUME AllowExit = FALSE, IInv, NEW v \in Workers, OnWork(v)
  PROVE  IInv'
<1> USE DEF IInv, Goto
<1>1. /\ Owner \in Threads /\ Owner \notin Workers /\ v \in Threads /\ v # Owner
      /\ starts > 0 => starts \in Workers /\ starts # Owner
      /\ Workers \subseteq Threads /\ starts \in Nat /\ Workers \subseteq Nat
  BY DEF Types, Threads, Workers, Owner
<1>2. pc[v] \notin {"exit", "unborn"} /\ v <= starts /\ starts > 0
  <2>1. pc[v] \notin {"exit", "unborn"}
    BY <1>1 DEF OnWork, StopRunning, RunFails, Exit, OnDestory, wakeUp, CallLoad, CallStore,
       GrantLoad, GrantStore, NotifyOne, Types
  <2> QED BY <1>1, <2>1 DEF OneWorker, Workers
<1>3. /\ mutex' = mutex /\ isRun' = isRun /\ starts' = starts /\ exited' = exited
      /\ \A w \in Workers \ {v} : pc'[w] = pc[w] /\ reg'[w] = reg[w]
      /\ reg'[Owner] = reg[Owner]
  BY <1>1, <1>2 DEF Types, OnWork, StopRunning, RunFails, Exit, OnDestory, wakeUp, CallLoad,
     CallStore, GrantLoad, GrantStore, NotifyOne
<1>4. CASE v < starts
  <2>1. pc[v] = "notify" /\ NotifyOne(v)
    BY <1>1, <1>4 DEF OneWorker, OnWork, StopRunning, RunFails, Exit, OnDestory, wakeUp, CallLoad,
       CallStore, GrantLoad, GrantStore, NotifyOne
  <2>2. /\ pc'[v] = "dead" /\ wait' = wait /\ wakeup' = wakeup /\ reg' = reg
        /\ pc'[Owner] = IF pc[Owner] = "asleep" THEN "pred" ELSE pc[Owner]
        /\ pc'[starts] = pc[starts]
    BY <1>1, <1>2, <1>3, <1>4, <2>1 DEF NotifyOne, Types
  <2>3. Types'
    BY <1>1, <1>3, <2>1, <2>2, LabelSets DEF NotifyOne, Types
  <2>4. OneWorker'
    BY <1>1, <1>3, <1>4, <2>1, <2>2 DEF OneWorker
  <2> QED
    BY <1>1, <1>2, <1>3, <2>2, <2>3, <2>4 DEF Loaded, MutexHeld, Outside, Entering, Sleeping,
       Taking, InClose, InWaitForCall
<1>5. CASE v = starts
  <2>1. OneWorker'
    BY <1>1, <1>2, <1>3, <1>5 DEF OneWorker, Types, OnWork, StopRunning, RunFails, Exit, OnDestory,
       wakeUp, CallLoad, CallStore, GrantLoad, GrantStore, NotifyOne
  <2>2. CASE StopRunning(v)
    BY <1>1, <1>2, <1>3, <1>5, <2>1, <2>2, LabelSets DEF StopRunning, Types, Loaded, MutexHeld,
       Outside, Entering, Sleeping, Taking, InClose, InWaitForCall
  <2>3. CASE OnDestory(v)
    BY <1>1, <1>2, <1>3, <1>5, <2>1, <2>3, LabelSets DEF OnDestory, Types, Loaded, MutexHeld,
       Outside, Entering, Sleeping, Taking, InClose, InWaitForCall
  <2>4. CASE CallLoad(v)
    BY <1>1, <1>2, <1>3, <1>5, <2>1, <2>4, LabelSets DEF CallLoad, Types, Loaded, MutexHeld,
       Outside, Entering, Sleeping, Taking, InClose, InWaitForCall, OnWork
  <2>5. CASE CallStore(v)
    BY <1>1, <1>2, <1>3, <1>5, <2>1, <2>5, LabelSets DEF CallStore, Types, Loaded, MutexHeld,
       Outside, Entering, Sleeping, Taking, InClose, InWaitForCall
  <2>6. CASE GrantLoad(v)
    BY <1>1, <1>2, <1>3, <1>5, <2>1, <2>6, LabelSets DEF GrantLoad, Types, Loaded, MutexHeld,
       Outside, Entering, Sleeping, Taking, InClose, InWaitForCall
  <2>7. CASE GrantStore(v)
    BY <1>1, <1>2, <1>3, <1>5, <2>1, <2>7, LabelSets DEF GrantStore, Types, Loaded, MutexHeld,
       Outside, Entering, Sleeping, Taking, InClose, InWaitForCall
  <2>8. CASE NotifyOne(v)
    BY <1>1, <1>2, <1>3, <1>5, <2>1, <2>8, LabelSets DEF NotifyOne, Types, Loaded, MutexHeld,
       Outside, Entering, Sleeping, Taking, InClose, InWaitForCall
  <2>9. ~RunFails(v) /\ ~Exit(v)
    BY <1>2 DEF RunFails, Exit
  <2> QED BY <2>2, <2>3, <2>4, <2>5, <2>6, <2>7, <2>8, <2>9 DEF OnWork, wakeUp
<1> QED BY <1>1, <1>2, <1>4, <1>5

LEMMA StepIInv == ASSUME AllowExit = FALSE, IInv, [Next]_vars PROVE IInv'
<1>1. CASE UNCHANGED vars
  BY <1>1 DEF vars, IInv, Types, OneWorker, Loaded, MutexHeld, Outside, Entering, Sleeping,
     Taking, InClose
<1>2. CASE \E w \in Workers : OnWork(w)
  BY <1>2, WorkerKeeps
<1> QED BY <1>1, <1>2, StartKeeps, OwnerKeeps DEF Next

LEMMA Invariance == ASSUME AllowExit = FALSE PROVE Spec => []IInv
BY InitIInv, StepIInv, PTL DEF Spec

-----------------------------------------------------------------------------
(* The results. *)

\* The type invariant, with the ranges of the semaphore's counters.
THEOREM TypeCorrect == ASSUME AllowExit = FALSE PROVE Spec => []TypeOK
<1>1. ASSUME IInv PROVE TypeOK
  <2>1. wait \in -1..1 /\ wakeup \in 0..1
    <3>1. pc[Owner] \in OwnerLabels
      BY <1>1 DEF IInv, Types
    <3> QED BY <1>1, <3>1, LabelSets DEF IInv, Types, Outside, Entering, Sleeping, Taking
  <2>2. reg \in [Threads -> -1..MaxStarts]
    BY <1>1, MaxStartsAssumption DEF IInv, Types, Loaded
  <2> QED BY <1>1, <2>1, <2>2, MaxStartsAssumption DEF IInv, Types, TypeOK
<1> QED BY <1>1, Invariance, PTL

\* Close does not return before the callbacks of the worker are over: what
\* they use may be freed after it.
THEOREM CloseWaitsForWorker == ASSUME AllowExit = FALSE PROVE Spec => []CloseJoins
<1>1. ASSUME IInv PROVE CloseJoins
  <2> SUFFICES ASSUME pc[Owner] \in {"closed", "gone"}, NEW w \in Workers
               PROVE  pc[w] \notin Working
    BY DEF CloseJoins
  <2>1. starts > 0 => pc[starts] \in {"notify", "dead"}
    BY <1>1 DEF IInv, Outside
  <2>2. pc[w] \in {"unborn", "notify", "dead"}
    BY <1>1, <2>1 DEF IInv, Types, OneWorker, Workers
  <2> QED BY <2>2 DEF Working
<1> QED BY <1>1, Invariance, PTL

\* The thread object keeps the promise of JoinableThread, its fairness apart:
\* a worker in the callbacks at a time, Close returns only when it is through,
\* and sleeps for ever only then.
THEOREM ThreadIsJoinable == ASSUME AllowExit = FALSE PROVE Spec => Joinable!Spec
<1> DEFINE caller == IF pc[Owner] = "out" THEN "out"
                     ELSE IF pc[Owner] \in {"closed", "gone"} THEN "closed"
                     ELSE IF SignalLost THEN "lost" ELSE "closing"
           working == \E w \in Workers : pc[w] \in Working
<1>1. ASSUME Init PROVE Joinable!Init
  <2>1. pc[Owner] = "out" /\ \A w \in Workers : pc[w] = "unborn"
    BY <1>1 DEF Init, Threads, Workers, Owner
  <2> QED BY <2>1 DEF Joinable!Init, Working, SignalLost
<1>2. ASSUME AllowExit = FALSE, IInv, IInv', [Next]_vars PROVE [Joinable!Next]_(Joinable!vars)
  <2> USE <1>2
  <2>0. /\ Owner \in Threads /\ Owner \notin Workers /\ Workers \subseteq Threads
        /\ Workers \subseteq Nat /\ starts \in Nat /\ (starts > 0 => starts \in Workers)
        /\ pc \in [Threads -> OwnerLabels \union WorkerLabels]
    BY DEF IInv, Types, Threads, Workers, Owner
  \* Somebody is in the callbacks iff the current worker is.
  <2>1. working <=> starts > 0 /\ pc[starts] \in {"run", "destory"}
    BY <2>0 DEF IInv, Types, OneWorker, Working, Workers
  <2>2. working' <=> (starts > 0 /\ pc[starts] \in {"run", "destory"})'
    BY DEF IInv, Types, OneWorker, Working, Workers
  <2>3. CASE Start
    <3>1. /\ caller \in {"out", "closed"} /\ caller' = "out"
          /\ starts' > 0 /\ pc'[starts'] = "run" /\ ~working
      BY <2>0, <2>1, <2>3, MaxStartsAssumption DEF Start, IInv, Outside, Workers, Threads, Owner
    <3> QED BY <2>2, <3>1 DEF Joinable!Next, Joinable!Start
  <2>4. CASE CloseRunning
    <3>1. caller = "out" /\ caller' = "closing" /\ working /\ working'
      BY <2>0, <2>1, <2>2, <2>4 DEF CloseRunning, IInv, Outside, SignalLost
    <3> QED BY <3>1 DEF Joinable!Next, Joinable!CloseBegin
  <2>5. CASE CloseIdle
    <3>1. caller = "out" /\ caller' = "closed" /\ ~working /\ ~working'
      BY <2>0, <2>1, <2>2, <2>5 DEF CloseIdle, Goto, IInv, Outside, Owner
    <3> QED BY <3>1 DEF Joinable!Next, Joinable!CloseIdle
  <2>6. CASE CloseReturn
    <3>1. caller = "closing" /\ caller' = "closed" /\ ~working /\ ~working'
      BY <2>0, <2>1, <2>2, <2>6 DEF CloseReturn, Goto, IInv, Outside, SignalLost
    <3> QED BY <3>1 DEF Joinable!Next, Joinable!CloseEnd
  <2>7. CASE Destroy \/ Waiting \/ WakeSpuriously
    <3>1. \A w \in Workers : pc'[w] = pc[w]
      BY <2>0, <2>7 DEF Destroy, Waiting, WakeSpuriously, waitForCall, WaitLoad, WaitStore,
         TestPredicate, Block, TakeLoad, TakeStore, SpuriousWakeup, Goto
    <3>2. working' = working
      BY <3>1
    <3>3. SignalLost => ~working
      BY DEF SignalLost, Working
    <3>4. SignalLost' <=> pc'[Owner] = "asleep" /\ \A w \in Workers : pc[w] \in {"unborn", "dead"}
      BY <3>1 DEF SignalLost
    <3>5. CASE Destroy
      BY <2>0, <3>2, <3>5 DEF Destroy, Goto, Joinable!vars
    <3>6. CASE Block
      <4>1. caller = "closing" /\ caller' \in {"closing", "lost"}
        BY <2>0, <3>6 DEF Block, Goto, SignalLost
      <4>2. caller' = "lost" => ~working
        BY <2>0, <3>4, <3>6 DEF Block, Goto, Working
      <4> QED BY <3>2, <4>1, <4>2 DEF Joinable!Next, Joinable!LoseSignal, Joinable!vars
    <3>7. CASE WakeSpuriously
      <4>1. caller \in {"closing", "lost"} /\ caller' = "closing"
        BY <2>0, <3>7 DEF WakeSpuriously, SpuriousWakeup, Goto, SignalLost
      <4> QED BY <3>2, <4>1 DEF Joinable!Next, Joinable!WakeSpuriously, Joinable!vars
    <3>8. CASE Waiting /\ ~Block
      <4>1. caller' = caller
        BY <2>0, <3>8 DEF Waiting, waitForCall, WaitLoad, WaitStore, TestPredicate, TakeLoad,
           TakeStore, Goto, SignalLost
      <4> QED BY <3>2, <4>1 DEF Joinable!vars
    <3> QED BY <2>7, <3>5, <3>6, <3>7, <3>8
  <2>8. ASSUME NEW v \in Workers, OnWork(v) PROVE [Joinable!Next]_(Joinable!vars)
    <3>1. v \in Threads /\ v # Owner
      BY <2>0
    <3>2. /\ starts' = starts /\ pc[v] \notin {"unborn", "dead"} /\ ~SignalLost
          /\ pc'[Owner] \in {pc[Owner], "pred"} /\ (pc'[Owner] # pc[Owner] => pc[Owner] = "asleep")
      BY <2>0, <3>1, <2>8 DEF OnWork, StopRunning, RunFails, Exit, OnDestory, wakeUp, CallLoad,
         CallStore, GrantLoad, GrantStore, NotifyOne, Goto, SignalLost
    <3>3. CASE OnDestory(v)
      <4>1. pc[v] = "destory" /\ pc'[v] = "call_load" /\ v = starts /\ starts > 0
        BY <2>0, <3>1, <3>3 DEF OnDestory, Goto, IInv, OneWorker, Workers
      <4>2. working /\ ~working'
        BY <2>0, <2>1, <2>2, <3>2, <4>1
      <4>3. caller = "closing" /\ caller' = "closing"
        BY <2>0, <3>2, <4>1 DEF IInv, Outside, SignalLost
      <4> QED BY <4>2, <4>3 DEF Joinable!Next, Joinable!Finish
    <3>4. CASE ~OnDestory(v)
      <4>1. pc'[v] \in Working <=> pc[v] \in Working
        BY <2>0, <2>8, <3>1, <3>4 DEF OnWork, StopRunning, RunFails, Exit, wakeUp, CallLoad,
           CallStore, GrantLoad, GrantStore, NotifyOne, Goto, Working, IInv, Types
      <4>2. \A w \in Workers \ {v} : pc'[w] = pc[w]
        BY <2>0, <2>8, <3>1, <3>4 DEF OnWork, StopRunning, RunFails, Exit, wakeUp, CallLoad,
           CallStore, GrantLoad, GrantStore, NotifyOne, Goto
      <4>3. working' = working
        BY <4>1, <4>2
      \* The last worker goes, and the owner sleeps on.
      <4>4. CASE SignalLost'
        <5>1. caller = "closing" /\ caller' = "lost" /\ ~working'
          BY <3>2, <4>4 DEF SignalLost, Working
        <5> QED BY <4>3, <5>1 DEF Joinable!Next, Joinable!LoseSignal
      <4>5. CASE ~SignalLost'
        <5>1. caller' = caller
          BY <3>2, <4>5
        <5> QED BY <4>3, <5>1 DEF Joinable!vars
      <4> QED BY <4>4, <4>5
    <3> QED BY <3>3, <3>4
  <2>9. CASE UNCHANGED vars
    BY <2>9 DEF vars, Joinable!vars, SignalLost
  <2> QED BY <2>3, <2>4, <2>5, <2>6, <2>7, <2>8, <2>9 DEF Next
<1> QED
  BY <1>1, <1>2, Invariance, PTL DEF Spec, Joinable!Spec

-----------------------------------------------------------------------------
(* With Exit.  Here workers may overlap, since Close does not wait for one  *)
(* that left through Exit; all that counts is who clears isRun, and when.   *)

ExitInv ==
  /\ starts \in 0..MaxStarts
  /\ pc \in [Threads -> OwnerLabels \union WorkerLabels]
  /\ \A w \in Workers : w > starts => pc[w] = "unborn"
  /\ exited \subseteq 1..starts
  /\ pc[Owner] \in InWaitForCall => mutex = Owner
  /\ starts \in exited => ~isRun /\ pc[Owner] \notin InWaitForCall

LEMMA ExitInvStep == ASSUME ExitInv, [Next]_vars PROVE ExitInv'
<1> USE DEF ExitInv, Goto
<1>1. /\ Owner \in Threads /\ Owner \notin Workers /\ Workers \subseteq Threads
      /\ Workers \subseteq Nat /\ starts \in Nat
      /\ starts < MaxStarts => starts + 1 \in Workers
  BY MaxStartsAssumption DEF Threads, Workers, Owner
<1>2. CASE Start
  <2>1. /\ starts' = starts + 1 /\ starts' \in 0..MaxStarts /\ exited' = exited
        /\ pc'[Owner] = "out" /\ starts' \notin exited'
        /\ pc' \in [Threads -> OwnerLabels \union WorkerLabels]
    BY <1>1, <1>2, LabelSets, MaxStartsAssumption DEF Start
  <2>2. ASSUME NEW w \in Workers, w > starts' PROVE pc'[w] = "unborn"
    BY <1>1, <1>2, <2>1, <2>2 DEF Start
  <2> QED BY <1>1, <2>1, <2>2 DEF InWaitForCall
<1>3. CASE CloseRunning \/ CloseIdle \/ CloseReturn \/ Destroy
  <2>1. starts' = starts /\ exited' = exited
    BY <1>3 DEF CloseRunning, CloseIdle, CloseReturn, Destroy
  <2>2. /\ pc' \in [Threads -> OwnerLabels \union WorkerLabels]
        /\ \A w \in Workers : pc'[w] = pc[w]
    BY <1>1, <1>3, LabelSets DEF CloseRunning, CloseIdle, CloseReturn, Destroy
  <2>3. \/ pc'[Owner] \notin InWaitForCall /\ isRun' = isRun
        \/ mutex' = Owner /\ starts \notin exited
    BY <1>1, <1>3 DEF CloseRunning, CloseIdle, CloseReturn, Destroy, InWaitForCall
  <2> QED BY <2>1, <2>2, <2>3
<1>4. CASE Waiting \/ WakeSpuriously
  BY <1>1, <1>4, LabelSets DEF Waiting, WakeSpuriously, waitForCall, WaitLoad, WaitStore,
     TestPredicate, Block, TakeLoad, TakeStore, SpuriousWakeup, InWaitForCall
<1>5. ASSUME NEW v \in Workers, OnWork(v) PROVE ExitInv'
  <2>1. v \in 1..starts /\ v # Owner /\ starts' = starts
    BY <1>1, <1>5 DEF OnWork, StopRunning, RunFails, Exit, OnDestory, wakeUp, CallLoad, CallStore,
       GrantLoad, GrantStore, NotifyOne, Workers
  <2>2. CASE Exit(v)
    BY <1>1, <2>1, <2>2, LabelSets DEF Exit, Free, Owner, Workers
  <2>3. CASE ~Exit(v)
    <3>1. /\ mutex' = mutex /\ isRun' = isRun /\ exited' = exited
          /\ pc'[Owner] \in InWaitForCall <=> pc[Owner] \in InWaitForCall
          /\ \A w \in Workers : w > starts => pc'[w] = pc[w]
      BY <1>1, <1>5, <2>1, <2>3 DEF OnWork, StopRunning, RunFails, OnDestory, wakeUp, CallLoad,
         CallStore, GrantLoad, GrantStore, NotifyOne, InWaitForCall, Workers
    <3>2. pc' \in [Threads -> OwnerLabels \union WorkerLabels]
      BY <1>1, <1>5, <2>1, <2>3, LabelSets DEF OnWork, StopRunning, RunFails, OnDestory, wakeUp,
         CallLoad, CallStore, GrantLoad, GrantStore, NotifyOne
    <3> QED BY <2>1, <3>1, <3>2
  <2> QED BY <2>2, <2>3
<1>6. CASE UNCHANGED vars
  BY <1>6 DEF vars
<1> QED BY <1>2, <1>3, <1>4, <1>5, <1>6 DEF Next

\* Close never waits on the semaphore for a worker that left through Exit,
\* as CELLThread.hpp:45 has it, whichever workers are still on their way out.
THEOREM ExitIsFree == Spec => []ExitNeedsNoSemaphore
<1>1. ASSUME Init PROVE ExitInv
  <2>1. starts \in 0..MaxStarts /\ starts \notin exited /\ exited \subseteq 1..starts
    BY <1>1, MaxStartsAssumption DEF Init
  <2>2. pc \in [Threads -> OwnerLabels \union WorkerLabels]
    BY <1>1, LabelSets DEF Init
  <2>3. pc[Owner] = "out" /\ \A w \in Workers : pc[w] = "unborn"
    BY <1>1 DEF Init, Threads, Workers, Owner
  <2> QED BY <2>1, <2>2, <2>3 DEF ExitInv, InWaitForCall
<1>2. ASSUME ExitInv PROVE ExitNeedsNoSemaphore
  BY <1>2 DEF ExitInv, ExitNeedsNoSemaphore
<1> QED BY <1>1, <1>2, ExitInvStep, PTL DEF Spec
=============================================================================
