----------------------------- MODULE CELLThread -----------------------------
(***************************************************************************)
(* The thread object of v2/include/CELLThread.hpp.  Its owner (main, or    *)
(* main inside a destructor) calls Start and Close and in the end destroys *)
(* the object; each Start creates a detached worker that runs OnWork.      *)
(***************************************************************************)
EXTENDS CELLSemaphore

CONSTANTS
  MaxStarts,      \* bound: how often the owner calls Start on a stopped thread
  AllowExit,      \* whether OnRun may meet an error and leave through Exit
  AllowSpurious   \* whether the condition variable may wake spuriously

ASSUME MaxStartsAssumption == MaxStarts \in Nat \ {0}
ASSUME AllowExitAssumption == AllowExit \in BOOLEAN
ASSUME AllowSpuriousAssumption == AllowSpurious \in BOOLEAN

VARIABLES
  isRun,    \* _isRun
  mutex,    \* the thread holding _mutex, or Free
  starts,   \* workers created so far; worker w was created by the w-th Start
  exited    \* history: the workers that went through Exit

vars == <<wait, wakeup, pc, reg, isRun, mutex, starts, exited>>

Workers == 1..MaxStarts
Threads == {Owner} \union Workers
Free == -1

\* The labels at which a worker is inside OnCreate, OnRun or OnDestory.
Working == {"run", "exit", "destory"}

Init ==
  /\ wait = 0
  /\ wakeup = 0
  /\ pc = [p \in Threads |-> IF p = Owner THEN "out" ELSE "unborn"]
  /\ reg = [p \in Threads |-> 0]
  /\ isRun = FALSE
  /\ mutex = Free
  /\ starts = 0
  /\ exited = {}

-----------------------------------------------------------------------------
\* The owner.

\* Start on a thread that is not running.  (On a running one it does nothing.)
Start ==
  /\ pc[Owner] \in {"out", "closed"}
  /\ mutex = Free
  /\ ~isRun
  /\ starts < MaxStarts
  /\ isRun' = TRUE
  /\ starts' = starts + 1
  /\ pc' = [pc EXCEPT ![Owner] = "out", ![starts + 1] = "run"]
  /\ UNCHANGED <<wait, wakeup, reg, mutex, exited>>

\* Close takes _mutex; when the thread is running it clears _isRun and goes
\* on to _sem.waitForCall with the mutex held.
CloseRunning ==
  /\ pc[Owner] \in {"out", "closed"}
  /\ mutex = Free
  /\ isRun
  /\ isRun' = FALSE
  /\ mutex' = Owner
  /\ pc' = [pc EXCEPT ![Owner] = "wait_load"]
  /\ UNCHANGED <<wait, wakeup, reg, starts, exited>>

\* Close on a thread that is not running returns at once.
CloseIdle ==
  /\ Goto(Owner, "out", "closed")
  /\ mutex = Free
  /\ ~isRun
  /\ UNCHANGED <<wait, wakeup, reg, isRun, mutex, starts, exited>>

\* Close returns from waitForCall and its lock_guard releases _mutex.
CloseReturn ==
  /\ Goto(Owner, "woken", "closed")
  /\ mutex' = Free
  /\ UNCHANGED <<wait, wakeup, reg, isRun, starts, exited>>

\* The owner destroys the object (delete s, ~EasyTcpServer, ~CELLLog).
Destroy ==
  /\ Goto(Owner, "closed", "gone")
  /\ UNCHANGED <<wait, wakeup, reg, isRun, mutex, starts, exited>>

-----------------------------------------------------------------------------
\* A worker.  While isRun() is TRUE the loop of OnRun goes round.

\* Mutant: OnRun returns although isRun() is TRUE.
StopUnasked(w) ==
  /\ Goto(w, "run", "destory")
  /\ UNCHANGED <<wait, wakeup, reg, isRun, mutex, starts, exited>>

\* OnRun sees isRun() = FALSE and returns to OnWork.
StopRunning(w) ==
  /\ Goto(w, "run", "destory")
  /\ ~isRun
  /\ UNCHANGED <<wait, wakeup, reg, isRun, mutex, starts, exited>>

\* OnRun meets an error (select < 0) and calls Exit.
RunFails(w) ==
  /\ AllowExit
  /\ Goto(w, "run", "exit")
  /\ UNCHANGED <<wait, wakeup, reg, isRun, mutex, starts, exited>>

\* Mutant: Exit leaves _isRun set.
ExitStillRunning(w) ==
  /\ Goto(w, "exit", "destory")
  /\ mutex = Free
  /\ exited' = exited \union {w}
  /\ UNCHANGED <<wait, wakeup, reg, isRun, mutex, starts>>

\* Exit takes _mutex, clears _isRun and releases _mutex; OnRun breaks.
Exit(w) ==
  /\ Goto(w, "exit", "destory")
  /\ mutex = Free
  /\ isRun' = FALSE
  /\ exited' = exited \union {w}
  /\ UNCHANGED <<wait, wakeup, reg, mutex, starts>>

\* OnWork runs _OnDestory and goes on to _sem.wakeUp.
OnDestory(w) ==
  /\ Goto(w, "destory", "call_load")
  /\ UNCHANGED <<wait, wakeup, reg, isRun, mutex, starts, exited>>

OnWork(w) ==
  \/ StopRunning(w) \/ RunFails(w) \/ Exit(w) \/ OnDestory(w)
  \/ wakeUp(w) /\ UNCHANGED <<isRun, mutex, starts, exited>>

Waiting == waitForCall /\ UNCHANGED <<isRun, mutex, starts, exited>>

WakeSpuriously ==
  /\ AllowSpurious
  /\ SpuriousWakeup
  /\ UNCHANGED <<isRun, mutex, starts, exited>>

Next ==
  \/ Start \/ CloseRunning \/ CloseIdle \/ CloseReturn \/ Destroy
  \/ Waiting \/ WakeSpuriously
  \/ \E w \in Workers : OnWork(w)

Spec == Init /\ [][Next]_vars

(* The scheduler runs every thread that is not blocked.  Calling Start,     *)
(* Close or the destructor is the owner's choice, an error in OnRun and a   *)
(* spurious wakeup are chance: none of them is fair.                        *)
Fairness ==
  /\ WF_vars(Waiting)
  /\ WF_vars(CloseReturn)
  /\ \A w \in Workers :
       /\ WF_vars(StopRunning(w))
       /\ WF_vars(Exit(w))
       /\ WF_vars(OnDestory(w))
       /\ WF_vars(wakeUp(w) /\ UNCHANGED <<isRun, mutex, starts, exited>>)

FairSpec == Spec /\ Fairness

-----------------------------------------------------------------------------
OwnerLabels == {"out", "closed", "gone", "woken"} \union InWaitForCall
WorkerLabels == {"unborn", "dead"} \union Working \union InWakeUp

\* Types, and the ranges of the two counters of the semaphore.
TypeOK ==
  /\ wait \in -1..MaxStarts
  /\ wakeup \in 0..MaxStarts
  /\ pc \in [Threads -> OwnerLabels \union WorkerLabels]
  /\ pc[Owner] \in OwnerLabels
  /\ \A w \in Workers : pc[w] \in WorkerLabels
  /\ reg \in [Threads -> -1..MaxStarts]
  /\ isRun \in BOOLEAN
  /\ mutex \in {Free, Owner}
  /\ starts \in 0..MaxStarts
  /\ exited \in SUBSET Workers

\* When Close has returned, no worker is inside the callbacks: OnDestory
\* (ClearClients in CellServer) is over before the owner goes on and frees
\* what the callbacks use.
CloseJoins ==
  pc[Owner] \in {"closed", "gone"} =>
    \A w \in Workers : pc[w] \notin Working

\* The owner sleeps in Close and no worker is left that could wake it.
SignalLost == pc[Owner] = "asleep" /\ \A w \in Workers : pc[w] \in {"unborn", "dead"}

\* The promise to the owner, as a refinement: who Close waits for and when it
\* may return, and that it returns or has lost the signal.
Joinable == INSTANCE JoinableThread WITH
  caller <- IF pc[Owner] = "out" THEN "out"
            ELSE IF pc[Owner] \in {"closed", "gone"} THEN "closed"
            ELSE IF SignalLost THEN "lost" ELSE "closing",
  working <- \E w \in Workers : pc[w] \in Working

ImplementsJoinableThread == Joinable!FairSpec

\* Close never blocks on the semaphore for a worker that left through Exit
\* (CELLThread.hpp:45: leaving through Exit needs no semaphore).
ExitNeedsNoSemaphore ==
  pc[Owner] \in InWaitForCall => starts \notin exited

\* Outside the race of the two calls the signal is reliable: if the owner
\* sleeps before the worker reaches wakeUp, or comes to waitForCall after the
\* worker is through, Close returns.  (Not if the sleeper is woken by something
\* else, spuriously or by the late notify_one of an earlier worker: that takes
\* it back into the race.)
OrderedSignalArrives ==
  \A w \in Workers :
    LET Alone == starts = w /\ \A v \in 1..(w - 1) : pc[v] = "dead"
    IN /\ (Alone /\ pc[Owner] = "asleep" /\ pc[w] \in {"run", "destory"})
            ~> pc[Owner] = "closed"
       /\ (Alone /\ pc[Owner] = "wait_load" /\ pc[w] = "dead")
            ~> pc[Owner] = "closed"

-----------------------------------------------------------------------------
\* What the documentation says and the code does not do.

\* README.md:37 calls the signal reliable: the owner never sleeps on when
\* the worker it waits for is through with wakeUp.
NoLostSignal == ~SignalLost
=============================================================================
