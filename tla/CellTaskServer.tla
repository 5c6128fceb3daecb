--------------------------- MODULE CellTaskServer ---------------------------
(***************************************************************************)
(* CellTaskServer of v2/include/CELLTask.hpp, which CELLLog is built on:   *)
(* any thread adds tasks to _taskBuf under the lock, one worker moves them *)
(* to _tasks and runs them.  The worker looks at _taskBuf without the lock *)
(* twice: when it asks whether there is something to move, and when it     *)
(* runs what is left after Close.  Its thread keeps the promise of         *)
(* JoinableThread: Close waits for the worker, and may lose its signal.    *)
(***************************************************************************)
EXTENDS Naturals, Sequences, FiniteSets

CONSTANT Tasks      \* the tasks; each is added once, by a thread of its own

VARIABLES
  taskBuf,   \* _taskBuf
  tasks,     \* _tasks
  isRun,     \* _thread's _isRun
  pc,        \* where the worker is in OnRun
  at,        \* the position of the worker's iterator
  caller,    \* the owner: "open", in Close: "closing", back from it: "closed",
             \* or asleep in it after the worker is through: "lost"
  added,     \* history: what has been added
  ran,       \* history: what has run, in this order
  due        \* history: how much had been added when Close was called

vars == <<taskBuf, tasks, isRun, pc, at, caller, added, ran, due>>
history == <<added, ran, due>>

Init ==
  /\ taskBuf = <<>>
  /\ tasks = <<>>
  /\ isRun = TRUE
  /\ pc = "top"
  /\ at = 1
  /\ caller = "open"
  /\ added = {}
  /\ ran = <<>>
  /\ due = 0

\* The worker holds _mutex only while it moves tasks, which is one step here.
addTask(t) ==
  /\ t \notin added
  /\ taskBuf' = Append(taskBuf, t)
  /\ added' = added \union {t}
  /\ UNCHANGED <<tasks, isRun, pc, at, caller, ran, due>>

-----------------------------------------------------------------------------
\* The worker: OnRun.

\* Mutant: positions begin at 0.
BeginAtZero == at' = 0

Begin == at' = 1

\* Mutant: what is left when isRun() is false is left.
TopDone ==
  /\ pc = "top"
  /\ pc' = IF ~isRun THEN "done" ELSE IF taskBuf = <<>> THEN "check" ELSE "move"
  /\ Begin
  /\ UNCHANGED <<taskBuf, tasks, isRun, caller, history>>

\* isRun(), then _taskBuf.empty().
Top ==
  /\ pc = "top"
  /\ pc' = IF ~isRun THEN "drain" ELSE IF taskBuf = <<>> THEN "check" ELSE "move"
  /\ Begin
  /\ UNCHANGED <<taskBuf, tasks, isRun, caller, history>>

\* Mutant: _taskBuf is not cleared.
MoveKeeps ==
  /\ pc = "move"
  /\ tasks' = tasks \o taskBuf
  /\ pc' = "check"
  /\ UNCHANGED <<taskBuf, isRun, at, caller, history>>

\* Under the lock: all tasks go from _taskBuf to the end of _tasks.
Move ==
  /\ pc = "move"
  /\ tasks' = tasks \o taskBuf
  /\ taskBuf' = <<>>
  /\ pc' = "check"
  /\ UNCHANGED <<isRun, at, caller, history>>

\* Sleep when there is no task, else run them.
Check ==
  /\ pc = "check"
  /\ pc' = IF tasks = <<>> THEN "top" ELSE "run"
  /\ UNCHANGED <<taskBuf, tasks, isRun, at, caller, history>>

RunOne ==
  /\ pc = "run"
  /\ at <= Len(tasks)
  /\ ran' = Append(ran, tasks[at])
  /\ at' = at + 1
  /\ UNCHANGED <<taskBuf, tasks, isRun, pc, caller, added, due>>

Clear ==
  /\ pc = "run"
  /\ at > Len(tasks)
  /\ tasks' = <<>>
  /\ pc' = "top"
  /\ UNCHANGED <<taskBuf, isRun, at, caller, history>>

\* What is left in _taskBuf runs, without the lock: a task added meanwhile is
\* met by the iterator, or not if the iterator has reached the end.
DrainOne ==
  /\ pc = "drain"
  /\ at <= Len(taskBuf)
  /\ ran' = Append(ran, taskBuf[at])
  /\ at' = at + 1
  /\ UNCHANGED <<taskBuf, tasks, isRun, pc, caller, added, due>>

DrainEnd ==
  /\ pc = "drain"
  /\ at > Len(taskBuf)
  /\ pc' = "done"
  /\ UNCHANGED <<taskBuf, tasks, isRun, at, caller, history>>

Worker == Top \/ Move \/ Check \/ RunOne \/ Clear \/ DrainOne \/ DrainEnd

-----------------------------------------------------------------------------
\* The owner: Close stops the worker and waits for it.

Close ==
  /\ caller = "open"
  /\ isRun' = FALSE
  /\ caller' = "closing"
  /\ due' = Cardinality(added)
  /\ UNCHANGED <<taskBuf, tasks, pc, at, added, ran>>

CloseReturns ==
  /\ caller = "closing"
  /\ pc = "done"
  /\ caller' = "closed"
  /\ UNCHANGED <<taskBuf, tasks, isRun, pc, at, history>>

\* The worker's signal gets lost.  (An owner that a spurious wakeup saves has
\* returned late, nothing else.)
LoseSignal ==
  /\ caller = "closing"
  /\ pc = "done"
  /\ caller' = "lost"
  /\ UNCHANGED <<taskBuf, tasks, isRun, pc, at, history>>

CloseEnds == CloseReturns \/ LoseSignal

Next == (\E t \in Tasks : addTask(t)) \/ Worker \/ Close \/ CloseEnds

Spec == Init /\ [][Next]_vars

(* The worker never blocks for long, and when it is through Close gets the  *)
(* signal or has lost it.                                                   *)
FairSpec == Spec /\ WF_vars(Worker) /\ WF_vars(CloseEnds)

-----------------------------------------------------------------------------
TypeOK ==
  /\ taskBuf \in Seq(Tasks)
  /\ tasks \in Seq(Tasks)
  /\ isRun \in BOOLEAN
  /\ pc \in {"top", "move", "check", "run", "drain", "done"}
  /\ at \in Nat \ {0}
  /\ caller \in {"open", "closing", "closed", "lost"}
  /\ added \in SUBSET Tasks
  /\ ran \in Seq(Tasks)
  /\ due \in Nat

\* The part of s from position i on.
From(s, i) == SubSeq(s, i, Len(s))

Pending ==
  CASE pc = "run" -> From(tasks, at) \o taskBuf
    [] pc \in {"drain", "done"} -> From(taskBuf, at)
    [] OTHER -> tasks \o taskBuf

\* The promise to the threads that add tasks, as a refinement: order, no
\* task twice, none lost that was added before Close, and none forgotten.
\* A task that is added later, when the worker has passed the end of
\* _taskBuf, stays there for ever.
Queue == INSTANCE TaskQueue WITH pending <- Pending, state <- caller
ImplementsTaskQueue == Queue!FairSpec
=============================================================================
