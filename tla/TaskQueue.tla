------------------------------ MODULE TaskQueue ------------------------------
(***************************************************************************)
(* What a task server promises the threads that give it work: tasks run    *)
(* one at a time, in the order they were added, none twice; and whatever   *)
(* was added before Close is called has run when Close returns; it need    *)
(* not return, but then, too, all of that has run.                         *)
(***************************************************************************)
EXTENDS Naturals, Sequences

CONSTANT Tasks

VARIABLES
  pending,   \* added, not run yet
  ran,       \* has run, in this order
  state,     \* "open", then Close is called: "closing", it returns: "closed",
             \* or never will: "lost"
  due        \* how many tasks had been added when Close was called

vars == <<pending, ran, state, due>>

Init == pending = <<>> /\ ran = <<>> /\ state = "open" /\ due = 0

\* Nothing stops a thread from adding tasks after Close.
Add(t) ==
  /\ pending' = Append(pending, t)
  /\ UNCHANGED <<ran, state, due>>

Run ==
  /\ state \in {"open", "closing"}
  /\ pending # <<>>
  /\ ran' = Append(ran, Head(pending))
  /\ pending' = Tail(pending)
  /\ UNCHANGED <<state, due>>

Close ==
  /\ state = "open"
  /\ state' = "closing"
  /\ due' = Len(ran) + Len(pending)
  /\ UNCHANGED <<pending, ran>>

CloseEnds ==
  /\ state = "closing"
  /\ Len(ran) >= due
  /\ state' \in {"closed", "lost"}
  /\ UNCHANGED <<pending, ran, due>>

Next == (\E t \in Tasks : Add(t)) \/ Run \/ Close \/ CloseEnds

Spec == Init /\ [][Next]_vars

\* What is pending runs, and Close comes to its end, heard of or not.
FairSpec == Spec /\ WF_vars(Run) /\ WF_vars(CloseEnds)
=============================================================================
