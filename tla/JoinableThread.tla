--------------------------- MODULE JoinableThread ---------------------------
(***************************************************************************)
(* What v2/include/CELLThread.hpp promises its owner: at most one worker   *)
(* runs the OnCreate, OnRun and OnDestory callbacks, it goes on until it   *)
(* is told to stop, and Close does not return before it is through.  Close *)
(* need not return at all: the signal it waits for may get lost.           *)
(* CELLTask and CellServer are built on this promise, as far as it goes.   *)
(***************************************************************************)
VARIABLES
  caller,   \* "out", in "closing", back from it: "closed", or asleep in it
            \* with nobody left to wake it: "lost"
  working   \* a worker is inside the callbacks

vars == <<caller, working>>

Init == caller = "out" /\ working = FALSE

Start ==
  /\ caller \in {"out", "closed"}
  /\ ~working
  /\ caller' = "out"
  /\ working' = TRUE

\* Closing a thread that is not running returns at once.
CloseIdle ==
  /\ caller \in {"out", "closed"}
  /\ ~working
  /\ caller' = "closed"
  /\ UNCHANGED working

CloseBegin ==
  /\ caller = "out"
  /\ working
  /\ caller' = "closing"
  /\ UNCHANGED working

Finish ==
  /\ caller = "closing"
  /\ working
  /\ working' = FALSE
  /\ UNCHANGED caller

CloseEnd ==
  /\ caller = "closing"
  /\ ~working
  /\ caller' = "closed"
  /\ UNCHANGED working

LoseSignal ==
  /\ caller = "closing"
  /\ ~working
  /\ caller' = "lost"
  /\ UNCHANGED working

\* Who sleeps for ever may wake spuriously, to look for the signal again.
WakeSpuriously ==
  /\ caller = "lost"
  /\ caller' = "closing"
  /\ UNCHANGED working

Next ==
  \/ Start \/ CloseIdle \/ CloseBegin \/ Finish
  \/ CloseEnd \/ LoseSignal \/ WakeSpuriously

Spec == Init /\ [][Next]_vars

\* A worker that is told to stop finishes, and when it has, Close returns or
\* has lost its signal: it does not go on in any other way.
FairSpec == Spec /\ WF_vars(Finish) /\ WF_vars(CloseEnd \/ LoseSignal)
=============================================================================
