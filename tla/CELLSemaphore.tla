---------------------------- MODULE CELLSemaphore ----------------------------
(***************************************************************************)
(* The signal of v2/include/CELLSemaphore.hpp: the thread that owns a      *)
(* CELLThread waits in waitForCall for a worker thread to call wakeUp.     *)
(*                                                                         *)
(* waitForCall holds the semaphore's mutex except while it sleeps on the   *)
(* condition variable; wakeUp takes no lock at all.  The counters _wait    *)
(* and _wakeup are plain ints, so each ++ and -- is a load and a store     *)
(* that the other thread can fall between, and wakeUp can run between the  *)
(* test of the predicate and the sleep.  There is one waiting thread, so   *)
(* the semaphore's mutex never excludes anybody and has no variable here.  *)
(*                                                                         *)
(* The module has the steps only; CELLThread calls them and says who is in *)
(* which step.                                                             *)
(***************************************************************************)
EXTENDS Integers

VARIABLES
  wait,     \* _wait: wakeUps minus waitForCalls
  wakeup,   \* _wakeup: signals granted and not yet taken
  pc,       \* where each thread is
  reg       \* the value a thread loaded and has not stored back

\* The thread that calls waitForCall; workers are 1, 2, ...
Owner == 0

\* Thread p moves from one label to another.
Goto(p, from, to) == pc[p] = from /\ pc' = [pc EXCEPT ![p] = to]

-----------------------------------------------------------------------------
\* waitForCall

\* --_wait, first half.
WaitLoad ==
  /\ Goto(Owner, "wait_load", "wait_store")
  /\ reg' = [reg EXCEPT ![Owner] = wait]
  /\ UNCHANGED <<wait, wakeup>>

\* Mutant: the test uses the value from before the decrement.
MustWaitPostfix(n) == n + 1 < 0

MustWait(n) == n < 0

\* --_wait, second half, and the test of the result: sleep or return.
WaitStore ==
  /\ Goto(Owner, "wait_store", IF MustWait(reg[Owner] - 1) THEN "pred" ELSE "woken")
  /\ wait' = reg[Owner] - 1
  /\ UNCHANGED <<wakeup, reg>>

\* Mutant: a wait without a predicate.
AnyWakeup == TRUE

Signalled == wakeup > 0

\* _cv.wait evaluates its predicate.
TestPredicate ==
  /\ Goto(Owner, "pred", IF Signalled THEN "take_load" ELSE "block")
  /\ UNCHANGED <<wait, wakeup, reg>>

\* _cv.wait releases the mutex and joins the sleepers.
Block ==
  /\ Goto(Owner, "block", "asleep")
  /\ UNCHANGED <<wait, wakeup, reg>>

\* A condition variable may wake a sleeper that nobody notified.
SpuriousWakeup ==
  /\ Goto(Owner, "asleep", "pred")
  /\ UNCHANGED <<wait, wakeup, reg>>

\* --_wakeup, first half.
TakeLoad ==
  /\ Goto(Owner, "take_load", "take_store")
  /\ reg' = [reg EXCEPT ![Owner] = wakeup]
  /\ UNCHANGED <<wait, wakeup>>

\* --_wakeup, second half.
TakeStore ==
  /\ Goto(Owner, "take_store", "woken")
  /\ wakeup' = reg[Owner] - 1
  /\ UNCHANGED <<wait, reg>>

-----------------------------------------------------------------------------
\* wakeUp

\* ++_wait, first half.
CallLoad(w) ==
  /\ Goto(w, "call_load", "call_store")
  /\ reg' = [reg EXCEPT ![w] = wait]
  /\ UNCHANGED <<wait, wakeup>>

\* ++_wait, second half: a result of at most 0 means somebody is waiting.
CallStore(w) ==
  /\ Goto(w, "call_store", IF reg[w] + 1 <= 0 THEN "grant_load" ELSE "dead")
  /\ wait' = reg[w] + 1
  /\ UNCHANGED <<wakeup, reg>>

\* ++_wakeup, first half.
GrantLoad(w) ==
  /\ Goto(w, "grant_load", "grant_store")
  /\ reg' = [reg EXCEPT ![w] = wakeup]
  /\ UNCHANGED <<wait, wakeup>>

\* ++_wakeup, second half.
GrantStore(w) ==
  /\ Goto(w, "grant_store", "notify")
  /\ wakeup' = reg[w] + 1
  /\ UNCHANGED <<wait, reg>>

\* Mutant: no notify_one.
NotifyNobody(w) ==
  /\ Goto(w, "notify", "dead")
  /\ UNCHANGED <<wait, wakeup, reg>>

\* _cv.notify_one wakes the owner if it sleeps, and is forgotten if not.
NotifyOne(w) ==
  /\ pc[w] = "notify"
  /\ pc' = [pc EXCEPT ![w] = "dead",
                      ![Owner] = IF @ = "asleep" THEN "pred" ELSE @]
  /\ UNCHANGED <<wait, wakeup, reg>>

-----------------------------------------------------------------------------
waitForCall == \/ WaitLoad \/ WaitStore \/ TestPredicate \/ Block
               \/ TakeLoad \/ TakeStore

wakeUp(w) == \/ CallLoad(w) \/ CallStore(w)
             \/ GrantLoad(w) \/ GrantStore(w) \/ NotifyOne(w)

InWaitForCall == {"wait_load", "wait_store", "pred", "block", "asleep",
                  "take_load", "take_store"}
InWakeUp == {"call_load", "call_store", "grant_load", "grant_store", "notify"}
=============================================================================
