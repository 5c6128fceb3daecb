------------------------------ MODULE Heartbeat ------------------------------
(***************************************************************************)
(* The heartbeat of version 2's clients: checkHeart and resetDTHeart of    *)
(* v2/include/CELLClient.hpp, and _oldTime and CheckTime in the loop of    *)
(* v2/include/CELLServer.hpp, with the clients of one CellServer thread.   *)
(*                                                                         *)
(* Only differences of times matter, so a tick moves the timers and not a  *)
(* clock.  A tick may come between any two steps: the thread may be in a   *)
(* blocking send, or not scheduled, but for no more than MaxLag together   *)
(* between two readings of the clock.                                      *)
(***************************************************************************)
EXTENDS Naturals, FiniteSets

CONSTANTS
  NClients,   \* the clients; _clients has them in this order
  DeadTime,   \* CLIENT_HEART_DEAD_TIME, in ticks
  MaxLag,     \* bound: ticks between two readings of the clock
  Interval,   \* how far apart, at most, a lively peer sends heartbeats
  Messages    \* what peers send: a subset of AllMessages

AllMessages == {"Login", "Logout", "Heart_C2S"}

ASSUME NClientsAssumption == NClients \in Nat \ {0}
ASSUME DeadTimeAssumption == DeadTime \in Nat \ {0}
ASSUME MaxLagAssumption == MaxLag \in Nat \ {0}
\* The protocol: a heartbeat may wait out a whole round of the loop, and the
\* round that reads it counts from its beginning.
ASSUME IntervalAssumption == Interval \in Nat /\ Interval + 2 * MaxLag < DeadTime
ASSUME MessagesAssumption == Messages \subseteq AllMessages

Clients == 1..NClients
End == NClients + 1         \* _clients.end()

VARIABLES
  status,    \* "none", in _clientsBuff, in _clients, or deleted
  dtHeart,   \* _dtHeart
  socket,    \* what waits in the client's socket, and whether its peer closed
  hung,      \* the peers that will never do anything again
  lag,       \* the time since _oldTime
  pc,        \* the thread: "top", "read", "check" and the "sweep" of CheckTime
  ready,     \* the sockets select reported and that were not read yet
  dt, iter,  \* the locals of CheckTime
  crashed,   \* the process died of an invalid iterator
  quiet,     \* history: the time since the peer's last heartbeat
  late,      \* history: the peers that were quiet for longer than Interval
  expired    \* history: the clients that CheckTime deleted

peerVars == <<socket, hung>>
thrVars == <<pc, ready, dt, iter>>
history == <<quiet, late, expired>>
vars == <<status, dtHeart, peerVars, lag, thrVars, crashed, history>>

InMap == {c \in Clients : status[c] = "map"}
Present == {c \in Clients : status[c] \in {"buff", "map"}}

\* The key in S that comes first, and the end of the map when there is none.
First(S) == IF S = {} THEN End ELSE CHOOSE c \in S : \A d \in S : c <= d

Init ==
  /\ status = [c \in Clients |-> "none"]
  /\ dtHeart = [c \in Clients |-> 0]
  /\ socket = [c \in Clients |-> {}]
  /\ hung = {}
  /\ lag = 0
  /\ pc = "top" /\ ready = {} /\ dt = 0 /\ iter = End
  /\ crashed = FALSE
  /\ quiet = [c \in Clients |-> 0]
  /\ late = {}
  /\ expired = {}

\* quiet counts no further than what an invariant looks at.
QuietCap == DeadTime + 3 * MaxLag

Tick ==
  /\ lag < MaxLag
  /\ lag' = lag + 1
  /\ quiet' = [c \in Clients |-> IF c \in Present /\ quiet[c] <= QuietCap
                                 THEN quiet[c] + 1 ELSE quiet[c]]
  /\ late' = late \union {c \in Present : quiet[c] >= Interval}
  /\ UNCHANGED <<status, dtHeart, peerVars, thrVars, crashed, expired>>

-----------------------------------------------------------------------------
\* The peers, and the accept thread that creates their clients.

\* The constructor of CellClient calls resetDTHeart.
Connect(c) ==
  /\ status[c] = "none"
  /\ status' = [status EXCEPT ![c] = "buff"]
  /\ dtHeart' = [dtHeart EXCEPT ![c] = 0]
  /\ UNCHANGED <<peerVars, lag, thrVars, crashed, history>>

\* The messages that tell the server that the peer is there.
KeepAlive == {"Login", "Heart_C2S"}

Send(c, m) ==
  /\ c \in Present /\ c \notin hung /\ "close" \notin socket[c]
  /\ socket' = [socket EXCEPT ![c] = @ \union {m}]
  /\ quiet' = IF m \in KeepAlive THEN [quiet EXCEPT ![c] = 0] ELSE quiet
  /\ UNCHANGED <<status, dtHeart, hung, lag, thrVars, crashed, late, expired>>

Leave(c) ==
  /\ c \in Present /\ c \notin hung
  /\ socket' = [socket EXCEPT ![c] = @ \union {"close"}]
  /\ hung' = hung \union {c}
  /\ UNCHANGED <<status, dtHeart, lag, thrVars, crashed, history>>

\* The peer's machine is gone and its socket stays open.
Hang(c) ==
  /\ c \in Present /\ c \notin hung
  /\ hung' = hung \union {c}
  /\ UNCHANGED <<status, dtHeart, socket, lag, thrVars, crashed, history>>

-----------------------------------------------------------------------------
\* The CellServer thread.

\* Mutant: _oldTime is set at the top of every round, clients or not.
AlwaysIdle(cs) == TRUE

\* Nobody to serve: sleep, and take the time.
NobodyIn(cs) == cs = {}

\* The top of the loop: the clients in the buffer go to the map, and select
\* reports the sockets in which something waits.
Top ==
  /\ pc = "top"
  /\ LET cs == Present
     IN /\ status' = [c \in Clients |-> IF c \in cs THEN "map" ELSE status[c]]
        /\ lag' = IF NobodyIn(cs) THEN 0 ELSE lag
        /\ ready' = {c \in cs : socket[c] # {}}
        /\ pc' = IF cs = {} THEN "top" ELSE "read"
  /\ UNCHANGED <<dtHeart, peerVars, dt, iter, crashed, history>>

\* Mutants: Heart_C2S does not call resetDTHeart; every message calls it.
ResetsOnLogin(ms) == "Login" \in ms
ResetsAlways(ms) == ms # {}

\* OnNetMsg calls resetDTHeart for Login and Heart_C2S, not for Logout.
Resets(ms) == ms \intersect {"Login", "Heart_C2S"} # {}

\* Mutant: the client is not erased.
EraseNothing(c) == UNCHANGED status

Erase(c) == status' = [status EXCEPT ![c] = "gone"]

\* Nothing is left of a deleted client's socket.
Forget(c) == socket' = [socket EXCEPT ![c] = {}] /\ quiet' = [quiet EXCEPT ![c] = 0]

\* ReadData: recv takes what is there and OnNetMsg sees each message; recv
\* fails when there is nothing and the peer has closed, and the client goes.
ReadData(c) ==
  /\ pc = "read"
  /\ c \in ready
  /\ ready' = ready \ {c}
  /\ LET ms == socket[c] \ {"close"}
     IN IF ms # {}
        THEN /\ socket' = [socket EXCEPT ![c] = @ \ ms]
             /\ dtHeart' = IF Resets(ms) THEN [dtHeart EXCEPT ![c] = 0] ELSE dtHeart
             /\ UNCHANGED <<status, quiet>>
        ELSE /\ Erase(c)
             /\ Forget(c)
             /\ UNCHANGED dtHeart
  /\ UNCHANGED <<hung, lag, pc, dt, iter, crashed, late, expired>>

\* WriteData takes its time, and then CheckTime takes the clock.
WriteData ==
  /\ pc = "read" /\ ready = {}
  /\ pc' = "check"
  /\ UNCHANGED <<status, dtHeart, peerVars, lag, ready, dt, iter, crashed, history>>

CheckTime ==
  /\ pc = "check"
  /\ dt' = lag
  /\ lag' = 0
  /\ iter' = First(InMap)
  /\ pc' = "sweep"
  /\ UNCHANGED <<status, dtHeart, peerVars, ready, crashed, history>>

Aged(c) == dtHeart[c] + dt

checkHeart(c) == Aged(c) >= DeadTime

\* The client is young enough: on to the next.
Keep ==
  /\ pc = "sweep" /\ iter # End
  /\ ~checkHeart(iter)
  /\ dtHeart' = [dtHeart EXCEPT ![iter] = Aged(iter)]
  /\ iter' = First({c \in InMap : c > iter})
  /\ UNCHANGED <<status, peerVars, lag, pc, ready, dt, crashed, history>>

\* OnNetLeave, delete and erase; then the erased iterator is incremented,
\* which crashes, or leads to any client that is left or to the end.
Expire ==
  /\ pc = "sweep" /\ iter # End
  /\ checkHeart(iter)
  /\ dtHeart' = [dtHeart EXCEPT ![iter] = Aged(iter)]
  /\ Erase(iter)
  /\ Forget(iter)
  /\ expired' = expired \union {iter}
  /\ iter' \in (InMap \ {iter}) \union {End}
  /\ crashed' \in BOOLEAN
  /\ UNCHANGED <<hung, lag, pc, ready, dt, late>>

SweepEnds ==
  /\ pc = "sweep" /\ iter = End
  /\ pc' = "top"
  /\ dt' = 0
  /\ UNCHANGED <<status, dtHeart, peerVars, lag, ready, iter, crashed, history>>

ServerThread ==
  Top \/ (\E c \in Clients : ReadData(c)) \/ WriteData \/ CheckTime
    \/ Keep \/ Expire \/ SweepEnds

Peer(c) == Connect(c) \/ (\E m \in Messages : Send(c, m)) \/ Leave(c) \/ Hang(c)

Next == ~crashed /\ (Tick \/ ServerThread \/ \E c \in Clients : Peer(c))

Spec == Init /\ [][Next]_vars

(* Time passes, and the thread, which never waits for longer than a         *)
(* millisecond of sleep or a send of bounded length, goes on.               *)
FairSpec == Spec /\ WF_vars(~crashed /\ Tick) /\ WF_vars(~crashed /\ ServerThread)

-----------------------------------------------------------------------------
TypeOK ==
  /\ status \in [Clients -> {"none", "buff", "map", "gone"}]
  /\ dtHeart \in [Clients -> 0..(DeadTime + MaxLag)]
  /\ socket \in [Clients -> SUBSET (AllMessages \union {"close"})]
  /\ hung \in SUBSET Clients
  /\ lag \in 0..MaxLag /\ dt \in 0..MaxLag
  /\ pc \in {"top", "read", "check", "sweep"}
  /\ ready \in SUBSET Clients
  /\ iter \in 1..End
  /\ crashed \in BOOLEAN
  /\ quiet \in [Clients -> 0..(QuietCap + 1)]
  /\ late \in SUBSET Clients
  /\ expired \in SUBSET Clients

\* A peer that sends a heartbeat at least every Interval is never
\* disconnected for the lack of one, however its heartbeats fall into the
\* rounds of the loop, although a round ages the clients that joined in it and
\* the heartbeats read in it by all of its length.  (Once a client has expired
\* the iterator may age another one twice.)
LivelyPeersStay == expired # {} => expired \intersect late # {}

\* Nobody is kept for long without a heartbeat: whatever else it sends, a
\* client that is still in the map when the sweep is over has sent one less
\* than DeadTime and the length of three rounds ago.  (A sweep that met an
\* erased iterator may have passed clients over, and the time is lost.)
QuietPeersLeave ==
  expired = {} => \A c \in InMap : quiet[c] < QuietCap

\* A peer that hangs without closing its socket is disconnected in the end,
\* also after sweeps that the erased iterator cut short.
HungPeersLeave ==
  \A c \in Clients : (c \in hung /\ c \in Present) ~> (status[c] = "gone" \/ crashed)
=============================================================================
