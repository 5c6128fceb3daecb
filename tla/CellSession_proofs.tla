------------------------- MODULE CellSession_proofs --------------------------
(***************************************************************************)
(* Proofs about CellSession, for any lengths of messages and sizes of      *)
(* buffers within the assumptions and any number of requests: no unit is   *)
(* lost, repeated or out of order in either direction, and the server      *)
(* drops only a peer that has closed its socket.                           *)
(***************************************************************************)
EXTENDS CellSession, SequenceTheorems, TLAPS

-----------------------------------------------------------------------------
(* The inductive invariant. *)

Unit == Nat \X Nat
Cmds == Requests \union Replies

\* Every unit belongs to one of the messages ms.
Belongs(s, ms) == \A p \in 1..Len(s) : s[p][1] \in 1..Len(ms)

\* A message that begins in s is in s as a whole, unit after unit.
Unbroken(s, ms) ==
  \A p \in 1..Len(s) : s[p][2] = 1 =>
    \A d \in 0..(MsgLen[ms[s[p][1]]] - 1) :
      p + d <= Len(s) /\ s[p + d] = <<s[p][1], d + 1>>

Up == recvBuf \o upWire
Down == downWire \o sendBuf

\* The requests on their way to OnNetMsg, and the replies to the peer.
Arriving == Belongs(Up, sent) /\ Unbroken(Up, sent) /\ RequestsIntact
Leaving == Belongs(Down, replies) /\ delivered[1] \in 0..Len(replies) /\ RepliesIntact

\* Wherever the thread looks at the client's socket it has handled every
\* message that is whole in the buffer.
Drained == pc \in {"select", "read", "write"} => ~hasMsg

IInv == TypeOK /\ Arriving /\ Leaving /\ Drained /\ OnlyClosedPeersLeave

-----------------------------------------------------------------------------
(* Lemmas about streams. *)

Before(s, u, p) == IF p = 1 THEN u ELSE s[p - 1]
Chain(s, u, ms) == \A p \in 1..Len(s) : Follows(Before(s, u, p), s[p], ms)
Ends(s, u, ms) == (IF Len(s) = 0 THEN u ELSE s[Len(s)]) = EndOf(Len(ms), ms)

LEMMA Lengths ==
  ASSUME NEW cmd \in Cmds
  PROVE  MsgLen[cmd] \in Nat \ {0} /\ HdrLen \in Nat \ {0} /\ HdrLen <= MsgLen[cmd]
BY LengthAssumption DEF Cmds

LEMMA ContinuesIs ==
  ASSUME NEW s \in Seq(Unit), NEW u \in Unit, NEW ms \in Seq(Cmds)
  PROVE  Continues(s, u, ms) <=> Chain(s, u, ms) /\ Ends(s, u, ms)
<1> DEFINE t == <<u>> \o s
<1>1. /\ Len(t) = Len(s) + 1 /\ Len(s) \in Nat /\ t[1] = u
      /\ \A p \in 1..Len(s) : t[p + 1] = s[p] /\ t[p] = Before(s, u, p)
  <2>1. <<u>> \in Seq(Unit) /\ Len(<<u>>) = 1 /\ <<u>>[1] = u /\ Len(s) \in Nat
    OBVIOUS
  <2>2. /\ Len(t) = 1 + Len(s)
        /\ \A p \in 1..(1 + Len(s)) : t[p] = IF p <= 1 THEN <<u>>[p] ELSE s[p - 1]
    BY <2>1, ConcatProperties
  <2>3. ASSUME NEW p \in 1..Len(s) PROVE t[p + 1] = s[p] /\ t[p] = Before(s, u, p)
    <3>1. p + 1 \in 1..(1 + Len(s)) /\ p \in 1..(1 + Len(s)) /\ ~(p + 1 <= 1) /\ (p + 1) - 1 = p
          /\ (p <= 1 <=> p = 1)
      BY <2>1
    <3>2. t[p + 1] = s[p]
      BY <2>2, <3>1
    <3>3. t[p] = IF p = 1 THEN u ELSE s[p - 1]
      BY <2>1, <2>2, <3>1
    <3> QED BY <3>2, <3>3 DEF Before
  <2>4. 1 \in 1..(1 + Len(s))
    BY <2>1
  <2> QED BY <2>1, <2>2, <2>3, <2>4
<1>2. t[Len(t)] = IF Len(s) = 0 THEN u ELSE s[Len(s)]
  <2> HIDE DEF t
  <2>1. CASE Len(s) = 0
    BY <1>1, <2>1
  <2>2. CASE Len(s) # 0
    <3>1. Len(s) \in 1..Len(s)
      BY <1>1, <2>2
    <3> QED BY <1>1, <2>2, <3>1
  <2> QED BY <2>1, <2>2
<1>3. EndOf(Len(ms), ms) = IF Len(ms) = 0 THEN <<0, 0>> ELSE <<Len(ms), MsgLen[ms[Len(ms)]]>>
  BY DEF EndOf
<1>4. Continues(s, u, ms) <=>
        /\ \A p \in 1..Len(s) : Follows(t[p], t[p + 1], ms)
        /\ t[Len(t)] = EndOf(Len(ms), ms)
  BY <1>3 DEF Continues
<1> HIDE DEF t
<1> QED BY <1>1, <1>2, <1>4 DEF Chain, Ends

LEMMA UnitsProperties ==
  ASSUME NEW i \in Nat, NEW cmd \in Cmds
  PROVE  /\ Units(i, cmd) \in Seq(Unit)
         /\ Len(Units(i, cmd)) = MsgLen[cmd]
         /\ \A k \in 1..MsgLen[cmd] : Units(i, cmd)[k] = <<i, k>>
<1>1. MsgLen[cmd] \in Nat
  BY Lengths
<1>2. \A k \in 1..MsgLen[cmd] : <<i, k>> \in Unit
  BY <1>1 DEF Unit
<1> QED BY <1>1, <1>2 DEF Units

\* s2 is the stream s of the messages ms, with cmd appended, unit after unit.
Appended(s, ms, cmd, s2, ms2) ==
  /\ Len(s2) = Len(s) + MsgLen[cmd]
  /\ \A p \in 1..Len(s) : s2[p] = s[p]
  /\ \A p \in 1..(Len(s) + MsgLen[cmd]) : p > Len(s) => s2[p] = <<Len(ms) + 1, p - Len(s)>>
  /\ Len(ms2) = Len(ms) + 1 /\ ms2[Len(ms) + 1] = cmd
  /\ \A i \in 1..Len(ms) : ms2[i] = ms[i]

LEMMA AppendUnits ==
  ASSUME NEW s \in Seq(Unit), NEW u \in Unit, NEW ms \in Seq(Cmds), NEW cmd \in Cmds,
         NEW s2 \in Seq(Unit), NEW ms2 \in Seq(Cmds),
         u[1] \in 0..Len(ms), Belongs(s, ms), Continues(s, u, ms),
         Appended(s, ms, cmd, s2, ms2)
  PROVE  Belongs(s2, ms2) /\ Continues(s2, u, ms2) /\ (Unbroken(s, ms) => Unbroken(s2, ms2))
<1> DEFINE l == Len(s)  m == MsgLen[cmd]  n == Len(ms) + 1
<1>1. n \in Nat \ {0} /\ l \in Nat /\ m \in Nat \ {0} /\ Len(ms) = n - 1 /\ Len(s) = l /\ MsgLen[cmd] = m
  BY Lengths
<1>2. u[1] \in 0..(n - 1) /\ Belongs(s, ms)
  BY <1>1
<1>3. Len(ms2) = n /\ ms2[n] = cmd /\ \A i \in 1..(n - 1) : ms2[i] = ms[i]
  BY <1>1 DEF Appended
<1>4. /\ Len(s2) = l + m
      /\ \A p \in 1..l : s2[p] = s[p]
      /\ \A p \in 1..(l + m) : p > l => s2[p] = <<n, p - l>>
  BY <1>1 DEF Appended
<1> HIDE DEF l, m, n
<1>5. l # 0 => s[l] \in Unit /\ l \in 1..l
  <2>1. l # 0 => l \in 1..l
    BY <1>1
  <2> QED BY <1>1, <2>1, ElementOfSeq
<1>6. Belongs(s2, ms2)
  <2>1. ASSUME NEW p \in 1..(l + m) PROVE s2[p][1] \in 1..n
    <3>1. CASE p <= l
      <4>1. p \in 1..l
        BY <1>1, <3>1
      <4>2. s[p][1] \in 1..(n - 1)
        BY <1>1, <4>1 DEF Belongs
      <4> QED BY <1>1, <1>4, <4>1, <4>2
    <3>2. CASE p > l
      BY <1>1, <1>4, <3>2
    <3> QED BY <1>1, <3>1, <3>2
  <2> QED BY <1>3, <1>4, <2>1 DEF Belongs
<1>7. Chain(s, u, ms) /\ Ends(s, u, ms)
  BY ContinuesIs
<1>8. Chain(s2, u, ms2)
  <2>1. ASSUME NEW p \in 1..(l + m) PROVE Follows(Before(s2, u, p), s2[p], ms2)
    <3>1. CASE p <= l
      <4>1. p \in 1..l /\ s2[p] = s[p] /\ Before(s2, u, p) = Before(s, u, p)
        <5>1. p \in 1..l /\ (p # 1 => p - 1 \in 1..l)
          BY <1>1, <3>1
        <5> QED BY <1>4, <5>1 DEF Before
      <4>2. Before(s, u, p)[1] \in 0..(n - 1)
        <5>1. p # 1 => p - 1 \in 1..l
          BY <1>1, <4>1
        <5>2. p # 1 => s[p - 1][1] \in 1..(n - 1)
          BY <1>1, <5>1 DEF Belongs
        <5> QED BY <1>1, <5>2 DEF Before
      <4>3. Follows(Before(s, u, p), s[p], ms)
        BY <1>1, <1>7, <4>1 DEF Chain
      <4>4. Before(s, u, p)[1] > 0 => Before(s, u, p)[1] \in 1..(n - 1)
        BY <1>1, <4>2
      <4>5. Before(s, u, p)[1] > 0 => ms2[Before(s, u, p)[1]] = ms[Before(s, u, p)[1]]
        BY <1>3, <4>4
      <4> QED BY <4>1, <4>3, <4>5 DEF Follows
    <3>2. CASE p = l + 1
      <4>1. s2[p] = <<n, 1>>
        BY <1>1, <1>4, <3>2
      <4>2. Before(s2, u, p) = IF l = 0 THEN u ELSE s[l]
        <5>1. CASE l = 0
          BY <1>1, <3>2, <5>1 DEF Before
        <5>2. CASE l # 0
          BY <1>1, <1>4, <1>5, <3>2, <5>2 DEF Before
        <5> QED BY <5>1, <5>2
      <4>3. Before(s2, u, p) = EndOf(n - 1, ms)
        BY <1>1, <1>7, <4>2 DEF Ends
      <4>4. CASE n = 1
        <5>1. Before(s2, u, p) = <<0, 0>>
          BY <1>1, <4>3, <4>4 DEF EndOf
        <5> QED BY <4>1, <4>4, <5>1 DEF Follows
      <4>5. CASE n # 1
        <5>1. n - 1 \in 1..(n - 1) /\ n - 1 # 0
          BY <1>1, <4>5
        <5>2. Before(s2, u, p) = <<n - 1, MsgLen[ms[n - 1]]>> /\ ms2[n - 1] = ms[n - 1]
          BY <1>3, <4>3, <5>1 DEF EndOf
        <5>3. MsgLen[ms[n - 1]] \in Nat
          <6>1. ms[n - 1] \in Cmds
            BY <1>1, <5>1, ElementOfSeq
          <6> QED BY <6>1, Lengths
        <5>4. ~(MsgLen[ms[n - 1]] < MsgLen[ms[n - 1]]) /\ (n - 1) + 1 = n
          BY <1>1, <5>3
        <5> QED BY <4>1, <5>2, <5>4 DEF Follows
      <4> QED BY <4>4, <4>5
    <3>3. CASE p > l + 1
      <4>1. p - 1 \in 1..(l + m) /\ p - 1 > l /\ p # 1 /\ (p - 1) - l < m /\ n > 0 /\ p > l
            /\ ((p - 1) - l) + 1 = p - l
        <5>1. \A x, y, z \in Nat : x > y + 1 /\ x <= y + z =>
                /\ x - 1 \in 1..(y + z) /\ x - 1 > y /\ x # 1 /\ (x - 1) - y < z /\ x > y
                /\ ((x - 1) - y) + 1 = x - y
          OBVIOUS
        <5>2. p \in Nat /\ p <= l + m
          BY <1>1
        <5> QED BY <1>1, <3>3, <5>1, <5>2
      <4>2. s2[p] = <<n, p - l>> /\ Before(s2, u, p) = <<n, (p - 1) - l>>
        BY <1>4, <4>1 DEF Before
      <4> QED BY <1>1, <1>3, <4>1, <4>2 DEF Follows
    <3> QED BY <1>1, <3>1, <3>2, <3>3
  <2> QED BY <1>4, <2>1 DEF Chain
<1>9. Ends(s2, u, ms2)
  <2>1. l + m \in 1..(l + m) /\ l + m > l /\ (l + m) - l = m /\ l + m # 0 /\ n # 0
    BY <1>1
  <2>2. s2[l + m] = <<n, m>>
    BY <1>4, <2>1
  <2> QED BY <1>1, <1>3, <1>4, <2>1, <2>2 DEF Ends, EndOf
<1>10. ASSUME Unbroken(s, ms) PROVE Unbroken(s2, ms2)
  <2> SUFFICES ASSUME NEW p \in 1..(l + m), s2[p][2] = 1,
                      NEW d \in 0..(MsgLen[ms2[s2[p][1]]] - 1)
               PROVE  p + d <= l + m /\ s2[p + d] = <<s2[p][1], d + 1>>
    BY <1>4 DEF Unbroken
  <2>1. CASE p <= l
    <3>1. p \in 1..l /\ s2[p] = s[p]
      BY <1>1, <1>4, <2>1
    <3>2. s[p][1] \in 1..(n - 1)
      BY <1>1, <3>1 DEF Belongs
    <3>3. MsgLen[ms2[s2[p][1]]] = MsgLen[ms[s[p][1]]]
      BY <1>3, <3>1, <3>2
    <3>4. p + d <= l /\ s[p + d] = <<s[p][1], d + 1>>
      BY <1>1, <1>10, <3>1, <3>3 DEF Unbroken
    <3>5. d \in Nat
      <4>1. ms[s[p][1]] \in Cmds
        BY <1>1, <3>2, ElementOfSeq
      <4> QED BY <3>3, <4>1, Lengths
    <3>6. p + d \in 1..l /\ p + d <= l + m
      BY <1>1, <3>1, <3>4, <3>5
    <3> QED BY <1>4, <3>1, <3>4, <3>6
  <2>2. CASE p > l
    <3>1. s2[p] = <<n, p - l>> /\ p = l + 1
      <4>1. s2[p] = <<n, p - l>>
        BY <1>4, <2>2
      <4>2. p - l = 1
        BY <4>1
      <4> QED BY <1>1, <4>1, <4>2
    <3>2. MsgLen[ms2[s2[p][1]]] = m
      BY <1>1, <1>3, <3>1
    <3>3. d \in 0..(m - 1)
      BY <3>2
    <3>4. p + d \in 1..(l + m) /\ p + d > l /\ (p + d) - l = d + 1
      BY <1>1, <3>1, <3>3
    <3> QED BY <1>1, <1>4, <3>1, <3>4
  <2>3. p <= l \/ p > l
    BY <1>1
  <2> QED BY <2>1, <2>2, <2>3
<1>11. Continues(s2, u, ms2)
  BY <1>3, <1>4, <1>8, <1>9, ContinuesIs
<1> QED BY <1>6, <1>10, <1>11

\* The same, as SendRequest and push do it.
NextMessage(s, ms, cmd, s2, ms2) == s2 = s \o Units(Len(ms) + 1, cmd) /\ ms2 = Append(ms, cmd)

LEMMA AppendMessage ==
  ASSUME NEW s \in Seq(Unit), NEW u \in Unit, NEW ms \in Seq(Cmds), NEW cmd \in Cmds,
         u[1] \in 0..Len(ms), Belongs(s, ms), Continues(s, u, ms),
         NEW s2, NEW ms2, NextMessage(s, ms, cmd, s2, ms2)
  PROVE  /\ s2 \in Seq(Unit) /\ Belongs(s2, ms2) /\ Continues(s2, u, ms2)
         /\ Unbroken(s, ms) => Unbroken(s2, ms2)
<1> DEFINE U == Units(Len(ms) + 1, cmd)
<1>1. Len(ms) + 1 \in Nat /\ Len(s) \in Nat /\ MsgLen[cmd] \in Nat
  BY Lengths
<1>2. U \in Seq(Unit) /\ Len(U) = MsgLen[cmd] /\ \A k \in 1..MsgLen[cmd] : U[k] = <<Len(ms) + 1, k>>
  BY <1>1, UnitsProperties
<1>3. /\ ms2 \in Seq(Cmds) /\ Len(ms2) = Len(ms) + 1 /\ ms2[Len(ms) + 1] = cmd
      /\ \A i \in 1..Len(ms) : ms2[i] = ms[i]
  BY AppendProperties DEF NextMessage
<1>4. /\ s2 \in Seq(Unit) /\ Len(s2) = Len(s) + Len(U)
      /\ \A p \in 1..(Len(s) + Len(U)) : s2[p] = IF p <= Len(s) THEN s[p] ELSE U[p - Len(s)]
  BY <1>2, ConcatProperties DEF NextMessage
<1> HIDE DEF U
<1>5. \A p \in 1..Len(s) : s2[p] = s[p]
  <2>1. ASSUME NEW p \in 1..Len(s) PROVE s2[p] = s[p]
    <3>1. p \in 1..(Len(s) + Len(U)) /\ p <= Len(s)
      BY <1>1, <1>2
    <3> QED BY <1>4, <3>1
  <2> QED BY <2>1
<1>6. \A p \in 1..(Len(s) + MsgLen[cmd]) : p > Len(s) => s2[p] = <<Len(ms) + 1, p - Len(s)>>
  <2>1. ASSUME NEW p \in 1..(Len(s) + MsgLen[cmd]), p > Len(s)
        PROVE  s2[p] = <<Len(ms) + 1, p - Len(s)>>
    <3>1. p - Len(s) \in 1..MsgLen[cmd] /\ ~(p <= Len(s))
      BY <1>1, <2>1
    <3> QED BY <1>2, <1>4, <3>1
  <2> QED BY <2>1
<1>7. Len(s2) = Len(s) + MsgLen[cmd]
  BY <1>2, <1>4
<1>8. Appended(s, ms, cmd, s2, ms2)
  BY <1>3, <1>5, <1>6, <1>7 DEF Appended
<1>9. ASSUME NEW x \in Seq(Unit), NEW y \in Seq(Cmds), Appended(s, ms, cmd, x, y)
      PROVE  Belongs(x, y) /\ Continues(x, u, y) /\ (Unbroken(s, ms) => Unbroken(x, y))
  BY <1>9, AppendUnits
<1>10. Belongs(s2, ms2) /\ Continues(s2, u, ms2) /\ (Unbroken(s, ms) => Unbroken(s2, ms2))
  BY <1>3, <1>4, <1>8, <1>9
<1> QED BY <1>4, <1>10

\* A stream whose first n units are taken.
Rest(s, n, s2) == s2 = SubSeq(s, n + 1, Len(s))

LEMMA DropUnits ==
  ASSUME NEW s \in Seq(Unit), NEW u \in Unit, NEW ms \in Seq(Cmds), NEW n \in 1..Len(s),
         Belongs(s, ms), Continues(s, u, ms),
         NEW s2, Rest(s, n, s2)
  PROVE  /\ s2 \in Seq(Unit) /\ Belongs(s2, ms) /\ Continues(s2, s[n], ms)
         /\ Unbroken(s, ms) => Unbroken(s2, ms)
<1> DEFINE l == Len(s)
<1>1. l \in Nat /\ n \in Nat \ {0} /\ n <= l /\ n + 1 \in Int
  OBVIOUS
<1>2. \A p \in 1..l : s[p] \in Unit
  BY ElementOfSeq
<1>3. /\ s2 \in Seq(Unit) /\ Len(s2) = l - n
      /\ \A p \in 1..(l - n) : s2[p] = s[n + p]
  <2>1. \A p \in (n + 1)..l : s[p] \in Unit
    BY <1>1, <1>2
  <2>2. /\ s2 \in Seq(Unit) /\ Len(s2) = IF n + 1 <= l THEN l - (n + 1) + 1 ELSE 0
        /\ \A p \in 1..(l - (n + 1) + 1) : s2[p] = s[(n + 1) + p - 1]
    BY <1>1, <2>1, SubSeqProperties DEF Rest
  <2> HIDE DEF l
  <2>3. /\ (IF n + 1 <= l THEN l - (n + 1) + 1 ELSE 0) = l - n
        /\ l - (n + 1) + 1 = l - n
        /\ \A p \in 1..(l - n) : (n + 1) + p - 1 = n + p
    BY <1>1
  <2> QED BY <2>2, <2>3
<1>4. Len(s) = l
  OBVIOUS
<1> HIDE DEF l
<1>5. \A p \in 1..(l - n) : n + p \in 1..l /\ n + p # 1 /\ (n + p) - 1 = n + (p - 1)
  BY <1>1
<1>6. Belongs(s2, ms)
  BY <1>3, <1>4, <1>5 DEF Belongs
<1>7. Chain(s, u, ms) /\ Ends(s, u, ms)
  BY ContinuesIs
<1>8. Chain(s2, s[n], ms)
  <2>1. ASSUME NEW p \in 1..(l - n) PROVE Follows(Before(s2, s[n], p), s2[p], ms)
    <3>1. Follows(Before(s, u, n + p), s[n + p], ms)
      BY <1>4, <1>5, <1>7 DEF Chain
    <3>2. Before(s, u, n + p) = s[n + (p - 1)]
      BY <1>5 DEF Before
    <3>3. Before(s2, s[n], p) = s[n + (p - 1)]
      <4>1. CASE p = 1
        <5>1. n + (p - 1) = n
          BY <1>1, <4>1
        <5> QED BY <4>1, <5>1 DEF Before
      <4>2. CASE p # 1
        <5>1. p - 1 \in 1..(l - n)
          BY <1>1, <4>2
        <5> QED BY <1>3, <4>2, <5>1 DEF Before
      <4> QED BY <4>1, <4>2
    <3> QED BY <1>3, <3>1, <3>2, <3>3
  <2> QED BY <1>3, <2>1 DEF Chain
<1>9. Ends(s2, s[n], ms)
  <2>1. Len(s) # 0 /\ s[l] = EndOf(Len(ms), ms)
    BY <1>1, <1>4, <1>7 DEF Ends
  <2>2. CASE l = n
    <3>1. l - n = 0
      BY <1>1, <2>2
    <3> QED BY <1>3, <2>1, <2>2, <3>1 DEF Ends
  <2>3. CASE l # n
    <3>1. l - n \in 1..(l - n) /\ l - n # 0 /\ n + (l - n) = l
      BY <1>1, <2>3
    <3> QED BY <1>3, <2>1, <3>1 DEF Ends
  <2> QED BY <2>2, <2>3
<1>10. ASSUME Unbroken(s, ms) PROVE Unbroken(s2, ms)
  <2> SUFFICES ASSUME NEW p \in 1..(l - n), s2[p][2] = 1, NEW d \in 0..(MsgLen[ms[s2[p][1]]] - 1)
               PROVE  p + d <= l - n /\ s2[p + d] = <<s2[p][1], d + 1>>
    BY <1>3 DEF Unbroken
  <2>1. n + p \in 1..l /\ s2[p] = s[n + p]
    BY <1>3, <1>5
  <2>2. (n + p) + d <= l /\ s[(n + p) + d] = <<s2[p][1], d + 1>>
    BY <1>4, <1>10, <2>1 DEF Unbroken
  <2>3. d \in Nat
    <3>1. s[n + p][1] \in 1..Len(ms)
      BY <1>4, <2>1 DEF Belongs
    <3>2. ms[s[n + p][1]] \in Cmds
      BY <3>1, ElementOfSeq
    <3> QED BY <2>1, <3>2, Lengths
  <2>4. p + d \in 1..(l - n) /\ n + (p + d) = (n + p) + d /\ p + d <= l - n
    BY <1>1, <2>2, <2>3
  <2> QED BY <1>3, <2>2, <2>4
<1>11. s[n] \in Unit
  BY <1>2, <1>1
<1>12. Continues(s2, s[n], ms)
  BY <1>3, <1>8, <1>9, <1>11, ContinuesIs
<1> QED BY <1>3, <1>6, <1>10, <1>12

\* Units that move from the front of b to the end of a.
LEMMA MoveUnits ==
  ASSUME NEW a \in Seq(Unit), NEW b \in Seq(Unit), NEW n \in 1..Len(b)
  PROVE  /\ SubSeq(b, 1, n) \in Seq(Unit) /\ Len(SubSeq(b, 1, n)) = n
         /\ SubSeq(b, n + 1, Len(b)) \in Seq(Unit)
         /\ (a \o SubSeq(b, 1, n)) \o SubSeq(b, n + 1, Len(b)) = a \o b
<1>1. Len(b) \in Nat /\ n \in Nat /\ n <= Len(b) /\ n \in Int /\ Len(b) \in Int /\ n + 1 \in Int
  OBVIOUS
<1>2. \A p \in 1..Len(b) : b[p] \in Unit
  BY ElementOfSeq
<1>3. SubSeq(b, 1, n) \in Seq(Unit) /\ Len(SubSeq(b, 1, n)) = n
  <2>1. \A p \in 1..n : b[p] \in Unit
    BY <1>1, <1>2
  <2>2. SubSeq(b, 1, n) \in Seq(Unit) /\ Len(SubSeq(b, 1, n)) = IF 1 <= n THEN n - 1 + 1 ELSE 0
    BY <1>1, <2>1, SubSeqProperties
  <2> QED BY <1>1, <2>2
<1>4. SubSeq(b, n + 1, Len(b)) \in Seq(Unit)
  <2>1. \A p \in (n + 1)..Len(b) : b[p] \in Unit
    BY <1>1, <1>2
  <2> QED BY <1>1, <2>1, SubSeqProperties
<1>5. SubSeq(b, 1, n) \o SubSeq(b, n + 1, Len(b)) = b
  <2>1. 1 \in 1..(Len(b) + 1) /\ n \in (1 - 1)..Len(b) /\ Len(b) \in n..Len(b)
    BY <1>1
  <2>2. SubSeq(b, 1, n) \o SubSeq(b, n + 1, Len(b)) = SubSeq(b, 1, Len(b))
    BY <2>1, ConcatAdjacentSubSeq
  <2> QED BY <2>2, SubSeqFull
<1>6. ASSUME NEW x \in Seq(Unit), NEW y \in Seq(Unit) PROVE (a \o x) \o y = a \o (x \o y)
  BY ConcatAssociative
<1>7. (a \o SubSeq(b, 1, n)) \o SubSeq(b, n + 1, Len(b)) = a \o (SubSeq(b, 1, n) \o SubSeq(b, n + 1, Len(b)))
  BY <1>3, <1>4, <1>6
<1> QED BY <1>3, <1>4, <1>5, <1>7

\* Units that are taken from the front of a, before b.
LEMMA TakeUnits ==
  ASSUME NEW a \in Seq(Unit), NEW b \in Seq(Unit), NEW n \in 1..Len(a)
  PROVE  /\ SubSeq(a, n + 1, Len(a)) \in Seq(Unit)
         /\ Len(SubSeq(a, n + 1, Len(a))) = Len(a) - n
         /\ SubSeq(a, n + 1, Len(a)) \o b = SubSeq(a \o b, n + 1, Len(a \o b))
<1> DEFINE l == Len(a)  k == Len(b)  c == SubSeq(a, n + 1, Len(a))  e == a \o b
<1>1. l \in Nat /\ k \in Nat /\ n \in Nat \ {0} /\ n <= l /\ n + 1 \in Int /\ Len(a) = l /\ Len(b) = k
  OBVIOUS
<1>2. /\ e \in Seq(Unit) /\ Len(e) = l + k
      /\ \A p \in 1..(l + k) : e[p] = IF p <= l THEN a[p] ELSE b[p - l]
  BY ConcatProperties
<1>3. /\ c \in Seq(Unit) /\ Len(c) = IF n + 1 <= l THEN l - (n + 1) + 1 ELSE 0
      /\ \A p \in 1..(l - (n + 1) + 1) : c[p] = a[(n + 1) + p - 1]
  <2>1. \A p \in 1..l : a[p] \in Unit
    BY ElementOfSeq
  <2>2. \A p \in (n + 1)..l : a[p] \in Unit
    BY <1>1, <2>1
  <2> QED BY <1>1, <2>2, SubSeqProperties
<1> DEFINE x == c \o b  y == SubSeq(e, n + 1, Len(e))
<1> HIDE DEF l, k, c, e
<1>4. /\ Len(c) = l - n
      /\ \A p \in 1..(l - n) : c[p] = a[n + p]
  <2>1. /\ (IF n + 1 <= l THEN l - (n + 1) + 1 ELSE 0) = l - n
        /\ l - (n + 1) + 1 = l - n
        /\ \A p \in 1..(l - n) : (n + 1) + p - 1 = n + p
    BY <1>1
  <2> QED BY <1>3, <2>1
<1>5. /\ x \in Seq(Unit) /\ Len(x) = Len(c) + Len(b)
      /\ \A p \in 1..(Len(c) + Len(b)) : x[p] = IF p <= Len(c) THEN c[p] ELSE b[p - Len(c)]
  BY <1>3, ConcatProperties
<1>6. /\ y \in Seq(Unit) /\ Len(y) = IF n + 1 <= Len(e) THEN Len(e) - (n + 1) + 1 ELSE 0
      /\ \A p \in 1..(Len(e) - (n + 1) + 1) : y[p] = e[(n + 1) + p - 1]
  <2>1. \A p \in 1..Len(e) : e[p] \in Unit
    BY <1>2, ElementOfSeq
  <2>2. \A p \in (n + 1)..Len(e) : e[p] \in Unit
    BY <1>1, <1>2, <2>1
  <2>3. Len(e) \in Int
    BY <1>1, <1>2
  <2> QED BY <1>1, <2>2, <2>3, SubSeqProperties
<1> HIDE DEF x, y
<1>7. Len(x) = (l - n) + k /\ Len(y) = (l - n) + k
  BY <1>1, <1>2, <1>4, <1>5, <1>6
<1>8. ASSUME NEW p \in 1..((l - n) + k) PROVE x[p] = y[p]
  <2>1. y[p] = e[n + p] /\ n + p \in 1..(l + k)
    <3>1. p \in 1..(Len(e) - (n + 1) + 1) /\ (n + 1) + p - 1 = n + p /\ n + p \in 1..(l + k)
      BY <1>1, <1>2
    <3> QED BY <1>6, <3>1
  <2>2. CASE p <= l - n
    <3>1. x[p] = a[n + p]
      <4>1. p \in 1..(l - n) /\ p \in 1..(Len(c) + Len(b)) /\ p <= Len(c)
        BY <1>1, <1>4, <2>2
      <4> QED BY <1>4, <1>5, <4>1
    <3>2. n + p <= l
      BY <1>1, <2>2
    <3> QED BY <1>2, <2>1, <3>1, <3>2
  <2>3. CASE ~(p <= l - n)
    <3>1. x[p] = b[p - (l - n)]
      <4>1. p \in 1..(Len(c) + Len(b)) /\ ~(p <= Len(c))
        BY <1>1, <1>4, <2>3
      <4> QED BY <1>4, <1>5, <4>1
    <3>2. ~(n + p <= l) /\ (n + p) - l = p - (l - n)
      BY <1>1, <2>3
    <3> QED BY <1>2, <2>1, <3>1, <3>2
  <2> QED BY <2>2, <2>3
<1>9. x = y
  BY <1>5, <1>6, <1>7, <1>8, SeqEqual
<1> QED BY <1>3, <1>4, <1>9 DEF x, y, c, e, l

-----------------------------------------------------------------------------
(* What the inductive invariant says of the state. *)

LEMMA StreamsAre ==
  ASSUME IInv
  PROVE  /\ recvBuf \in Seq(Unit) /\ upWire \in Seq(Unit) /\ Up \in Seq(Unit)
         /\ downWire \in Seq(Unit) /\ sendBuf \in Seq(Unit) /\ Down \in Seq(Unit)
         /\ sent \in Seq(Cmds) /\ sent \in Seq(Requests) /\ replies \in Seq(Cmds)
         /\ handled \in 0..Len(sent) /\ handled \in Nat /\ delivered \in Unit
         /\ EndOf(handled, sent) \in Unit /\ EndOf(handled, sent)[1] \in 0..Len(sent)
         /\ \A i \in 1..Len(sent) : sent[i] \in Requests /\ sent[i] \in Cmds
<1>1. /\ recvBuf \in Seq(Unit) /\ upWire \in Seq(Unit)
      /\ downWire \in Seq(Unit) /\ sendBuf \in Seq(Unit)
      /\ sent \in Seq(Requests) /\ replies \in Seq(Replies)
      /\ handled \in 0..Len(sent) /\ delivered \in Unit
  BY DEF IInv, TypeOK, Unit
<1>2. Up \in Seq(Unit) /\ Down \in Seq(Unit)
  BY <1>1, ConcatProperties DEF Up, Down
<1>3. sent \in Seq(Cmds) /\ replies \in Seq(Cmds)
  <2>1. Requests \subseteq Cmds /\ Replies \subseteq Cmds
    BY DEF Cmds
  <2> QED BY <1>1, <2>1, SeqMonotonic
<1>4. Len(sent) \in Nat /\ handled \in Nat
  BY <1>1
<1>5. \A i \in 1..Len(sent) : sent[i] \in Requests /\ sent[i] \in Cmds
  BY <1>1, <1>3, ElementOfSeq
<1>6. EndOf(handled, sent) \in Unit /\ EndOf(handled, sent)[1] \in 0..Len(sent)
  <2>1. CASE handled = 0
    BY <1>4, <2>1 DEF EndOf, Unit
  <2>2. CASE handled # 0
    <3>1. handled \in 1..Len(sent)
      BY <1>1, <1>4, <2>2
    <3>2. MsgLen[sent[handled]] \in Nat
      BY <1>5, <3>1, Lengths
    <3> QED BY <1>1, <1>4, <2>2, <3>2 DEF EndOf, Unit
  <2> QED BY <2>1, <2>2
<1> QED BY <1>1, <1>2, <1>3, <1>4, <1>5, <1>6

\* The buffer begins with the message after those that were handled, and has
\* the whole of it when hasMsg says so.
LEMMA FrontMessage ==
  ASSUME IInv, recvBuf # <<>>
  PROVE  /\ recvBuf[1] = <<handled + 1, 1>> /\ handled + 1 \in 1..Len(sent)
         /\ FrontCmd \in Requests /\ FrontLength \in Nat \ {0}
         /\ HdrLen <= FrontLength /\ FrontLength <= RecvSize
         /\ hasMsg => FrontLength \in 1..Len(recvBuf) /\ recvBuf[FrontLength] = EndOf(handled + 1, sent)
<1> DEFINE u == EndOf(handled, sent)
<1>1. /\ recvBuf \in Seq(Unit) /\ upWire \in Seq(Unit) /\ Up \in Seq(Unit) /\ sent \in Seq(Cmds)
      /\ handled \in 0..Len(sent) /\ handled \in Nat /\ u \in Unit
      /\ \A i \in 1..Len(sent) : sent[i] \in Requests /\ sent[i] \in Cmds
  BY StreamsAre
<1>2. /\ Len(recvBuf) \in Nat \ {0} /\ Len(upWire) \in Nat /\ Len(Up) = Len(recvBuf) + Len(upWire)
      /\ \A p \in 1..Len(recvBuf) : Up[p] = recvBuf[p] /\ p \in 1..Len(Up)
  <2>1. /\ Len(Up) = Len(recvBuf) + Len(upWire)
        /\ \A p \in 1..(Len(recvBuf) + Len(upWire)) :
             Up[p] = IF p <= Len(recvBuf) THEN recvBuf[p] ELSE upWire[p - Len(recvBuf)]
    BY <1>1, ConcatProperties DEF Up
  <2>2. Len(recvBuf) \in Nat \ {0} /\ Len(upWire) \in Nat
    BY <1>1, EmptySeq
  <2> QED BY <2>1, <2>2
<1>3. Belongs(Up, sent) /\ Unbroken(Up, sent) /\ Chain(Up, u, sent)
  <2>1. Continues(Up, u, sent)
    BY DEF IInv, Arriving, RequestsIntact, Up
  <2>2. Chain(Up, u, sent)
    BY <1>1, <2>1, ContinuesIs
  <2> QED BY <2>2 DEF IInv, Arriving
<1> HIDE DEF u
<1>4. 1 \in 1..Len(recvBuf) /\ 1 \in 1..Len(Up) /\ Up[1] = recvBuf[1]
  BY <1>2
<1>5. recvBuf[1] = <<handled + 1, 1>>
  <2>1. Follows(u, recvBuf[1], sent)
    BY <1>3, <1>4 DEF Chain, Before
  <2>2. CASE handled = 0
    <3>1. u = <<0, 0>>
      BY <2>2 DEF u, EndOf
    <3> QED BY <2>1, <2>2, <3>1 DEF Follows
  <2>3. CASE handled # 0
    <3>1. u = <<handled, MsgLen[sent[handled]]>>
      BY <2>3 DEF u, EndOf
    <3>2. MsgLen[sent[handled]] \in Nat
      <4>1. handled \in 1..Len(sent)
        BY <1>1, <2>3
      <4> QED BY <1>1, <4>1, Lengths
    <3>3. ~(MsgLen[sent[handled]] < MsgLen[sent[handled]])
      BY <3>2
    <3> QED BY <2>1, <3>1, <3>3 DEF Follows
  <2> QED BY <2>2, <2>3
<1>6. handled + 1 \in 1..Len(sent)
  BY <1>3, <1>4, <1>5 DEF Belongs
<1>7. FrontCmd = sent[handled + 1] /\ FrontLength = MsgLen[sent[handled + 1]]
  BY <1>5 DEF FrontCmd, FrontLength
<1>8. FrontCmd \in Requests /\ FrontCmd \in Cmds
  BY <1>1, <1>6, <1>7
<1>9. FrontLength \in Nat \ {0} /\ HdrLen <= FrontLength /\ FrontLength <= RecvSize
  <2>1. FrontLength \in Nat \ {0} /\ HdrLen <= FrontLength
    BY <1>8, Lengths DEF FrontLength
  <2> QED BY <1>8, <2>1, LengthAssumption DEF FrontLength
<1>10. ASSUME hasMsg
       PROVE  FrontLength \in 1..Len(recvBuf) /\ recvBuf[FrontLength] = EndOf(handled + 1, sent)
  <2>1. FrontLength \in 1..Len(recvBuf)
    BY <1>2, <1>9, <1>10 DEF hasMsg
  <2>2. FrontLength - 1 \in 0..(MsgLen[sent[handled + 1]] - 1) /\ 1 + (FrontLength - 1) = FrontLength
        /\ (FrontLength - 1) + 1 = FrontLength
    BY <1>7, <1>9
  <2>3. Up[1] = <<handled + 1, 1>> /\ Up[1][1] = handled + 1 /\ Up[1][2] = 1
    BY <1>4, <1>5
  <2>4. Up[1 + (FrontLength - 1)] = <<handled + 1, (FrontLength - 1) + 1>>
    <3>1. \A d \in 0..(MsgLen[sent[Up[1][1]]] - 1) : Up[1 + d] = <<Up[1][1], d + 1>>
      BY <1>3, <1>4, <2>3 DEF Unbroken
    <3> QED BY <2>2, <2>3, <3>1
  <2>5. recvBuf[FrontLength] = <<handled + 1, MsgLen[sent[handled + 1]]>>
    BY <1>2, <1>7, <2>1, <2>2, <2>4
  <2>6. handled + 1 # 0
    BY <1>1
  <2> QED BY <2>1, <2>5, <2>6 DEF EndOf
<1> QED BY <1>5, <1>6, <1>8, <1>9, <1>10

\* A buffer without a whole message has room for more.
LEMMA NotFull == ASSUME IInv, ~hasMsg PROVE Len(recvBuf) < RecvSize
<1>1. Len(recvBuf) \in Nat /\ (recvBuf = <<>> => Len(recvBuf) = 0)
  BY StreamsAre
<1>2. HdrLen \in Nat \ {0} /\ RecvSize \in Nat
  BY LengthAssumption
<1>3. HdrLen <= RecvSize
  <2>1. "Login" \in Requests
    BY DEF Requests
  <2>2. "Login" \in Cmds /\ MsgLen["Login"] <= RecvSize
    BY <2>1, LengthAssumption DEF Cmds
  <2> QED BY <1>2, <2>2, Lengths
<1>4. CASE recvBuf = <<>>
  BY <1>1, <1>2, <1>3, <1>4
<1>5. CASE recvBuf # <<>>
  <2>1. FrontLength \in Nat \ {0} /\ HdrLen <= FrontLength /\ FrontLength <= RecvSize
    BY <1>5, FrontMessage
  <2> QED BY <1>1, <1>2, <2>1 DEF hasMsg
<1> QED BY <1>4, <1>5

-----------------------------------------------------------------------------
(* The steps. *)

LEMMA ArrivingStays == ASSUME Arriving, UNCHANGED <<sent, upWire, recvBuf, handled>> PROVE Arriving'
BY DEF Arriving, Up, Belongs, Unbroken, RequestsIntact, Continues, Follows, EndOf

LEMMA LeavingStays == ASSUME Leaving, UNCHANGED <<replies, sendBuf, downWire, delivered>> PROVE Leaving'
BY DEF Leaving, Down, Belongs, RepliesIntact, Continues, Follows

\* Steps of the thread that move no unit.
LEMMA StillStep ==
  ASSUME IInv, UNCHANGED <<sent, upWire, recvBuf, handled, replies, sendBuf, downWire, delivered>>,
         peer' \in {"open", "closed"}, pc' \in {"select", "read", "messages", "write", "left"},
         ready' \in SUBSET {"read", "write"},
         pc' \in {"select", "read", "write"} => ~hasMsg,
         pc' = "left" => peer' = "closed"
  PROVE  IInv'
<1>1. TypeOK'
  BY DEF IInv, TypeOK
<1>2. Arriving' /\ Leaving'
  BY ArrivingStays, LeavingStays DEF IInv
<1>3. Drained'
  BY DEF Drained, hasMsg, FrontCmd, FrontLength
<1>4. OnlyClosedPeersLeave'
  BY DEF OnlyClosedPeersLeave
<1> QED BY <1>1, <1>2, <1>3, <1>4 DEF IInv

LEMMA SendRequestStep == ASSUME IInv, NEW cmd \in Requests, SendRequest(cmd) PROVE IInv'
<1>1. /\ UNCHANGED <<peer, recvBuf, handled, replies, sendBuf, downWire, delivered, pc, ready>>
      /\ Len(sent) < MaxRequests /\ sent' = Append(sent, cmd)
      /\ upWire' = upWire \o Units(Len(sent) + 1, cmd)
  BY DEF SendRequest, outVars
<1>2. /\ recvBuf \in Seq(Unit) /\ upWire \in Seq(Unit) /\ Up \in Seq(Unit)
      /\ sent \in Seq(Cmds) /\ sent \in Seq(Requests) /\ cmd \in Cmds
      /\ handled \in 0..Len(sent) /\ EndOf(handled, sent) \in Unit
      /\ EndOf(handled, sent)[1] \in 0..Len(sent)
  BY StreamsAre DEF Cmds
<1>3. /\ Units(Len(sent) + 1, cmd) \in Seq(Unit)
  <2>1. Len(sent) + 1 \in Nat
    BY <1>2
  <2> QED BY <1>2, <2>1, UnitsProperties
<1>4. Up' = Up \o Units(Len(sent) + 1, cmd)
  BY <1>1, <1>2, <1>3, ConcatAssociative DEF Up
<1>5. /\ sent' \in Seq(Requests) /\ Len(sent') = Len(sent) + 1
      /\ \A i \in 1..Len(sent) : sent'[i] = sent[i]
  BY <1>1, <1>2, AppendProperties
<1>6. EndOf(handled, sent') = EndOf(handled, sent)
  <2>1. handled # 0 => handled \in 1..Len(sent)
    BY <1>2
  <2> QED BY <1>5, <2>1 DEF EndOf
<1>7. Arriving'
  <2>1. /\ Belongs(Up, sent) /\ Unbroken(Up, sent)
        /\ Continues(Up, EndOf(handled, sent), sent)
    BY DEF IInv, Arriving, RequestsIntact, Up
  <2>2. /\ Belongs(Up', sent') /\ Unbroken(Up', sent')
        /\ Continues(Up', EndOf(handled, sent), sent')
    <3>1. ASSUME NEW u \in Unit, u[1] \in 0..Len(sent), Continues(Up, u, sent),
                 NEW x, NEW ms, NextMessage(Up, sent, cmd, x, ms)
          PROVE  Belongs(x, ms) /\ Unbroken(x, ms) /\ Continues(x, u, ms)
      BY <1>2, <2>1, <3>1, AppendMessage
    <3>2. NextMessage(Up, sent, cmd, Up', sent')
      BY <1>1, <1>4 DEF NextMessage
    <3> QED BY <1>2, <2>1, <3>1, <3>2
  <2>3. Continues(Up', EndOf(handled', sent'), sent')
    BY <1>1, <1>6, <2>2
  <2> QED BY <2>2, <2>3 DEF Arriving, RequestsIntact, Up
<1>8. Leaving'
  BY <1>1, LeavingStays DEF IInv
<1>9. TypeOK'
  <2>1. upWire' \in Seq(Unit)
    BY <1>1, <1>2, <1>3, ConcatProperties
  <2>2. Len(sent') <= MaxRequests /\ handled \in 0..Len(sent')
    BY <1>1, <1>2, <1>5, MaxRequestsAssumption
  <2> QED BY <1>1, <1>5, <2>1, <2>2 DEF IInv, TypeOK, Unit
\* The message at the front of the buffer is one that was sent before.
<1>10. hasMsg' <=> hasMsg
  <2>1. CASE recvBuf = <<>>
    <3>1. Len(recvBuf) = 0 /\ HdrLen \in Nat \ {0}
      BY <2>1, LengthAssumption
    <3>2. ~(Len(recvBuf) >= HdrLen)
      BY <3>1
    <3> QED BY <1>1, <3>2 DEF hasMsg
  <2>2. CASE recvBuf # <<>>
    <3>1. recvBuf[1] = <<handled + 1, 1>> /\ handled + 1 \in 1..Len(sent)
      BY <2>2, FrontMessage
    <3>2. FrontLength' = FrontLength
      BY <1>1, <1>5, <3>1 DEF FrontLength, FrontCmd
    <3> QED BY <1>1, <3>2 DEF hasMsg
  <2> QED BY <2>1, <2>2
<1>11. Drained' /\ OnlyClosedPeersLeave'
  BY <1>1, <1>10 DEF IInv, Drained, OnlyClosedPeersLeave
<1> QED BY <1>7, <1>8, <1>9, <1>11 DEF IInv

LEMMA ReceiveStep == ASSUME IInv, Receive PROVE IInv'
<1>1. /\ UNCHANGED <<sent, peer, upWire, recvBuf, handled, replies, sendBuf, pc, ready>>
      /\ downWire # <<>> /\ delivered' = Head(downWire) /\ downWire' = Tail(downWire)
  BY DEF Receive, peerVars, inVars
<1>2. /\ downWire \in Seq(Unit) /\ sendBuf \in Seq(Unit) /\ Down \in Seq(Unit)
      /\ replies \in Seq(Cmds) /\ delivered \in Unit
  BY StreamsAre
<1>3. /\ Len(downWire) \in Nat \ {0} /\ 1 \in 1..Len(downWire)
      /\ downWire' = SubSeq(downWire, 1 + 1, Len(downWire)) /\ delivered' = downWire[1]
  <2>1. Len(downWire) \in Nat \ {0}
    BY <1>1, <1>2, EmptySeq
  <2>2. Tail(downWire) = SubSeq(downWire, 1 + 1, Len(downWire)) /\ Head(downWire) = downWire[1]
    BY <1>1, <1>2, TailIsSubSeq
  <2> QED BY <1>1, <2>1, <2>2
<1>4. /\ downWire' \in Seq(Unit) /\ Len(downWire') = Len(downWire) - 1
      /\ Down' = SubSeq(Down, 1 + 1, Len(Down))
  BY <1>1, <1>2, <1>3, TakeUnits DEF Down
<1>5. 1 \in 1..Len(Down) /\ Down[1] = downWire[1]
  <2>1. /\ Len(Down) = Len(downWire) + Len(sendBuf)
        /\ \A p \in 1..(Len(downWire) + Len(sendBuf)) :
             Down[p] = IF p <= Len(downWire) THEN downWire[p] ELSE sendBuf[p - Len(downWire)]
    BY <1>2, ConcatProperties DEF Down
  <2>2. Len(sendBuf) \in Nat
    BY <1>2
  <2>3. 1 \in 1..(Len(downWire) + Len(sendBuf)) /\ 1 <= Len(downWire)
    BY <1>3, <2>2
  <2> QED BY <2>1, <2>3
<1>6. Leaving'
  <2>1. Belongs(Down, replies) /\ Continues(Down, delivered, replies)
    BY DEF IInv, Leaving, RepliesIntact, Down
  <2>2. Belongs(Down', replies) /\ Continues(Down', Down[1], replies)
    <3>1. ASSUME NEW x, Rest(Down, 1, x)
          PROVE  Belongs(x, replies) /\ Continues(x, Down[1], replies)
      BY <1>2, <1>5, <2>1, <3>1, DropUnits
    <3>2. Rest(Down, 1, Down')
      BY <1>4 DEF Rest
    <3> QED BY <3>1, <3>2
  <2>3. delivered'[1] \in 0..Len(replies)
    <3>1. Down[1][1] \in 1..Len(replies)
      BY <1>5, <2>1 DEF Belongs
    <3>2. Len(replies) \in Nat
      BY <1>2
    <3> QED BY <1>3, <1>5, <3>1, <3>2
  <2>4. Continues(Down', delivered', replies)
    BY <1>3, <1>5, <2>2
  <2> QED BY <1>1, <2>2, <2>3, <2>4 DEF Leaving, RepliesIntact, Down
<1>7. TypeOK'
  <2>1. delivered' \in Unit
    BY <1>2, <1>3, ElementOfSeq
  <2>2. Len(downWire') <= WireSize
    BY <1>3, <1>4, WireAssumption DEF IInv, TypeOK
  <2> QED BY <1>1, <1>4, <2>1, <2>2 DEF IInv, TypeOK, Unit
<1>8. Arriving'
  BY <1>1, ArrivingStays DEF IInv
<1>9. Drained' /\ OnlyClosedPeersLeave'
  BY <1>1 DEF IInv, Drained, OnlyClosedPeersLeave, hasMsg, FrontLength, FrontCmd
<1> QED BY <1>6, <1>7, <1>8, <1>9 DEF IInv

\* recv leaves the stream as it was and moves a part of it to the buffer.
LEMMA RecvDataStep == ASSUME IInv, NEW n \in 1..RecvSize, RecvData(n) PROVE IInv'
<1>1. /\ UNCHANGED <<sent, peer, handled, replies, sendBuf, downWire, delivered, ready>>
      /\ n <= Len(upWire) /\ n <= RecvSize - Len(recvBuf)
      /\ recvBuf' = recvBuf \o SubSeq(upWire, 1, n)
      /\ upWire' = SubSeq(upWire, n + 1, Len(upWire))
      /\ pc' = "messages"
  BY DEF RecvData, Room, peerVars, outVars
<1>2. recvBuf \in Seq(Unit) /\ upWire \in Seq(Unit) /\ Len(recvBuf) \in Nat /\ Len(upWire) \in Nat
      /\ RecvSize \in Nat
  BY StreamsAre, LengthAssumption
<1>3. n \in 1..Len(upWire) /\ n \in Nat
  BY <1>1, <1>2
<1>4. /\ SubSeq(upWire, 1, n) \in Seq(Unit) /\ Len(SubSeq(upWire, 1, n)) = n
      /\ upWire' \in Seq(Unit) /\ Up' = Up
  BY <1>1, <1>2, <1>3, MoveUnits DEF Up
<1>5. recvBuf' \in Seq(Unit) /\ Len(recvBuf') = Len(recvBuf) + n
  BY <1>1, <1>2, <1>4, ConcatProperties
<1>6. TypeOK'
  <2>1. Len(recvBuf') <= RecvSize
    BY <1>1, <1>2, <1>3, <1>5
  <2> QED BY <1>1, <1>4, <1>5, <2>1 DEF IInv, TypeOK, Unit
<1>7. Arriving'
  <2>1. /\ Belongs(Up, sent) /\ Unbroken(Up, sent)
        /\ Continues(Up, EndOf(handled, sent), sent)
    BY DEF IInv, Arriving, RequestsIntact, Up
  <2>2. /\ Belongs(Up', sent') /\ Unbroken(Up', sent')
        /\ Continues(Up', EndOf(handled', sent'), sent')
    BY <1>1, <1>4, <2>1
  <2> QED BY <2>2 DEF Arriving, RequestsIntact, Up
<1>8. Leaving'
  BY <1>1, LeavingStays DEF IInv
<1>9. Drained' /\ OnlyClosedPeersLeave'
  BY <1>1 DEF Drained, OnlyClosedPeersLeave
<1> QED BY <1>6, <1>7, <1>8, <1>9 DEF IInv

LEMMA RecvFailsStep == ASSUME IInv, RecvFails PROVE IInv'
<1>1. /\ UNCHANGED <<sent, upWire, recvBuf, handled, replies, sendBuf, downWire, delivered>>
      /\ pc = "read" /\ pc' = "left" /\ peer' = peer /\ ready' = ready
      /\ peer = "closed" \/ Room = 0
  BY DEF RecvFails, peerVars, inVars, outVars
<1>2. Room # 0
  <2>1. Len(recvBuf) < RecvSize
    BY <1>1, NotFull DEF IInv, Drained
  <2>2. Len(recvBuf) \in Nat /\ RecvSize \in Nat
    BY StreamsAre, LengthAssumption
  <2> QED BY <2>1, <2>2 DEF Room
<1> QED BY <1>1, <1>2, StillStep DEF IInv, TypeOK

\* push takes a whole reply or nothing.
LEMMA PushStep ==
  ASSUME IInv, NEW cmd \in Replies, push(cmd), UNCHANGED <<downWire, delivered>>
  PROVE  /\ Leaving' /\ replies' \in Seq(Replies)
         /\ sendBuf' \in Seq(Unit) /\ Len(sendBuf') <= SendSize
<1>1. /\ downWire \in Seq(Unit) /\ sendBuf \in Seq(Unit) /\ Down \in Seq(Unit)
      /\ replies \in Seq(Cmds) /\ delivered \in Unit /\ replies \in Seq(Replies) /\ cmd \in Cmds
      /\ Len(sendBuf) <= SendSize
  BY StreamsAre DEF IInv, TypeOK, Cmds
<1>2. CASE Len(sendBuf) + MsgLen[cmd] <= SendSize
  <2>1. replies' = Append(replies, cmd) /\ sendBuf' = sendBuf \o Units(Len(replies) + 1, cmd)
    BY <1>2 DEF push
  <2>2. /\ Units(Len(replies) + 1, cmd) \in Seq(Unit)
        /\ Len(Units(Len(replies) + 1, cmd)) = MsgLen[cmd]
    <3>1. Len(replies) + 1 \in Nat
      BY <1>1
    <3> QED BY <1>1, <3>1, UnitsProperties
  <2>3. sendBuf' \in Seq(Unit) /\ Len(sendBuf') = Len(sendBuf) + MsgLen[cmd]
    <3>1. ASSUME NEW x \in Seq(Unit)
          PROVE  sendBuf \o x \in Seq(Unit) /\ Len(sendBuf \o x) = Len(sendBuf) + Len(x)
      BY <1>1, ConcatProperties
    <3> QED BY <2>1, <2>2, <3>1
  <2>4. Down' = Down \o Units(Len(replies) + 1, cmd)
    BY <1>1, <2>1, <2>2, ConcatAssociative DEF Down
  <2>5. /\ Belongs(Down, replies) /\ Continues(Down, delivered, replies)
        /\ delivered[1] \in 0..Len(replies)
    BY DEF IInv, Leaving, RepliesIntact, Down
  <2>6. Belongs(Down', replies') /\ Continues(Down', delivered, replies')
    <3>1. ASSUME NEW x, NEW ms, NextMessage(Down, replies, cmd, x, ms)
          PROVE  Belongs(x, ms) /\ Continues(x, delivered, ms)
      BY <1>1, <2>5, <3>1, AppendMessage
    <3>2. NextMessage(Down, replies, cmd, Down', replies')
      BY <2>1, <2>4 DEF NextMessage
    <3> QED BY <3>1, <3>2
  <2>7. replies' \in Seq(Replies) /\ Len(replies') = Len(replies) + 1
    BY <1>1, <2>1, AppendProperties
  <2>8. delivered[1] \in 0..Len(replies')
    <3>1. Len(replies) \in Nat
      BY <1>1
    <3> QED BY <2>5, <2>7, <3>1
  <2>9. Leaving'
    BY <2>6, <2>8 DEF Leaving, RepliesIntact, Down
  <2> QED BY <1>2, <2>3, <2>7, <2>9
<1>3. CASE ~(Len(sendBuf) + MsgLen[cmd] <= SendSize)
  <2>1. UNCHANGED <<replies, sendBuf>>
    BY <1>3 DEF push
  <2> QED BY <1>1, <2>1, LeavingStays DEF IInv
<1> QED BY <1>2, <1>3

\* OnNetMsg handles the message at the front, and pop_front_msg takes it.
LEMMA HandleMsgStep == ASSUME IInv, HandleMsg PROVE IInv'
<1>1. /\ UNCHANGED <<sent, peer, upWire, downWire, delivered, pc, ready>>
      /\ pc = "messages" /\ hasMsg /\ OnNetMsg(FrontCmd) /\ handled' = handled + 1
      /\ recvBuf' = SubSeq(recvBuf, FrontLength + 1, Len(recvBuf))
  BY DEF HandleMsg, pop, peerVars
<1>2. /\ recvBuf \in Seq(Unit) /\ upWire \in Seq(Unit) /\ Up \in Seq(Unit) /\ sent \in Seq(Cmds)
      /\ EndOf(handled, sent) \in Unit
  BY StreamsAre
<1>3. recvBuf # <<>>
  <2>1. HdrLen \in Nat \ {0} /\ Len(recvBuf) >= HdrLen /\ Len(<<>>) = 0
    BY <1>1, LengthAssumption DEF hasMsg
  <2> QED BY <2>1
<1>4. /\ handled + 1 \in 1..Len(sent) /\ FrontCmd \in Requests
      /\ FrontLength \in 1..Len(recvBuf) /\ recvBuf[FrontLength] = EndOf(handled + 1, sent)
  BY <1>1, <1>3, FrontMessage
<1>5. /\ recvBuf' \in Seq(Unit) /\ Len(recvBuf') = Len(recvBuf) - FrontLength
      /\ Up' = SubSeq(Up, FrontLength + 1, Len(Up))
  BY <1>1, <1>2, <1>4, TakeUnits DEF Up
<1>6. FrontLength \in 1..Len(Up) /\ Up[FrontLength] = recvBuf[FrontLength]
  <2>1. /\ Len(Up) = Len(recvBuf) + Len(upWire)
        /\ \A p \in 1..(Len(recvBuf) + Len(upWire)) :
             Up[p] = IF p <= Len(recvBuf) THEN recvBuf[p] ELSE upWire[p - Len(recvBuf)]
    BY <1>2, ConcatProperties DEF Up
  <2>2. Len(recvBuf) \in Nat /\ Len(upWire) \in Nat
    BY <1>2
  <2>3. FrontLength \in 1..(Len(recvBuf) + Len(upWire)) /\ FrontLength <= Len(recvBuf)
    BY <1>4, <2>2
  <2> QED BY <2>1, <2>3
<1>7. Arriving'
  <2>1. /\ Belongs(Up, sent) /\ Unbroken(Up, sent)
        /\ Continues(Up, EndOf(handled, sent), sent)
    BY DEF IInv, Arriving, RequestsIntact, Up
  <2>2. /\ Belongs(Up', sent) /\ Unbroken(Up', sent)
        /\ Continues(Up', Up[FrontLength], sent)
    <3>1. ASSUME NEW n \in 1..Len(Up), NEW u \in Unit, Continues(Up, u, sent),
                 NEW x, Rest(Up, n, x)
          PROVE  Belongs(x, sent) /\ Unbroken(x, sent) /\ Continues(x, Up[n], sent)
      BY <1>2, <2>1, <3>1, DropUnits
    <3>2. Rest(Up, FrontLength, Up')
      BY <1>5 DEF Rest
    <3> QED BY <1>2, <1>6, <2>1, <3>1, <3>2
  <2>3. Continues(Up', EndOf(handled', sent'), sent')
    BY <1>1, <1>4, <1>6, <2>2
  <2> QED BY <1>1, <2>2, <2>3 DEF Arriving, RequestsIntact, Up
<1>8. /\ Leaving' /\ replies' \in Seq(Replies)
      /\ sendBuf' \in Seq(Unit) /\ Len(sendBuf') <= SendSize
  <2>1. CASE FrontCmd = "Login"
    <3>1. push("LoginR") /\ "LoginR" \in Replies
      BY <1>1, <2>1 DEF OnNetMsg, SendData, Replies
    <3> QED BY <1>1, <3>1, PushStep
  <2>2. CASE FrontCmd = "Heart_C2S"
    <3>1. push("Heart_S2C") /\ "Heart_S2C" \in Replies
      BY <1>1, <2>2 DEF OnNetMsg, SendData, Replies
    <3> QED BY <1>1, <3>1, PushStep
  <2>3. CASE FrontCmd # "Login" /\ FrontCmd # "Heart_C2S"
    <3>1. UNCHANGED <<replies, sendBuf>>
      BY <1>1, <2>3 DEF OnNetMsg
    <3> QED BY <1>1, <3>1, LeavingStays DEF IInv, TypeOK, Unit
  <2> QED BY <2>1, <2>2, <2>3
<1>9. TypeOK'
  <2>1. Len(recvBuf') <= RecvSize
    BY <1>2, <1>4, <1>5, LengthAssumption DEF IInv, TypeOK
  <2>2. handled' \in 0..Len(sent)
    BY <1>1, <1>2, <1>4
  <2> QED BY <1>1, <1>5, <1>8, <2>1, <2>2 DEF IInv, TypeOK, Unit
<1>10. Drained' /\ OnlyClosedPeersLeave'
  BY <1>1 DEF Drained, OnlyClosedPeersLeave
<1> QED BY <1>7, <1>8, <1>9, <1>10 DEF IInv

\* send leaves the stream as it was.
LEMMA WriteStep == ASSUME IInv, Write PROVE IInv'
<1>1. /\ UNCHANGED <<sent, peer, upWire, recvBuf, handled, replies, delivered, ready>>
      /\ pc = "write" /\ sendBuf # <<>> /\ Len(downWire) < WireSize
      /\ downWire' = Append(downWire, Head(sendBuf)) /\ sendBuf' = Tail(sendBuf)
      /\ pc' \in {"select", "write"}
  BY DEF Write, peerVars, inVars
<1>2. downWire \in Seq(Unit) /\ sendBuf \in Seq(Unit)
  BY StreamsAre
<1>3. /\ Len(sendBuf) \in Nat \ {0} /\ 1 \in 1..Len(sendBuf) /\ Head(sendBuf) = sendBuf[1]
      /\ sendBuf[1] \in Unit
      /\ sendBuf' = SubSeq(sendBuf, 1 + 1, Len(sendBuf)) /\ Len(sendBuf') = Len(sendBuf) - 1
  <2>1. Len(sendBuf) \in Nat \ {0}
    BY <1>1, <1>2, EmptySeq
  <2>2. 1 \in 1..Len(sendBuf)
    BY <2>1
  <2>3. Tail(sendBuf) = SubSeq(sendBuf, 1 + 1, Len(sendBuf))
    BY <1>1, <1>2, TailIsSubSeq
  <2>4. Head(sendBuf) = sendBuf[1] /\ Len(Tail(sendBuf)) = Len(sendBuf) - 1
    BY <1>1, <1>2, HeadTailProperties
  <2>5. sendBuf[1] \in Unit
    BY <1>2, <2>2, ElementOfSeq
  <2> QED BY <1>1, <2>1, <2>2, <2>3, <2>4, <2>5
<1>4. SubSeq(sendBuf, 1, 1) = <<sendBuf[1]>>
  <2>1. 1 \in 1..Len(sendBuf) /\ 1 \in 1..Len(sendBuf)
    BY <1>3
  <2>2. SubSeq(sendBuf, 1, 1) = <<sendBuf[1]>> \o SubSeq(sendBuf, 1 + 1, 1)
    <3>1. 1 \in 1..Len(sendBuf) /\ Len(sendBuf) \in Nat
      BY <1>3
    <3> QED BY <1>2, <3>1, SubSeqRecursiveFirst
  <2>3. SubSeq(sendBuf, 1 + 1, 1) = <<>>
    BY SubSeqEmpty
  <2>4. <<sendBuf[1]>> \in Seq(Unit)
    BY <1>3
  <2> QED BY <2>2, <2>3, <2>4, ConcatEmptySeq
<1>5. downWire' = downWire \o SubSeq(sendBuf, 1, 1)
  BY <1>1, <1>2, <1>3, <1>4, AppendIsConcat
<1>6. Down' = Down /\ sendBuf' \in Seq(Unit)
  BY <1>2, <1>3, <1>5, MoveUnits DEF Down
<1>7. downWire' \in Seq(Unit) /\ Len(downWire') = Len(downWire) + 1
  BY <1>1, <1>2, <1>3, AppendProperties
<1>8. TypeOK'
  <2>1. Len(downWire') <= WireSize
    BY <1>1, <1>2, <1>7, WireAssumption
  <2>2. Len(sendBuf') <= SendSize
    BY <1>3, LengthAssumption DEF IInv, TypeOK
  <2> QED BY <1>1, <1>6, <1>7, <2>1, <2>2 DEF IInv, TypeOK, Unit
<1>9. Leaving'
  <2>1. /\ Belongs(Down, replies) /\ Continues(Down, delivered, replies)
        /\ delivered[1] \in 0..Len(replies)
    BY DEF IInv, Leaving, RepliesIntact, Down
  <2>2. /\ Belongs(Down', replies') /\ Continues(Down', delivered', replies')
        /\ delivered'[1] \in 0..Len(replies')
    BY <1>1, <1>6, <2>1
  <2> QED BY <2>2 DEF Leaving, RepliesIntact, Down
<1>10. Arriving'
  BY <1>1, ArrivingStays DEF IInv
<1>11. Drained' /\ OnlyClosedPeersLeave'
  BY <1>1 DEF IInv, Drained, OnlyClosedPeersLeave, hasMsg, FrontLength, FrontCmd
<1> QED BY <1>8, <1>9, <1>10, <1>11 DEF IInv

LEMMA InitIInv == Init => IInv
<1> SUFFICES ASSUME Init PROVE IInv
  OBVIOUS
<1>1. /\ sent = <<>> /\ upWire = <<>> /\ recvBuf = <<>> /\ handled = 0 /\ replies = <<>>
      /\ sendBuf = <<>> /\ downWire = <<>> /\ delivered = <<0, 0>>
      /\ peer = "open" /\ pc = "select" /\ ready = {}
  BY DEF Init
<1>2. /\ <<>> \o <<>> = <<>> /\ Len(<<>>) = 0 /\ <<0, 0>> \in Unit /\ EndOf(0, <<>>) = <<0, 0>>
      /\ <<>> \in Seq(Unit) /\ <<>> \in Seq(Cmds)
  BY DEF Unit, EndOf
<1>3. Belongs(<<>>, <<>>) /\ Unbroken(<<>>, <<>>) /\ Continues(<<>>, <<0, 0>>, <<>>)
  <2>1. Belongs(<<>>, <<>>) /\ Unbroken(<<>>, <<>>)
    BY <1>2 DEF Belongs, Unbroken
  <2>2. Chain(<<>>, <<0, 0>>, <<>>) /\ Ends(<<>>, <<0, 0>>, <<>>)
    BY <1>2 DEF Chain, Ends
  <2> QED BY <1>2, <2>1, <2>2, ContinuesIs
<1>4. Arriving /\ Leaving
  BY <1>1, <1>2, <1>3 DEF Arriving, Leaving, Up, Down, RequestsIntact, RepliesIntact
<1>5. TypeOK
  BY <1>1, LengthAssumption, WireAssumption, MaxRequestsAssumption DEF TypeOK
<1>6. Drained /\ OnlyClosedPeersLeave
  <2>1. ~(Len(recvBuf) >= HdrLen)
    BY <1>1, <1>2, LengthAssumption
  <2> QED BY <1>1, <2>1 DEF Drained, hasMsg, OnlyClosedPeersLeave
<1> QED BY <1>4, <1>5, <1>6 DEF IInv

LEMMA NextIInv == IInv /\ [Next]_vars => IInv'
<1> SUFFICES ASSUME IInv, [Next]_vars PROVE IInv'
  OBVIOUS
<1>0. /\ peer \in {"open", "closed"} /\ pc \in {"select", "read", "messages", "write", "left"}
      /\ ready \in SUBSET {"read", "write"}
      /\ pc \in {"select", "read", "write"} => ~hasMsg
      /\ pc = "left" => peer = "closed"
  BY DEF IInv, TypeOK, Drained, OnlyClosedPeersLeave
<1>1. ASSUME NEW cmd \in Requests, SendRequest(cmd) PROVE IInv'
  BY <1>1, SendRequestStep
<1>2. CASE Receive
  BY <1>2, ReceiveStep
<1>3. CASE Disconnect
  BY <1>0, <1>3, StillStep DEF Disconnect, inVars, outVars
<1>4. CASE Select
  BY <1>0, <1>4, StillStep DEF Select, peerVars, inVars, outVars
<1>5. CASE Reading
  <2>1. CASE NotReadable
    BY <1>0, <2>1, StillStep DEF NotReadable, peerVars, inVars, outVars
  <2>2. CASE RecvFails
    BY <2>2, RecvFailsStep
  <2>3. ASSUME NEW n \in 1..RecvSize, RecvData(n) PROVE IInv'
    BY <2>3, RecvDataStep
  <2> QED BY <1>5, <2>1, <2>2, <2>3 DEF Reading
<1>6. CASE HandleMsg
  BY <1>6, HandleMsgStep
<1>7. CASE NoMoreMsg
  BY <1>0, <1>7, StillStep DEF NoMoreMsg, peerVars, inVars, outVars
<1>8. CASE Writing
  <2>1. CASE NothingToWrite
    BY <1>0, <2>1, StillStep DEF NothingToWrite, peerVars, inVars, outVars
  <2>2. CASE Write
    BY <2>2, WriteStep
  <2>3. CASE WriteFails
    BY <1>0, <2>3, StillStep DEF WriteFails, peerVars, inVars, outVars
  <2> QED BY <1>8, <2>1, <2>2, <2>3 DEF Writing
<1>9. CASE UNCHANGED vars
  BY <1>0, <1>9, StillStep DEF vars, peerVars, inVars, outVars
<1> QED BY <1>1, <1>2, <1>3, <1>4, <1>5, <1>6, <1>7, <1>8, <1>9 DEF Next, ServerThread

LEMMA Invariant == Spec => []IInv
BY InitIInv, NextIInv, PTL DEF Spec

-----------------------------------------------------------------------------
(* The theorems. *)

\* The streams, the buffers and their sizes are what TypeOK says: push never
\* fills _sendBuff, and read4socket never _recvBuff, beyond its _nSize.
THEOREM TypeCorrect == Spec => []TypeOK
BY Invariant, PTL DEF IInv

\* However recv cuts the stream, CELLBuffer and RecvData hand every request to
\* OnNetMsg as it was sent, each once and in order.
THEOREM RequestsInOrder == Spec => []RequestsIntact
BY Invariant, PTL DEF IInv, Arriving

\* The peer receives the replies that push took, whole and in order, however
\* full the send buffer was and however often send blocked.
THEOREM RepliesInOrder == Spec => []RepliesIntact
BY Invariant, PTL DEF IInv, Leaving

\* read4socket, which returns 0 for a full buffer too, never makes RecvData
\* drop a client that has not closed its socket.
THEOREM OnlyTheClosedLeave == Spec => []OnlyClosedPeersLeave
BY Invariant, PTL DEF IInv
=============================================================================
