---------------------------- MODULE CELLLog_proofs ----------------------------
(***************************************************************************)
(* Proofs about CellTaskServer and the CELLLog that is built on it, for any *)
(* number of tasks from any threads: the task server is a queue that runs  *)
(* what was added before Close, in its order and once, although its worker *)
(* reads _taskBuf without the lock; and so is the log, whatever setLogPath *)
(* does to the file meanwhile.                                             *)
(***************************************************************************)
EXTENDS CELLLog, SequenceTheorems, FiniteSetTheorems, TLAPS

-----------------------------------------------------------------------------
(* Lemmas about sequences. *)

LEMMA FromProperties ==
  ASSUME NEW T, NEW s \in Seq(T), NEW i \in 1..(Len(s) + 1)
  PROVE  /\ From(s, i) \in Seq(T)
         /\ Len(From(s, i)) = Len(s) + 1 - i
         /\ \A k \in 1..(Len(s) + 1 - i) : From(s, i)[k] = s[i + k - 1]
<1>1. Len(s) \in Nat /\ \A k \in 1..Len(s) : s[k] \in T
  BY ElementOfSeq, LenProperties
<1>2. i \in Int /\ Len(s) \in Int /\ \A k \in i..Len(s) : s[k] \in T
  BY <1>1
<1>3. /\ SubSeq(s, i, Len(s)) \in Seq(T)
      /\ Len(SubSeq(s, i, Len(s))) = IF i <= Len(s) THEN Len(s) - i + 1 ELSE 0
      /\ \A k \in 1..(Len(s) - i + 1) : SubSeq(s, i, Len(s))[k] = s[i + k - 1]
  BY <1>2, SubSeqProperties
<1>4. Len(s) - i + 1 = Len(s) + 1 - i /\ (i <= Len(s) \/ Len(s) + 1 - i = 0)
  BY <1>1
<1> QED BY <1>3, <1>4 DEF From

LEMMA FromAppend ==
  ASSUME NEW T, NEW s \in Seq(T), NEW e \in T, NEW i \in 1..(Len(s) + 1)
  PROVE  From(Append(s, e), i) = Append(From(s, i), e)
<1> DEFINE a == Append(s, e)
           l == From(a, i)
           r == Append(From(s, i), e)
<1>1. /\ a \in Seq(T) /\ Len(a) = Len(s) + 1 /\ Len(s) \in Nat
      /\ \A k \in 1..Len(s) : a[k] = s[k]
      /\ a[Len(s) + 1] = e
  BY AppendProperties, LenProperties
<1>2. /\ From(s, i) \in Seq(T) /\ Len(From(s, i)) = Len(s) + 1 - i
      /\ \A k \in 1..(Len(s) + 1 - i) : From(s, i)[k] = s[i + k - 1]
  BY FromProperties
<1>3. /\ l \in Seq(T) /\ Len(l) = Len(s) + 2 - i
      /\ \A k \in 1..(Len(s) + 2 - i) : l[k] = a[i + k - 1]
  <2>1. i \in 1..(Len(a) + 1) /\ Len(a) + 1 - i = Len(s) + 2 - i
    BY <1>1
  <2> HIDE DEF a
  <2> QED BY <1>1, <2>1, FromProperties
<1>4. /\ r \in Seq(T) /\ Len(r) = Len(s) + 2 - i
      /\ \A k \in 1..(Len(s) + 1 - i) : r[k] = From(s, i)[k]
      /\ r[Len(s) + 2 - i] = e
  <2>1. /\ r \in Seq(T) /\ Len(r) = Len(From(s, i)) + 1
        /\ \A k \in 1..Len(From(s, i)) : r[k] = From(s, i)[k]
        /\ r[Len(From(s, i)) + 1] = e
    BY <1>2, AppendProperties
  <2>2. Len(From(s, i)) + 1 = Len(s) + 2 - i
    BY <1>1, <1>2
  <2> QED BY <1>2, <2>1, <2>2
<1> HIDE DEF a, l, r
<1>5. ASSUME NEW k \in 1..Len(l) PROVE l[k] = r[k]
  <2>1. l[k] = a[i + k - 1] /\ k \in 1..(Len(s) + 2 - i)
    BY <1>3, <1>5
  <2>2. CASE k = Len(s) + 2 - i
    <3>1. i + k - 1 = Len(s) + 1
      BY <1>1, <2>2
    <3> QED BY <1>1, <1>4, <2>1, <2>2, <3>1
  <2>3. CASE k # Len(s) + 2 - i
    <3>1. k \in 1..(Len(s) + 1 - i) /\ i + k - 1 \in 1..Len(s)
      BY <1>1, <2>1, <2>3
    <3> QED BY <1>1, <1>2, <1>4, <2>1, <3>1
  <2> QED BY <2>2, <2>3
<1>6. l = r
  BY <1>3, <1>4, <1>5, SeqEqual
<1> QED BY <1>6 DEF a, l, r

\* The first of what is left, and the rest.
LEMMA FromStep ==
  ASSUME NEW T, NEW s \in Seq(T), NEW i \in 1..Len(s)
  PROVE  From(s, i) # <<>> /\ Head(From(s, i)) = s[i] /\ Tail(From(s, i)) = From(s, i + 1)
<1>1. Len(s) \in Nat /\ i \in 1..(Len(s) + 1) /\ Len(s) \in i..Len(s)
  BY LenProperties
<1>2. Len(From(s, i)) > 0 /\ From(s, i) \in Seq(T)
  BY <1>1, FromProperties
<1>3. From(s, i) # <<>>
  BY <1>2, EmptySeq
<1>4. Head(From(s, i)) = s[i] /\ Tail(From(s, i)) = From(s, i + 1)
  BY <1>1, HeadTailOfSubSeq DEF From
<1> QED BY <1>3, <1>4

LEMMA FromEnds ==
  ASSUME NEW T, NEW s \in Seq(T)
  PROVE  From(s, 1) = s /\ From(s, Len(s) + 1) = <<>>
<1>1. From(s, 1) = s
  BY SubSeqFull DEF From
<1>2. Len(s) \in Int /\ Len(s) + 1 \in Int /\ Len(s) < Len(s) + 1
  BY LenProperties
<1>3. From(s, Len(s) + 1) = <<>>
  BY <1>2, SubSeqEmpty DEF From
<1> QED BY <1>1, <1>3

LEMMA AppendConcat ==
  ASSUME NEW T, NEW s \in Seq(T), NEW u \in Seq(T), NEW e \in T
  PROVE  s \o Append(u, e) = Append(s \o u, e)
<1>1. Append(u, e) = u \o <<e>> /\ Append(s \o u, e) = (s \o u) \o <<e>>
  BY AppendIsConcat, ConcatProperties
<1>2. <<e>> \in Seq(T)
  OBVIOUS
<1> QED BY <1>1, <1>2, ConcatAssociative

LEMMA HeadTailConcat ==
  ASSUME NEW T, NEW s \in Seq(T), NEW u \in Seq(T), s # <<>>
  PROVE  s \o u # <<>> /\ Head(s \o u) = Head(s) /\ Tail(s \o u) = Tail(s) \o u
<1>1. PICK e \in T, r \in Seq(T) : s = <<e>> \o r /\ e = Head(s) /\ r = Tail(s)
  <2>1. Len(s) \in Nat \ {0} /\ 1 \in 1..Len(s) /\ Len(s) \in 1..Len(s)
    BY EmptySeq
  <2>2. s = <<s[1]>> \o SubSeq(s, 2, Len(s))
    BY <2>1, SubSeqRecursiveFirst, SubSeqFull
  <2>3. Tail(s) = SubSeq(s, 2, Len(s)) /\ Head(s) \in T /\ Tail(s) \in Seq(T)
    BY TailIsSubSeq, HeadTailProperties
  <2>4. Head(s) = s[1]
    BY <2>1
  <2> QED BY <2>2, <2>3, <2>4
<1>2. <<e>> \in Seq(T) /\ Len(<<e>>) = 1 /\ r \o u \in Seq(T)
  BY ConcatProperties
<1>3. s \o u = <<e>> \o (r \o u)
  BY <1>1, <1>2, ConcatAssociative
<1>4. <<e>> \o (r \o u) # <<>>
  BY <1>2, ConcatEqualIffEmpty
<1>5. Head(<<e>> \o (r \o u)) = e /\ Tail(<<e>> \o (r \o u)) = r \o u
  OBVIOUS
<1> QED BY <1>1, <1>3, <1>4, <1>5

-----------------------------------------------------------------------------
(* The inductive invariant of CellTaskServer. *)

\* _tasks is empty but while its tasks are looked at and run, and iterators
\* stay within their list, or at its end.
Lists ==
  /\ pc \in {"top", "move", "drain", "done"} => tasks = <<>>
  /\ pc \in {"move", "check"} => at = 1
  /\ pc = "run" => at <= Len(tasks) + 1
  /\ pc \in {"drain", "done"} => at <= Len(taskBuf) + 1

\* The worker leaves its loop only for Close, and Close only for its end.
Ends ==
  /\ caller = "open" <=> isRun
  /\ pc \in {"drain", "done"} => ~isRun
  /\ caller \in {"closed", "lost"} => pc = "done"

\* What has been added has run or is pending, and what had been added before
\* Close is no more than that, and has run when the worker has passed the end.
Accounts ==
  /\ IsFiniteSet(added)
  /\ Cardinality(added) = Len(ran) + Len(Pending)
  /\ caller # "open" => due <= Len(ran) + Len(Pending)
  /\ pc = "done" => due <= Len(ran)

IInv == TypeOK /\ Lists /\ Ends /\ Accounts

LEMMA PendingIs ==
  ASSUME IInv
  PROVE  /\ Pending \in Seq(Tasks)
         /\ taskBuf \in Seq(Tasks) /\ tasks \in Seq(Tasks) /\ ran \in Seq(Tasks)
         /\ pc = "run" =>
              /\ at \in 1..(Len(tasks) + 1) /\ From(tasks, at) \in Seq(Tasks)
              /\ Pending = From(tasks, at) \o taskBuf
         /\ pc \in {"drain", "done"} =>
              /\ at \in 1..(Len(taskBuf) + 1) /\ Pending = From(taskBuf, at)
         /\ pc \in {"top", "move", "check"} => Pending = tasks \o taskBuf
<1>1. taskBuf \in Seq(Tasks) /\ tasks \in Seq(Tasks) /\ ran \in Seq(Tasks) /\ at \in Nat \ {0}
  BY DEF IInv, TypeOK
<1>2. Len(tasks) \in Nat /\ Len(taskBuf) \in Nat
  BY <1>1, LenProperties
<1>3. CASE pc = "run"
  <2>1. at \in 1..(Len(tasks) + 1)
    BY <1>1, <1>2, <1>3 DEF IInv, Lists
  <2>2. From(tasks, at) \in Seq(Tasks)
    BY <1>1, <2>1, FromProperties
  <2> QED BY <1>1, <1>3, <2>1, <2>2, ConcatProperties DEF Pending
<1>4. CASE pc \in {"drain", "done"}
  <2>1. at \in 1..(Len(taskBuf) + 1)
    BY <1>1, <1>2, <1>4 DEF IInv, Lists
  <2>2. From(taskBuf, at) \in Seq(Tasks)
    BY <1>1, <2>1, FromProperties
  <2> QED BY <1>1, <1>4, <2>1, <2>2 DEF Pending
<1>5. CASE pc \in {"top", "move", "check"}
  BY <1>1, <1>5, ConcatProperties DEF Pending
<1> QED BY <1>3, <1>4, <1>5 DEF IInv, TypeOK

LEMMA InitIInv == ASSUME Init PROVE IInv /\ Queue!Init
<1>1. Pending = <<>>
  BY DEF Init, Pending
<1>2. isRun \in BOOLEAN
  BY Zenon DEF Init
<1>3. <<>> \in Seq(Tasks) /\ Len(<<>>) = 0
  BY EmptySeq
<1>4. TypeOK
  BY <1>2, <1>3 DEF Init, TypeOK
<1>5. Lists /\ Ends
  BY <1>3 DEF Init, Lists, Ends
<1>6. Accounts
  BY <1>1, <1>3, FS_EmptySet DEF Init, Accounts
<1>7. Queue!Init
  BY <1>1 DEF Init, Queue!Init
<1> QED BY <1>4, <1>5, <1>6, <1>7 DEF IInv

\* A task that is added is pending, also behind an iterator that is at the end.
LEMMA AddStep == ASSUME IInv, NEW t \in Tasks, addTask(t) PROVE IInv' /\ Queue!Add(t)
<1>1. /\ taskBuf' = Append(taskBuf, t) /\ t \notin added /\ added' = added \union {t}
      /\ UNCHANGED <<tasks, isRun, pc, at, caller, ran, due>>
  BY DEF addTask
<1>2. /\ taskBuf' \in Seq(Tasks) /\ Len(taskBuf') = Len(taskBuf) + 1
      /\ Len(taskBuf) \in Nat /\ Len(tasks) \in Nat /\ Len(ran) \in Nat
  BY <1>1, PendingIs, AppendProperties, LenProperties
<1>3. Pending' = Append(Pending, t)
  <2>1. CASE pc = "run"
    <3>1. Pending' = From(tasks, at) \o Append(taskBuf, t)
      BY <1>1, <2>1 DEF Pending
    <3> QED BY <2>1, <3>1, PendingIs, AppendConcat
  <2>2. CASE pc \in {"drain", "done"}
    <3>1. Pending' = From(Append(taskBuf, t), at)
      BY <1>1, <2>2 DEF Pending
    <3> QED BY <2>2, <3>1, PendingIs, FromAppend
  <2>3. CASE pc \in {"top", "move", "check"}
    <3>1. Pending' = tasks \o Append(taskBuf, t)
      BY <1>1, <2>3 DEF Pending
    <3> QED BY <2>3, <3>1, PendingIs, AppendConcat
  <2> QED BY <2>1, <2>2, <2>3 DEF IInv, TypeOK
<1>4. Len(Pending') = Len(Pending) + 1 /\ Len(Pending) \in Nat
  BY <1>3, PendingIs, AppendProperties, LenProperties
<1>5. isRun' \in BOOLEAN
  BY <1>1, Zenon DEF IInv, TypeOK
<1>6. TypeOK'
  BY <1>1, <1>2, <1>5 DEF IInv, TypeOK
<1>7. Lists' /\ Ends'
  <2>1. at \in Nat
    BY DEF IInv, TypeOK
  <2> QED BY <1>1, <1>2, <2>1 DEF IInv, Lists, Ends
<1>8. Accounts'
  <2>1. IsFiniteSet(added') /\ Cardinality(added') = Cardinality(added) + 1
    BY <1>1, FS_AddElement DEF IInv, Accounts
  <2>2. due \in Nat /\ Cardinality(added) = Len(ran) + Len(Pending)
    BY DEF IInv, TypeOK, Accounts
  <2> QED BY <1>1, <1>2, <1>4, <2>1, <2>2 DEF IInv, Accounts
<1>9. Queue!Add(t)
  BY <1>1, <1>3 DEF Queue!Add
<1> QED BY <1>6, <1>7, <1>8, <1>9 DEF IInv

\* The steps of the worker that run nothing change nothing that the promise is
\* about.
LEMMA WorkerStutters ==
  ASSUME IInv, Top \/ Move \/ Check \/ Clear \/ DrainEnd
  PROVE  IInv' /\ UNCHANGED Queue!vars
<1>1. /\ UNCHANGED <<isRun, caller, added, ran, due>>
      /\ pc \in {"top", "move", "check", "run", "drain"}
  BY DEF Top, Move, Check, Clear, DrainEnd, history
<1>2. /\ taskBuf \in Seq(Tasks) /\ tasks \in Seq(Tasks) /\ ran \in Seq(Tasks)
      /\ Len(tasks) \in Nat /\ Len(taskBuf) \in Nat /\ Len(ran) \in Nat /\ Len(Pending) \in Nat
      /\ at \in Nat \ {0} /\ due \in Nat
      /\ <<>> \in Seq(Tasks) /\ Len(<<>>) = 0
  BY PendingIs, LenProperties, EmptySeq DEF IInv, TypeOK
<1>3. isRun' \in BOOLEAN
  BY <1>1, Zenon DEF IInv, TypeOK
<1>4. /\ Pending' = Pending
      /\ taskBuf' \in Seq(Tasks) /\ tasks' \in Seq(Tasks) /\ at' \in Nat \ {0}
      /\ pc' \in {"top", "move", "check", "run", "drain", "done"}
      /\ Lists'
      /\ pc' \in {"drain", "done"} => ~isRun
      /\ pc' = "done" => pc = "drain" /\ Pending = <<>>
  <2>1. CASE Top
    <3>1. /\ pc = "top" /\ tasks = <<>> /\ at' = 1 /\ tasks' = tasks /\ taskBuf' = taskBuf
          /\ pc' \in {"drain", "check", "move"} /\ (pc' = "drain" => ~isRun)
      BY <2>1 DEF Top, Begin, IInv, Lists
    <3>2. Pending = taskBuf
      BY <1>2, <3>1, PendingIs, ConcatEmptySeq
    <3>3. Pending' = taskBuf
      <4>1. CASE pc' = "drain"
        <5>1. Pending' = From(taskBuf, 1)
          BY <3>1, <4>1 DEF Pending
        <5> QED BY <1>2, <5>1, FromEnds
      <4>2. CASE pc' # "drain"
        <5>1. Pending' = <<>> \o taskBuf
          BY <3>1, <4>2 DEF Pending
        <5> QED BY <1>2, <5>1, ConcatEmptySeq
      <4> QED BY <4>1, <4>2
    <3>4. Lists'
      BY <1>2, <3>1 DEF Lists
    <3> QED BY <1>2, <3>1, <3>2, <3>3, <3>4
  <2>2. CASE Move
    <3>1. /\ pc = "move" /\ tasks = <<>> /\ at = 1 /\ at' = at /\ tasks' = tasks \o taskBuf
          /\ taskBuf' = <<>> /\ pc' = "check"
      BY <2>2 DEF Move, IInv, Lists
    <3>2. Pending = taskBuf /\ tasks' = taskBuf
      BY <1>2, <3>1, PendingIs, ConcatEmptySeq
    <3>3. Pending' = taskBuf \o <<>>
      BY <3>1, <3>2 DEF Pending
    <3>4. Pending' = taskBuf
      BY <1>2, <3>3, ConcatEmptySeq
    <3>5. Lists'
      BY <3>1 DEF Lists
    <3> QED BY <1>2, <3>1, <3>2, <3>4, <3>5
  <2>3. CASE Check
    <3>1. /\ pc = "check" /\ at = 1 /\ at' = at /\ tasks' = tasks /\ taskBuf' = taskBuf
          /\ pc' \in {"top", "run"} /\ (pc' = "top" => tasks = <<>>)
      BY <2>3 DEF Check, IInv, Lists
    <3>2. Pending = tasks \o taskBuf
      BY <3>1, PendingIs
    <3>3. Pending' = tasks \o taskBuf
      <4>1. CASE pc' = "run"
        <5>1. Pending' = From(tasks, 1) \o taskBuf
          BY <3>1, <4>1 DEF Pending
        <5> QED BY <1>2, <5>1, FromEnds
      <4>2. CASE pc' = "top"
        BY <3>1, <4>2 DEF Pending
      <4> QED BY <3>1, <4>1, <4>2
    <3>4. Lists'
      BY <1>2, <3>1 DEF Lists
    <3> QED BY <1>2, <3>1, <3>2, <3>3, <3>4
  <2>4. CASE Clear
    <3>1. /\ pc = "run" /\ at > Len(tasks) /\ at' = at /\ tasks' = <<>> /\ taskBuf' = taskBuf
          /\ pc' = "top"
      BY <2>4 DEF Clear
    <3>2. at = Len(tasks) + 1
      BY <1>2, <3>1, PendingIs
    <3>3. From(tasks, at) = <<>>
      BY <1>2, <3>2, FromEnds
    <3>4. Pending = <<>> \o taskBuf /\ Pending' = <<>> \o taskBuf
      BY <3>1, <3>3, PendingIs DEF Pending
    <3>5. Lists'
      BY <3>1 DEF Lists
    <3> QED BY <1>2, <3>1, <3>4, <3>5
  <2>5. CASE DrainEnd
    <3>1. /\ pc = "drain" /\ at > Len(taskBuf) /\ at' = at /\ tasks' = tasks
          /\ taskBuf' = taskBuf /\ pc' = "done" /\ tasks = <<>> /\ ~isRun
      BY <2>5 DEF DrainEnd, IInv, Lists, Ends
    <3>2. at = Len(taskBuf) + 1
      BY <1>2, <3>1, PendingIs
    <3>3. Pending = From(taskBuf, at) /\ Pending' = From(taskBuf, at)
      BY <3>1, PendingIs DEF Pending
    <3>4. Pending = <<>>
      BY <1>2, <3>2, <3>3, FromEnds
    <3>5. Lists'
      BY <3>1, <3>2 DEF Lists
    <3> QED BY <1>2, <3>1, <3>3, <3>4, <3>5
  <2> QED BY <2>1, <2>2, <2>3, <2>4, <2>5
<1>5. TypeOK'
  BY <1>1, <1>2, <1>3, <1>4 DEF IInv, TypeOK
<1>6. Ends'
  <2>1. caller \notin {"closed", "lost"}
    BY <1>1 DEF IInv, Ends
  <2> QED BY <1>1, <1>4, <2>1 DEF IInv, Ends
<1>7. Accounts'
  <2>1. pc' = "done" => due <= Len(ran)
    <3>1. pc = "drain" => caller # "open"
      BY DEF IInv, Ends
    <3>2. pc' = "done" => due <= Len(ran) + Len(Pending) /\ Len(Pending) = 0
      BY <1>2, <1>4, <3>1 DEF IInv, Accounts
    <3> QED BY <1>2, <3>2
  <2> QED BY <1>1, <1>4, <2>1 DEF IInv, Accounts
<1>8. UNCHANGED Queue!vars
  BY <1>1, <1>4 DEF Queue!vars
<1> QED BY <1>4, <1>5, <1>6, <1>7, <1>8 DEF IInv

\* What runs is the first of what is pending.
LEMMA RunStep == ASSUME IInv, RunOne \/ DrainOne PROVE IInv' /\ Queue!Run
<1>1. /\ UNCHANGED <<taskBuf, tasks, isRun, pc, caller, added, due>> /\ at' = at + 1
      /\ pc \in {"run", "drain"}
  BY DEF RunOne, DrainOne
<1>2. /\ taskBuf \in Seq(Tasks) /\ tasks \in Seq(Tasks) /\ ran \in Seq(Tasks)
      /\ Len(tasks) \in Nat /\ Len(taskBuf) \in Nat /\ Len(ran) \in Nat
      /\ at \in Nat \ {0} /\ due \in Nat /\ Pending \in Seq(Tasks)
  BY PendingIs, LenProperties DEF IInv, TypeOK
<1>3. /\ Pending # <<>> /\ ran' = Append(ran, Head(Pending)) /\ Pending' = Tail(Pending)
      /\ Lists'
  <2>1. CASE pc = "run"
    <3>1. at \in 1..Len(tasks) /\ ran' = Append(ran, tasks[at])
      BY <1>2, <2>1 DEF RunOne, DrainOne
    <3>2. /\ From(tasks, at) # <<>> /\ Head(From(tasks, at)) = tasks[at]
          /\ Tail(From(tasks, at)) = From(tasks, at + 1)
      BY <1>2, <3>1, FromStep
    <3>3. Pending = From(tasks, at) \o taskBuf /\ From(tasks, at) \in Seq(Tasks)
      BY <2>1, PendingIs
    <3>4. Pending' = From(tasks, at + 1) \o taskBuf
      BY <1>1, <2>1 DEF Pending
    <3>5. /\ Pending # <<>> /\ Head(Pending) = Head(From(tasks, at))
          /\ Tail(Pending) = Tail(From(tasks, at)) \o taskBuf
      BY <1>2, <3>2, <3>3, HeadTailConcat
    <3>6. Lists'
      BY <1>1, <1>2, <2>1, <3>1 DEF Lists
    <3> QED BY <3>1, <3>2, <3>4, <3>5, <3>6
  <2>2. CASE pc = "drain"
    <3>1. at \in 1..Len(taskBuf) /\ ran' = Append(ran, taskBuf[at])
      BY <1>2, <2>2 DEF RunOne, DrainOne
    <3>2. /\ From(taskBuf, at) # <<>> /\ Head(From(taskBuf, at)) = taskBuf[at]
          /\ Tail(From(taskBuf, at)) = From(taskBuf, at + 1)
      BY <1>2, <3>1, FromStep
    <3>3. Pending = From(taskBuf, at)
      BY <2>2, PendingIs
    <3>4. Pending' = From(taskBuf, at + 1)
      BY <1>1, <2>2 DEF Pending
    <3>5. Lists'
      BY <1>1, <1>2, <2>2, <3>1 DEF IInv, Lists
    <3> QED BY <3>1, <3>2, <3>3, <3>4, <3>5
  <2> QED BY <1>1, <2>1, <2>2
<1>4. /\ ran' \in Seq(Tasks) /\ Len(ran') = Len(ran) + 1
      /\ Len(Pending') = Len(Pending) - 1 /\ Len(Pending) \in Nat \ {0}
  BY <1>2, <1>3, HeadTailProperties, AppendProperties, EmptySeq
<1>5. isRun' \in BOOLEAN
  BY <1>1, Zenon DEF IInv, TypeOK
<1>6. TypeOK'
  BY <1>1, <1>2, <1>4, <1>5 DEF IInv, TypeOK
<1>7. Ends'
  BY <1>1 DEF IInv, Ends
<1>8. Accounts'
  <2>1. Len(ran') + Len(Pending') = Len(ran) + Len(Pending)
    BY <1>2, <1>4
  <2> QED BY <1>1, <2>1 DEF IInv, Accounts
<1>9. caller \in {"open", "closing"}
  BY <1>1 DEF IInv, Ends, TypeOK
<1>10. Queue!Run
  BY <1>1, <1>3, <1>9 DEF Queue!Run
<1> QED BY <1>3, <1>6, <1>7, <1>8, <1>10 DEF IInv

LEMMA CloseStep == ASSUME IInv, Close PROVE IInv' /\ Queue!Close
<1>1. /\ caller = "open" /\ isRun' = FALSE /\ caller' = "closing" /\ due' = Cardinality(added)
      /\ UNCHANGED <<taskBuf, tasks, pc, at, added, ran>>
  BY DEF Close
<1>2. Pending' = Pending
  BY <1>1 DEF Pending
<1>3. due' = Len(ran) + Len(Pending) /\ Len(ran) \in Nat /\ Len(Pending) \in Nat
  BY <1>1, PendingIs, LenProperties DEF IInv, Accounts
<1>4. isRun' \in BOOLEAN
  BY <1>1, Zenon
<1>5. pc \notin {"drain", "done"}
  BY <1>1 DEF IInv, Ends
<1>6. TypeOK'
  BY <1>1, <1>3, <1>4 DEF IInv, TypeOK
<1>7. Lists' /\ Ends' /\ Accounts'
  BY <1>1, <1>2, <1>3, <1>5 DEF IInv, Lists, Ends, Accounts
<1>8. Queue!Close
  BY <1>1, <1>2, <1>3 DEF Queue!Close
<1> QED BY <1>6, <1>7, <1>8 DEF IInv

LEMMA CloseEndsStep == ASSUME IInv, CloseEnds PROVE IInv' /\ Queue!CloseEnds
<1>1. /\ caller = "closing" /\ pc = "done" /\ caller' \in {"closed", "lost"}
      /\ UNCHANGED <<taskBuf, tasks, isRun, pc, at, added, ran, due>>
  BY DEF CloseEnds, CloseReturns, LoseSignal, history
<1>2. Pending' = Pending
  BY <1>1 DEF Pending
<1>3. isRun' \in BOOLEAN
  BY <1>1, Zenon DEF IInv, TypeOK
<1>4. TypeOK'
  BY <1>1, <1>3 DEF IInv, TypeOK
<1>5. Lists' /\ Ends' /\ Accounts'
  BY <1>1, <1>2 DEF IInv, Lists, Ends, Accounts
<1>6. Len(ran) >= due
  <2>1. due <= Len(ran) /\ due \in Nat /\ Len(ran) \in Nat
    BY <1>1, PendingIs, LenProperties DEF IInv, Accounts, TypeOK
  <2> QED BY <2>1
<1>7. Queue!CloseEnds
  BY <1>1, <1>2, <1>6 DEF Queue!CloseEnds
<1> QED BY <1>4, <1>5, <1>7 DEF IInv

LEMMA Step == ASSUME IInv, [Next]_vars PROVE IInv' /\ [Queue!Next]_Queue!vars
<1>1. CASE UNCHANGED vars
  BY <1>1 DEF vars, IInv, TypeOK, Lists, Ends, Accounts, Pending, Queue!vars
<1>2. CASE \E t \in Tasks : addTask(t)
  BY <1>2, AddStep DEF Queue!Next
<1>3. CASE Worker
  BY <1>3, WorkerStutters, RunStep DEF Worker, Queue!Next
<1>4. CASE Close \/ CloseEnds
  BY <1>4, CloseStep, CloseEndsStep DEF Queue!Next
<1> QED BY <1>1, <1>2, <1>3, <1>4 DEF Next

\* A task server does what TaskQueue promises: it runs tasks in the order in
\* which they were added, none twice, and Close ends only after all that had
\* been added before; for any number of tasks, however the worker's looks
\* at _taskBuf without the lock fall between the additions.
THEOREM TaskServerImplementsQueue == Spec => Queue!Spec
<1>1. Init => IInv /\ Queue!Init
  BY InitIInv
<1>2. IInv /\ [Next]_vars => IInv' /\ [Queue!Next]_Queue!vars
  BY Step
<1> QED BY <1>1, <1>2, PTL DEF Spec, Queue!Spec

-----------------------------------------------------------------------------
(* The inductive invariant of CELLLog. *)

\* Whatever runs, or is to run, was added.
AllAdded ==
  /\ \A i \in 1..Len(ran) : ran[i] \in added
  /\ \A i \in 1..Len(tasks) : tasks[i] \in added
  /\ \A i \in 1..Len(taskBuf) : taskBuf[i] \in added

\* The worker is in a task only when there is one.
InTask == tpc # "if" => HasTask

\* A file that was given to main is open until main closes it.
FileThere ==
  /\ logFile # Null => fstate[logFile] \in {"open", "closed"}
  /\ \A f \in Files : f > calls => fstate[f] = "none"
  /\ spc = "fclose" => logFile # Null
  /\ spc = "null" => logFile # Null /\ fstate[logFile] = "closed"
  /\ logFile # Null => calls > 0
  /\ spc \in {"fclose", "null", "fopen"} => calls < MaxCalls
  /\ spc = "report" => calls > 0

\* What setLogPath has reported so far leaves it something to report with.
Reported == Reports \intersect added
ReportsLeft ==
  /\ calls = 0 => Reported = {}
  /\ calls > 0 =>
       Cardinality(Reported) <= CASE spc = "idle" -> 2 * calls - 1
                                  [] spc = "report" -> 2 * calls - 2
                                  [] OTHER -> 2 * calls

\* As long as no file is closed there is one file with lines in it at most,
\* the log's own: it has all lines but those that were added before it.
OneFile ==
  NeverClosed =>
    /\ ~fault
    /\ tpc \in {"stamp", "text"} => logFile # Null
    /\ spc = "fopen" => logFile = Null
    /\ \A f \in Files : f # logFile => file[f] = <<>>
    /\ logFile # Null =>
         \E first \in 0..Len(log) :
           LinesFrom(logFile, first) /\ \A i \in 1..first : log[i] \in early

LogInv == IInv /\ LogTypeOK /\ AllAdded /\ InTask /\ FileThere /\ ReportsLeft /\ OneFile

-----------------------------------------------------------------------------
(* Lemmas about the lines of a file. *)

Entries == Tasks \X {"stamp", "text"}

\* LinesFrom for any file and log; half of the last line may be left to write.
Lines(s, l, half, first) ==
  /\ Len(s) = 2 * (Len(l) - first) - half
  /\ \A i \in 1..(Len(l) - first) :
       /\ s[2 * i - 1] = <<l[first + i], "stamp">>
       /\ 2 * i <= Len(s) => s[2 * i] = <<l[first + i], "text">>

LEMMA StampLine ==
  ASSUME NEW s \in Seq(Entries), NEW l \in Seq(Tasks), NEW e \in Tasks,
         NEW first \in 0..Len(l), Lines(s, l, 0, first)
  PROVE  Lines(Append(s, <<e, "stamp">>), Append(l, e), 1, first)
<1> DEFINE x == <<e, "stamp">>
           s1 == Append(s, x)
           l1 == Append(l, e)
<1>1. /\ Len(s1) = Len(s) + 1 /\ Len(s) \in Nat /\ s1[Len(s) + 1] = x
      /\ \A i \in 1..Len(s) : s1[i] = s[i]
  BY AppendProperties, LenProperties DEF Entries
<1>2. /\ Len(l1) = Len(l) + 1 /\ Len(l) \in Nat /\ l1[Len(l) + 1] = e
      /\ \A i \in 1..Len(l) : l1[i] = l[i]
  BY AppendProperties, LenProperties
<1> HIDE DEF s1, l1
<1>3. Len(s) = 2 * (Len(l) - first) /\ first \in Nat /\ first <= Len(l)
  BY <1>2 DEF Lines
<1>4. Len(s1) = 2 * (Len(l1) - first) - 1
  BY <1>1, <1>2, <1>3
<1>5. ASSUME NEW i \in 1..(Len(l1) - first)
      PROVE  /\ s1[2 * i - 1] = <<l1[first + i], "stamp">>
             /\ 2 * i <= Len(s1) => s1[2 * i] = <<l1[first + i], "text">>
  <2>1. CASE i = Len(l1) - first
    <3>1. 2 * i - 1 = Len(s) + 1 /\ first + i = Len(l) + 1 /\ ~(2 * i <= Len(s1))
      BY <1>1, <1>2, <1>3, <2>1
    <3> QED BY <1>1, <1>2, <3>1
  <2>2. CASE i # Len(l1) - first
    <3>1. /\ i \in 1..(Len(l) - first) /\ 2 * i \in 1..Len(s) /\ 2 * i - 1 \in 1..Len(s)
          /\ first + i \in 1..Len(l)
      BY <1>2, <1>3, <2>2
    <3>2. /\ s[2 * i - 1] = <<l[first + i], "stamp">>
          /\ s[2 * i] = <<l[first + i], "text">>
      BY <3>1 DEF Lines
    <3> QED BY <1>1, <1>2, <3>1, <3>2
  <2> QED BY <2>1, <2>2
<1> QED BY <1>4, <1>5 DEF Lines, s1, l1

LEMMA TextLine ==
  ASSUME NEW s \in Seq(Entries), NEW l \in Seq(Tasks), NEW e \in Tasks,
         NEW first \in 0..Len(Append(l, e)), Lines(s, Append(l, e), 1, first)
  PROVE  Lines(Append(s, <<e, "text">>), Append(l, e), 0, first)
<1> DEFINE x == <<e, "text">>
           s1 == Append(s, x)
           l1 == Append(l, e)
<1>1. /\ Len(s1) = Len(s) + 1 /\ Len(s) \in Nat /\ s1[Len(s) + 1] = x
      /\ \A i \in 1..Len(s) : s1[i] = s[i]
  BY AppendProperties, LenProperties DEF Entries
<1>2. Len(l1) = Len(l) + 1 /\ Len(l) \in Nat /\ l1[Len(l) + 1] = e
  BY AppendProperties, LenProperties
<1>3. Lines(s, l1, 1, first) /\ first \in 0..Len(l1)
  OBVIOUS
<1> HIDE DEF s1, l1
<1>4. Len(s) = 2 * (Len(l1) - first) - 1 /\ first \in Nat
  BY <1>2, <1>3 DEF Lines
<1>5. ASSUME NEW i \in 1..(Len(l1) - first)
      PROVE  /\ s1[2 * i - 1] = <<l1[first + i], "stamp">>
             /\ s1[2 * i] = <<l1[first + i], "text">>
  <2>1. /\ s[2 * i - 1] = <<l1[first + i], "stamp">>
        /\ 2 * i <= Len(s) => s[2 * i] = <<l1[first + i], "text">>
    BY <1>3 DEF Lines
  <2>2. 2 * i - 1 \in 1..Len(s)
    BY <1>2, <1>4
  <2>3. CASE i = Len(l1) - first
    <3>1. 2 * i = Len(s) + 1 /\ first + i = Len(l) + 1
      BY <1>2, <1>4, <2>3
    <3> QED BY <1>1, <1>2, <2>1, <2>2, <3>1
  <2>4. CASE i # Len(l1) - first
    <3>1. 2 * i \in 1..Len(s)
      BY <1>2, <1>4, <2>4
    <3> QED BY <1>1, <2>1, <2>2, <3>1
  <2> QED BY <2>3, <2>4
<1>6. Len(s1) = 2 * (Len(l1) - first) - 0
  BY <1>1, <1>2, <1>4
<1> QED BY <1>5, <1>6 DEF Lines, s1, l1

-----------------------------------------------------------------------------
(* The steps of CELLLog keep its invariant. *)

\* What is common to all steps: types without those of the task server.
LogTypes ==
  /\ logFile \in 0..MaxCalls
  /\ fstate \in [1..MaxCalls -> {"none", "open", "closed"}]
  /\ spc \in {"idle", "fclose", "null", "fopen", "report"} /\ calls \in 0..MaxCalls
  /\ tpc \in {"if", "stamp", "text", "print"}
  /\ file \in [1..MaxCalls -> Seq(Entries)]
  /\ early \in SUBSET Tasks
  /\ fault \in BOOLEAN

LEMMA LogTypesAre == LogTypeOK <=> TypeOK /\ LogTypes
<1>1. Files \union {Null} = 0..MaxCalls
  BY MaxCallsAssumption DEF Files, Null
<1> QED BY <1>1 DEF LogTypeOK, LogTypes, Files, Entries

\* The task that the worker is in, and the log.
LEMMA CurrentIs ==
  ASSUME LogInv
  PROVE  /\ HasTask => Current \in Tasks /\ Current \in added
         /\ log \in Seq(Tasks) /\ ran \in Seq(Tasks)
         /\ \A i \in 1..Len(log) : log[i] \in added
<1>1. /\ taskBuf \in Seq(Tasks) /\ tasks \in Seq(Tasks) /\ ran \in Seq(Tasks)
      /\ at \in Nat \ {0} /\ IInv
  BY DEF LogInv, IInv, TypeOK
<1>2. ASSUME HasTask PROVE Current \in Tasks /\ Current \in added
  <2>1. CASE pc = "run"
    <3>1. at \in 1..Len(tasks) /\ Current = tasks[at]
      BY <1>1, <1>2, <2>1, LenProperties DEF HasTask, Current
    <3> QED BY <1>1, <3>1, ElementOfSeq DEF LogInv, AllAdded
  <2>2. CASE pc # "run"
    <3>1. at \in 1..Len(taskBuf) /\ Current = taskBuf[at]
      BY <1>1, <1>2, <2>2, LenProperties DEF HasTask, Current
    <3> QED BY <1>1, <3>1, ElementOfSeq DEF LogInv, AllAdded
  <2> QED BY <2>1, <2>2
<1>3. CASE tpc \in {"text", "print"}
  <2>1. log = Append(ran, Current) /\ Current \in Tasks /\ Current \in added
    BY <1>2, <1>3 DEF log, LogInv, InTask
  <2>2. /\ log \in Seq(Tasks) /\ Len(log) = Len(ran) + 1 /\ Len(ran) \in Nat
        /\ \A i \in 1..Len(ran) : log[i] = ran[i]
        /\ log[Len(ran) + 1] = Current
    BY <1>1, <2>1, AppendProperties, LenProperties
  <2>3. ASSUME NEW i \in 1..Len(log) PROVE log[i] \in added
    BY <2>1, <2>2 DEF LogInv, AllAdded
  <2> QED BY <1>1, <1>2, <2>2, <2>3
<1>4. CASE tpc \notin {"text", "print"}
  BY <1>1, <1>2, <1>4 DEF log, LogInv, AllAdded
<1> QED BY <1>3, <1>4

\* A step that leaves the file and the log alone.
LEMMA OneFileStays ==
  ASSUME LogInv, log' = log, UNCHANGED <<logFile, fstate, tpc, file, early, fault>>,
         spc' = "fopen" => spc = "fopen" \/ logFile = Null
  PROVE  OneFile'
<1>1. NeverClosed' <=> NeverClosed
  BY DEF NeverClosed
<1>2. ASSUME NEW f, NEW first PROVE LinesFrom(f, first)' <=> LinesFrom(f, first)
  BY DEF LinesFrom
<1>3. SUFFICES ASSUME NeverClosed
               PROVE  /\ ~fault /\ (tpc \in {"stamp", "text"} => logFile # Null)
                      /\ spc' = "fopen" => logFile = Null
                      /\ \A f \in Files : f # logFile => file[f] = <<>>
                      /\ logFile # Null =>
                           \E first \in 0..Len(log) :
                             LinesFrom(logFile, first)' /\ \A i \in 1..first : log[i] \in early
  BY <1>1, Zenon DEF OneFile
<1>4. OneFile
  BY DEF LogInv
<1> QED BY <1>2, <1>3, <1>4 DEF OneFile

\* Adding a task leaves the log and the worker's task alone.
LEMMA AddKeeps ==
  ASSUME LogInv, NEW t \in Tasks, addTask(t), tpc' = tpc
  PROVE  log' = log /\ InTask' /\ AllAdded'
<1>1. /\ taskBuf' = Append(taskBuf, t) /\ added' = added \union {t}
      /\ UNCHANGED <<tasks, pc, at, ran>>
  BY DEF addTask
<1>2. taskBuf \in Seq(Tasks) /\ at \in Nat \ {0}
  BY DEF LogInv, IInv, TypeOK
<1>3. /\ Len(taskBuf') = Len(taskBuf) + 1 /\ Len(taskBuf) \in Nat
      /\ \A i \in 1..Len(taskBuf) : taskBuf'[i] = taskBuf[i]
      /\ taskBuf'[Len(taskBuf) + 1] = t
  BY <1>1, <1>2, AppendProperties, LenProperties
<1>4. HasTask => HasTask' /\ Current' = Current
  BY <1>1, <1>2, <1>3 DEF HasTask, Current
<1>5. log' = log /\ InTask'
  BY <1>1, <1>4 DEF log, LogInv, InTask
<1>6. AllAdded'
  <2>1. \A i \in 1..Len(taskBuf') : taskBuf'[i] \in added'
    BY <1>1, <1>3 DEF LogInv, AllAdded
  <2> QED BY <1>1, <2>1 DEF LogInv, AllAdded
<1> QED BY <1>5, <1>6

\* A message of another thread.
LEMMA InfoStep == ASSUME LogInv, NEW t \in Tasks \ Reports, Info(t) PROVE LogInv' /\ Next
<1>1. addTask(t) /\ UNCHANGED <<logFile, fstate, spc, calls, tpc, file, early, fault>>
  BY DEF Info, logVars
<1>2. Next
  BY <1>1 DEF Next
<1>3. IInv'
  BY <1>2, Step DEF LogInv
<1>4. log' = log /\ InTask' /\ AllAdded'
  BY <1>1, AddKeeps
<1>5. OneFile'
  BY <1>1, <1>4, OneFileStays
<1>6. LogTypeOK'
  <2>1. LogTypes'
    <3>1. fault' \in BOOLEAN
      BY <1>1, LogTypesAre, Zenon DEF LogInv, LogTypes
    <3> QED BY <1>1, <3>1, LogTypesAre DEF LogInv, LogTypes
  <2> QED BY <1>3, <2>1, LogTypesAre, PTL DEF IInv
<1>7. FileThere'
  BY <1>1 DEF LogInv, FileThere
<1>8. ReportsLeft'
  <2>1. Reported' = Reported
    BY <1>1 DEF Reported, addTask
  <2> QED BY <1>1, <2>1 DEF LogInv, ReportsLeft
<1> QED BY <1>2, <1>3, <1>4, <1>5, <1>6, <1>7, <1>8 DEF LogInv

LEMMA TypesOfStep ==
  ASSUME IInv', LogTypes'
  PROVE  LogTypeOK'
<1>1. LogTypes' /\ TypeOK'
  BY DEF IInv
<1> QED BY <1>1, LogTypesAre, PTL

\* setLogPath's own messages are never all used up.
LEMMA SomeReport ==
  ASSUME LogInv, spc = "report" \/ (spc = "idle" /\ logFile # Null /\ calls < MaxCalls)
  PROVE  /\ (CHOOSE t \in Reports : t \notin added) \in Reports
         /\ (CHOOSE t \in Reports : t \notin added) \notin added
         /\ IsFiniteSet(Reported) /\ Cardinality(Reported) \in Nat
<1>1. /\ IsFiniteSet(Reported) /\ Cardinality(Reported) \in Nat
      /\ Cardinality(Reports) \in Nat /\ Cardinality(Reports) + 1 >= 2 * MaxCalls
  BY ReportsAssumption, FS_Subset, FS_CardinalityType DEF Reported
<1>2. /\ calls \in Nat /\ MaxCalls \in Nat /\ calls <= MaxCalls /\ calls > 0
      /\ (spc = "idle" => calls < MaxCalls)
  BY LogTypesAre, MaxCallsAssumption DEF LogInv, LogTypes, FileThere
<1>3. Cardinality(Reported) <= IF spc = "idle" THEN 2 * calls - 1 ELSE 2 * calls - 2
  BY <1>2 DEF LogInv, ReportsLeft
<1>4. Cardinality(Reported) # Cardinality(Reports)
  BY <1>1, <1>2, <1>3
<1>5. \E t \in Reports : t \notin added
  <2>1. Reported # Reports
    BY <1>4
  <2> QED BY <2>1 DEF Reported
<1> QED BY <1>1, <1>5

\* setLogPath, where it reports.
LEMMA ReportStep ==
  ASSUME LogInv, (SetLogPath /\ logFile # Null) \/ SetLogPathReturns
  PROVE  LogInv' /\ Next
<1>1. /\ Report /\ UNCHANGED <<logFile, fstate, early, calls, tpc, file, fault>>
      /\ spc' \in {"fclose", "idle"}
      /\ spc' = "fclose" => spc = "idle" /\ logFile # Null /\ calls < MaxCalls
      /\ spc' = "idle" => spc = "report"
  BY DEF SetLogPath, SetLogPathReturns, logFileVars
<1>2. PICK t \in Tasks : t \in Reports /\ t \notin added /\ addTask(t)
                         /\ IsFiniteSet(Reported) /\ Cardinality(Reported) \in Nat
  <2>1. spc = "report" \/ (spc = "idle" /\ logFile # Null /\ calls < MaxCalls)
    BY <1>1
  <2> QED BY <1>1, <2>1, SomeReport, ReportsAssumption DEF Report
<1>3. Next
  BY <1>2 DEF Next
<1>4. IInv'
  BY <1>3, Step DEF LogInv
<1>5. log' = log /\ InTask' /\ AllAdded'
  BY <1>1, <1>2, AddKeeps
<1>6. OneFile'
  BY <1>1, <1>5, OneFileStays
<1>7. LogTypeOK'
  <2>1. fault' \in BOOLEAN
    BY <1>1, LogTypesAre, Zenon DEF LogInv, LogTypes
  <2>2. LogTypes'
    BY <1>1, <2>1, LogTypesAre DEF LogInv, LogTypes
  <2> QED BY <1>4, <2>2, TypesOfStep
<1>8. FileThere'
  BY <1>1 DEF LogInv, FileThere
<1>9. ReportsLeft'
  <2>1. Reported' = Reported \union {t} /\ t \notin Reported
    BY <1>2 DEF Reported, addTask
  <2>2. Cardinality(Reported') = Cardinality(Reported) + 1 /\ Cardinality(Reported) \in Nat
    BY <1>2, <2>1, FS_AddElement
  <2>3. calls \in Nat /\ calls > 0
    BY <1>1, LogTypesAre, MaxCallsAssumption DEF LogInv, LogTypes, FileThere
  <2>4. Cardinality(Reported) <= IF spc = "idle" THEN 2 * calls - 1 ELSE 2 * calls - 2
    BY <1>1, <2>3 DEF LogInv, ReportsLeft
  <2>5. Cardinality(Reported') <= IF spc' = "idle" THEN 2 * calls - 1 ELSE 2 * calls
    BY <1>1, <2>2, <2>3, <2>4
  <2> QED BY <1>1, <2>3, <2>5 DEF ReportsLeft
<1> QED BY <1>3, <1>4, <1>5, <1>6, <1>7, <1>8, <1>9 DEF LogInv

\* The steps of main that leave the task server alone, but for fopen.
LEMMA MainStep ==
  ASSUME LogInv, (SetLogPath /\ logFile = Null) \/ Fclose \/ SetNull
  PROVE  LogInv' /\ UNCHANGED vars
<1>1. UNCHANGED <<vars, early, calls, tpc, file, fault>>
  BY DEF SetLogPath, Fclose, SetNull, logFileVars
<1>2. UNCHANGED <<taskBuf, tasks, isRun, pc, at, caller, added, ran, due>>
  BY <1>1 DEF vars
<1>3. IInv'
  BY <1>1, Step DEF LogInv
<1>4. log' = log /\ InTask' /\ AllAdded' /\ Reported' = Reported
  BY <1>1, <1>2 DEF log, Current, LogInv, InTask, HasTask, AllAdded, Reported
<1>5. fault' \in BOOLEAN
  BY <1>1, LogTypesAre, Zenon DEF LogInv, LogTypes
<1>6. LogTypes
  BY LogTypesAre DEF LogInv
<1>7. calls \in Nat
  BY <1>6, MaxCallsAssumption DEF LogTypes
<1>8. CASE SetLogPath /\ logFile = Null
  <2>1. spc = "idle" /\ spc' = "fopen" /\ calls < MaxCalls /\ UNCHANGED <<logFile, fstate>>
    BY <1>8 DEF SetLogPath, logFileVars
  <2>2. LogTypes'
    BY <1>1, <1>5, <1>6, <2>1 DEF LogTypes
  <2>3. FileThere'
    BY <1>1, <1>8, <2>1 DEF LogInv, FileThere
  <2>4. ReportsLeft'
    <3>1. Cardinality(Reported) \in Nat
      BY ReportsAssumption, FS_Subset, FS_CardinalityType DEF Reported
    <3>2. calls > 0 => Cardinality(Reported) <= 2 * calls - 1
      BY <2>1 DEF LogInv, ReportsLeft
    <3>3. calls > 0 => Cardinality(Reported) <= 2 * calls
      BY <1>7, <3>1, <3>2
    <3>4. calls = 0 => Reported = {}
      BY DEF LogInv, ReportsLeft
    <3> QED BY <1>1, <1>4, <2>1, <3>3, <3>4 DEF ReportsLeft
  <2>5. OneFile'
    BY <1>1, <1>4, <1>8, <2>1, OneFileStays
  <2> QED BY <1>1, <1>3, <1>4, <2>2, <2>3, <2>4, <2>5, TypesOfStep DEF LogInv
<1>9. CASE Fclose
  <2>1. /\ spc = "fclose" /\ spc' = "null" /\ logFile' = logFile
        /\ fstate' = [fstate EXCEPT ![logFile] = "closed"]
    BY <1>9 DEF Fclose
  <2>2. logFile \in 1..MaxCalls /\ logFile # Null
    BY <1>6, <2>1, MaxCallsAssumption DEF LogInv, FileThere, LogTypes, Null
  <2>3. LogTypes'
    BY <1>1, <1>5, <1>6, <2>1 DEF LogTypes
  <2>4. /\ fstate'[logFile] = "closed"
        /\ \A f \in 1..MaxCalls : f # logFile => fstate'[f] = fstate[f]
    BY <1>6, <2>1, <2>2 DEF LogTypes
  <2>5. FileThere'
    <3>1. logFile <= calls
      BY <1>6, <1>7, <2>1, <2>2 DEF LogInv, FileThere, Files
    <3> QED BY <1>1, <1>7, <2>1, <2>2, <2>4, <3>1 DEF LogInv, FileThere, Files
  <2>6. ReportsLeft'
    BY <1>1, <1>4, <2>1 DEF LogInv, ReportsLeft
  <2>7. OneFile'
    BY <2>2, <2>4 DEF OneFile, NeverClosed, Files
  <2> QED BY <1>1, <1>3, <1>4, <2>3, <2>5, <2>6, <2>7, TypesOfStep DEF LogInv
<1>10. CASE SetNull
  <2>1. /\ spc = "null" /\ spc' = "fopen" /\ logFile' = Null /\ fstate' = fstate
    BY <1>10 DEF SetNull
  <2>2. logFile \in 1..MaxCalls /\ fstate[logFile] = "closed"
    BY <1>6, <2>1, MaxCallsAssumption DEF LogInv, FileThere, LogTypes, Null
  <2>3. LogTypes'
    BY <1>1, <1>5, <1>6, <2>1, MaxCallsAssumption DEF LogTypes, Null
  <2>4. FileThere'
    BY <1>1, <2>1 DEF LogInv, FileThere
  <2>5. ReportsLeft'
    BY <1>1, <1>4, <2>1 DEF LogInv, ReportsLeft
  <2>6. OneFile'
    BY <2>1, <2>2 DEF OneFile, NeverClosed, Files
  <2> QED BY <1>1, <1>3, <1>4, <2>3, <2>4, <2>5, <2>6, TypesOfStep DEF LogInv
<1> QED BY <1>8, <1>9, <1>10

LEMMA FopenStep == ASSUME LogInv, Fopen PROVE LogInv' /\ UNCHANGED vars
<1>1. /\ UNCHANGED <<vars, tpc, file, fault>>
      /\ spc = "fopen" /\ spc' = "report" /\ calls' = calls + 1 /\ early' = added
  BY DEF Fopen
<1>2. UNCHANGED <<taskBuf, tasks, isRun, pc, at, caller, added, ran, due>>
  BY <1>1 DEF vars
<1>3. IInv'
  BY <1>1, Step DEF LogInv
<1>4. log' = log /\ InTask' /\ AllAdded' /\ Reported' = Reported
  BY <1>1, <1>2 DEF log, Current, LogInv, InTask, HasTask, AllAdded, Reported
<1>5. fault' \in BOOLEAN
  BY <1>1, LogTypesAre, Zenon DEF LogInv, LogTypes
<1>6. LogTypes
  BY LogTypesAre DEF LogInv
<1>7. calls \in Nat /\ calls' \in 1..MaxCalls /\ calls' # Null
  BY <1>1, <1>6, MaxCallsAssumption DEF LogInv, FileThere, LogTypes, Null
<1>8. early' \in SUBSET Tasks
  BY <1>1 DEF LogInv, IInv, TypeOK
<1>9. ReportsLeft'
  <2>1. calls = 0 => Cardinality(Reported) = 0
    BY FS_EmptySet DEF LogInv, ReportsLeft
  <2>2. Cardinality(Reported) <= 2 * calls
    BY <1>1, <1>7, <2>1 DEF LogInv, ReportsLeft
  <2> QED BY <1>1, <1>4, <1>7, <2>2 DEF ReportsLeft
<1>10. Len(log) \in Nat /\ \A i \in 1..Len(log) : log[i] \in added
  BY CurrentIs, LenProperties
<1>11. CASE logFile' = calls' /\ fstate' = [fstate EXCEPT ![calls'] = "open"]
  <2>1. LogTypes'
    BY <1>1, <1>5, <1>6, <1>7, <1>8, <1>11 DEF LogTypes
  <2>2. /\ fstate'[calls'] = "open" /\ fstate[calls'] = "none"
        /\ \A f \in 1..MaxCalls : f # calls' => fstate'[f] = fstate[f]
    BY <1>1, <1>6, <1>7, <1>11 DEF LogTypes, LogInv, FileThere, Files
  <2>3. FileThere'
    BY <1>1, <1>7, <1>11, <2>2 DEF LogInv, FileThere, Files
  <2>4. OneFile'
    <3>1. SUFFICES ASSUME NeverClosed'
                   PROVE  /\ ~fault' /\ (tpc' \in {"stamp", "text"} => logFile' # Null)
                          /\ \A f \in Files : file'[f] = <<>>
                          /\ \E first \in 0..Len(log') :
                               LinesFrom(logFile, first)' /\ \A i \in 1..first : log'[i] \in early'
      BY <1>1, Zenon DEF OneFile
    <3>2. NeverClosed
      BY <2>2, <3>1 DEF NeverClosed, Files
    <3>3. ~fault /\ logFile = Null /\ tpc \notin {"stamp", "text"}
          /\ \A f \in Files : file[f] = <<>>
      <4>1. \A f \in Files : f # Null
        BY DEF Files, Null
      <4> QED BY <1>1, <3>2, <4>1 DEF LogInv, OneFile
    <3>4. LinesFrom(logFile, Len(log))'
      <4>1. /\ Len(log') - Len(log') = 0 /\ file'[logFile'] = <<>> /\ Len(<<>>) = 0
            /\ tpc' # "text" /\ \A i \in 1..0 : FALSE
        BY <1>1, <1>4, <1>7, <1>10, <1>11, <3>3, EmptySeq DEF Files
      <4>2. Len(file'[logFile']) = 2 * (Len(log') - Len(log')) - 0
        BY <4>1
      <4> QED BY <4>1, <4>2 DEF LinesFrom
    <3>5. Len(log) \in 0..Len(log') /\ \A i \in 1..Len(log) : log'[i] \in early'
      BY <1>1, <1>4, <1>10
    <3>6. \E first \in 0..Len(log') :
            LinesFrom(logFile, first)' /\ \A i \in 1..first : log'[i] \in early'
      BY <1>4, <3>4, <3>5, Zenon
    <3> QED BY <1>1, <1>7, <1>11, <3>3, <3>6
  <2> QED BY <1>1, <1>3, <1>4, <1>9, <2>1, <2>3, <2>4, TypesOfStep DEF LogInv
<1>12. CASE logFile' = Null /\ fstate' = fstate
  <2>1. LogTypes'
    <3>1. logFile' \in 0..MaxCalls
      BY <1>12, MaxCallsAssumption DEF Null
    <3> QED BY <1>1, <1>5, <1>6, <1>7, <1>8, <1>12, <3>1 DEF LogTypes
  <2>2. FileThere'
    BY <1>1, <1>7, <1>12 DEF LogInv, FileThere, Files
  <2>3. OneFile'
    BY <1>1, <1>12 DEF LogInv, OneFile, NeverClosed
  <2> QED BY <1>1, <1>3, <1>4, <1>9, <2>1, <2>2, <2>3, TypesOfStep DEF LogInv
<1> QED BY <1>11, <1>12 DEF Fopen

\* Steps of the task server that neither add nor run a task.
LEMMA ServerStep ==
  ASSUME LogInv, Between \/ LogClose \/ LogEnds
  PROVE  LogInv' /\ Next
<1>1. /\ UNCHANGED <<logFile, fstate, spc, calls, tpc, file, early, fault>>
      /\ Next /\ UNCHANGED <<added, ran>>
  BY DEF Between, LogClose, LogEnds, logVars, Next, Worker, Top, Move, Check, Clear, DrainEnd,
         Close, CloseEnds, CloseReturns, LoseSignal, history
<1>2. IInv'
  BY <1>1, Step DEF LogInv
<1>3. LogTypes
  BY LogTypesAre DEF LogInv
<1>4. LogTypeOK'
  <2>1. fault' \in BOOLEAN
    BY <1>1, <1>3, Zenon DEF LogTypes
  <2>2. LogTypes'
    BY <1>1, <1>3, <2>1 DEF LogTypes
  <2> QED BY <1>2, <2>2, TypesOfStep
<1>5. /\ taskBuf \in Seq(Tasks) /\ tasks \in Seq(Tasks)
      /\ Len(tasks) \in Nat /\ Len(taskBuf) \in Nat /\ at \in Nat \ {0}
  BY LenProperties DEF LogInv, IInv, TypeOK
<1>6. AllAdded'
  <2>1. CASE Move
    <3>1. tasks = <<>> /\ tasks' = tasks \o taskBuf /\ taskBuf' = <<>>
      BY <2>1 DEF Move, LogInv, IInv, Lists
    <3>2. tasks' = taskBuf /\ Len(taskBuf') = 0
      BY <1>5, <3>1, ConcatEmptySeq, EmptySeq
    <3> QED BY <1>1, <3>2 DEF LogInv, AllAdded
  <2>2. CASE Clear
    <3>1. Len(tasks') = 0 /\ taskBuf' = taskBuf
      BY <2>2, EmptySeq DEF Clear
    <3> QED BY <1>1, <3>1 DEF LogInv, AllAdded
  <2>3. CASE Top \/ Check \/ DrainEnd \/ Close \/ CloseEnds
    <3>1. UNCHANGED <<tasks, taskBuf>>
      BY <2>3 DEF Top, Check, DrainEnd, Close, CloseEnds, CloseReturns, LoseSignal
    <3> QED BY <1>1, <3>1 DEF LogInv, AllAdded
  <2> QED BY <2>1, <2>2, <2>3 DEF Between, LogClose, LogEnds
<1>7. log' = log /\ InTask'
  <2>1. CASE Between
    <3>1. ~HasTask
      BY <1>5, <2>1 DEF Between, HasTask, Top, Move, Check, Clear, DrainEnd
    <3>2. tpc = "if"
      BY <3>1 DEF LogInv, InTask
    <3> QED BY <1>1, <3>2 DEF log, InTask
  <2>2. CASE Close \/ CloseEnds
    <3>1. UNCHANGED <<pc, at, tasks, taskBuf>>
      BY <2>2 DEF Close, CloseEnds, CloseReturns, LoseSignal
    <3> QED BY <1>1, <3>1 DEF LogInv, InTask, HasTask, Current, log
  <2> QED BY <2>1, <2>2 DEF LogClose, LogEnds
<1>8. OneFile'
  BY <1>1, <1>7, OneFileStays
<1>9. FileThere'
  BY <1>1 DEF LogInv, FileThere
<1>10. ReportsLeft'
  BY <1>1 DEF LogInv, ReportsLeft, Reported
<1> QED BY <1>1, <1>2, <1>4, <1>6, <1>7, <1>8, <1>9, <1>10 DEF LogInv

\* What is common to the worker's steps in a task.
LEMMA TaskKeeps ==
  ASSUME LogInv,
         UNCHANGED <<logFile, fstate, spc, calls, early, added, taskBuf, tasks, caller>>,
         [Next]_vars, tpc' \in {"if", "stamp", "text", "print"},
         file' \in [1..MaxCalls -> Seq(Entries)], fault' \in BOOLEAN,
         \A i \in 1..Len(ran') : ran'[i] \in added
  PROVE  IInv' /\ LogTypeOK' /\ AllAdded' /\ FileThere' /\ ReportsLeft'
<1>1. IInv'
  BY Step DEF LogInv
<1>2. LogTypes'
  BY LogTypesAre DEF LogInv, LogTypes
<1>3. LogTypeOK'
  BY <1>1, <1>2, TypesOfStep
<1>4. AllAdded'
  BY DEF LogInv, AllAdded
<1>5. FileThere' /\ ReportsLeft'
  BY DEF LogInv, FileThere, ReportsLeft, Reported
<1> QED BY <1>1, <1>3, <1>4, <1>5

LEMMA TaskIfStep == ASSUME LogInv, TaskIf PROVE LogInv' /\ UNCHANGED vars
<1>1. /\ HasTask /\ tpc = "if" /\ (tpc' = IF logFile # Null THEN "stamp" ELSE "print")
      /\ UNCHANGED <<vars, logFile, fstate, spc, calls, early, file, fault>>
  BY DEF TaskIf, HasFile, logFileVars
<1>2. UNCHANGED <<taskBuf, tasks, isRun, pc, at, caller, added, ran, due>>
  BY <1>1 DEF vars
<1>3. IInv' /\ LogTypeOK' /\ AllAdded' /\ FileThere' /\ ReportsLeft'
  <2>1. LogTypes
    BY LogTypesAre DEF LogInv
  <2>2. fault' \in BOOLEAN
    BY <1>1, <2>1, Zenon DEF LogTypes
  <2>3. file' \in [1..MaxCalls -> Seq(Entries)]
    BY <1>1, <2>1 DEF LogTypes
  <2>4. \A i \in 1..Len(ran') : ran'[i] \in added
    BY <1>2 DEF LogInv, AllAdded
  <2> QED BY <1>1, <1>2, <2>2, <2>3, <2>4, TaskKeeps
<1>4. InTask'
  BY <1>1, <1>2 DEF InTask, HasTask
<1>5. OneFile'
  <2>1. CASE logFile = Null
    BY <1>1, <2>1 DEF LogInv, OneFile, NeverClosed
  <2>2. CASE logFile # Null
    <3>1. log' = log
      BY <1>1, <1>2, <2>2 DEF log
    <3>2. \A first : LinesFrom(logFile, first)' <=> LinesFrom(logFile, first)
      <4>1. TAKE first
      <4>2. tpc # "text" /\ tpc' # "text"
        BY <1>1, <2>2
      <4> QED BY <1>1, <3>1, <4>2 DEF LinesFrom
    <3>3. NeverClosed' <=> NeverClosed
      BY <1>1 DEF NeverClosed
    <3>4. SUFFICES ASSUME NeverClosed
                   PROVE  /\ ~fault /\ logFile # Null /\ (spc = "fopen" => logFile = Null)
                          /\ \A f \in Files : f # logFile => file[f] = <<>>
                          /\ \E first \in 0..Len(log) :
                               LinesFrom(logFile, first)' /\ \A i \in 1..first : log[i] \in early
      BY <1>1, <3>1, <3>3, Zenon DEF OneFile
    <3> QED BY <2>2, <3>2, <3>4 DEF LogInv, OneFile
  <2> QED BY <2>1, <2>2
<1> QED BY <1>1, <1>3, <1>4, <1>5 DEF LogInv

\* Whether the worker is in the middle of a line.
LEMMA LinesFromIs ==
  ASSUME NEW f, NEW first
  PROVE  LinesFrom(f, first) <=>
           Lines(file[f], log, IF tpc = "text" /\ f = logFile THEN 1 ELSE 0, first)
BY DEF LinesFrom, Lines

LEMMA WriteStep ==
  ASSUME LogInv, TaskStamp \/ TaskText
  PROVE  LogInv' /\ UNCHANGED vars
<1> DEFINE part == IF tpc = "stamp" THEN "stamp" ELSE "text"
           entry == <<Current, part>>
<1>1. /\ tpc \in {"stamp", "text"} /\ (tpc' = IF tpc = "stamp" THEN "text" ELSE "print")
      /\ Fprintf(part)
      /\ UNCHANGED <<vars, logFile, fstate, spc, calls, early>>
  BY DEF TaskStamp, TaskText, logFileVars
<1>2. UNCHANGED <<taskBuf, tasks, isRun, pc, at, caller, added, ran, due>>
  BY <1>1 DEF vars
<1>3. LogTypes
  BY LogTypesAre DEF LogInv
<1>4. HasTask /\ Current \in Tasks /\ ran \in Seq(Tasks) /\ entry \in Entries
  BY <1>1, CurrentIs DEF LogInv, InTask, Entries
<1>5. /\ file' \in [1..MaxCalls -> Seq(Entries)] /\ fault' \in BOOLEAN
      /\ logFile # Null /\ fstate[logFile] = "open" =>
           /\ file' = [file EXCEPT ![logFile] = Append(@, entry)] /\ fault' = fault
  <2> HIDE DEF entry
  <2>1. CASE logFile # Null /\ fstate[logFile] = "open"
    <3>1. file' = [file EXCEPT ![logFile] = Append(@, entry)] /\ fault' = fault
      BY <1>1, <2>1 DEF Fprintf, entry
    <3>2. logFile \in 1..MaxCalls
      BY <1>3, <2>1, MaxCallsAssumption DEF LogTypes, Null
    <3>3. Append(file[logFile], entry) \in Seq(Entries)
      BY <1>3, <1>4, <3>2, AppendProperties DEF LogTypes
    <3>4. fault' \in BOOLEAN
      BY <1>3, <3>1, Zenon DEF LogTypes
    <3> QED BY <1>3, <3>1, <3>3, <3>4 DEF LogTypes
  <2>2. CASE ~(logFile # Null /\ fstate[logFile] = "open")
    <3>1. fault' = TRUE /\ file' = file
      BY <1>1, <2>2 DEF Fprintf
    <3>2. fault' \in BOOLEAN
      BY <3>1, Zenon
    <3> QED BY <1>3, <2>2, <3>1, <3>2 DEF LogTypes
  <2> QED BY <2>1, <2>2
<1>6. IInv' /\ LogTypeOK' /\ AllAdded' /\ FileThere' /\ ReportsLeft'
  <2>1. \A i \in 1..Len(ran') : ran'[i] \in added
    BY <1>2 DEF LogInv, AllAdded
  <2> QED BY <1>1, <1>2, <1>5, <2>1, TaskKeeps
<1>7. InTask'
  BY <1>1, <1>2, <1>4 DEF InTask, HasTask
<1>8. OneFile'
  <2>1. SUFFICES ASSUME NeverClosed PROVE OneFile'
    BY <1>1 DEF OneFile, NeverClosed
  <2>2. /\ OneFile /\ logFile # Null /\ logFile \in Files /\ fstate[logFile] = "open"
    BY <1>1, <1>3, <2>1, MaxCallsAssumption
       DEF LogInv, OneFile, FileThere, NeverClosed, LogTypes, Files, Null
  <2>3. file' = [file EXCEPT ![logFile] = Append(@, entry)] /\ fault' = fault
    BY <1>5, <2>2
  <2>4. /\ file'[logFile] = Append(file[logFile], entry)
        /\ \A f \in Files : f # logFile => file'[f] = file[f]
        /\ file[logFile] \in Seq(Entries)
    BY <1>3, <2>2, <2>3 DEF LogTypes, Files
  <2>5. log' = Append(ran, Current)
    BY <1>1, <1>2 DEF log, Current
  <2>6. PICK first \in 0..Len(log) :
          LinesFrom(logFile, first) /\ \A i \in 1..first : log[i] \in early
    BY <2>1, <2>2 DEF OneFile
  <2>7. /\ LinesFrom(logFile, first)' /\ first \in 0..Len(log')
        /\ \A i \in 1..first : log'[i] \in early'
    <3>1. CASE tpc = "stamp"
      <4>1. log = ran /\ Lines(file[logFile], ran, 0, first) /\ entry = <<Current, "stamp">>
        BY <2>6, <3>1, LinesFromIs DEF log
      <4>2. Lines(file'[logFile], log', 1, first)
        BY <1>4, <2>4, <2>5, <2>6, <4>1, StampLine
      <4>3. LinesFrom(logFile, first)'
        BY <1>1, <3>1, <4>2 DEF LinesFrom, Lines
      <4>4. /\ Len(log') = Len(ran) + 1 /\ Len(ran) \in Nat
            /\ \A i \in 1..Len(ran) : log'[i] = ran[i]
        BY <1>4, <2>5, AppendProperties, LenProperties
      <4>5. \A i \in 1..first : i \in 1..Len(ran) /\ first \in 0..Len(log')
        BY <2>6, <4>1, <4>4
      <4> QED BY <1>1, <2>6, <4>1, <4>3, <4>4, <4>5
    <3>2. CASE tpc = "text"
      <4>1. log = Append(ran, Current) /\ entry = <<Current, "text">>
            /\ Lines(file[logFile], Append(ran, Current), 1, first)
        BY <2>6, <3>2, LinesFromIs DEF log
      <4>2. Lines(file'[logFile], log', 0, first)
        BY <1>4, <2>4, <2>5, <2>6, <4>1, TextLine
      <4>3. LinesFrom(logFile, first)'
        BY <1>1, <3>2, <4>2 DEF LinesFrom, Lines
      <4> QED BY <1>1, <2>5, <2>6, <4>1, <4>3
    <3> QED BY <1>1, <3>1, <3>2
  <2>8. /\ ~fault' /\ logFile' # Null /\ (spc' = "fopen" => logFile' = Null)
        /\ \A f \in Files : f # logFile' => file'[f] = <<>>
    BY <1>1, <2>1, <2>2, <2>3, <2>4 DEF OneFile
  <2> QED BY <2>7, <2>8, Zenon DEF OneFile
<1> QED BY <1>1, <1>6, <1>7, <1>8 DEF LogInv

LEMMA TaskPrintStep == ASSUME LogInv, TaskPrint PROVE LogInv' /\ Next
<1>1. /\ tpc = "print" /\ tpc' = "if" /\ (RunOne \/ DrainOne)
      /\ UNCHANGED <<logFile, fstate, spc, calls, early, file, fault>>
      /\ UNCHANGED <<taskBuf, tasks, isRun, pc, caller, added, due>>
  BY DEF TaskPrint, logFileVars, RunOne, DrainOne
<1>2. Next
  BY <1>1 DEF Next, Worker
<1>3. LogTypes
  BY LogTypesAre DEF LogInv
<1>4. ran' = log /\ log' = log
  BY <1>1 DEF RunOne, DrainOne, log, Current
<1>5. IInv' /\ LogTypeOK' /\ AllAdded' /\ FileThere' /\ ReportsLeft'
  <2>1. \A i \in 1..Len(ran') : ran'[i] \in added
    BY <1>4, CurrentIs
  <2>2. fault' \in BOOLEAN
    BY <1>1, <1>3, Zenon DEF LogTypes
  <2>3. file' \in [1..MaxCalls -> Seq(Entries)]
    BY <1>1, <1>3 DEF LogTypes
  <2> QED BY <1>1, <1>2, <2>1, <2>2, <2>3, TaskKeeps
<1>6. InTask'
  BY <1>1 DEF InTask
<1>7. OneFile'
  <2>1. \A first : LinesFrom(logFile, first)' <=> LinesFrom(logFile, first)
    <3>1. TAKE first
    <3>2. tpc # "text" /\ tpc' # "text"
      BY <1>1
    <3> QED BY <1>1, <1>4, <3>2 DEF LinesFrom
  <2>2. NeverClosed' <=> NeverClosed
    BY <1>1 DEF NeverClosed
  <2>3. SUFFICES ASSUME NeverClosed
                 PROVE  /\ ~fault /\ (spc = "fopen" => logFile = Null)
                        /\ \A f \in Files : f # logFile => file[f] = <<>>
                        /\ logFile # Null =>
                             \E first \in 0..Len(log) :
                               LinesFrom(logFile, first)' /\ \A i \in 1..first : log[i] \in early
    BY <1>1, <1>4, <2>2 DEF OneFile
  <2> QED BY <2>1, <2>3 DEF LogInv, OneFile
<1> QED BY <1>2, <1>5, <1>6, <1>7 DEF LogInv

LEMMA InitLogInv == ASSUME LogInit PROVE LogInv
<1>1. IInv /\ Init
  BY InitIInv DEF LogInit
<1>2. taskBuf = <<>> /\ tasks = <<>> /\ ran = <<>> /\ added = {} /\ Len(<<>>) = 0
  BY <1>1, EmptySeq DEF Init
<1>3. LogTypeOK
  <2>1. fault \in BOOLEAN
    BY Zenon DEF LogInit
  <2>2. file \in [1..MaxCalls -> Seq(Entries)] /\ logFile \in 0..MaxCalls
    BY EmptySeq, MaxCallsAssumption DEF LogInit, Files, Null
  <2>3. LogTypes
    BY <2>1, <2>2, MaxCallsAssumption DEF LogInit, LogTypes, Files
  <2> QED BY <1>1, <2>3, LogTypesAre DEF IInv
<1>4. AllAdded /\ InTask /\ FileThere /\ ReportsLeft /\ OneFile
  BY <1>2, MaxCallsAssumption
     DEF LogInit, AllAdded, InTask, FileThere, ReportsLeft, Reported, OneFile, NeverClosed
<1> QED BY <1>1, <1>3, <1>4 DEF LogInv

\* A step of the log keeps the invariant and is one of the task server or none.
LEMMA LogStep ==
  ASSUME LogInv, [LogNext]_<<vars, logVars>>
  PROVE  LogInv' /\ [Next]_vars
<1>1. CASE UNCHANGED <<vars, logVars>>
  <2>1. UNCHANGED <<taskBuf, tasks, isRun, pc, at, caller, added, ran, due,
                    logFile, fstate, spc, calls, tpc, file, early, fault>>
    BY <1>1 DEF vars, logVars
  <2>2. IInv'
    BY <1>1, Step DEF LogInv
  <2>3. LogTypes'
    BY <2>1, LogTypesAre DEF LogInv, LogTypes
  <2>4. LogTypeOK'
    BY <2>2, <2>3, TypesOfStep
  <2>5. log' = log /\ InTask' /\ AllAdded'
    BY <2>1 DEF log, Current, LogInv, InTask, HasTask, AllAdded
  <2>6. FileThere' /\ ReportsLeft'
    BY <2>1 DEF LogInv, FileThere, ReportsLeft, Reported
  <2>7. OneFile'
    BY <2>1, <2>5, OneFileStays
  <2> QED BY <1>1, <2>2, <2>4, <2>5, <2>6, <2>7 DEF LogInv
<1>2. CASE \E t \in Tasks \ Reports : Info(t)
  BY <1>2, InfoStep
<1>3. CASE setLogPath
  BY <1>3, ReportStep, MainStep, FopenStep DEF setLogPath
<1>4. CASE Task
  BY <1>4, TaskIfStep, WriteStep, TaskPrintStep DEF Task
<1>5. CASE Between \/ LogClose \/ LogEnds
  BY <1>5, ServerStep
<1> QED BY <1>1, <1>2, <1>3, <1>4, <1>5 DEF LogNext

LEMMA LogInvariant == LogSpec => []LogInv
<1>1. LogInit => LogInv
  BY InitLogInv
<1>2. LogInv /\ [LogNext]_<<vars, logVars>> => LogInv'
  BY LogStep
<1> QED BY <1>1, <1>2, PTL DEF LogSpec

\* The variables of CELLLog and its task server keep their types.
THEOREM LogTypeCorrect == LogSpec => []LogTypeOK
<1>1. LogInv => LogTypeOK
  BY DEF LogInv
<1> QED BY <1>1, LogInvariant, PTL

\* As long as no file is closed, a null _logFile is never written to, and a
\* file has whole lines, one for each task since it was found open, however
\* many calls of Info and setLogPath, and however they meet the worker.
THEOREM WholeLines == LogSpec => []LinesWhole
<1>1. LogInv => LinesWhole
  <2> SUFFICES ASSUME LogInv, NeverClosed
               PROVE  ~fault /\ \A f \in Files : \E first \in 0..Len(log) : LinesFrom(f, first)
    BY DEF LinesWhole
  <2>1. ~fault
    BY DEF LogInv, OneFile
  <2> SUFFICES ASSUME NEW f \in Files
               PROVE  \E first \in 0..Len(log) : LinesFrom(f, first)
    BY <2>1
  <2>2. OneFile /\ f # Null
    BY DEF LogInv, Files, Null
  <2>3. CASE f = logFile
    BY <2>2, <2>3 DEF OneFile
  <2>4. CASE f # logFile
    <3>1. Len(file[f]) = 0
      BY <2>2, <2>4, EmptySeq DEF OneFile
    <3>2. Len(log) \in 0..Len(log) /\ Len(log) - Len(log) = 0
      BY CurrentIs, LenProperties
    <3>3. LinesFrom(f, Len(log))
      <4>1. Len(file[f]) = 2 * (Len(log) - Len(log)) - 0 /\ \A i \in 1..(Len(log) - Len(log)) : FALSE
        BY <3>1, <3>2
      <4> QED BY <2>4, <4>1 DEF LinesFrom
    <3> QED BY <3>2, <3>3
  <2> QED BY <2>3, <2>4
<1> QED BY <1>1, LogInvariant, PTL

\* As long as no file is closed, what was logged after the file was opened and
\* before Close is in the file when Close returns or has lost its signal.
THEOREM NoneLost == LogSpec => []NothingLost
<1>1. LogInv => NothingLost
  <2>1. SUFFICES ASSUME LogInv, NeverClosed, caller \in {"closed", "lost"}, logFile # Null
                 PROVE  /\ due <= Len(ran)
                        /\ \A i \in 1..due :
                             \/ ran[i] \in early
                             \/ \E k \in DOMAIN file[logFile] : file[logFile][k] = <<ran[i], "text">>
    BY DEF NothingLost
  <2>2. pc = "done" /\ due <= Len(ran) /\ due \in Nat /\ Len(ran) \in Nat
    BY <2>1, CurrentIs, LenProperties DEF LogInv, IInv, Ends, Accounts, TypeOK
  <2>3. tpc = "if" /\ log = ran
    BY <2>1, <2>2 DEF LogInv, InTask, HasTask, log
  <2>4. PICK first \in 0..Len(ran) :
          LinesFrom(logFile, first) /\ \A i \in 1..first : ran[i] \in early
    BY <2>1, <2>3 DEF LogInv, OneFile
  <2>5. Lines(file[logFile], ran, 0, first)
    BY <2>3, <2>4 DEF LinesFrom, Lines
  <2>6. file[logFile] \in Seq(Entries)
    BY <2>1, LogTypesAre, MaxCallsAssumption DEF LogInv, LogTypes, Null
  <2>7. ASSUME NEW i \in 1..due, ran[i] \notin early
        PROVE  \E k \in DOMAIN file[logFile] : file[logFile][k] = <<ran[i], "text">>
    <3>1. i \notin 1..first /\ first \in Nat
      BY <2>2, <2>4, <2>7
    <3>2. /\ i - first \in 1..(Len(ran) - first) /\ first + (i - first) = i
          /\ Len(file[logFile]) = 2 * (Len(ran) - first)
      BY <2>2, <2>5, <3>1 DEF Lines
    <3>3. 2 * (i - first) \in 1..Len(file[logFile])
      BY <2>2, <3>1, <3>2
    <3>4. \A j \in 1..(Len(ran) - first) :
            2 * j <= Len(file[logFile]) => file[logFile][2 * j] = <<ran[first + j], "text">>
      BY <2>5 DEF Lines
    <3>5. file[logFile][2 * (i - first)] = <<ran[i], "text">>
      <4>1. 2 * (i - first) <= Len(file[logFile])
        BY <3>2, <3>3
      <4> QED BY <3>2, <3>4, <4>1
    <3>6. DOMAIN file[logFile] = 1..Len(file[logFile])
      BY <2>6, LenProperties
    <3> QED BY <3>3, <3>5, <3>6
  <2> QED BY <2>2, <2>7
<1> QED BY <1>1, LogInvariant, PTL

\* The log, too, runs its tasks as TaskQueue promises: in order, none twice and
\* none lost, whatever setLogPath does to the file meanwhile.
THEOREM LogImplementsQueue == LogSpec => Queue!Spec
<1>1. LogInit => Queue!Init
  BY InitIInv DEF LogInit
<1>2. LogInv /\ [LogNext]_<<vars, logVars>> => [Queue!Next]_Queue!vars
  <2>1. LogInv => IInv
    BY DEF LogInv
  <2> QED BY <2>1, LogStep, Step
<1> QED BY <1>1, <1>2, LogInvariant, PTL DEF LogSpec, Queue!Spec
=============================================================================
