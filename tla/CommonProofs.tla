---------------------------- MODULE CommonProofs ----------------------------
(***************************************************************************)
(* What the proofs about the larger modules share.                         *)
(*                                                                         *)
(* The mutex of locks.ts, for any set S of callers: what each operation    *)
(* does to the holder, to the set of waiters, to their order and to the    *)
(* length of the queue, and that it keeps the mutex well formed.  The      *)
(* modules that own mutexes reason with these and never look into a queue. *)
(*                                                                         *)
(* The operation journal, for any set of operations, tools and callers:    *)
(* entries keep their type, a parked entry is announced exactly once, and  *)
(* no entry moves backwards.                                               *)
(***************************************************************************)
EXTENDS Mutex, Journal, SequenceTheorems, FiniteSetTheorems, WellFoundedInduction, TLAPS

\* A free mutex has no waiters, and nobody stands in its queue twice, or
\* stands there while holding it.
WellFormed(m, S) ==
    /\ m \in MutexOf(S)
    /\ m.current = Nobody => m.queue = <<>>
    /\ ~Waiting(m, m.current)
    /\ \A i, j \in 1..Len(m.queue) : m.queue[i] = m.queue[j] => i = j

\* One waiter has asked before another.
Ahead(m, a, b) ==
    \E i, j \in 1..Len(m.queue) : i < j /\ m.queue[i] = a /\ m.queue[j] = b

\* Where nobody waits there is no order.
LEMMA NobodyAhead ==
  ASSUME NEW m, m.queue = <<>>
  PROVE  \A a, b : ~Waiting(m, b) /\ ~Ahead(m, a, b)
<1>1. Len(m.queue) = 0 /\ 1..0 = {}
  OBVIOUS
<1> QED
  BY <1>1 DEF Waiting, Ahead

\* A mutex nobody holds or waits for is well formed.
LEMMA FreeIsWellFormed ==
  ASSUME NEW S
  PROVE  WellFormed(Free, S) /\ \A b : ~Waiting(Free, b)
  BY DEF WellFormed, Free, MutexOf, Waiting

\* A call that finds the mutex free holds it at once.
LEMMA EnqueueAtFree ==
  ASSUME NEW S, NEW m, WellFormed(m, S), NEW c \in S, Nobody \notin S, m.current = Nobody
  PROVE  /\ WellFormed(Enqueue(m, c), S)
         /\ Enqueue(m, c).current = c
         /\ Len(Enqueue(m, c).queue) = 0
         /\ \A b : ~Waiting(Enqueue(m, c), b) /\ ~Waiting(m, b)
<1> DEFINE r == [current |-> c, queue |-> <<>>]
<1>1. m \in MutexOf(S) /\ m.queue = <<>>
  BY DEF WellFormed
<1>2. Append(m.queue, c) = <<c>>
  BY <1>1
<1>3. Head(<<c>>) = c /\ Tail(<<c>>) = <<>> /\ <<c>> # <<>>
  OBVIOUS
<1>4. Enqueue(m, c) = r
  BY <1>1, <1>2, <1>3 DEF Enqueue, GrantNext, MutexOf
<1>5. \A b : ~Waiting(r, b) /\ ~Waiting(m, b)
  BY <1>1 DEF Waiting
<1>6. WellFormed(r, S)
  BY <1>5 DEF WellFormed, MutexOf
<1>7. r.current = c /\ Len(r.queue) = 0
  OBVIOUS
<1> QED
  BY <1>4, <1>5, <1>6, <1>7

\* A call that finds it held is its last waiter.
LEMMA EnqueueAtHeld ==
  ASSUME NEW S, NEW m, WellFormed(m, S), NEW c \in S, m.current # Nobody,
         m.current # c, ~Waiting(m, c)
  PROVE  /\ WellFormed(Enqueue(m, c), S)
         /\ Enqueue(m, c).current = m.current
         /\ Len(Enqueue(m, c).queue) = Len(m.queue) + 1
         /\ \A b : Waiting(Enqueue(m, c), b) <=> Waiting(m, b) \/ b = c
         /\ \A a, b : Ahead(Enqueue(m, c), a, b) <=> Ahead(m, a, b) \/ (Waiting(m, a) /\ b = c)
<1> DEFINE q == m.queue
           n == Len(q)
           p == Append(q, c)
           r == [m EXCEPT !.queue = p]
<1>1. m \in MutexOf(S) /\ q \in Seq(S) /\ n \in Nat /\ m.current \in S \cup {Nobody}
  BY DEF WellFormed, MutexOf
<1>2. Enqueue(m, c) = r
  BY <1>1 DEF Enqueue, GrantNext, MutexOf
<1>3. /\ p \in Seq(S)
      /\ Len(p) = n + 1
      /\ \A i \in 1..n : p[i] = q[i]
      /\ p[n + 1] = c
  BY <1>1, AppendProperties
<1>4. r \in MutexOf(S) /\ r.current = m.current /\ r.queue = p
  BY <1>1, <1>3 DEF MutexOf
<1>5. \A b : Waiting(r, b) <=> \E i \in 1..(n + 1) : p[i] = b
  BY <1>3, <1>4 DEF Waiting
<1>6. \A b : Waiting(m, b) <=> \E i \in 1..n : q[i] = b
  BY DEF Waiting
<1>7. \A i, j \in 1..n : q[i] = q[j] => i = j
  BY DEF WellFormed
<1>8. ~Waiting(m, m.current)
  BY DEF WellFormed
<1>14. /\ \A a, b : Ahead(r, a, b) <=> \E i, j \in 1..(n + 1) : i < j /\ p[i] = a /\ p[j] = b
       /\ \A a, b : Ahead(m, a, b) <=> \E i, j \in 1..n : i < j /\ q[i] = a /\ q[j] = b
  BY <1>3, <1>4 DEF Ahead
<1> HIDE DEF q, n, p, r
<1>9. 1..(n + 1) = 1..n \cup {n + 1}
  BY <1>1
<1>15. \A a, b : Ahead(r, a, b) <=> Ahead(m, a, b) \/ (Waiting(m, a) /\ b = c)
  <2>1. /\ \A i, j \in 1..n : i < j => i # n + 1 /\ j # n + 1
        /\ \A i \in 1..n : i < n + 1
        /\ \A j \in 1..(n + 1) : ~(n + 1 < j)
    BY <1>1
  <2> QED
    BY <1>3, <1>6, <1>9, <1>14, <2>1
<1>10. \A b : Waiting(r, b) <=> Waiting(m, b) \/ b = c
  BY <1>3, <1>5, <1>6, <1>9
<1>11. \A i \in 1..n : q[i] # c
  BY <1>6
<1>12. \A i, j \in 1..(n + 1) : p[i] = p[j] => i = j
  BY <1>3, <1>7, <1>9, <1>11
<1>13. WellFormed(r, S)
  <2>1. ~Waiting(r, r.current)
    BY <1>4, <1>8, <1>10
  <2> QED
    BY <1>3, <1>4, <1>12, <2>1 DEF WellFormed
<1> QED
  BY <1>2, <1>3, <1>4, <1>10, <1>13, <1>15 DEF n, q

\* A waiter that gives up leaves; the holder and the other waiters stay.
LEMMA GiveUpLeaves ==
  ASSUME NEW S, NEW m, WellFormed(m, S), NEW c, Waiting(m, c)
  PROVE  /\ WellFormed(GiveUp(m, c), S)
         /\ GiveUp(m, c).current = m.current
         /\ Len(GiveUp(m, c).queue) = Len(m.queue) - 1
         /\ \A b : Waiting(GiveUp(m, c), b) <=> Waiting(m, b) /\ b # c
         /\ \A a, b : Ahead(GiveUp(m, c), a, b) <=> Ahead(m, a, b) /\ a # c /\ b # c
<1> DEFINE at == Place(m, c)
           q == m.queue
           n == Len(q)
           p == [i \in 1..(n - 1) |-> IF i < at THEN q[i] ELSE q[i + 1]]
           r == [m EXCEPT !.queue = p]
<1>1. m \in MutexOf(S) /\ q \in Seq(S) /\ n \in Nat /\ m.current \in S \cup {Nobody}
  BY DEF WellFormed, MutexOf
<1>2. \A i, j \in 1..n : q[i] = q[j] => i = j
  BY DEF WellFormed
<1>3. at \in 1..n /\ q[at] = c
  <2>1. PICK i \in 1..n : q[i] = c
    BY DEF Waiting
  <2>2. \A j \in 1..(i - 1) : q[j] # c
    BY <1>1, <1>2, <2>1
  <2> QED
    BY <2>1, <2>2 DEF Place
<1>4. GiveUp(m, c) = r
  BY <1>1 DEF GiveUp, MutexOf
<1>5. p \in Seq(S) /\ Len(p) = n - 1
  <2>1. \A i \in 1..(n - 1) : i \in 1..n /\ i + 1 \in 1..n
    BY <1>1
  <2>2. \A i \in 1..n : q[i] \in S
    BY <1>1, ElementOfSeq
  <2>3. p \in [1..(n - 1) -> S] /\ n - 1 \in Nat
    BY <1>1, <1>3, <2>1, <2>2
  <2> QED
    BY <2>3, SeqDef, LenProperties
<1>6. r \in MutexOf(S) /\ r.current = m.current /\ r.queue = p
  BY <1>1, <1>5 DEF MutexOf
<1>7. \A b : Waiting(r, b) <=> \E i \in 1..(n - 1) : p[i] = b
  BY <1>5, <1>6 DEF Waiting
<1>8. \A b : Waiting(m, b) <=> \E i \in 1..n : q[i] = b
  BY DEF Waiting
<1>9. m.current # Nobody /\ ~Waiting(m, m.current)
  BY <1>1, <1>3 DEF WellFormed
<1> DEFINE before(i) == IF i < at THEN i ELSE i + 1
<1>10. \A i \in 1..(n - 1) : before(i) \in 1..n /\ before(i) # at /\ p[i] = q[before(i)]
  BY <1>1, <1>3
<1>11. \A i, j \in 1..(n - 1) : before(i) = before(j) => i = j
  BY <1>1, <1>3
<1>16. /\ \A a, b : Ahead(r, a, b) <=> \E i, j \in 1..(n - 1) : i < j /\ p[i] = a /\ p[j] = b
       /\ \A a, b : Ahead(m, a, b) <=> \E i, j \in 1..n : i < j /\ q[i] = a /\ q[j] = b
  BY <1>5, <1>6 DEF Ahead
<1>17. \A i, j \in 1..(n - 1) : i < j <=> before(i) < before(j)
  BY <1>1, <1>3
<1>12. \A k \in 1..n : k # at => \E i \in 1..(n - 1) : before(i) = k
  <2> SUFFICES ASSUME NEW k \in 1..n, k # at
               PROVE  \E i \in 1..(n - 1) : before(i) = k
    OBVIOUS
  <2>1. CASE k < at
    BY <1>1, <1>3, <2>1
  <2>2. CASE at < k
    <3>1. k - 1 \in 1..(n - 1) /\ before(k - 1) = k
      BY <1>1, <1>3, <2>2
    <3> QED
      BY <3>1
  <2> QED
    BY <1>1, <1>3, <2>1, <2>2
<1> HIDE DEF at, q, n, p, r, before
<1>13. \A b : Waiting(r, b) <=> Waiting(m, b) /\ b # c
  <2> SUFFICES ASSUME NEW b
               PROVE  Waiting(r, b) <=> Waiting(m, b) /\ b # c
    OBVIOUS
  <2>1. ASSUME NEW i \in 1..(n - 1), p[i] = b
        PROVE  Waiting(m, b) /\ b # c
    BY <1>2, <1>3, <1>8, <1>10, <2>1
  <2>2. ASSUME NEW k \in 1..n, q[k] = b, b # c
        PROVE  Waiting(r, b)
    BY <1>3, <1>7, <1>10, <1>12, <2>2
  <2> QED
    BY <1>7, <1>8, <2>1, <2>2
<1>14. \A i, j \in 1..(n - 1) : p[i] = p[j] => i = j
  BY <1>2, <1>10, <1>11
<1>18. \A a, b : Ahead(r, a, b) <=> Ahead(m, a, b) /\ a # c /\ b # c
  <2> SUFFICES ASSUME NEW a, NEW b
               PROVE  Ahead(r, a, b) <=> Ahead(m, a, b) /\ a # c /\ b # c
    OBVIOUS
  <2>1. ASSUME NEW i \in 1..(n - 1), NEW j \in 1..(n - 1), i < j, p[i] = a, p[j] = b
        PROVE  Ahead(m, a, b) /\ a # c /\ b # c
    BY <1>2, <1>3, <1>10, <1>16, <1>17, <2>1
  <2>2. ASSUME NEW k \in 1..n, NEW l \in 1..n, k < l, q[k] = a, q[l] = b, a # c, b # c
        PROVE  Ahead(r, a, b)
    <3>1. PICK i \in 1..(n - 1) : before(i) = k
      BY <1>3, <1>12, <2>2
    <3>2. PICK j \in 1..(n - 1) : before(j) = l
      BY <1>3, <1>12, <2>2
    <3> QED
      BY <1>10, <1>16, <1>17, <2>2, <3>1, <3>2
  <2> QED
    BY <1>16, <2>1, <2>2
<1>15. WellFormed(r, S)
  <2>1. ~Waiting(r, r.current)
    BY <1>6, <1>9, <1>13
  <2> QED
    BY <1>5, <1>6, <1>9, <1>14, <2>1 DEF WellFormed
<1> QED
  BY <1>4, <1>5, <1>6, <1>13, <1>15, <1>18 DEF n, q

\* The holder's release frees a mutex nobody waits for.
LEMMA ReleaseToNobody ==
  ASSUME NEW S, NEW m, WellFormed(m, S), m.queue = <<>>
  PROVE  Release(m, m.current) = Free
  BY DEF Release, GrantNext, WellFormed, MutexOf, Free

\* Else the first waiter holds it, and the others wait on.
LEMMA ReleaseToNext ==
  ASSUME NEW S, NEW m, WellFormed(m, S), Nobody \notin S, m.queue # <<>>
  PROVE  LET r == Release(m, m.current) IN
         /\ WellFormed(r, S)
         /\ r.current \in S
         /\ Waiting(m, r.current)
         /\ Len(r.queue) = Len(m.queue) - 1
         /\ \A b : Waiting(r, b) <=> Waiting(m, b) /\ b # r.current
         /\ \A b : ~Ahead(m, b, r.current)
         /\ \A a, b : Ahead(r, a, b) <=> Ahead(m, a, b) /\ a # r.current /\ b # r.current
<1> DEFINE q == m.queue
           n == Len(q)
           p == Tail(q)
           h == Head(q)
           r == [current |-> h, queue |-> p]
<1>1. m \in MutexOf(S) /\ q \in Seq(S) /\ m.current # Nobody
  BY DEF WellFormed, MutexOf
<1>2. Release(m, m.current) = r
  BY <1>1 DEF Release, GrantNext, MutexOf
<1>3. /\ h \in S /\ p \in Seq(S) /\ n \in Nat \ {0}
      /\ Len(p) = n - 1 /\ h = q[1]
      /\ \A i \in 1..(n - 1) : p[i] = q[i + 1]
  BY <1>1, HeadTailProperties
<1>4. r \in MutexOf(S) /\ r.current = h /\ r.queue = p
  BY <1>3 DEF MutexOf
<1>5. \A b : Waiting(r, b) <=> \E i \in 1..(n - 1) : p[i] = b
  BY <1>3, <1>4 DEF Waiting
<1>6. \A b : Waiting(m, b) <=> \E i \in 1..n : q[i] = b
  BY DEF Waiting
<1>7. \A i, j \in 1..n : q[i] = q[j] => i = j
  BY DEF WellFormed
<1>14. /\ \A a, b : Ahead(r, a, b) <=> \E i, j \in 1..(n - 1) : i < j /\ p[i] = a /\ p[j] = b
       /\ \A a, b : Ahead(m, a, b) <=> \E i, j \in 1..n : i < j /\ q[i] = a /\ q[j] = b
  BY <1>3, <1>4 DEF Ahead
<1> HIDE DEF q, n, p, h, r
<1>8. 1 \in 1..n /\ \A i \in 1..(n - 1) : i + 1 \in 1..n /\ i + 1 # 1
  BY <1>3
<1>9. \A k \in 1..n : k # 1 => k - 1 \in 1..(n - 1) /\ (k - 1) + 1 = k
  BY <1>3
<1>10. \A b : Waiting(r, b) <=> Waiting(m, b) /\ b # h
  <2> SUFFICES ASSUME NEW b
               PROVE  Waiting(r, b) <=> Waiting(m, b) /\ b # h
    OBVIOUS
  <2>1. ASSUME NEW i \in 1..(n - 1), p[i] = b
        PROVE  Waiting(m, b) /\ b # h
    BY <1>3, <1>6, <1>7, <1>8, <2>1
  <2>2. ASSUME NEW k \in 1..n, q[k] = b, b # h
        PROVE  Waiting(r, b)
    BY <1>3, <1>5, <1>9, <2>2
  <2> QED
    BY <1>5, <1>6, <2>1, <2>2
<1>11. \A i, j \in 1..(n - 1) : p[i] = p[j] => i = j
  <2> SUFFICES ASSUME NEW i \in 1..(n - 1), NEW j \in 1..(n - 1), p[i] = p[j]
               PROVE  i = j
    OBVIOUS
  <2>1. i + 1 = j + 1
    BY <1>3, <1>7, <1>8
  <2> QED
    BY <2>1
<1>12. Waiting(m, h)
  BY <1>3, <1>6, <1>8
<1>13. WellFormed(r, S)
  BY <1>3, <1>4, <1>10, <1>11 DEF WellFormed
<1>15. \A b : ~Ahead(m, b, h)
  <2>1. \A i, j \in 1..n : i < j => q[j] # h
    <3>1. \A i, j \in 1..n : i < j => j # 1
      BY <1>3
    <3> QED
      BY <1>3, <1>7, <1>8, <3>1
  <2> QED
    BY <1>14, <2>1
<1>16. \A a, b : Ahead(r, a, b) <=> Ahead(m, a, b) /\ a # h /\ b # h
  <2> SUFFICES ASSUME NEW a, NEW b
               PROVE  Ahead(r, a, b) <=> Ahead(m, a, b) /\ a # h /\ b # h
    OBVIOUS
  <2>1. ASSUME NEW i \in 1..(n - 1), NEW j \in 1..(n - 1), i < j, p[i] = a, p[j] = b
        PROVE  Ahead(m, a, b) /\ a # h /\ b # h
    <3>1. i + 1 < j + 1 /\ i + 1 \in 1..n /\ j + 1 \in 1..n
      BY <1>8, <2>1
    <3>2. q[i + 1] = a /\ q[j + 1] = b
      BY <1>3, <2>1
    <3>3. q[i + 1] # h /\ q[j + 1] # h
      BY <1>3, <1>7, <1>8
    <3>4. Ahead(m, a, b)
      BY <1>14, <3>1, <3>2
    <3> QED
      BY <3>2, <3>3, <3>4
  <2>2. ASSUME NEW k \in 1..n, NEW l \in 1..n, k < l, q[k] = a, q[l] = b, a # h, b # h
        PROVE  Ahead(r, a, b)
    <3>1. k # 1 /\ l # 1
      BY <1>3, <2>2
    <3>2. k - 1 < l - 1 /\ k - 1 \in 1..(n - 1) /\ l - 1 \in 1..(n - 1)
      BY <1>9, <2>2, <3>1
    <3>3. p[k - 1] = a /\ p[l - 1] = b
      BY <1>3, <1>9, <2>2, <3>1, <3>2
    <3> QED
      BY <1>14, <3>2, <3>3
  <2> QED
    BY <1>14, <2>1, <2>2
<1> QED
  BY <1>2, <1>3, <1>4, <1>10, <1>12, <1>13, <1>15, <1>16 DEF n, q

\* The release of a call that does not hold the mutex changes nothing.
LEMMA ReleaseByOther ==
  ASSUME NEW S, NEW m, WellFormed(m, S), NEW c, m.current # c
  PROVE  Release(m, c) = m
  BY DEF Release, GrantNext, WellFormed, MutexOf

-----------------------------------------------------------------------------
(* The journal. *)

\* The number an entry takes from the entries begun before it is a number.
LEMMA BegunIsCounted == Cardinality(Begun) \in Nat
<1>1. Begun \subseteq Ops
  BY DEF Begun
<1> QED
  BY <1>1, JournalAssumption, FS_Subset, FS_CardinalityType

\* A pristine clone is a git state.
LEMMA PristineIsGitState == Pristine \in GitStates
  BY DEF Pristine, GitStates

\* Some number of a non-empty set of numbers is the least.
LEMMA LeastExists ==
  ASSUME NEW T, T \subseteq Nat, T # {}
  PROVE  \E x \in T : \A y \in T : x <= y
<1> DEFINE Below == {p \in Nat \X Nat : p[1] < p[2]}
<1> HIDE DEF Below
<1>1. IsWellFoundedOn(Below, Nat)
  BY NatLessThanWellFounded DEF OpToRel, Below
<1>2. PICK x \in T : \A y \in T : <<y, x>> \notin Below
  BY <1>1, WFMin
<1>3. ASSUME NEW y \in T
      PROVE  x <= y
  <2>1. <<y, x>> \notin Below /\ x \in Nat /\ y \in Nat
    BY <1>2
  <2>2. ~(y < x)
    BY <2>1 DEF Below
  <2> QED
    BY <2>1, <2>2
<1> QED
  BY <1>3

\* The oldest entry of a non-empty set is one of the set.
LEMMA OldestIsMember ==
  ASSUME JournalTypeOK, NEW S, S \subseteq Ops, S # {}
  PROVE  Oldest(S) \in S
<1> DEFINE T == {entry[op].startedAt : op \in S}
<1>1. T \subseteq Nat /\ T # {}
  BY DEF JournalTypeOK
<1>2. \E op \in S : \A o \in S : entry[op].startedAt <= entry[o].startedAt
  <2>1. PICK least \in T : \A n \in T : least <= n
    BY <1>1, LeastExists
  <2>2. PICK op \in S : entry[op].startedAt = least
    OBVIOUS
  <2> QED
    BY <2>1, <2>2
<1> QED
  BY <1>2 DEF Oldest

-----------------------------------------------------------------------------
\* Each operation of the journal keeps the rows and the outbox well formed.

\* A new entry is an entry of the table (journal.begin).
LEMMA BeginKeepsType ==
  ASSUME JournalTypeOK, NEW op \in Ops, NEW pre \in GitStates, Begin(op, pre)
  PROVE  JournalTypeOK'
  BY BegunIsCounted DEF JournalTypeOK, Begin, EntryStates, Unsettled

\* One more step on an entry of the table (journal.appendStep).
LEMMA AppendStepKeepsType ==
  ASSUME JournalTypeOK, NEW op \in Ops, AppendStep(op)
  PROVE  JournalTypeOK'
  BY DEF JournalTypeOK, AppendStep, EntryStates, Unsettled

\* An entry marked applied, or left alone (journal.markApplied).
LEMMA MarkAppliedKeepsType ==
  ASSUME JournalTypeOK, NEW op \in Ops, MarkApplied(op)
  PROVE  JournalTypeOK'
  BY DEF JournalTypeOK, MarkApplied, EntryStates, Unsettled

\* A settled entry (journal.settle).
LEMMA SettleKeepsType ==
  ASSUME JournalTypeOK, NEW op \in Ops, Settle(op)
  PROVE  JournalTypeOK'
  BY DEF JournalTypeOK, Settle, EntryStates, Unsettled

\* A parked entry and its announcement (journal.park).
LEMMA ParkKeepsType ==
  ASSUME JournalTypeOK, NEW op \in Ops, Park(op)
  PROVE  JournalTypeOK'
<1>1. CASE InState(op, {"settled"})
  BY <1>1 DEF JournalTypeOK, Park, journalVars
<1>2. CASE ~InState(op, {"settled"})
  <2>1. entry' \in [Ops -> [state : EntryStates, pre : GitStates, steps : Nat, startedAt : Nat]]
    BY <1>2 DEF JournalTypeOK, Park, EntryStates, Unsettled
  <2>2. announced' \in [Ops -> Nat]
    BY <1>2 DEF JournalTypeOK, Park
  <2> QED
    BY <2>1, <2>2 DEF JournalTypeOK
<1> QED
  BY <1>1, <1>2

\* The table without some settled entries (journal.runRetention).
LEMMA RunRetentionKeepsType ==
  ASSUME JournalTypeOK, NEW old \in SUBSET Ops, RunRetention(old)
  PROVE  JournalTypeOK'
  BY DEF JournalTypeOK, RunRetention, EntryStates, Unsettled

\* An empty journal is well formed.
LEMMA InitHasType == JournalInit => JournalTypeOK
  BY PristineIsGitState DEF JournalInit, JournalTypeOK, NoEntry, EntryStates, Unsettled

\* No call of a journal operation leaves the table ill formed.
LEMMA StepKeepsType == JournalTypeOK /\ [JournalNext]_journalVars => JournalTypeOK'
<1> SUFFICES ASSUME JournalTypeOK, [JournalNext]_journalVars
             PROVE  JournalTypeOK'
  OBVIOUS
<1>1. CASE UNCHANGED journalVars
  BY <1>1 DEF journalVars, JournalTypeOK
<1>2. ASSUME NEW op \in Ops, NEW pre \in GitStates, Begin(op, pre)
      PROVE  JournalTypeOK'
  BY <1>2, BeginKeepsType
<1>3. ASSUME NEW op \in Ops,
             \/ AppendStep(op) \/ MarkApplied(op) \/ Settle(op) \/ Park(op)
      PROVE  JournalTypeOK'
  BY <1>3, AppendStepKeepsType, MarkAppliedKeepsType, SettleKeepsType, ParkKeepsType
<1>4. ASSUME NEW old \in SUBSET Ops, RunRetention(old)
      PROVE  JournalTypeOK'
  BY <1>4, RunRetentionKeepsType
<1> QED
  BY <1>1, <1>2, <1>3, <1>4 DEF JournalNext

\* Every row of the journal and every count of its announcements has its type,
\* whatever the callers do (src/src/journal/journal.ts).
THEOREM JournalTypeCorrect == JournalSpec => []JournalTypeOK
<1> QED
  BY InitHasType, StepKeepsType, PTL DEF JournalSpec

-----------------------------------------------------------------------------
\* ParkAnnouncedOnce is inductive: the row is added by the park that moves the
\* entry to `attention`, and no operation moves an entry from `attention` back
\* to where it could be parked anew.

\* Parking announces an entry that was not parked, and no other.
LEMMA AnnouncedByPark ==
  ASSUME JournalTypeOK, ParkAnnouncedOnce, NEW op \in Ops, Park(op)
  PROVE  ParkAnnouncedOnce'
<1> SUFFICES ASSUME NEW o \in Ops
             PROVE  /\ announced'[o] <= 1
                    /\ InState(o, {"attention"})' => announced'[o] = 1
                    /\ InState(o, {"none", "intended", "applied"})' => announced'[o] = 0
  BY DEF ParkAnnouncedOnce
<1>0. announced[o] \in Nat /\ entry[o].state \in EntryStates
  BY DEF JournalTypeOK
<1>1. CASE o # op \/ InState(op, {"settled"})
  <2>1. announced'[o] = announced[o] /\ entry'[o] = entry[o]
    BY <1>1 DEF Park, JournalTypeOK, journalVars
  <2> QED
    BY <2>1 DEF ParkAnnouncedOnce, InState
<1>2. CASE o = op /\ ~InState(op, {"settled"})
  <2>1. entry'[o].state = "attention"
    BY <1>2 DEF Park, JournalTypeOK
  <2>2. announced'[o] = IF InState(o, {"attention"}) THEN announced[o] ELSE announced[o] + 1
    BY <1>2 DEF Park, JournalTypeOK
  <2>3. CASE InState(o, {"attention"})
    BY <2>1, <2>2, <2>3 DEF ParkAnnouncedOnce, InState
  <2>4. CASE ~InState(o, {"attention"})
    <3>1. InState(o, {"none", "intended", "applied"})
      BY <1>0, <1>2, <2>4 DEF Park, Exists, InState, EntryStates, Unsettled
    <3> QED
      BY <2>1, <2>2, <2>4, <3>1 DEF ParkAnnouncedOnce, InState
  <2> QED
    BY <2>3, <2>4
<1> QED
  BY <1>1, <1>2

\* The other operations leave the outbox alone and put no entry into a state in
\* which its announcements would be wrong.
LEMMA AnnouncedByOthers ==
  ASSUME JournalTypeOK, ParkAnnouncedOnce, UNCHANGED announced,
         \A o \in Ops :
            /\ entry'[o].state = "attention" => entry[o].state = "attention"
            /\ entry'[o].state \in {"none", "intended", "applied"} =>
                  entry[o].state \in {"none", "intended", "applied"}
  PROVE  ParkAnnouncedOnce'
  BY DEF ParkAnnouncedOnce, InState

\* Every journal operation keeps one announcement per parked entry.
LEMMA StepKeepsAnnounced ==
  JournalTypeOK /\ ParkAnnouncedOnce /\ [JournalNext]_journalVars => ParkAnnouncedOnce'
<1> SUFFICES ASSUME JournalTypeOK, ParkAnnouncedOnce, [JournalNext]_journalVars
             PROVE  ParkAnnouncedOnce'
  OBVIOUS
<1>1. CASE UNCHANGED journalVars
  BY <1>1 DEF journalVars, ParkAnnouncedOnce, InState
<1>2. ASSUME NEW op \in Ops, NEW pre \in GitStates, Begin(op, pre)
      PROVE  ParkAnnouncedOnce'
  BY <1>2, AnnouncedByOthers DEF Begin, JournalTypeOK
<1>3. ASSUME NEW op \in Ops, AppendStep(op)
      PROVE  ParkAnnouncedOnce'
  BY <1>3, AnnouncedByOthers DEF AppendStep, JournalTypeOK
<1>4. ASSUME NEW op \in Ops, MarkApplied(op)
      PROVE  ParkAnnouncedOnce'
  <2>1. ~InState(op, {"settled", "attention"}) =>
           entry[op].state \in {"intended", "applied"}
    BY <1>4 DEF MarkApplied, Exists, InState, JournalTypeOK, EntryStates, Unsettled
  <2> QED
    BY <1>4, <2>1, AnnouncedByOthers DEF MarkApplied, JournalTypeOK
<1>5. ASSUME NEW op \in Ops, Settle(op)
      PROVE  ParkAnnouncedOnce'
  BY <1>5, AnnouncedByOthers DEF Settle, JournalTypeOK
<1>6. ASSUME NEW op \in Ops, Park(op)
      PROVE  ParkAnnouncedOnce'
  BY <1>6, AnnouncedByPark
<1>7. ASSUME NEW old \in SUBSET Ops, RunRetention(old)
      PROVE  ParkAnnouncedOnce'
  BY <1>7, AnnouncedByOthers DEF RunRetention, JournalTypeOK
<1> QED
  BY <1>1, <1>2, <1>3, <1>4, <1>5, <1>6, <1>7 DEF JournalNext

\* An operator hears of a parked entry exactly once, however often the pipeline,
\* a late handler and recovery park it, and never of one that was not parked
\* (journal.park and the outbox row in its transaction).
THEOREM ParkAnnouncedExactlyOnce == JournalSpec => []ParkAnnouncedOnce
<1>1. ASSUME JournalInit, NEW op \in Ops
      PROVE  announced[op] = 0 /\ entry[op].state = "none"
  <2>1. entry[op] = NoEntry /\ announced[op] = 0
    BY <1>1 DEF JournalInit
  <2> QED
    BY <2>1 DEF NoEntry
<1>2. JournalInit => ParkAnnouncedOnce
  <2> SUFFICES ASSUME JournalInit
               PROVE  ParkAnnouncedOnce
    OBVIOUS
  <2> SUFFICES ASSUME NEW op \in Ops
               PROVE  /\ announced[op] <= 1
                      /\ ~InState(op, {"attention"})
                      /\ announced[op] = 0
    BY DEF ParkAnnouncedOnce
  <2> QED
    BY <1>1 DEF InState
<1> QED
  BY <1>2, StepKeepsAnnounced, JournalTypeCorrect, PTL DEF JournalSpec

-----------------------------------------------------------------------------
\* No call order takes a settled entry anywhere but into retention, or a parked
\* one anywhere but to settled: the refusals of markApplied, park and begin.
THEOREM EntriesNeverGoBackwards == JournalSpec => NeverBackwards
<1> DEFINE Forward ==
      \A op \in Ops :
         /\ InState(op, {"settled"}) => entry'[op].state \in {"settled", "deleted"}
         /\ InState(op, {"attention"}) => entry'[op].state \in {"attention", "settled"}
         /\ InState(op, {"deleted"}) => entry'[op] = entry[op]
<1>1. JournalTypeOK /\ [JournalNext]_journalVars => [Forward]_journalVars
  <2> SUFFICES ASSUME JournalTypeOK, JournalNext
               PROVE  Forward
    OBVIOUS
  <2>1. ASSUME NEW op \in Ops, NEW pre \in GitStates, Begin(op, pre)
        PROVE  Forward
    BY <2>1 DEF Begin, InState, JournalTypeOK
  <2>2. ASSUME NEW op \in Ops, AppendStep(op)
        PROVE  Forward
    BY <2>2 DEF AppendStep, Exists, InState, JournalTypeOK
  <2>3. ASSUME NEW op \in Ops, MarkApplied(op)
        PROVE  Forward
    BY <2>3 DEF MarkApplied, Exists, InState, JournalTypeOK
  <2>4. ASSUME NEW op \in Ops, Settle(op)
        PROVE  Forward
    BY <2>4 DEF Settle, Exists, InState, JournalTypeOK
  <2>5. ASSUME NEW op \in Ops, Park(op)
        PROVE  Forward
    BY <2>5 DEF Park, Exists, InState, JournalTypeOK, journalVars
  <2>6. ASSUME NEW old \in SUBSET Ops, RunRetention(old)
        PROVE  Forward
    BY <2>6 DEF RunRetention, InState, JournalTypeOK
  <2> QED
    BY <2>1, <2>2, <2>3, <2>4, <2>5, <2>6 DEF JournalNext
<1> QED
  BY <1>1, JournalTypeCorrect, PTL DEF JournalSpec, NeverBackwards

=============================================================================
