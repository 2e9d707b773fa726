---------------------------- MODULE WaitsProofs ----------------------------
(***************************************************************************)
(* Proofs about the lock service and about the monitoring waits beside it, *)
(* for any number of calls, declarations, waits, sessions and places,      *)
(* whatever the host answers.                                              *)
(*                                                                         *)
(* The lock service: the four invariants are inductive together            *)
(* (QueuesInv): that a second release changes nothing rests on             *)
(* CallsAgreeWithMutex, that a release hands the lock on rests on          *)
(* NoLostWakeup.  With them the queues implement first-come-first-served   *)
(* exclusive locks.                                                        *)
(*                                                                         *)
(* Waits: both invariants are strengthened by what they leave open: the    *)
(* counters by their types, the verdicts by what sink and rows hold of a   *)
(* wait that has not reached its settling yet (IInv).  A step of a wait    *)
(* between admission and settling moves that wait alone and keeps its      *)
(* session (Stepped), so the counters are disturbed only by Admit and by    *)
(* the two ways out, EndWait and LimitFires, which give back what Admit    *)
(* took (PlaceGivenBack).                                                  *)
(***************************************************************************)
EXTENDS Waits, CommonProofs, FiniteSetTheorems, TLAPS

-----------------------------------------------------------------------------
(***************************************************************************)
(* The lock service.                                                       *)
(***************************************************************************)
\* The inductive invariant, and what it says of one lock.
QueuesInv == TypeOK /\ CallsAgreeWithMutex /\ NoLostWakeup /\ QueueWithinDepth

Agrees(l, m, states) == \A b \in Calls :
    /\ wants[b] = l => /\ states[b] = "holding" <=> m.current = b
                       /\ states[b] = "waiting" <=> Waiting(m, b)
    /\ wants[b] # l => m.current # b /\ ~Waiting(m, b)

Short(l, m) == l = Mutation => Len(m.queue) <= MutationQueueDepth

\* What the invariant says of one lock and of the calls that asked for it.
LEMMA AtLock ==
  ASSUME QueuesInv, NEW l \in Locks
  PROVE  /\ WellFormed(mutex[l], Calls)
         /\ Agrees(l, mutex[l], call)
         /\ Short(l, mutex[l])
<1> DEFINE m == mutex[l]
           q == m.queue
<1>1. m \in MutexOf(Calls) /\ q \in Seq(Calls) /\ m.current \in Calls \cup {Nobody}
  BY DEF QueuesInv, TypeOK, MutexOf
<1>2. Agrees(l, m, call)
  BY DEF QueuesInv, TypeOK, CallsAgreeWithMutex, Agrees
<1>3. m.current = Nobody => q = <<>>
  BY DEF QueuesInv, NoLostWakeup
<1>4. \A i \in 1..Len(q) : q[i] \in Calls /\ Waiting(m, q[i])
  BY <1>1, ElementOfSeq DEF Waiting
<1>5. \A i, j \in 1..Len(q) : q[i] = q[j] => i = j
  BY <1>2, <1>4 DEF QueuesInv, CallsAgreeWithMutex, Agrees
<1>6. ~Waiting(m, m.current)
  <2>1. CASE m.current = Nobody
    BY <1>3, <2>1 DEF Waiting
  <2>2. CASE m.current \in Calls
    BY <1>2, <2>2 DEF Agrees
  <2> QED
    BY <1>1, <2>1, <2>2
<1>7. Short(l, m)
  BY DEF QueuesInv, QueueWithinDepth, Short
<1> QED
  BY <1>1, <1>2, <1>3, <1>5, <1>6, <1>7 DEF WellFormed

\* A step that changes one lock and the calls that asked for it.
LEMMA OneLockChanges ==
  ASSUME QueuesInv, NEW l \in Locks, NEW m, WellFormed(m, Calls),
         mutex' = [mutex EXCEPT ![l] = m], wants' = wants,
         call' \in [Calls -> CallStates],
         \A b \in Calls : wants[b] # l => call'[b] = call[b],
         Agrees(l, m, call'), Short(l, m)
  PROVE  QueuesInv'
<1>1. mutex'[l] = m /\ \A k \in Locks \ {l} : mutex'[k] = mutex[k]
  BY DEF QueuesInv, TypeOK
<1>2. TypeOK'
  BY DEF QueuesInv, TypeOK, WellFormed
<1>3. \A k \in Locks \ {l} : Agrees(k, mutex[k], call')
  BY AtLock DEF Agrees
<1>4. \A k \in Locks : Agrees(k, mutex'[k], call')
  BY <1>1, <1>3
<1>5. \A k \in Locks, b \in Calls :
         \A i, j \in 1..Len(mutex'[k].queue) :
            mutex'[k].queue[i] = b /\ mutex'[k].queue[j] = b => i = j
  BY <1>1, AtLock DEF WellFormed
<1>6. CallsAgreeWithMutex'
  BY <1>2, <1>4, <1>5 DEF TypeOK, CallsAgreeWithMutex, Agrees, Waiting
<1>7. NoLostWakeup'
  BY <1>1 DEF QueuesInv, NoLostWakeup, WellFormed
<1>8. QueueWithinDepth'
  BY <1>1 DEF QueuesInv, QueueWithinDepth, Short, Locks
<1> QED
  BY <1>2, <1>6, <1>7, <1>8 DEF QueuesInv

\* Free mutexes and calls that have asked for nothing agree.
LEMMA InitIsGood == Init => QueuesInv
<1> SUFFICES ASSUME Init
             PROVE  QueuesInv
  OBVIOUS
<1>1. \A l \in Locks : mutex[l] = Free
  BY DEF Init
<1>2. TypeOK
  BY FreeIsWellFormed DEF Init, TypeOK, WellFormed, CallStates
<1>3. Len(<<>>) = 0 /\ ~\E i \in 1..0 : TRUE
  OBVIOUS
<1>4. CallsAgreeWithMutex
  BY <1>1, <1>3, LocksAssumption DEF Init, CallsAgreeWithMutex, Waiting, Free
<1>5. NoLostWakeup /\ QueueWithinDepth
  BY <1>1, <1>3, LocksAssumption DEF NoLostWakeup, QueueWithinDepth, Free, Locks
<1> QED
  BY <1>2, <1>4, <1>5 DEF QueuesInv

-----------------------------------------------------------------------------
\* Every action of the lock service keeps it.

\* A call that is turned away holds nothing and waits for nothing.
LEMMA TurnedAway ==
  ASSUME QueuesInv, NEW c \in Calls, AcquireAborted(c) \/ AcquireRefused(c)
  PROVE  QueuesInv'
<1>1. TypeOK'
  BY DEF QueuesInv, TypeOK, AcquireAborted, AcquireRefused, CallStates, Answered
<1>2. call[c] = "new" /\ call'[c] \in Answered /\ \A b \in Calls \ {c} : call'[b] = call[b]
  BY DEF QueuesInv, TypeOK, AcquireAborted, AcquireRefused, Answered
<1>3. UNCHANGED <<mutex, wants>>
  BY DEF AcquireAborted, AcquireRefused
<1>4. CallsAgreeWithMutex'
  <2>1. call'[c] \notin {"holding", "waiting"}
    BY <1>2 DEF Answered
  <2>2. \A b \in Calls : /\ call'[b] = "holding" <=> call[b] = "holding"
                         /\ call'[b] = "waiting" <=> call[b] = "waiting"
    BY <1>2, <2>1
  <2>3. CallsAgreeWithMutex
    BY DEF QueuesInv
  <2> QED BY <1>3, <2>2, <2>3 DEF CallsAgreeWithMutex, Waiting
<1>5. NoLostWakeup' /\ QueueWithinDepth'
  BY <1>3 DEF QueuesInv, NoLostWakeup, QueueWithinDepth
<1> QED
  BY <1>1, <1>4, <1>5 DEF QueuesInv

\* A call takes a free lock or joins the queue of a held one (acquire).
LEMMA Acquired ==
  ASSUME QueuesInv, NEW c \in Calls, Acquire(c), NEW l \in Locks, l = wants[c]
  PROVE  QueuesInv'
<1> DEFINE m == Enqueue(mutex[l], c)
<1>1. WellFormed(mutex[l], Calls) /\ Agrees(l, mutex[l], call) /\ Short(l, mutex[l])
  BY AtLock
<1>2. mutex[l].current # c /\ ~Waiting(mutex[l], c)
  BY <1>1 DEF Acquire, Agrees
<1>3. /\ mutex' = [mutex EXCEPT ![l] = m]
      /\ call' = [call EXCEPT ![c] = IF m.current = c THEN "holding" ELSE "waiting"]
      /\ wants' = wants
  BY DEF Acquire
<1>4. /\ call' \in [Calls -> CallStates]
      /\ call'[c] = IF m.current = c THEN "holding" ELSE "waiting"
      /\ \A b \in Calls \ {c} : call'[b] = call[b]
  BY <1>3 DEF QueuesInv, TypeOK, CallStates
<1> HIDE DEF m
<1>5. CASE mutex[l].current = Nobody
  <2>1. /\ WellFormed(m, Calls) /\ m.current = c /\ Len(m.queue) = 0
        /\ \A b : ~Waiting(m, b) /\ ~Waiting(mutex[l], b)
    BY <1>1, <1>5, EnqueueAtFree, LocksAssumption DEF m
  <2>2. Agrees(l, m, call')
    BY <1>1, <1>4, <1>5, <2>1, LocksAssumption DEF Agrees
  <2>3. Short(l, m)
    BY <2>1, LocksAssumption DEF Short
  <2> QED
    BY <1>3, <1>4, <2>1, <2>2, <2>3, OneLockChanges
<1>6. CASE mutex[l].current # Nobody
  <2>1. /\ WellFormed(m, Calls) /\ m.current = mutex[l].current
        /\ Len(m.queue) = Len(mutex[l].queue) + 1
        /\ \A b : Waiting(m, b) <=> Waiting(mutex[l], b) \/ b = c
    BY <1>1, <1>2, <1>6, EnqueueAtHeld DEF m
  <2>2. Agrees(l, m, call')
    BY <1>1, <1>2, <1>4, <2>1 DEF Agrees
  <2>3. Short(l, m)
    <3>1. l = Mutation => ~(Len(mutex[l].queue) >= MutationQueueDepth)
      BY <1>6 DEF Acquire, Bounded, Full
    <3>2. Len(mutex[l].queue) \in Nat
      BY <1>1 DEF WellFormed, MutexOf
    <3> QED
      BY <2>1, <3>1, <3>2, LocksAssumption DEF Short
  <2> QED
    BY <1>3, <1>4, <2>1, <2>2, <2>3, OneLockChanges
<1> QED
  BY <1>5, <1>6

\* A waiter gives up: the others keep their places and the holder its lock.
LEMMA StoppedWaiting ==
  ASSUME QueuesInv, NEW c \in Calls, NEW answer \in Answered, StopWaiting(c, answer),
         NEW l \in Locks, l = wants[c]
  PROVE  QueuesInv'
<1> DEFINE m == GiveUp(mutex[l], c)
<1>1. WellFormed(mutex[l], Calls) /\ Agrees(l, mutex[l], call) /\ Short(l, mutex[l])
  BY AtLock
<1>2. /\ call[c] = "waiting"
      /\ mutex' = [mutex EXCEPT ![l] = m]
      /\ call' = [call EXCEPT ![c] = answer]
      /\ wants' = wants
  BY DEF StopWaiting
<1>3. Waiting(mutex[l], c) /\ mutex[l].current # c
  BY <1>1, <1>2 DEF Agrees
<1>4. /\ call' \in [Calls -> CallStates]
      /\ call'[c] \notin {"holding", "waiting"}
      /\ \A b \in Calls \ {c} : call'[b] = call[b]
  BY <1>2 DEF QueuesInv, TypeOK, CallStates, Answered
<1>5. /\ WellFormed(m, Calls) /\ m.current = mutex[l].current
      /\ Len(m.queue) = Len(mutex[l].queue) - 1
      /\ \A b : Waiting(m, b) <=> Waiting(mutex[l], b) /\ b # c
  BY <1>1, <1>3, GiveUpLeaves
<1> HIDE DEF m
<1>6. Agrees(l, m, call')
  BY <1>1, <1>3, <1>4, <1>5 DEF Agrees
<1>7. Short(l, m)
  <2>1. Len(mutex[l].queue) \in Nat
    BY <1>1 DEF WellFormed, MutexOf
  <2> QED
    BY <1>1, <1>5, <2>1, LocksAssumption DEF Short
<1> QED
  BY <1>2, <1>4, <1>5, <1>6, <1>7, OneLockChanges

\* A holder releases the lock: it is free, or the head of the queue holds it.
LEMMA Released ==
  ASSUME QueuesInv, NEW c \in Calls, ReleaseLock(c), NEW l \in Locks, l = wants[c]
  PROVE  QueuesInv'
<1> DEFINE m == Release(mutex[l], c)
<1>1. WellFormed(mutex[l], Calls) /\ Agrees(l, mutex[l], call) /\ Short(l, mutex[l])
  BY AtLock
<1>2. /\ call[c] = "holding"
      /\ mutex' = [mutex EXCEPT ![l] = m]
      /\ call' = [Granted(l, m) EXCEPT ![c] = "released"]
      /\ wants' = wants
  BY DEF ReleaseLock
<1>3. mutex[l].current = c /\ ~Waiting(mutex[l], c)
  BY <1>1, <1>2 DEF Agrees
<1>4. /\ call' \in [Calls -> CallStates]
      /\ call'[c] = "released"
      /\ \A b \in Calls \ {c} : call'[b] =
            IF wants[b] = l /\ call[b] = "waiting" /\ m.current = b THEN "holding" ELSE call[b]
  BY <1>2 DEF QueuesInv, TypeOK, CallStates, Granted
<1>5. \A b \in Calls : wants[b] # l => call'[b] = call[b]
  BY <1>4
<1> HIDE DEF m
<1>6. CASE mutex[l].queue = <<>>
  <2>1. m = Free
    BY <1>1, <1>3, <1>6, ReleaseToNobody DEF m
  <2>2. WellFormed(m, Calls) /\ m.current = Nobody /\ Len(m.queue) = 0 /\ \A b : ~Waiting(m, b)
    BY <2>1, FreeIsWellFormed DEF Free
  <2>3. \A b : ~Waiting(mutex[l], b)
    BY <1>6 DEF Waiting
  <2>4. Agrees(l, m, call')
    BY <1>1, <1>3, <1>4, <2>2, <2>3, LocksAssumption DEF Agrees
  <2>5. Short(l, m)
    BY <2>2, LocksAssumption DEF Short
  <2> QED
    BY <1>2, <1>4, <1>5, <2>2, <2>4, <2>5, OneLockChanges
<1>7. CASE mutex[l].queue # <<>>
  <2>1. /\ WellFormed(m, Calls) /\ m.current \in Calls /\ Waiting(mutex[l], m.current)
        /\ Len(m.queue) = Len(mutex[l].queue) - 1
        /\ \A b : Waiting(m, b) <=> Waiting(mutex[l], b) /\ b # m.current
    BY <1>1, <1>3, <1>7, ReleaseToNext, LocksAssumption DEF m
  <2>2. Agrees(l, m, call')
    BY <1>1, <1>3, <1>4, <2>1 DEF Agrees
  <2>3. Short(l, m)
    <3>1. Len(mutex[l].queue) \in Nat
      BY <1>1 DEF WellFormed, MutexOf
    <3> QED
      BY <1>1, <2>1, <3>1, LocksAssumption DEF Short
  <2> QED
    BY <1>2, <1>4, <1>5, <2>1, <2>2, <2>3, OneLockChanges
<1> QED
  BY <1>6, <1>7

\* A second release finds another holder, or none and nobody waiting.
LEMMA ReleasedAgain ==
  ASSUME QueuesInv, NEW c \in Calls, ReleaseAgain(c), NEW l \in Locks, l = wants[c]
  PROVE  UNCHANGED vars
<1>1. WellFormed(mutex[l], Calls) /\ Agrees(l, mutex[l], call)
  BY AtLock
<1>2. mutex[l].current # c
  BY <1>1 DEF ReleaseAgain, Agrees
<1>3. Release(mutex[l], c) = mutex[l]
  BY <1>1, <1>2, ReleaseByOther
<1>4. mutex' = mutex
  BY <1>3 DEF ReleaseAgain, QueuesInv, TypeOK
<1>5. call' = Granted(l, mutex[l])
  BY <1>3 DEF ReleaseAgain
<1>6. \A b \in Calls : ~(wants[b] = l /\ call[b] = "waiting" /\ mutex[l].current = b)
  BY <1>1 DEF Agrees
<1>7. call' = call
  BY <1>5, <1>6 DEF Granted, QueuesInv, TypeOK
<1> QED
  BY <1>4, <1>7 DEF ReleaseAgain, vars

\* Every step of a call keeps the mutexes and the calls in agreement.
LEMMA StepIsGood == QueuesInv /\ [Next]_vars => QueuesInv'
<1> SUFFICES ASSUME QueuesInv, [Next]_vars
             PROVE  QueuesInv'
  OBVIOUS
<1>1. CASE UNCHANGED vars
  BY <1>1 DEF vars, QueuesInv, TypeOK, CallsAgreeWithMutex, NoLostWakeup, QueueWithinDepth, Waiting
<1>2. ASSUME NEW c \in Calls,
             \/ AcquireAborted(c) \/ AcquireRefused(c) \/ Acquire(c) \/ Timeout(c)
             \/ Abort(c) \/ ReleaseLock(c) \/ ReleaseAgain(c)
      PROVE  QueuesInv'
  <2>1. PICK l \in Locks : l = wants[c]
    BY DEF QueuesInv, TypeOK
  <2>2. CASE AcquireAborted(c) \/ AcquireRefused(c)
    BY <2>2, TurnedAway
  <2>3. CASE Acquire(c)
    BY <2>1, <2>3, Acquired
  <2>4. CASE Timeout(c) \/ Abort(c)
    BY <2>1, <2>4, StoppedWaiting DEF Timeout, Abort, Answered
  <2>5. CASE ReleaseLock(c)
    BY <2>1, <2>5, Released
  <2>6. CASE ReleaseAgain(c)
    BY <1>1, <2>1, <2>6, ReleasedAgain
  <2> QED
    BY <1>2, <2>2, <2>3, <2>4, <2>5, <2>6
<1> QED
  BY <1>1, <1>2 DEF Next

-----------------------------------------------------------------------------
\* Every mutex, call and wait has its type, whatever order the calls of the lock
\* service come in (locks.ts, createLocks).
THEOREM LocksTypeCorrect == Spec => []TypeOK
<1>1. QueuesInv => TypeOK
  BY DEF QueuesInv
<1> QED
  BY <1>1, InitIsGood, StepIsGood, PTL DEF Spec

\* A call holds a lock exactly when the mutex names it and waits exactly when it
\* stands in the queue once: no grant is lost or given twice (finish, release).
THEOREM CallsAlwaysAgree == Spec => []CallsAgreeWithMutex
<1>1. QueuesInv => CallsAgreeWithMutex
  BY DEF QueuesInv
<1> QED
  BY <1>1, InitIsGood, StepIsGood, PTL DEF Spec

\* No lock is free while a call waits for it: grantNext runs on every exit.
THEOREM NoWakeupIsLost == Spec => []NoLostWakeup
<1>1. QueuesInv => NoLostWakeup
  BY DEF QueuesInv
<1> QED
  BY <1>1, InitIsGood, StepIsGood, PTL DEF Spec

\* The mutation queue never holds more than its configured depth (the
\* `queue-full` answer of acquire).
THEOREM QueueStaysWithinDepth == Spec => []QueueWithinDepth
<1>1. QueuesInv => QueueWithinDepth
  BY DEF QueuesInv
<1> QED
  BY <1>1, InitIsGood, StepIsGood, PTL DEF Spec


-----------------------------------------------------------------------------
\* The mutexes seen as first-come-first-served locks.

\* What stands for each variable of the lock service.
Owner == [l \in Locks |-> mutex[l].current]
WaitingAt == [l \in Locks |-> {c \in Calls : Waiting(mutex[l], c)}]
Fresh == {c \in Calls : call[c] = "new"}

ServiceStep == [Service!Next]_(Service!vars)

Order(m) == {p \in Calls \X Calls : Ahead(m, p[1], p[2])}

\* Its order is the order of the queues.
LEMMA AskedBeforeIsOrder == askedBefore = [l \in Locks |-> Order(mutex[l])]
  BY DEF askedBefore, Order, Ahead

\* A step that changes one lock changes what is seen of that lock only.
LEMMA OneLockIsSeen ==
  ASSUME QueuesInv, NEW l \in Locks, NEW m, mutex' = [mutex EXCEPT ![l] = m]
  PROVE  /\ Owner' = [Owner EXCEPT ![l] = m.current]
         /\ WaitingAt' = [WaitingAt EXCEPT ![l] = {c \in Calls : Waiting(m, c)}]
         /\ askedBefore' = [askedBefore EXCEPT ![l] = Order(m)]
<1>1. mutex'[l] = m /\ \A k \in Locks \ {l} : mutex'[k] = mutex[k]
  BY DEF QueuesInv, TypeOK
<1>2. askedBefore' = [k \in Locks |-> Order(mutex'[k])]
  BY DEF askedBefore, Order, Ahead
<1>3. WaitingAt' = [k \in Locks |-> {c \in Calls : Waiting(mutex'[k], c)}]
  BY DEF WaitingAt, Waiting
<1>4. Owner' = [Owner EXCEPT ![l] = m.current]
  <2>1. /\ Owner = [k \in Locks |-> Owner[k]] /\ Owner' = [k \in Locks |-> Owner'[k]]
        /\ \A k \in Locks : Owner[k] = mutex[k].current /\ Owner'[k] = mutex'[k].current
    BY DEF Owner
  <2>2. \A k \in Locks : Owner'[k] = IF k = l THEN m.current ELSE Owner[k]
    BY <1>1, <2>1
  <2> QED
    BY <2>1, <2>2
<1>5. WaitingAt' = [WaitingAt EXCEPT ![l] = {c \in Calls : Waiting(m, c)}]
  BY <1>1, <1>3 DEF WaitingAt
<1>6. askedBefore' = [askedBefore EXCEPT ![l] = Order(m)]
  BY <1>1, <1>2, AskedBeforeIsOrder
<1> QED
  BY <1>4, <1>5, <1>6

\* The steps of the lock service, and none, in these terms.
LEMMA ServiceMoves ==
  ASSUME NEW c \in Calls, NEW l \in Locks
  PROVE  /\ UNCHANGED <<Owner, WaitingAt, askedBefore, Fresh>> => ServiceStep
         /\ /\ c \in Fresh /\ Fresh' = Fresh \ {c} /\ UNCHANGED <<Owner, WaitingAt, askedBefore>>
            => ServiceStep
         /\ /\ c \in Fresh /\ Owner[l] = Nobody /\ Owner' = [Owner EXCEPT ![l] = c]
            /\ Fresh' = Fresh \ {c} /\ UNCHANGED <<WaitingAt, askedBefore>>
            => ServiceStep
         /\ /\ c \in Fresh /\ Owner[l] # Nobody
            /\ WaitingAt' = [WaitingAt EXCEPT ![l] = @ \cup {c}]
            /\ askedBefore' = [askedBefore EXCEPT ![l] = @ \cup {<<d, c>> : d \in WaitingAt[l]}]
            /\ Fresh' = Fresh \ {c} /\ UNCHANGED Owner
            => ServiceStep
         /\ /\ c \in WaitingAt[l]
            /\ WaitingAt' = [WaitingAt EXCEPT ![l] = @ \ {c}]
            /\ askedBefore' = [askedBefore EXCEPT ![l] =
                                  {p \in @ : p[1] \notin {c} /\ p[2] \notin {c}}]
            /\ UNCHANGED <<Owner, Fresh>>
            => ServiceStep
         /\ /\ Owner[l] # Nobody /\ WaitingAt[l] = {} /\ Owner' = [Owner EXCEPT ![l] = Nobody]
            /\ UNCHANGED <<WaitingAt, askedBefore, Fresh>>
            => ServiceStep
         /\ /\ Owner[l] # Nobody /\ c \in WaitingAt[l]
            /\ \A d \in WaitingAt[l] : <<d, c>> \notin askedBefore[l]
            /\ Owner' = [Owner EXCEPT ![l] = c]
            /\ WaitingAt' = [WaitingAt EXCEPT ![l] = @ \ {c}]
            /\ askedBefore' = [askedBefore EXCEPT ![l] =
                                  {p \in @ : p[1] \notin {c} /\ p[2] \notin {c}}]
            /\ UNCHANGED Fresh
            => ServiceStep
  BY DEF ServiceStep, Service!vars, Service!Next, Service!TurnAway, Service!Take, Service!Wait,
         Service!StopWaiting, Service!HandOver, Service!Leave, Owner, WaitingAt, Fresh

\* A call that is turned away takes nothing and waits for nothing.
LEMMA TurnedAwayFollows ==
  ASSUME QueuesInv, NEW c \in Calls, AcquireAborted(c) \/ AcquireRefused(c)
  PROVE  ServiceStep
<1>1. c \in Fresh /\ Fresh' = Fresh \ {c} /\ UNCHANGED mutex
  BY DEF AcquireAborted, AcquireRefused, Fresh, QueuesInv, TypeOK
<1>2. UNCHANGED <<Owner, WaitingAt, askedBefore>>
  BY <1>1 DEF Owner, WaitingAt, askedBefore, Waiting
<1>3. PICK l \in Locks : l = wants[c]
  BY DEF QueuesInv, TypeOK
<1> QED
  BY <1>1, <1>2, ServiceMoves

\* A call takes a free lock at once, or waits behind everyone who waits.
LEMMA AcquiredFollows ==
  ASSUME QueuesInv, NEW c \in Calls, Acquire(c), NEW l \in Locks, l = wants[c]
  PROVE  ServiceStep
<1> DEFINE m == Enqueue(mutex[l], c)
<1>1. WellFormed(mutex[l], Calls) /\ Agrees(l, mutex[l], call)
  BY AtLock
<1>2. mutex' = [mutex EXCEPT ![l] = m] /\ call[c] = "new"
  BY DEF Acquire
<1>3. Fresh' = Fresh \ {c} /\ c \in Fresh
  BY DEF Acquire, Fresh, QueuesInv, TypeOK
<1>4. mutex[l].current # c /\ ~Waiting(mutex[l], c)
  BY <1>1, <1>2 DEF Agrees
<1>5. /\ Owner' = [Owner EXCEPT ![l] = m.current]
      /\ WaitingAt' = [WaitingAt EXCEPT ![l] = {b \in Calls : Waiting(m, b)}]
      /\ askedBefore' = [askedBefore EXCEPT ![l] = Order(m)]
  BY <1>2, OneLockIsSeen
<1>6. /\ Owner[l] = mutex[l].current
      /\ WaitingAt[l] = {b \in Calls : Waiting(mutex[l], b)}
      /\ askedBefore[l] = Order(mutex[l])
  BY AskedBeforeIsOrder DEF Owner, WaitingAt
<1>7. CASE mutex[l].current = Nobody
  <2>1. m.current = c /\ \A b : ~Waiting(m, b) /\ ~Waiting(mutex[l], b)
    BY <1>1, <1>7, EnqueueAtFree, LocksAssumption
  <2>2. m.queue = <<>> /\ mutex[l].queue = <<>>
    BY <1>1, <1>7, EnqueueAtFree, LocksAssumption DEF WellFormed, MutexOf
  <2>3. \A a, b : ~Ahead(m, a, b) /\ ~Ahead(mutex[l], a, b)
    BY <2>2, NobodyAhead
  <2> HIDE DEF m
  <2>4. WaitingAt' = WaitingAt
    BY <1>5, <1>6, <2>1 DEF WaitingAt
  <2>5. askedBefore' = askedBefore
    <3>1. Order(m) = Order(mutex[l])
      BY <2>3 DEF Order
    <3> QED
      BY <1>5, <1>6, <3>1, AskedBeforeIsOrder
  <2> QED
    BY <1>3, <1>5, <1>6, <1>7, <2>1, <2>4, <2>5, ServiceMoves
<1>8. CASE mutex[l].current # Nobody
  <2>1. /\ m.current = mutex[l].current
        /\ \A b : Waiting(m, b) <=> Waiting(mutex[l], b) \/ b = c
        /\ \A a, b : Ahead(m, a, b) <=> Ahead(mutex[l], a, b) \/ (Waiting(mutex[l], a) /\ b = c)
    BY <1>1, <1>4, <1>8, EnqueueAtHeld
  <2> HIDE DEF m
  <2>2. Owner' = Owner
    BY <1>5, <1>6, <2>1 DEF Owner
  <2>3. WaitingAt' = [WaitingAt EXCEPT ![l] = @ \cup {c}]
    BY <1>5, <1>6, <2>1
  <2>4. Order(m) = askedBefore[l] \cup {<<d, c>> : d \in WaitingAt[l]}
    <3>1. ASSUME NEW p \in Calls \X Calls
          PROVE  p \in {<<d, c>> : d \in WaitingAt[l]} <=> Waiting(mutex[l], p[1]) /\ p[2] = c
      BY <1>6, <3>1
    <3>2. {<<d, c>> : d \in WaitingAt[l]} \subseteq Calls \X Calls
      BY <1>6
    <3> QED
      BY <1>6, <2>1, <3>1, <3>2 DEF Order
  <2>5. askedBefore' = [askedBefore EXCEPT ![l] = @ \cup {<<d, c>> : d \in WaitingAt[l]}]
    BY <1>5, <2>4
  <2> QED
    BY <1>3, <1>6, <1>8, <2>2, <2>3, <2>5, ServiceMoves
<1> QED
  BY <1>7, <1>8

\* A call that stops waiting leaves the others in their order.
LEMMA StoppedWaitingFollows ==
  ASSUME QueuesInv, NEW c \in Calls, NEW answer \in Answered, StopWaiting(c, answer),
         NEW l \in Locks, l = wants[c]
  PROVE  ServiceStep
<1> DEFINE m == GiveUp(mutex[l], c)
<1>1. WellFormed(mutex[l], Calls) /\ Agrees(l, mutex[l], call)
  BY AtLock
<1>2. mutex' = [mutex EXCEPT ![l] = m] /\ call[c] = "waiting"
  BY DEF StopWaiting, QueuesInv, TypeOK
<1>3. Fresh' = Fresh
  BY DEF StopWaiting, Answered, Fresh, QueuesInv, TypeOK
<1>4. Waiting(mutex[l], c)
  BY <1>1, <1>2 DEF Agrees
<1>5. /\ m.current = mutex[l].current
      /\ \A b : Waiting(m, b) <=> Waiting(mutex[l], b) /\ b # c
      /\ \A a, b : Ahead(m, a, b) <=> Ahead(mutex[l], a, b) /\ a # c /\ b # c
  BY <1>1, <1>4, GiveUpLeaves
<1> HIDE DEF m
<1>6. /\ Owner' = [Owner EXCEPT ![l] = m.current]
      /\ WaitingAt' = [WaitingAt EXCEPT ![l] = {b \in Calls : Waiting(m, b)}]
      /\ askedBefore' = [askedBefore EXCEPT ![l] = Order(m)]
  BY <1>2, OneLockIsSeen
<1>7. /\ Owner[l] = mutex[l].current
      /\ WaitingAt[l] = {b \in Calls : Waiting(mutex[l], b)}
      /\ askedBefore[l] = Order(mutex[l])
  BY AskedBeforeIsOrder DEF Owner, WaitingAt
<1>8. Owner' = Owner
  BY <1>5, <1>6, <1>7 DEF Owner
<1>9. c \in WaitingAt[l] /\ WaitingAt' = [WaitingAt EXCEPT ![l] = @ \ {c}]
  BY <1>4, <1>5, <1>6, <1>7
<1>10. askedBefore' = [askedBefore EXCEPT ![l] = {p \in @ : p[1] \notin {c} /\ p[2] \notin {c}}]
  <2>1. Order(m) = {p \in Order(mutex[l]) : p[1] \notin {c} /\ p[2] \notin {c}}
    BY <1>5 DEF Order
  <2> QED
    BY <1>6, <1>7, <2>1
<1> QED
  BY <1>3, <1>8, <1>9, <1>10, ServiceMoves

\* A release hands the lock to the waiter nobody asked before.
LEMMA ReleasedFollows ==
  ASSUME QueuesInv, NEW c \in Calls, ReleaseLock(c), NEW l \in Locks, l = wants[c]
  PROVE  ServiceStep
<1> DEFINE m == Release(mutex[l], c)
<1>1. WellFormed(mutex[l], Calls) /\ Agrees(l, mutex[l], call)
  BY AtLock
<1>2. mutex' = [mutex EXCEPT ![l] = m] /\ call[c] = "holding"
  BY DEF ReleaseLock
<1>3. mutex[l].current = c
  BY <1>1, <1>2 DEF Agrees
<1>4. Fresh' = Fresh
  BY DEF ReleaseLock, Granted, Fresh, QueuesInv, TypeOK
<1> HIDE DEF m
<1>5. /\ Owner' = [Owner EXCEPT ![l] = m.current]
      /\ WaitingAt' = [WaitingAt EXCEPT ![l] = {b \in Calls : Waiting(m, b)}]
      /\ askedBefore' = [askedBefore EXCEPT ![l] = Order(m)]
  BY <1>2, OneLockIsSeen
<1>6. /\ Owner[l] = c /\ c # Nobody
      /\ WaitingAt[l] = {b \in Calls : Waiting(mutex[l], b)}
      /\ askedBefore[l] = Order(mutex[l])
  BY <1>3, AskedBeforeIsOrder, LocksAssumption DEF Owner, WaitingAt
<1>7. CASE mutex[l].queue = <<>>
  <2>1. m.current = Nobody /\ m.queue = <<>>
    BY <1>1, <1>3, <1>7, ReleaseToNobody DEF m, Free
  <2>2. \A a, b : /\ ~Waiting(m, b) /\ ~Waiting(mutex[l], b)
                  /\ ~Ahead(m, a, b) /\ ~Ahead(mutex[l], a, b)
    BY <1>7, <2>1, NobodyAhead
  <2>3. WaitingAt' = WaitingAt /\ WaitingAt[l] = {}
    BY <1>5, <1>6, <2>2 DEF WaitingAt
  <2>4. askedBefore' = askedBefore
    <3>1. Order(m) = Order(mutex[l])
      BY <2>2 DEF Order
    <3> QED
      BY <1>5, <1>6, <3>1, AskedBeforeIsOrder
  <2> QED
    BY <1>4, <1>5, <1>6, <2>1, <2>3, <2>4, ServiceMoves
<1>8. CASE mutex[l].queue # <<>>
  <2>1. /\ m.current \in Calls /\ Waiting(mutex[l], m.current)
        /\ \A b : Waiting(m, b) <=> Waiting(mutex[l], b) /\ b # m.current
        /\ \A b : ~Ahead(mutex[l], b, m.current)
        /\ \A a, b : Ahead(m, a, b) <=>
                        Ahead(mutex[l], a, b) /\ a # m.current /\ b # m.current
    BY <1>1, <1>3, <1>8, ReleaseToNext, LocksAssumption DEF m
  <2> DEFINE h == m.current
  <2>2. h \in WaitingAt[l] /\ WaitingAt' = [WaitingAt EXCEPT ![l] = @ \ {h}]
    BY <1>5, <1>6, <2>1
  <2>3. \A d \in WaitingAt[l] : <<d, h>> \notin askedBefore[l]
    BY <1>6, <2>1 DEF Order
  <2>4. askedBefore' = [askedBefore EXCEPT ![l] = {p \in @ : p[1] \notin {h} /\ p[2] \notin {h}}]
    <3>1. Order(m) = {p \in Order(mutex[l]) : p[1] \notin {h} /\ p[2] \notin {h}}
      BY <2>1 DEF Order
    <3> QED
      BY <1>5, <1>6, <3>1
  <2>5. h \in Calls /\ Owner' = [Owner EXCEPT ![l] = h] /\ Owner[l] # Nobody
    BY <1>5, <1>6, <2>1
  <2> HIDE DEF h
  <2> QED
    BY <1>4, <2>2, <2>3, <2>4, <2>5, ServiceMoves
<1> QED
  BY <1>7, <1>8

\* The mutexes of locks.ts implement first-come-first-served exclusive locks: a
\* lock is taken only when it is free, a call waits only while it is owned, and
\* it passes, in the turn in which its owner gives it up, to the call that asked
\* first, whichever calls time out, abort or release twice (grantNext, finish
\* and release).
THEOREM LocksImplementLockService == Spec => ImplementsLockService
<1>1. Init => Service!Init
  <2> SUFFICES ASSUME Init
               PROVE  Service!Init
    OBVIOUS
  <2>1. \A l \in Locks : mutex[l].current = Nobody /\ mutex[l].queue = <<>>
    BY DEF Init, Free
  <2>2. \A l \in Locks : \A a, b : ~Waiting(mutex[l], b) /\ ~Ahead(mutex[l], a, b)
    BY <2>1, NobodyAhead
  <2>3. \A c \in Calls : call[c] = "new"
    BY DEF Init
  <2>4. askedBefore = [l \in Locks |-> {}]
    BY <2>2, AskedBeforeIsOrder DEF Order
  <2> QED
    BY <2>1, <2>2, <2>3, <2>4 DEF Service!Init
<1>2. QueuesInv /\ [Next]_vars => [Service!Next]_(Service!vars)
  <2> SUFFICES ASSUME QueuesInv, [Next]_vars
               PROVE  ServiceStep
    BY DEF ServiceStep
  <2>1. ASSUME UNCHANGED vars
        PROVE  ServiceStep
    BY <2>1 DEF ServiceStep, Service!vars, vars, Waiting, askedBefore
  <2>2. ASSUME NEW c \in Calls,
               \/ AcquireAborted(c) \/ AcquireRefused(c) \/ Acquire(c) \/ Timeout(c)
               \/ Abort(c) \/ ReleaseLock(c) \/ ReleaseAgain(c)
        PROVE  ServiceStep
    <3>1. PICK l \in Locks : l = wants[c]
      BY DEF QueuesInv, TypeOK
    <3>2. CASE AcquireAborted(c) \/ AcquireRefused(c)
      BY <3>2, TurnedAwayFollows
    <3>3. CASE Acquire(c)
      BY <3>1, <3>3, AcquiredFollows
    <3>4. CASE Timeout(c) \/ Abort(c)
      BY <3>1, <3>4, StoppedWaitingFollows DEF Timeout, Abort, Answered
    <3>5. CASE ReleaseLock(c)
      BY <3>1, <3>5, ReleasedFollows
    <3>6. CASE ReleaseAgain(c)
      BY <2>1, <3>1, <3>6, ReleasedAgain
    <3> QED
      BY <2>2, <3>2, <3>3, <3>4, <3>5, <3>6
  <2> QED
    BY <2>1, <2>2 DEF Next
<1> QED
  BY <1>1, <1>2, InitIsGood, StepIsGood, PTL DEF Spec, ImplementsLockService, Service!Spec

-----------------------------------------------------------------------------
(***************************************************************************)
(* The waits.                                                              *)
(***************************************************************************)
WaitRows == [at : Points, from : Sessions \cup {NoSession},
             left : 0..Cap, until : 0..Cap, limit : 0..Limit, saw : Reads,
             aborted : BOOLEAN, end : Ends]

\* What the sink owes for an end.
Owed(end) == IF end \in Told THEN end ELSE "none"

VerdictOf(w) ==
    /\ wait[w].at \notin {"settle", "done"} =>
          sink[w] = "none" /\ rows[w] = <<>> /\ w \notin lost
    /\ At(w, "settle") =>
          EndIsTrue(w) /\ sink[w] = Owed(wait[w].end) /\ rows[w] = <<>> /\ w \notin lost
    /\ At(w, "done") /\ w \notin cut =>
          /\ sink[w] = "none"
          /\ w \notin lost => rows[w] = IF wait[w].end \in Told THEN <<wait[w].end>> ELSE <<>>
    /\ w \in cut => wait[w].at # "new" /\ rows[w] = <<>> /\ w \notin lost

IInv == WaitsTypeOK /\ PlacesCountWaits /\ \A w \in Waits : VerdictOf(w)

Between == {"ensuring", "read", "judge", "asleep"}

\* A step of a wait between its admission and its settling.
Stepped(w) ==
    /\ wait[w].at \in Between
    /\ wait' = [wait EXCEPT ![w] = wait'[w]]
    /\ wait'[w] \in WaitRows
    /\ wait'[w].from = wait[w].from
    /\ wait'[w].at \in Between \cup {"settle"}
    /\ sink' = [sink EXCEPT ![w] = sink'[w]]
    /\ sink'[w] \in Told \cup {"none"}
    /\ wait'[w].at # "settle" => sink' = sink
    /\ wait'[w].at = "settle" => EndIsTrue(w)' /\ sink'[w] = Owed(wait'[w].end)
    /\ pinned' \subseteq Waits
    /\ UNCHANGED <<inFlight, perSession, cut, rows, lost>>

-----------------------------------------------------------------------------
\* What a step of one wait sets of its row.
LEMMA RowIsRow ==
  ASSUME WaitsTypeOK, NEW w \in Waits
  PROVE  wait[w] \in WaitRows
BY DEF WaitsTypeOK, WaitRows

LEMMA NothingSeen == {} \in Reads /\ ({} \cap {"red", "pending"} = {})
BY DEF Reads, Findings

\* Every end of a wait is one the sink owes a row for, or none.
LEMMA EndingSteps ==
  ASSUME IInv, NEW w \in Waits, wait[w].at \in Between,
         NEW end \in Ends \ {"none"}, NEW saw \in Reads, EndHaving(w, end, saw),
         end = "concluded" => saw \cap {"red", "pending"} = {},
         end = "timed-out" => "red" \notin saw,
         end = "red" => "red" \in saw,
         sink' = IF end \in Told THEN [sink EXCEPT ![w] = end] ELSE sink,
         pinned' \subseteq Waits, UNCHANGED <<inFlight, perSession, cut, rows, lost>>
  PROVE  Stepped(w)
<1>1. wait[w] \in WaitRows
  BY RowIsRow DEF IInv
<1>2. /\ wait' = [wait EXCEPT ![w] = wait'[w]]
      /\ wait'[w] = [wait[w] EXCEPT !.at = "settle", !.end = end, !.left = 0, !.limit = 0,
                                    !.saw = saw, !.aborted = FALSE]
  BY DEF EndHaving, IInv, WaitsTypeOK
<1>3. wait'[w] \in WaitRows
  <2>1. 0 \in 0..Cap /\ 0 \in 0..Limit /\ "settle" \in Points /\ end \in Ends
    BY WaitsAssumption DEF Points
  <2> QED
    BY <1>1, <1>2, <2>1 DEF WaitRows
<1>4. wait'[w].at = "settle" /\ wait'[w].end = end /\ wait'[w].saw = saw
      /\ wait'[w].from = wait[w].from
  BY <1>1, <1>2 DEF WaitRows
<1>5. sink[w] = "none" /\ sink \in [Waits -> Told \cup {"none"}]
  BY DEF IInv, VerdictOf, WaitsTypeOK, Between
<1>6. sink' = [sink EXCEPT ![w] = sink'[w]] /\ sink'[w] = Owed(end)
  BY <1>5 DEF Owed
<1>7. EndIsTrue(w)'
  BY <1>4 DEF EndIsTrue
<1> QED
  BY <1>2, <1>3, <1>4, <1>6, <1>7 DEF Stepped, Owed

\* A step that goes on: the row moves and the sink does not.
LEMMA GoingOn ==
  ASSUME IInv, NEW w \in Waits, wait[w].at \in Between, NEW row \in WaitRows,
         wait' = [wait EXCEPT ![w] = row], row.from = wait[w].from, row.at \in Between,
         pinned' \subseteq Waits, UNCHANGED <<sink, inFlight, perSession, cut, rows, lost>>
  PROVE  Stepped(w)
<1>1. wait'[w] = row
  BY DEF IInv, WaitsTypeOK
<1>2. sink' = [sink EXCEPT ![w] = sink'[w]] /\ sink'[w] \in Told \cup {"none"}
  BY DEF IInv, WaitsTypeOK
<1>3. row.at # "settle"
  BY DEF Between
<1> QED
  BY <1>1, <1>2, <1>3 DEF Stepped

LEMMA SleepingSteps ==
  ASSUME IInv, NEW w \in Waits, wait[w].at \in Between, NEW ticks \in Nat,
         ticks <= wait[w].left, Sleep(w, ticks), Quiet
  PROVE  Stepped(w)
<1> DEFINE row == [wait[w] EXCEPT !.at = "asleep", !.until = wait[w].left - ticks, !.saw = {}]
<1>1. wait[w] \in WaitRows
  BY RowIsRow DEF IInv
<1>2. wait[w].left - ticks \in 0..Cap
  BY <1>1, WaitsAssumption DEF WaitRows
<1>3. row \in WaitRows /\ row.at = "asleep" /\ row.from = wait[w].from
  BY <1>1, <1>2, NothingSeen DEF WaitRows, Points
<1>4. wait' = [wait EXCEPT ![w] = row] /\ sink' = sink
  BY DEF Sleep, IInv, WaitsTypeOK
<1>5. pinned' \subseteq Waits
  BY DEF Quiet, IInv, WaitsTypeOK
<1> QED
  BY <1>3, <1>4, <1>5, GoingOn DEF Between, Quiet

\* A read without a required failure concludes the wait, ends it or lets it sleep.
LEMMA ConcludingSteps ==
  ASSUME IInv, NEW w \in Waits, wait[w].at \in Between, NEW saw \in Reads,
         "red" \notin saw, Conclude(w, saw), Quiet
  PROVE  Stepped(w)
<1>1. pinned' \subseteq Waits /\ UNCHANGED <<inFlight, perSession, cut, rows, lost>>
  BY DEF Quiet, IInv, WaitsTypeOK
<1>2. CASE "pending" \notin saw
  <2>1. EndHaving(w, "concluded", saw) /\ sink' = sink
    BY <1>2 DEF Conclude
  <2>2. saw \cap {"red", "pending"} = {}
    BY <1>2
  <2> QED
    BY <1>1, <2>1, <2>2, EndingSteps DEF Ends, Told
<1>3. CASE "pending" \in saw /\ wait[w].aborted
  <2>1. EndHaving(w, "cancelled", {}) /\ sink' = sink
    BY <1>3 DEF Conclude, End
  <2> QED
    BY <1>1, <2>1, NothingSeen, EndingSteps DEF Ends, Told
<1>4. CASE "pending" \in saw /\ ~wait[w].aborted /\ wait[w].left <= PollInterval
  <2>1. EndHaving(w, "timed-out", saw) /\ sink' = [sink EXCEPT ![w] = "timed-out"]
    BY <1>4 DEF Conclude
  <2> QED
    BY <1>1, <2>1, EndingSteps DEF Ends, Told
<1>5. CASE "pending" \in saw /\ ~wait[w].aborted /\ ~(wait[w].left <= PollInterval)
  <2>1. Sleep(w, PollInterval)
    BY <1>5 DEF Conclude
  <2>2. wait[w].left \in Nat
    BY RowIsRow DEF IInv, WaitRows
  <2> QED
    BY <1>5, <2>1, <2>2, SleepingSteps, WaitsAssumption
<1> QED
  BY <1>2, <1>3, <1>4, <1>5
-----------------------------------------------------------------------------
\* Every step of a wait between admission and settling is a Stepped one.
LEMMA EnsuringSteps ==
  ASSUME IInv, NEW w \in Waits,
         NotEnsured(w) \/ EnsureFails(w) \/ \E asked \in Asked : Ensured(w, asked)
  PROVE  Stepped(w)
<1>1. pinned \subseteq Waits /\ wait[w] \in WaitRows
  BY RowIsRow DEF IInv, WaitsTypeOK
<1>2. CASE NotEnsured(w) \/ EnsureFails(w)
  <2>1. /\ wait[w].at \in Between /\ EndHaving(w, "error", {})
        /\ UNCHANGED <<pinned, sink, inFlight, perSession, cut, rows, lost>>
    BY <1>2 DEF NotEnsured, EnsureFails, End, At, Between
  <2> QED
    BY <1>1, <2>1, NothingSeen, EndingSteps DEF Ends, Told
<1>3. ASSUME NEW asked \in Asked, Ensured(w, asked)
      PROVE  Stepped(w)
  <2> DEFINE row == [wait[w] EXCEPT !.at = "read", !.left = Clamp(asked), !.limit = Limit]
  <2>1. Clamp(asked) \in 0..Cap /\ Limit \in 0..Limit
    BY WaitsAssumption DEF Clamp
  <2>2. row \in WaitRows /\ row.at = "read" /\ row.from = wait[w].from
    BY <1>1, <2>1 DEF WaitRows, Points
  <2>3. /\ wait[w].at \in Between /\ wait' = [wait EXCEPT ![w] = row]
        /\ pinned' \subseteq Waits
        /\ UNCHANGED <<sink, inFlight, perSession, cut, rows, lost>>
    BY <1>1, <1>3 DEF Ensured, At, Between, IInv, WaitsTypeOK
  <2> QED
    BY <2>2, <2>3, GoingOn DEF Between
<1> QED
  BY <1>2, <1>3

LEMMA ReadingSteps ==
  ASSUME IInv, NEW w \in Waits,
         \/ ReadFails(w)
         \/ \E backoff \in Backoffs : RateLimited(w, backoff)
         \/ \E saw \in Reads : ReadChecks(w, saw)
  PROVE  Stepped(w)
<1>1. pinned \subseteq Waits /\ wait[w] \in WaitRows /\ wait[w].left \in Nat
  BY RowIsRow DEF IInv, WaitsTypeOK, WaitRows
<1>2. wait[w].at \in Between
  BY DEF ReadFails, RateLimited, ReadChecks, At, Between
<1>3. CASE ReadFails(w)
  <2>1. EndHaving(w, "error", {}) /\ sink' = sink /\ Quiet
    BY <1>3 DEF ReadFails, End
  <2> QED
    BY <1>1, <1>2, <2>1, NothingSeen, EndingSteps DEF Quiet, Ends, Told
<1>4. ASSUME NEW backoff \in Backoffs, RateLimited(w, backoff)
      PROVE  Stepped(w)
  <2>1. backoff \in Nat /\ Quiet
    BY <1>4, WaitsAssumption DEF RateLimited
  <2>2. CASE BacksOff(wait[w].left, backoff)
    <3>1. backoff <= wait[w].left /\ Sleep(w, backoff)
      BY <1>1, <1>4, <2>1, <2>2 DEF BacksOff, RateLimited
    <3> QED
      BY <1>2, <2>1, <3>1, SleepingSteps
  <2>3. CASE ~BacksOff(wait[w].left, backoff)
    <3>1. EndHaving(w, "timed-out", {}) /\ sink' = [sink EXCEPT ![w] = "timed-out"]
      BY <1>4, <2>3 DEF RateLimited, TimeOut, End
    <3> QED
      BY <1>1, <1>2, <2>1, <3>1, NothingSeen, EndingSteps DEF Quiet, Ends, Told
  <2> QED
    BY <2>2, <2>3
<1>5. ASSUME NEW saw \in Reads, ReadChecks(w, saw)
      PROVE  Stepped(w)
  <2>1. Quiet
    BY <1>5 DEF ReadChecks
  <2>2. CASE Judged(saw)
    <3> DEFINE row == [wait[w] EXCEPT !.at = "judge", !.saw = saw]
    <3>1. row \in WaitRows /\ row.at = "judge" /\ row.from = wait[w].from
      BY <1>1 DEF WaitRows, Points
    <3>2. wait' = [wait EXCEPT ![w] = row] /\ sink' = sink
      BY <1>5, <2>2 DEF ReadChecks, IInv, WaitsTypeOK
    <3> QED
      BY <1>1, <1>2, <2>1, <3>1, <3>2, GoingOn DEF Between, Quiet
  <2>3. CASE ~Judged(saw)
    <3>1. "red" \notin saw /\ Conclude(w, saw)
      BY <1>5, <2>3 DEF Judged, ReadChecks
    <3> QED
      BY <1>2, <2>1, <3>1, ConcludingSteps
  <2> QED
    BY <2>2, <2>3
<1> QED
  BY <1>3, <1>4, <1>5

LEMMA JudgingSteps ==
  ASSUME IInv, NEW w \in Waits, Judge(w)
  PROVE  Stepped(w)
<1>1. /\ pinned \subseteq Waits /\ wait[w].saw \in Reads
      /\ wait[w].at \in Between /\ Quiet
  BY RowIsRow DEF IInv, WaitsTypeOK, WaitRows, Judge, At, Between
<1>2. CASE End(w, "error") /\ UNCHANGED sink
  BY <1>1, <1>2, NothingSeen, EndingSteps DEF End, Quiet, Ends, Told
<1>3. CASE /\ "red" \in wait[w].saw /\ EndHaving(w, "red", wait[w].saw)
           /\ sink' = [sink EXCEPT ![w] = "red"]
  BY <1>1, <1>3, EndingSteps DEF Quiet, Ends, Told
<1>4. CASE "red" \notin wait[w].saw /\ Conclude(w, wait[w].saw)
  BY <1>1, <1>4, ConcludingSteps
<1> QED
  BY <1>2, <1>3, <1>4 DEF Judge

LEMMA WakingSteps ==
  ASSUME IInv, NEW w \in Waits, Wake(w) \/ (Cancel(w) /\ wait[w].at \in Between)
  PROVE  Stepped(w)
<1>1. pinned \subseteq Waits /\ wait[w] \in WaitRows
  BY RowIsRow DEF IInv, WaitsTypeOK
<1>2. CASE Wake(w)
  <2> DEFINE row == [wait[w] EXCEPT !.at = "read", !.until = 0]
  <2>1. 0 \in 0..Cap /\ "read" \in Points
    BY WaitsAssumption DEF Points
  <2>2. row \in WaitRows /\ row.at = "read" /\ row.from = wait[w].from
    BY <1>1, <2>1 DEF WaitRows
  <2>3. wait[w].at \in Between /\ wait' = [wait EXCEPT ![w] = row] /\ Quiet /\ sink' = sink
    BY <1>2 DEF Wake, At, Between, IInv, WaitsTypeOK
  <2> QED
    BY <1>1, <2>2, <2>3, GoingOn DEF Between, Quiet
<1>3. CASE Cancel(w) /\ wait[w].at \in Between
  <2> DEFINE row == [wait[w] EXCEPT !.aborted = TRUE]
  <2>1. row \in WaitRows /\ row.at = wait[w].at /\ row.from = wait[w].from
    BY <1>1 DEF WaitRows
  <2>2. wait' = [wait EXCEPT ![w] = row] /\ Quiet /\ sink' = sink
    BY <1>3 DEF Cancel, IInv, WaitsTypeOK
  <2> QED
    BY <1>1, <1>3, <2>1, <2>2, GoingOn DEF Quiet
<1> QED
  BY <1>2, <1>3

-----------------------------------------------------------------------------
\* The waits of session s that are under way.
Of(s) == {w \in Inside : wait[w].from = s}

LEMMA InsideIsFinite == IsFiniteSet(Inside) /\ \A s : IsFiniteSet(Of(s))
<1>1. IsFiniteSet(Inside)
  BY FS_Subset, WaitsAssumption DEF Inside
<1>2. ASSUME NEW s PROVE IsFiniteSet(Of(s))
  BY <1>1, FS_Subset DEF Of
<1> QED
  BY <1>1, <1>2

\* Where the same waits are under way, of the same sessions, the counters that
\* did not move still count them.
LEMMA SamePlaces ==
  ASSUME PlacesCountWaits, UNCHANGED <<inFlight, perSession, cut>>,
         \A w \in Waits :
            /\ wait'[w].from = wait[w].from
            /\ wait'[w].at \in {"new", "done"} <=> wait[w].at \in {"new", "done"}
  PROVE  PlacesCountWaits'
<1>1. Inside' = Inside
  BY DEF Inside
<1>2. ASSUME NEW s \in Sessions
      PROVE  {w \in Inside' : wait'[w].from = s} = {w \in Inside : wait[w].from = s}
  BY <1>1 DEF Inside
<1> QED
  BY <1>1, <1>2 DEF PlacesCountWaits

LEMMA SteppedKeeps ==
  ASSUME IInv, NEW w \in Waits, Stepped(w)
  PROVE  IInv'
<1>1. /\ \A v \in Waits \ {w} : wait'[v] = wait[v] /\ sink'[v] = sink[v]
      /\ wait' \in [Waits -> WaitRows] /\ sink' \in [Waits -> Told \cup {"none"}]
  BY DEF Stepped, IInv, WaitsTypeOK, WaitRows
<1>2. WaitsTypeOK'
  BY <1>1 DEF Stepped, IInv, WaitsTypeOK, WaitRows
<1>3. PlacesCountWaits'
  <2>1. \A v \in Waits :
            /\ wait'[v].from = wait[v].from
            /\ wait'[v].at \in {"new", "done"} <=> wait[v].at \in {"new", "done"}
    BY <1>1 DEF Stepped, Between
  <2> QED
    BY <2>1, SamePlaces DEF Stepped, IInv
<1>4. ASSUME NEW v \in Waits PROVE VerdictOf(v)'
  <2>1. VerdictOf(v)
    BY DEF IInv
  <2>2. CASE v # w
    BY <1>1, <2>1, <2>2 DEF VerdictOf, At, EndIsTrue, Stepped
  <2>3. CASE v = w /\ wait'[w].at = "settle"
    BY <2>1, <2>3 DEF VerdictOf, At, Stepped, Between
  <2>4. CASE v = w /\ wait'[w].at # "settle"
    BY <2>1, <2>4 DEF VerdictOf, At, Stepped, Between
  <2> QED
    BY <2>2, <2>3, <2>4
<1> QED
  BY <1>2, <1>3, <1>4 DEF IInv

\* Steps of others: of the lock service, of time, of another caller's abort.
LEMMA SameWaitsKeep ==
  ASSUME IInv, UNCHANGED waitVars
  PROVE  IInv'
<1>1. WaitsTypeOK'
  BY DEF IInv, WaitsTypeOK, waitVars
<1>2. PlacesCountWaits'
  BY SamePlaces DEF IInv, waitVars
<1>3. ASSUME NEW v \in Waits PROVE VerdictOf(v)'
  BY DEF IInv, VerdictOf, At, EndIsTrue, waitVars
<1> QED
  BY <1>1, <1>2, <1>3 DEF IInv

LEMMA TickKeeps ==
  ASSUME IInv, Tick
  PROVE  IInv'
<1>1. ASSUME NEW v \in Waits
      PROVE  /\ wait'[v] \in WaitRows
             /\ wait'[v].from = wait[v].from /\ wait'[v].at = wait[v].at
             /\ wait'[v].end = wait[v].end /\ wait'[v].saw = wait[v].saw
  <2>1. wait[v] \in WaitRows
    BY RowIsRow DEF IInv
  <2>2. Less(wait[v].left) \in 0..Cap /\ Less(wait[v].limit) \in 0..Limit
    BY <2>1, WaitsAssumption DEF WaitRows, Less
  <2>3. wait'[v] = [wait[v] EXCEPT !.left = Less(@), !.limit = Less(@)]
    BY DEF Tick
  <2> QED
    BY <2>1, <2>2, <2>3 DEF WaitRows
<1>2. UNCHANGED <<inFlight, perSession, pinned, cut, rows, lost, sink>>
  BY DEF Tick, Quiet
<1>3. wait' \in [Waits -> WaitRows]
  BY <1>1 DEF Tick
<1>4. WaitsTypeOK'
  BY <1>2, <1>3 DEF IInv, WaitsTypeOK, WaitRows
<1>5. PlacesCountWaits'
  BY <1>1, <1>2, SamePlaces DEF IInv
<1>6. ASSUME NEW v \in Waits PROVE VerdictOf(v)'
  BY <1>1, <1>2 DEF IInv, VerdictOf, At, EndIsTrue
<1> QED
  BY <1>4, <1>5, <1>6 DEF IInv

\* Any other moment of a wait that an abort may come at changes nothing it owes.
LEMMA CancelKeeps ==
  ASSUME IInv, NEW w \in Waits, Cancel(w)
  PROVE  IInv'
<1>1. wait[w].at \in Between
  BY RowIsRow DEF IInv, WaitRows, Points, Cancel, At, Between
<1> QED
  BY <1>1, WakingSteps, SteppedKeeps

-----------------------------------------------------------------------------
\* The steps that move the counters, and the one that could and must not.
LEMMA AdmitKeeps ==
  ASSUME IInv, NEW w \in Waits, NEW s \in Sessions, Admit(w, s)
  PROVE  IInv'
<1>1. /\ wait[w] \in WaitRows /\ wait[w].at = "new"
      /\ sink[w] = "none" /\ rows[w] = <<>> /\ w \notin lost /\ w \notin cut
  BY RowIsRow DEF IInv, Admit, At, VerdictOf
<1>2. UNCHANGED <<pinned, cut, sink, rows, lost>>
  BY DEF Admit
<1>3. CASE Admitted(s)
  <2> DEFINE row == [wait[w] EXCEPT !.at = "ensuring", !.from = s]
  <2>1. /\ wait' = [wait EXCEPT ![w] = row]
        /\ inFlight' = inFlight + 1 /\ perSession' = [perSession EXCEPT ![s] = @ + 1]
    BY <1>3 DEF Admit, IInv, WaitsTypeOK
  <2>2. row \in WaitRows /\ row.at = "ensuring" /\ row.from = s
    BY <1>1 DEF WaitRows, Points
  <2>3. WaitsTypeOK'
    <3>1. wait' \in [Waits -> WaitRows]
      BY <2>1, <2>2 DEF IInv, WaitsTypeOK, WaitRows
    <3>2. inFlight' \in 0..PerProcess /\ perSession' \in [Sessions -> 0..PerSession]
      BY <1>3, <2>1, WaitsAssumption DEF IInv, WaitsTypeOK, Admitted
    <3> QED
      BY <1>2, <3>1, <3>2 DEF IInv, WaitsTypeOK, WaitRows
  <2>4. w \notin Inside /\ Inside' = Inside \cup {w}
    BY <1>1, <1>2, <2>1, <2>2 DEF Inside, IInv, WaitsTypeOK
  <2>5. ASSUME NEW t \in Sessions
        PROVE  /\ w \notin Of(t)
               /\ Of(t)' = IF t = s THEN Of(t) \cup {w} ELSE Of(t)
    BY <2>1, <2>2, <2>4 DEF Of, Inside, IInv, WaitsTypeOK
  <2>6. PlacesCountWaits'
    <3>1. inFlight' = Cardinality(Inside')
      BY <2>1, <2>4, InsideIsFinite, FS_AddElement DEF IInv, PlacesCountWaits
    <3>2. ASSUME NEW t \in Sessions PROVE perSession'[t] = Cardinality(Of(t)')
      <4>1. perSession[t] = Cardinality(Of(t))
        BY DEF IInv, PlacesCountWaits, Of
      <4>2. Cardinality(Of(t) \cup {w}) = Cardinality(Of(t)) + 1
        BY <2>5, InsideIsFinite, FS_AddElement
      <4> QED
        BY <2>1, <2>5, <4>1, <4>2 DEF IInv, WaitsTypeOK
    <3> QED
      BY <3>1, <3>2 DEF PlacesCountWaits, Of
  <2>7. ASSUME NEW v \in Waits PROVE VerdictOf(v)'
    BY <1>1, <1>2, <2>1, <2>2 DEF IInv, WaitsTypeOK, VerdictOf, At, EndIsTrue
  <2> QED
    BY <2>3, <2>6, <2>7 DEF IInv
<1>4. CASE ~Admitted(s)
  <2> DEFINE row == [wait[w] EXCEPT !.at = "done", !.end = "refused"]
  <2>1. wait' = [wait EXCEPT ![w] = row] /\ UNCHANGED <<inFlight, perSession>>
    BY <1>4 DEF Admit, IInv, WaitsTypeOK
  <2>2. row \in WaitRows /\ row.at = "done" /\ row.end = "refused" /\ row.from = wait[w].from
    BY <1>1 DEF WaitRows, Points, Ends
  <2>3. WaitsTypeOK'
    BY <1>2, <2>1, <2>2 DEF IInv, WaitsTypeOK, WaitRows
  <2>4. PlacesCountWaits'
    BY <1>1, <1>2, <2>1, <2>2, SamePlaces DEF IInv, WaitsTypeOK
  <2>5. ASSUME NEW v \in Waits PROVE VerdictOf(v)'
    BY <1>1, <1>2, <2>1, <2>2 DEF IInv, WaitsTypeOK, VerdictOf, At, EndIsTrue, Told
  <2> QED
    BY <2>3, <2>4, <2>5 DEF IInv
<1> QED
  BY <1>3, <1>4

\* A wait that leaves gives back the place it took, its session's and the service's.
LEMMA PlaceGivenBack ==
  ASSUME IInv, NEW w \in Waits, w \in Inside, Vacate(w), Inside' = Inside \ {w},
         \A v \in Waits \ {w} : wait'[v].from = wait[v].from
  PROVE  /\ inFlight' \in 0..PerProcess /\ perSession' \in [Sessions -> 0..PerSession]
         /\ PlacesCountWaits'
<1> DEFINE from == wait[w].from
<1>1. ASSUME NEW t \in Sessions
      PROVE  Of(t)' = Of(t) \ {w} /\ (w \in Of(t) <=> t = from)
  BY DEF Of, Inside
<1>2. /\ inFlight' = inFlight - 1 /\ inFlight' \in 0..PerProcess
      /\ inFlight' = Cardinality(Inside')
  <2>1. Cardinality(Inside \ {w}) = Cardinality(Inside) - 1 /\ Cardinality(Inside \ {w}) \in Nat
    BY InsideIsFinite, FS_RemoveElement, FS_CardinalityType
  <2>2. inFlight = Cardinality(Inside) /\ inFlight \in 0..PerProcess
    BY DEF IInv, PlacesCountWaits, WaitsTypeOK
  <2>3. inFlight' = IF inFlight > 0 THEN inFlight - 1 ELSE 0
    BY DEF Vacate
  <2> QED
    BY <2>1, <2>2, <2>3, WaitsAssumption
<1>3. ASSUME NEW t \in Sessions
      PROVE  perSession'[t] = Cardinality(Of(t)') /\ perSession'[t] \in 0..PerSession
  <2>1. perSession[t] = Cardinality(Of(t)) /\ perSession[t] \in 0..PerSession
    BY DEF IInv, PlacesCountWaits, WaitsTypeOK, Of
  <2>2. /\ Cardinality(Of(t) \ {w}) = IF t = from THEN Cardinality(Of(t)) - 1
                                                 ELSE Cardinality(Of(t))
        /\ Cardinality(Of(t) \ {w}) \in Nat
    BY <1>1, InsideIsFinite, FS_RemoveElement, FS_CardinalityType
  <2>3. perSession'[t] = IF t = from /\ perSession[t] > 0 THEN perSession[t] - 1
                         ELSE IF t = from THEN 0 ELSE perSession[t]
    BY DEF Vacate, IInv, WaitsTypeOK
  <2>4. Cardinality(Of(t)') = IF t = from THEN Cardinality(Of(t)) - 1 ELSE Cardinality(Of(t))
    BY <1>1, <2>2
  <2>5. CASE t = from
    BY <2>1, <2>2, <2>3, <2>4, <2>5, WaitsAssumption
  <2>6. CASE t # from
    BY <2>1, <2>3, <2>4, <2>6
  <2> QED
    BY <2>5, <2>6
<1>4. perSession' \in [Sessions -> 0..PerSession]
  BY <1>3 DEF Vacate, IInv, WaitsTypeOK
<1> QED
  BY <1>2, <1>3, <1>4 DEF PlacesCountWaits, Of

LEMMA SettleKeeps ==
  ASSUME IInv, NEW w \in Waits, NEW stored \in BOOLEAN, EndWait(w, stored)
  PROVE  IInv'
<1> DEFINE row == [wait[w] EXCEPT !.at = "done", !.from = NoSession, !.saw = {}]
<1>1. /\ wait[w] \in WaitRows /\ wait[w].at = "settle" /\ rows[w] = <<>> /\ w \notin lost
      /\ sink[w] = Owed(wait[w].end) /\ w \notin cut
  BY RowIsRow DEF IInv, EndWait, At, VerdictOf
<1>2. wait' = [wait EXCEPT ![w] = row] /\ sink' = [sink EXCEPT ![w] = "none"]
      /\ pinned' = pinned \ {w} /\ cut' = cut
  BY DEF EndWait, IInv, WaitsTypeOK
<1>3. row \in WaitRows /\ row.at = "done" /\ row.end = wait[w].end
  BY <1>1, NothingSeen DEF WaitRows, Points
<1>4. w \in Inside /\ Inside' = Inside \ {w}
  BY <1>1, <1>2, <1>3 DEF Inside, IInv, WaitsTypeOK
<1>5. /\ inFlight' \in 0..PerProcess /\ perSession' \in [Sessions -> 0..PerSession]
      /\ PlacesCountWaits'
  <2>1. \A v \in Waits \ {w} : wait'[v].from = wait[v].from
    BY <1>2 DEF IInv, WaitsTypeOK
  <2> QED
    BY <1>4, <2>1, PlaceGivenBack DEF EndWait
<1>8. rows' \in [Waits -> Seq(Told)] /\ lost' \subseteq Waits
  <2>1. rows \in [Waits -> Seq(Told)] /\ lost \subseteq Waits
        /\ sink[w] \in Told \cup {"none"}
    BY DEF IInv, WaitsTypeOK
  <2>2. sink[w] # "none" => Append(rows[w], sink[w]) \in Seq(Told)
    BY <2>1
  <2> QED
    BY <2>1, <2>2 DEF EndWait, Terminal
<1>9. WaitsTypeOK'
  <2>1. wait' \in [Waits -> WaitRows] /\ sink' \in [Waits -> Told \cup {"none"}]
    BY <1>2, <1>3 DEF IInv, WaitsTypeOK, WaitRows
  <2> QED
    BY <1>2, <1>5, <1>8, <2>1 DEF IInv, WaitsTypeOK, WaitRows
<1>10. ASSUME NEW v \in Waits PROVE VerdictOf(v)'
  <2>1. VerdictOf(v)
    BY DEF IInv
  <2>2. CASE v # w
    <3>1. /\ wait'[v] = wait[v] /\ sink'[v] = sink[v] /\ rows'[v] = rows[v]
          /\ v \in lost' <=> v \in lost
          /\ v \in cut' <=> v \in cut
      BY <1>2, <2>2 DEF EndWait, IInv, WaitsTypeOK
    <3> QED
      BY <2>1, <3>1 DEF VerdictOf, At, EndIsTrue
  <2>3. CASE v = w
    <3>1. wait'[w].at = "done" /\ wait'[w].end = wait[w].end /\ sink'[w] = "none"
      BY <1>2, <1>3 DEF IInv, WaitsTypeOK
    <3>2. w \notin lost' => rows'[w] = IF wait[w].end \in Told THEN <<wait[w].end>> ELSE <<>>
      <4>1. CASE wait[w].end \in Told
        <5>1. sink[w] = wait[w].end /\ sink[w] # "none"
          BY <1>1, <4>1 DEF Owed, Told
        <5>2. w \notin lost' => rows'[w] = Append(<<>>, wait[w].end)
          BY <1>1, <5>1 DEF EndWait, Terminal, IInv, WaitsTypeOK
        <5> QED
          BY <4>1, <5>2
      <4>2. CASE wait[w].end \notin Told
        BY <1>1, <4>2 DEF Owed, EndWait, Terminal
      <4> QED
        BY <4>1, <4>2
    <3> QED
      BY <1>1, <1>2, <2>3, <3>1, <3>2 DEF VerdictOf, At
  <2> QED
    BY <2>2, <2>3
<1> QED
  BY <1>5, <1>9, <1>10 DEF IInv

\* The pipeline's limit: the call gives back its place, and the sink, which is empty
\* until the handler ends, is taken empty.
LEMMA LimitKeeps ==
  ASSUME IInv, NEW w \in Waits, LimitFires(w)
  PROVE  IInv'
<1> DEFINE row == [wait[w] EXCEPT !.aborted = TRUE]
<1>1. /\ wait[w] \in WaitRows /\ wait[w].at \in {"read", "judge", "asleep"}
      /\ sink[w] = "none" /\ rows[w] = <<>> /\ w \notin lost /\ w \notin cut
  BY RowIsRow DEF IInv, LimitFires, VerdictOf
<1>2. /\ wait' = [wait EXCEPT ![w] = row] /\ sink' = sink
      /\ pinned' = pinned \ {w} /\ cut' = cut \cup {w} /\ UNCHANGED <<rows, lost>>
  BY <1>1 DEF LimitFires, IInv, WaitsTypeOK
<1>3. row \in WaitRows /\ row.at = wait[w].at
  BY <1>1 DEF WaitRows
<1>4. w \in Inside /\ Inside' = Inside \ {w}
  BY <1>1, <1>2, <1>3 DEF Inside, IInv, WaitsTypeOK
<1>5. /\ inFlight' \in 0..PerProcess /\ perSession' \in [Sessions -> 0..PerSession]
      /\ PlacesCountWaits'
  <2>1. \A v \in Waits \ {w} : wait'[v].from = wait[v].from
    BY <1>2 DEF IInv, WaitsTypeOK
  <2> QED
    BY <1>4, <2>1, PlaceGivenBack DEF LimitFires
<1>6. WaitsTypeOK'
  BY <1>2, <1>3, <1>5 DEF IInv, WaitsTypeOK, WaitRows
<1>7. ASSUME NEW v \in Waits PROVE VerdictOf(v)'
  <2>1. VerdictOf(v)
    BY DEF IInv
  <2>2. CASE v # w
    <3>1. wait'[v] = wait[v] /\ (v \in cut' <=> v \in cut)
      BY <1>2, <2>2 DEF IInv, WaitsTypeOK
    <3> QED
      BY <1>2, <2>1, <3>1 DEF VerdictOf, At, EndIsTrue
  <2>3. CASE v = w
    <3>1. wait'[w].at = wait[w].at
      BY <1>2, <1>3 DEF IInv, WaitsTypeOK
    <3> QED
      BY <1>1, <1>2, <2>3, <3>1 DEF VerdictOf, At
  <2> QED
    BY <2>2, <2>3
<1> QED
  BY <1>5, <1>6, <1>7 DEF IInv

\* The end of a handler whose call was answered at its limit gives nothing back and
\* tells nobody.
LEMMA UnheardKeeps ==
  ASSUME IInv, NEW w \in Waits, Unheard(w)
  PROVE  IInv'
<1> DEFINE row == [wait[w] EXCEPT !.at = "done", !.from = NoSession, !.saw = {}]
<1>1. wait[w] \in WaitRows /\ wait[w].at = "settle" /\ w \in cut
  BY RowIsRow DEF IInv, Unheard, At
<1>2. /\ wait' = [wait EXCEPT ![w] = row]
      /\ UNCHANGED <<inFlight, perSession, pinned, cut, rows, lost, sink>>
  BY DEF Unheard, Quiet, IInv, WaitsTypeOK
<1>3. row \in WaitRows /\ row.at = "done"
  BY <1>1, NothingSeen DEF WaitRows, Points
<1>4. WaitsTypeOK'
  BY <1>2, <1>3 DEF IInv, WaitsTypeOK, WaitRows
<1>5. PlacesCountWaits'
  <2>1. Inside' = Inside
    BY <1>1, <1>2 DEF Inside, IInv, WaitsTypeOK
  <2>2. \A v \in Inside : wait'[v].from = wait[v].from
    BY <1>1, <1>2 DEF Inside, IInv, WaitsTypeOK
  <2>3. ASSUME NEW s \in Sessions
        PROVE  {v \in Inside' : wait'[v].from = s} = {v \in Inside : wait[v].from = s}
    BY <2>1, <2>2
  <2> QED
    BY <1>2, <2>1, <2>3 DEF IInv, PlacesCountWaits
<1>6. ASSUME NEW v \in Waits PROVE VerdictOf(v)'
  <2>1. VerdictOf(v)
    BY DEF IInv
  <2>2. CASE v # w
    <3>1. wait'[v] = wait[v]
      BY <1>2, <2>2 DEF IInv, WaitsTypeOK
    <3> QED
      BY <1>2, <2>1, <3>1 DEF VerdictOf, At, EndIsTrue
  <2>3. CASE v = w
    <3>1. wait'[w].at = "done"
      BY <1>2, <1>3 DEF IInv, WaitsTypeOK
    <3> QED
      BY <1>1, <1>2, <2>1, <2>3, <3>1 DEF VerdictOf, At
  <2> QED
    BY <2>2, <2>3
<1> QED
  BY <1>4, <1>5, <1>6 DEF IInv

-----------------------------------------------------------------------------
LEMMA StartsSo == MonitoringInit => IInv
<1> SUFFICES ASSUME MonitoringInit PROVE IInv
  OBVIOUS
<1>1. \A w \in Waits : wait[w].at = "new" /\ sink[w] = "none" /\ rows[w] = <<>> /\ w \notin lost
                      /\ w \notin cut
  BY DEF MonitoringInit
<1>2. WaitsTypeOK
  <2>1. 0 \in 0..Cap /\ 0 \in 0..Limit /\ 0 \in 0..PerProcess /\ 0 \in 0..PerSession
        /\ "new" \in Points /\ "none" \in Ends /\ <<>> \in Seq(Told)
    BY WaitsAssumption DEF Points, Ends
  <2> QED
    BY <2>1, NothingSeen DEF MonitoringInit, WaitsTypeOK
<1>3. PlacesCountWaits
  <2>1. Inside = {}
    BY <1>1 DEF Inside
  <2>2. \A s \in Sessions : {w \in Inside : wait[w].from = s} = {}
    BY <2>1
  <2> QED
    BY <2>1, <2>2, FS_EmptySet DEF PlacesCountWaits, MonitoringInit
<1>4. \A w \in Waits : VerdictOf(w)
  BY <1>1 DEF VerdictOf, At
<1> QED
  BY <1>2, <1>3, <1>4 DEF IInv

LEMMA KeepsSo == IInv /\ [MonitoringNext]_allVars => IInv'
<1> SUFFICES ASSUME IInv, [MonitoringNext]_allVars PROVE IInv'
  OBVIOUS
<1>1. ASSUME NEW c \in Calls, OtherCall(c) PROVE IInv'
  BY <1>1, SameWaitsKeep DEF OtherCall
<1>2. ASSUME NEW w \in Waits, NEW s \in Sessions, Admit(w, s) PROVE IInv'
  BY <1>2, AdmitKeeps
<1>3. ASSUME NEW w \in Waits, AskForLock(w) PROVE IInv'
  BY <1>3, SameWaitsKeep DEF AskForLock
<1>4. ASSUME NEW w \in Waits, WaitStep(w) PROVE IInv'
  <2>1. CASE NotEnsured(w) \/ EnsureFails(w) \/ \E asked \in Asked : Ensured(w, asked)
    BY <2>1, EnsuringSteps, SteppedKeeps
  <2>2. CASE \/ ReadFails(w)
             \/ \E backoff \in Backoffs : RateLimited(w, backoff)
             \/ \E saw \in Reads : ReadChecks(w, saw)
    BY <2>2, ReadingSteps, SteppedKeeps
  <2>3. CASE Judge(w)
    BY <2>3, JudgingSteps, SteppedKeeps
  <2>4. CASE Wake(w)
    BY <2>4, WakingSteps, SteppedKeeps
  <2>5. CASE \E stored \in BOOLEAN : EndWait(w, stored)
    BY <2>5, SettleKeeps
  <2>6. CASE LimitFires(w)
    BY <2>6, LimitKeeps
  <2>7. CASE Unheard(w)
    BY <2>7, UnheardKeeps
  <2> QED
    BY <1>4, <2>1, <2>2, <2>3, <2>4, <2>5, <2>6, <2>7 DEF WaitStep
<1>5. ASSUME NEW w \in Waits, Cancel(w) PROVE IInv'
  BY <1>5, CancelKeeps
<1>6. CASE Tick
  BY <1>6, TickKeeps
<1>7. CASE UNCHANGED allVars
  BY <1>7, SameWaitsKeep DEF allVars, waitVars
<1> QED
  BY <1>1, <1>2, <1>3, <1>4, <1>5, <1>6, <1>7 DEF MonitoringNext

\* The waits' state keeps its type (dispatchMonitoringWait, awaitChecks).
THEOREM WaitsTypeCorrect == MonitoringSpec => []WaitsTypeOK
<1>1. IInv => WaitsTypeOK
  BY DEF IInv
<1> QED
  BY <1>1, StartsSo, KeepsSo, PTL DEF MonitoringSpec

\* The counters that admit waits count exactly the waits under way, however each
\* of them ends (dispatchMonitoringWait's two finally blocks), at the pipeline's
\* limit with a handler still at work included.
THEOREM PlacesAlwaysCount == MonitoringSpec => []PlacesCountWaits
<1>1. IInv => PlacesCountWaits
  BY DEF IInv
<1> QED
  BY <1>1, StartsSo, KeepsSo, PTL DEF MonitoringSpec

\* A required check that failed is never passed over, and an operator is told once
\* and truly of each wait that ended red or out of time while its call was under
\* way, and of no wait cut off at the pipeline's limit (awaitChecks, takeTerminal,
\* invokeModuleWithinLimit).
THEOREM VerdictsAlwaysTold == MonitoringSpec => []VerdictsToldOnce
<1>1. IInv => VerdictsToldOnce
  BY DEF IInv, VerdictsToldOnce, VerdictOf, At
<1> QED
  BY <1>1, StartsSo, KeepsSo, PTL DEF MonitoringSpec, VerdictsToldOnce
=============================================================================
