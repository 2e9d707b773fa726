------------------------------- MODULE Locks -------------------------------
(***************************************************************************)
(* The lock service (src/src/locks/locks.ts, createLocks): one mutation    *)
(* mutex for the process, whose wait queue is bounded, and one             *)
(* materialisation mutex per declaration, whose queue is not.  A call asks *)
(* for one lock once and is answered once: it is refused, gives up, or is  *)
(* granted a handle it later releases, possibly more than once.            *)
(***************************************************************************)
EXTENDS Mutex

CONSTANTS Calls,            \* calls of acquireMutation and acquireMaterialisation
          DeclarationIds,   \* one materialisation mutex each
          Mutation,         \* the name of the process-wide mutex
          MutationQueueDepth

ASSUME LocksAssumption ==
    /\ Nobody \notin Calls
    /\ Mutation \notin DeclarationIds
    /\ MutationQueueDepth \in Nat

Locks == DeclarationIds \cup {Mutation}

VARIABLES mutex,    \* mutex[l]: the holder and the waiters of lock l
          call,     \* call[c]: how far call c has come
          wants     \* wants[c]: the lock c asked for, once it asked

vars == <<mutex, call, wants>>

Answered == {"cancelled", "queue-full", "acquire-timeout"}
CallStates == {"new", "waiting", "holding", "released"} \cup Answered

TypeOK ==
    /\ mutex \in [Locks -> MutexOf(Calls)]
    /\ call \in [Calls -> CallStates]
    /\ wants \in [Calls -> Locks]

Init ==
    /\ mutex = [l \in Locks |-> Free]
    /\ call = [c \in Calls |-> "new"]
    /\ wants \in [Calls -> Locks]

\* How a call's state follows from the mutex it waits at or holds: the promise
\* of a granted waiter resolves in the turn in which the mutex grants it.
Granted(l, m) == [c \in Calls |->
    IF wants[c] = l /\ call[c] = "waiting" /\ m.current = c THEN "holding" ELSE call[c]]

Bounded(l) == l = Mutation /\ Full(mutex[l], MutationQueueDepth)

\* A signal already aborted when the call is made is answered before anything else.
AcquireAborted(c) ==
    /\ call[c] = "new"
    /\ call' = [call EXCEPT ![c] = "cancelled"]
    /\ UNCHANGED <<mutex, wants>>

AcquireRefused(c) ==
    /\ call[c] = "new"
    /\ Bounded(wants[c])
    /\ call' = [call EXCEPT ![c] = "queue-full"]
    /\ UNCHANGED <<mutex, wants>>

Acquire(c) ==
    LET l == wants[c]
        m == Enqueue(mutex[l], c)
    IN  /\ call[c] = "new"
        /\ ~Bounded(l)
        /\ mutex' = [mutex EXCEPT ![l] = m]
        /\ call' = [call EXCEPT ![c] = IF m.current = c THEN "holding" ELSE "waiting"]
        /\ UNCHANGED wants

\* The wait's timer fires, or its signal aborts, while the call is still queued.
StopWaiting(c, answer) ==
    /\ call[c] = "waiting"
    /\ mutex' = [mutex EXCEPT ![wants[c]] = GiveUp(@, c)]
    /\ call' = [call EXCEPT ![c] = answer]
    /\ UNCHANGED wants

Timeout(c) == StopWaiting(c, "acquire-timeout")
Abort(c) == StopWaiting(c, "cancelled")

ReleaseLock(c) ==
    LET l == wants[c]
        m == Release(mutex[l], c)
    IN  /\ call[c] = "holding"
        /\ mutex' = [mutex EXCEPT ![l] = m]
        /\ call' = [Granted(l, m) EXCEPT ![c] = "released"]
        /\ UNCHANGED wants

\* The dispatch pipeline releases from a `finally`, so a handle may be released
\* again after another call was granted the lock.
ReleaseAgain(c) ==
    LET l == wants[c]
        m == Release(mutex[l], c)
    IN  /\ call[c] = "released"
        /\ mutex' = [mutex EXCEPT ![l] = m]
        /\ call' = Granted(l, m)
        /\ UNCHANGED wants

Next == \E c \in Calls :
    \/ AcquireAborted(c)
    \/ AcquireRefused(c)
    \/ Acquire(c)
    \/ Timeout(c)
    \/ Abort(c)
    \/ ReleaseLock(c)
    \/ ReleaseAgain(c)

\* Every holder releases: the pipeline's release is in a `finally`
\* (src/src/dispatch/dispatch-pipeline.ts:863-874).  Nothing is assumed of the
\* wait timers.
Fairness == \A c \in Calls : WF_vars(ReleaseLock(c))

Spec == Init /\ [][Next]_vars /\ Fairness

-----------------------------------------------------------------------------
\* A call believes it holds a lock exactly when that lock's mutex names it, and
\* believes it waits exactly when it stands once in that queue: no grant is
\* lost by a give-up or a second release, and no waiter is granted twice.
CallsAgreeWithMutex ==
    \A c \in Calls :
        /\ call[c] = "holding" <=> mutex[wants[c]].current = c
        /\ call[c] = "waiting" <=> Waiting(mutex[wants[c]], c)
        /\ \A i, j \in 1..Len(mutex[wants[c]].queue) :
              mutex[wants[c]].queue[i] = c /\ mutex[wants[c]].queue[j] = c => i = j
        /\ \A l \in Locks \ {wants[c]} : mutex[l].current # c /\ ~Waiting(mutex[l], c)

\* A free mutex has nobody waiting at it: every way of leaving a mutex, and
\* every way of leaving its queue, passes the lock on.
NoLostWakeup == \A l \in Locks : mutex[l].current = Nobody => mutex[l].queue = <<>>

\* At most MutationQueueDepth calls wait for the mutation lock, whatever was
\* refused or gave up before.
QueueWithinDepth == Len(mutex[Mutation].queue) <= MutationQueueDepth

-----------------------------------------------------------------------------
\* The queues, read as what LockService promises of them.
askedBefore == [l \in Locks |->
    {p \in Calls \X Calls :
        \E i, j \in 1..Len(mutex[l].queue) :
            i < j /\ mutex[l].queue[i] = p[1] /\ mutex[l].queue[j] = p[2]}]

Service == INSTANCE LockService WITH
    owner   <- [l \in Locks |-> mutex[l].current],
    waiting <- [l \in Locks |-> {c \in Calls : Waiting(mutex[l], c)}],
    earlier <- askedBefore,
    fresh   <- {c \in Calls : call[c] = "new"}

\* The mutexes of locks.ts implement first-come-first-served exclusive locks.
ImplementsLockService == Service!Spec

=============================================================================
