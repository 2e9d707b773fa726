------------------------------- MODULE Mutex -------------------------------
(***************************************************************************)
(* The one mutex every lock of the service is an instance of              *)
(* (src/src/locks/locks.ts, createMutex): a current holder and a queue of  *)
(* waiters, granted strictly in order of arrival.  It is stated as         *)
(* operators on a value, so that the lock service and the dispatch         *)
(* pipeline, which owns several of these values, share one definition.     *)
(*                                                                         *)
(* A waiter that gives up leaves the queue in the same turn in which it is *)
(* settled (finish splices it out), so the queue never holds a settled     *)
(* waiter and grantNext's `continue` has nothing to skip: the queue here   *)
(* is exactly the waiters that still want the lock.                        *)
(***************************************************************************)
EXTENDS Naturals, Sequences

CONSTANT Nobody         \* the holder of a free mutex (`null` in the code)

\* A mutex of the callers in S.
MutexOf(S) == [current : S \cup {Nobody}, queue : Seq(S)]

Free == [current |-> Nobody, queue |-> <<>>]

\* Mutation of GrantNext: the waiter that arrived last is granted first.
GrantLast(m) ==
    IF m.current = Nobody /\ m.queue # <<>>
    THEN [current |-> m.queue[Len(m.queue)], queue |-> SubSeq(m.queue, 1, Len(m.queue) - 1)]
    ELSE m

\* The head of the queue, if there is one, becomes the holder of a free mutex.
GrantNext(m) ==
    IF m.current = Nobody /\ m.queue # <<>>
    THEN [current |-> Head(m.queue), queue |-> Tail(m.queue)]
    ELSE m

\* A held mutex refuses a caller outright once `depth` waiters are queued.
Full(m, depth) == m.current # Nobody /\ Len(m.queue) >= depth

Enqueue(m, h) == GrantNext([m EXCEPT !.queue = Append(@, h)])

Waiting(m, h) == \E i \in 1..Len(m.queue) : m.queue[i] = h

\* The first position h waits at.
Place(m, h) ==
    CHOOSE i \in 1..Len(m.queue) :
        m.queue[i] = h /\ \A j \in 1..(i - 1) : m.queue[j] # h

\* A timeout or an abort takes the waiter out of the queue.
GiveUp(m, h) ==
    LET at == Place(m, h) IN
    [m EXCEPT !.queue = [i \in 1..(Len(@) - 1) |->
                            IF i < at THEN @[i] ELSE @[i + 1]]]

\* Releasing a handle that no longer holds the mutex frees nothing.
Release(m, h) ==
    GrantNext(IF m.current = h THEN [m EXCEPT !.current = Nobody] ELSE m)

=============================================================================
