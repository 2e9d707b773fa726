---------------------------- MODULE LockService ----------------------------
(***************************************************************************)
(* What the lock service promises, without queues or handles: each lock    *)
(* has at most one owner, a call waits only while the lock is owned, and   *)
(* the lock passes, the moment its owner gives it up, to the waiting call  *)
(* that asked for it first (src/src/locks/locks.ts:40-43, "FIFO by         *)
(* arrival").                                                              *)
(***************************************************************************)
EXTENDS Naturals

CONSTANTS Calls, Locks, Nobody

VARIABLES owner,    \* owner[l]: the call that owns lock l, or Nobody
          waiting,  \* waiting[l]: the calls that wait for l
          earlier,  \* earlier[l]: the pairs <<c, d>> of waiters where c asked before d
          fresh     \* the calls that have asked for nothing yet

vars == <<owner, waiting, earlier, fresh>>

Init ==
    /\ owner = [l \in Locks |-> Nobody]
    /\ waiting = [l \in Locks |-> {}]
    /\ earlier = [l \in Locks |-> {}]
    /\ fresh = Calls

\* A lock's waiters and their order once the calls in gone have left.
Leave(l, gone) ==
    /\ waiting' = [waiting EXCEPT ![l] = @ \ gone]
    /\ earlier' = [earlier EXCEPT ![l] =
                      {p \in @ : p[1] \notin gone /\ p[2] \notin gone}]

\* A call that is turned away before it waits or owns anything.
TurnAway(c) ==
    /\ c \in fresh
    /\ fresh' = fresh \ {c}
    /\ UNCHANGED <<owner, waiting, earlier>>

Take(c, l) ==
    /\ c \in fresh
    /\ owner[l] = Nobody
    /\ owner' = [owner EXCEPT ![l] = c]
    /\ fresh' = fresh \ {c}
    /\ UNCHANGED <<waiting, earlier>>

Wait(c, l) ==
    /\ c \in fresh
    /\ owner[l] # Nobody
    /\ waiting' = [waiting EXCEPT ![l] = @ \cup {c}]
    /\ earlier' = [earlier EXCEPT ![l] = @ \cup {<<d, c>> : d \in waiting[l]}]
    /\ fresh' = fresh \ {c}
    /\ UNCHANGED owner

StopWaiting(c, l) ==
    /\ c \in waiting[l]
    /\ Leave(l, {c})
    /\ UNCHANGED <<owner, fresh>>

\* The owner gives the lock up; the call nobody asked before owns it next.
HandOver(l) ==
    /\ owner[l] # Nobody
    /\ \/ /\ waiting[l] = {}
          /\ owner' = [owner EXCEPT ![l] = Nobody]
          /\ UNCHANGED <<waiting, earlier>>
       \/ \E c \in waiting[l] :
             /\ \A d \in waiting[l] : <<d, c>> \notin earlier[l]
             /\ owner' = [owner EXCEPT ![l] = c]
             /\ Leave(l, {c})
    /\ UNCHANGED fresh

Next ==
    \/ \E c \in Calls : TurnAway(c)
    \/ \E c \in Calls, l \in Locks : Take(c, l) \/ Wait(c, l) \/ StopWaiting(c, l)
    \/ \E l \in Locks : HandOver(l)

Spec == Init /\ [][Next]_vars

=============================================================================
