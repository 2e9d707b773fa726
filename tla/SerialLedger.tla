---------------------------- MODULE SerialLedger ----------------------------
(***************************************************************************)
(* What the service promises of mutations, without locks, journal or       *)
(* recovery (design/10-design.md, Concurrency and ordering, and Boot and   *)
(* recovery): one operation at a time changes a repository; it is on the   *)
(* books before it changes anything; and it leaves the books only closed,  *)
(* or parked for a human, whatever crashes come in between.                *)
(***************************************************************************)
CONSTANTS Ops, Nobody

VARIABLES actor,    \* the operation that may change a clone now
          book,     \* book[op]: "new", "open", "parked" or "closed"
          acted,    \* the operations that have changed a clone or a remote
          sent      \* pushes that may still land after their operation ended

vars == <<actor, book, acted, sent>>

Init ==
    /\ actor = Nobody
    /\ book = [op \in Ops |-> "new"]
    /\ acted = {}
    /\ sent = {}

Open(op) ==
    /\ actor = Nobody
    /\ book[op] = "new"
    /\ actor' = op
    /\ book' = [book EXCEPT ![op] = "open"]
    /\ UNCHANGED <<acted, sent>>

Act(op) ==
    /\ actor = op
    /\ book[op] = "open"
    /\ acted' = acted \cup {op}
    /\ UNCHANGED <<actor, book, sent>>

\* The operation in progress outruns its limit with a push already under way.
Send ==
    /\ actor # Nobody
    /\ sent' = sent \cup {actor}
    /\ UNCHANGED <<actor, book, acted>>

\* The operation in progress ends or dies with its process.
Leave ==
    /\ actor # Nobody
    /\ actor' = Nobody
    /\ sent' \in {sent, sent \cup {actor}}
    /\ UNCHANGED <<book, acted>>

Land(op) ==
    /\ op \in sent
    /\ sent' = sent \ {op}
    /\ acted' = acted \cup {op}
    /\ UNCHANGED <<actor, book>>

\* Closing an operation that is not the actor's is recovery's work, or the late
\* handler's; a parked one is closed by a human.
Close(op) ==
    /\ book[op] \in {"open", "parked"}
    /\ book' = [book EXCEPT ![op] = "closed"]
    /\ actor' \in {actor, IF actor = op THEN Nobody ELSE actor}
    /\ UNCHANGED <<acted, sent>>

ParkOp(op) ==
    /\ book[op] = "open"
    /\ book' = [book EXCEPT ![op] = "parked"]
    /\ UNCHANGED <<actor, acted, sent>>

Next ==
    \/ Send \/ Leave
    \/ \E op \in Ops : Open(op) \/ Act(op) \/ Land(op) \/ Close(op) \/ ParkOp(op)

Spec == Init /\ [][Next]_vars

=============================================================================
