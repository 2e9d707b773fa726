----------------------------- MODULE GitService -----------------------------
(***************************************************************************)
(* The service as composition-root/compose.ts wires it: the dispatch       *)
(* pipeline, the recovery passes and their sweep, and the operator's       *)
(* route that resolves a parked operation, in a process that may die at    *)
(* any point and boot again on the same volume.                            *)
(***************************************************************************)
EXTENDS Recovery

CONSTANT MaxCrashes     \* bound on the times the process dies

ASSUME ServiceAssumption == MaxCrashes \in Nat

VARIABLES resolving,    \* resolving[o]: what the request of operator o has found
          crashes

serviceVars == <<dispatchVars, passVars, resolving, crashes>>

NotResolving == [op |-> Nobody, last |-> FALSE]

TypeOK ==
    /\ DispatchTypeOK
    /\ RecoveryTypeOK
    /\ resolving \in [Operators -> [op : Ops \cup {Nobody}, last : BOOLEAN]]
    /\ crashes \in Nat

Init ==
    /\ DispatchInit
    /\ RecoveryInit
    /\ resolving = [o \in Operators |-> NotResolving]
    /\ crashes = 0

-----------------------------------------------------------------------------
\* The operator's way out of a parked declaration.

BetweenParkAndMark(op) ==
    \/ pc[op] = "mark"
    \/ handler[op] = "marking"
    \/ pass[DeclarationOf[op]].state = "marking"

\* From its audit record to its mark a call awaits no I/O: a crash may come in
\* between, a request may not.
MidTurn(op) ==
    \/ BetweenParkAndMark(op)
    \/ pc[op] \in {"settle", "park"}
    \/ handler[op] \in {"settling", "parking"} /\ ~Recording(op)

\* The parked entries are read and the named one is settled; whether others
\* remain is decided from that reading.
ResolveParked(o, op) ==
    /\ resolving[o] = NotResolving
    /\ \A p \in Ops : ~MidTurn(p)
    /\ op \in Parked(DeclarationOf[op])
    /\ SettledBy(op, "human")
    /\ resolving' = [resolving EXCEPT
                        ![o] = [op |-> op, last |-> Parked(DeclarationOf[op]) = {op}]]
    /\ Record(o)
    /\ UNCHANGED <<lockVars, pc, result, context, handlerVars, treeVars, gateVars, clone, faults,
                   passVars, crashes>>

\* Once the audit record is written, the mark is cleared if that was the last.
ClearParked(o) ==
    /\ resolving[o].op # Nobody
    /\ \A p \in Ops : ~MidTurn(p)
    /\ AppendDone(o)
    /\ resolving' = [resolving EXCEPT ![o] = NotResolving]
    /\ clone' = IF resolving[o].last
                THEN [clone EXCEPT ![DeclarationOf[resolving[o].op]] = "ready"]
                ELSE clone
    /\ UNCHANGED <<journalVars, lockVars, pc, result, context, audited, handlerVars, treeVars,
                   gateVars, closedBy, faults, passVars, crashes>>

-----------------------------------------------------------------------------
\* Mutation of Leftovers: what is not parked is left to the first call.
NoLeftovers == {}

Leftovers == {d \in Declarations : UnsettledOf(d) # {}}

\* The process dies and boots again: every call, lock, pin, claim and handler
\* is gone, the journal, the clone rows, the audit trail and the trees are not.
\* A push already sent may still land.
CrashAndBoot ==
    /\ crashes < MaxCrashes
    /\ crashes' = crashes + 1
    /\ pc' = [op \in Ops |-> IF pc[op] \in {"idle"} \cup Ended THEN pc[op] ELSE "lost"]
    /\ handler' = [op \in Ops |-> IF handler[op] = "none" THEN "none" ELSE "ended"]
    /\ wire' = wire \cup {op \in Ops : OnTheWire(op)}
    /\ mutation' = Free
    /\ mat' = [d \in Declarations |-> Free]
    /\ pins' = [d \in Declarations |-> 0]
    /\ recovered' = {}
    /\ recovering' = {}
    /\ pass' = [d \in Declarations |-> NoPass]
    /\ sweep' = Leftovers
    /\ sweeping' = {}
    /\ resolving' = [o \in Operators |-> NotResolving]
    /\ appends' = <<>>
    /\ UNCHANGED <<journalVars, treeVars, result, context, audited, prog, clone, closedBy,
                   faults>>

Idle == UNCHANGED serviceVars /\ \A op \in Ops : pc[op] \in Ended

Next ==
    \/ (\E op \in Ops : CallStep(op)) /\ UNCHANGED <<passVars, resolving, crashes>>
    \/ (\E d \in Declarations : PassStep(d)) /\ UNCHANGED <<resolving, crashes>>
    \/ \E o \in Operators, op \in Ops : ResolveParked(o, op)
    \/ \E o \in Operators : ClearParked(o)
    \/ CrashAndBoot
    \/ Idle

Spec == Init /\ [][Next]_serviceVars

-----------------------------------------------------------------------------
\* Every await of the code ends by itself: lock holders finish, handlers have a
\* limit, store writes and audit appends return, passes work through a finite
\* snapshot.  Nothing is assumed of clients (Arrive), of the timers that end a
\* wait early, or of a push nobody waits for.
CallProgress(op) ==
    /\ \/ Ensured(op)
       \/ BeginCall(op)
       \/ HandlerStep(op)
       \/ \E outcome \in {"ok", "failed", "unknown"} :
             HandlerReturns(op, outcome) \/ RawAudits(op, outcome)
       \/ WriteAudit(op) \/ SettleCall(op) \/ ParkCall(op) \/ MarkCall(op)
       \/ RawFinishes(op) \/ RawReturns(op)
    /\ UNCHANGED <<passVars, resolving, crashes>>

PassProgress(d) == PassStep(d) /\ UNCHANGED <<resolving, crashes>>

Fairness ==
    /\ \A op \in Ops : WF_serviceVars(CallProgress(op))
    /\ \A d \in Declarations : WF_serviceVars(PassProgress(d))
    /\ \A o \in Operators : WF_serviceVars(ClearParked(o))

FairSpec == Spec /\ Fairness

-----------------------------------------------------------------------------
\* What has really happened, which no part of the code records.
Touched(op) == \E i \in 1..prog[op] : ProgramOf(op)[i] # "step"

\* A call that may act holds both locks, and a lock is held by nobody else: not
\* by a call that was refused, that ended, or whose limit fired (invariants C1
\* and C2 of design/20-contract.md, with the release in the pipeline's finally).
LockDiscipline ==
    /\ \A op \in Ops : pc[op] \in Held =>
          mutation.current = op /\ mat[DeclarationOf[op]].current = op
    /\ \A op \in Ops : mutation.current = op => pc[op] \in {"mutWait"} \cup Held
    /\ \A d \in Declarations, op \in Ops : mat[d].current = op =>
          DeclarationOf[op] = d /\ pc[op] \in {"matWait", "mutWait"} \cup Held

\* A clone changes only under the running handler of a call whose intent is on
\* the books, and a remote only for a call that recorded the step first
\* (invariants R1 and R2).
IntentBeforeEffect ==
    [][\A d \in Declarations :
          /\ git'[d] # git[d] => \E op \in Ops :
                /\ DeclarationOf[op] = d
                /\ pc[op] = "running" /\ InState(op, {"intended"})
                /\ mutation.current = op
          /\ remote'[d] # remote[d] => \E op \in Ops :
                DeclarationOf[op] = d /\ prog'[op] > prog[op] /\ entry[op].steps > 0]_serviceVars

\* Recovery settles as `nothing-happened` only a call that changed nothing and
\* whose push is not still on its way (journal.classify).
ForgottenNeverActed ==
    \A op \in Ops : closedBy[op] = "forgotten" => ~Touched(op) /\ op \notin wire

\* Recovery settles as `completed` only a call whose effect is there: what its
\* descriptor observes is not some other call's doing.  It can be once a store
\* write has failed: a failed call left open by it is judged after later calls.
\* And of a push that named another branch than the one checked out it observes
\* nothing at all (NamedPushesArrived).
EffectPresent(op) ==
    LET d == DeclarationOf[op] IN
    IF ToolOf[op] = "git_push" THEN remote[d] = git[d]["head"]
                               ELSE prog[op] = Len(ProgramOf(op))

CompletedIsTrue ==
    [][\A op \in Ops :
          faults = 0 /\ ToolOf[op] # "push_elsewhere"
              /\ closedBy[op] = "nobody" /\ closedBy'[op] = "completed"
              => EffectPresent(op)]_serviceVars

\* What git/recovery-descriptors.ts says of GIT_PUSH_RECOVERY: a push that is
\* judged `completed` is one that landed, the ref of the branch it pushed shows
\* it.  The code reads the ref of the branch that is checked out.
NamedPushesArrived ==
    \A op \in Ops :
        ToolOf[op] = "push_elsewhere" /\ closedBy[op] = "completed" => prog[op] > 1

\* An entry a human was asked to look at is settled by a human: no later call,
\* no late handler and no recovery pass takes it out of `attention`.
ParkedUntilResolved ==
    [][\A op \in Ops :
          InState(op, {"attention"}) =>
              InState(op, {"attention"})' \/ closedBy'[op] = "human"]_serviceVars

\* A recovery pass works only on the entries of dead processes: it never judges
\* a call of this process that is still running, nor the resume it started.
RecoveryMeetsNoLiveCall ==
    \A d \in Declarations : \A op \in pass[d].todo :
        pc[op] \in Ended /\ handler[op] \in {"none", "ended"}

\* Every call that reaches the service ends, whatever it queued behind and
\* whoever recovers first: the wait for the pass, the pass's own resume and
\* the two locks never wait on each other in a circle (invariants C2 and R8).
EveryCallEnds == \A op \in Ops : pc[op] # "idle" ~> pc[op] \in Ended

\* What a dead process left unsettled is settled or parked without anyone
\* asking for it: the sweep reaches it, or the first call does.
LeftoversAreDecided ==
    \A op \in Ops :
        pc[op] = "lost" /\ InState(op, {"intended", "applied"})
            ~> InState(op, {"settled", "attention"})

-----------------------------------------------------------------------------
\* The service implements the serial ledger.
Holders == {op \in Ops : pc[op] \in Held}

Ledger == INSTANCE SerialLedger WITH
    actor <- IF Holders = {} THEN Nobody ELSE CHOOSE op \in Holders : TRUE,
    book  <- [op \in Ops |->
                CASE InState(op, {"none"}) -> "new"
                  [] InState(op, {"intended", "applied"}) -> "open"
                  [] InState(op, {"attention"}) -> "parked"
                  [] OTHER -> "closed"],
    acted <- {op \in Ops : Touched(op)},
    sent  <- wire

\* One mutation at a time, on the books before it acts, off them only closed or
\* parked, across every crash.
ImplementsLedger == Ledger!Spec

=============================================================================
