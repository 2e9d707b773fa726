------------------------------ MODULE Dispatch ------------------------------
(***************************************************************************)
(* The mutating path of the dispatch pipeline                              *)
(* (src/src/dispatch/dispatch-pipeline.ts, dispatchMutating), with the     *)
(* locks it takes, the journal it writes and the handler it runs.          *)
(*                                                                         *)
(* The process is one event loop.  A pipeline step below runs from one     *)
(* await on real I/O to the next; two store writes that follow each other  *)
(* without such an await are still two steps where a crash between them    *)
(* leaves the store in a state recovery has to deal with.                  *)
(***************************************************************************)
EXTENDS Journal, Mutex

CONSTANTS Repairers,            \* calls whose session holds `attention.resolve`
          Operators,            \* console sessions that resolve parked operations
          MutationQueueDepth,   \* admission.mutationQueueDepth
          MaxFaults             \* bound on store writes that fail

ASSUME DispatchAssumption ==
    /\ Nobody \notin Ops
    /\ MutationQueueDepth \in Nat
    /\ MaxFaults \in Nat

VARIABLES
    pc,         \* pc[op]: where the call of op is in the pipeline
    result,     \* result[op]: the outcome its handler returned
    context,    \* context[op]: "recovery" for a resume the ladder dispatched
    audited,    \* the calls with a record in the audit trail
    appends,    \* the audit appends under way, which are written in order
    handler,    \* handler[op]: the tool's handler, which may outlive the call
    prog,       \* prog[op]: how many instructions of its program have happened
    wire,       \* pushes sent to the remote whose outcome nobody waits for
    git,        \* git[d]: the observable git state of the clone of d
    remote,     \* remote[d]: the head the remote has of the branch checked out
    clone,      \* clone[d]: the clone row's state
    mutation,   \* the process-wide mutation mutex
    mat,        \* mat[d]: the materialisation mutex of d
    pins,       \* pins[d]: activeOperationCount
    recovered,  \* declarations whose recovery pass has succeeded
    recovering, \* declarations whose first call awaits the pass
    closedBy,   \* closedBy[op]: who settled the entry of op
    faults      \* store writes that have failed so far

lockVars == <<mutation, mat, pins>>
auditVars == <<audited, appends>>
callVars == <<pc, result, context, auditVars>>
handlerVars == <<handler, prog, wire>>
treeVars == <<git, remote>>
gateVars == <<recovered, recovering>>
dispatchVars == <<journalVars, lockVars, callVars, handlerVars, treeVars,
                  gateVars, clone, closedBy, faults>>

\* The steps of a call.  "lost" is a call whose process died.
Held == {"running", "audit", "settle", "park", "mark"}
Ended == {"done", "refused", "lost"}
Steps == {"idle", "awaitPass", "matWait", "mutWait"} \cup Held \cup Ended
Results == {"none", "ok", "failed", "unknown"}

DispatchTypeOK ==
    /\ JournalTypeOK
    /\ pc \in [Ops -> Steps]
    /\ result \in [Ops -> Results]
    /\ context \in [Ops -> {"normal", "recovery"}]
    /\ audited \subseteq Ops
    /\ appends \in Seq(Ops \cup Operators)
    /\ handler \in [Ops -> {"none", "running", "settling", "parking", "marking", "ended"}]
    /\ prog \in [Ops -> Nat]
    /\ wire \subseteq Ops
    /\ git \in [Declarations -> GitStates]
    /\ remote \in [Declarations -> Ops \cup {Origin, Untracked}]
    /\ clone \in [Declarations -> {"ready", "needs-attention"}]
    /\ mutation \in MutexOf(Ops)
    /\ mat \in [Declarations -> MutexOf(Ops)]
    /\ pins \in [Declarations -> Nat]
    /\ recovered \subseteq Declarations
    /\ recovering \subseteq Declarations
    /\ closedBy \in [Ops -> {"nobody", "call", "forgotten", "completed", "human"}]
    /\ faults \in Nat

\* A clone is materialised before its declaration's first mutation; cloning
\* itself is the clone store's business.
DispatchInit ==
    /\ JournalInit
    /\ pc = [op \in Ops |-> "idle"]
    /\ result = [op \in Ops |-> "none"]
    /\ context = [op \in Ops |-> "normal"]
    /\ audited = {}
    /\ appends = <<>>
    /\ handler = [op \in Ops |-> "none"]
    /\ prog = [op \in Ops |-> 0]
    /\ wire = {}
    /\ git = [d \in Declarations |-> Pristine]
    /\ remote = [d \in Declarations |-> Origin]
    /\ clone = [d \in Declarations |-> "ready"]
    /\ mutation = Free
    /\ mat = [d \in Declarations |-> Free]
    /\ pins = [d \in Declarations |-> 0]
    /\ recovered = {}
    /\ recovering = {}
    /\ closedBy = [op \in Ops |-> "nobody"]
    /\ faults = 0

-----------------------------------------------------------------------------
\* Parts of steps.

Fails == faults < MaxFaults /\ faults' = faults + 1

Goto(op, step) == pc' = [pc EXCEPT ![op] = step]

\* audit.append: the record joins the trail's queue, and whoever asked for it
\* goes on when it has been written.
Record(who) == appends' = Append(appends, who) /\ UNCHANGED audited
Recording(who) == \E i \in 1..Len(appends) : appends[i] = who
AppendDone(who) == appends # <<>> /\ Head(appends) = who /\ appends' = Tail(appends)

MarkAttention(d) == clone' = [clone EXCEPT ![d] = "needs-attention"]

IsRepair(op) == op \in Repairers /\ ToolOf[op] \in LocalWrites

HasMutation(op) == mutation.current = op
HasMaterialisation(op) == mat[DeclarationOf[op]].current = op

Pinned(op) == pc[op] \in {"mutWait"} \cup Held

Unpin(n) == IF n > 0 THEN n - 1 ELSE 0

\* Mutation of ReleaseAll: the mutation lock stays with a call that has ended.
ReleaseMaterialisationOnly(op) ==
    LET d == DeclarationOf[op] IN
    /\ mat' = [mat EXCEPT ![d] = Release(@, op)]
    /\ pins' = [pins EXCEPT ![d] = IF Pinned(op) THEN Unpin(@) ELSE @]
    /\ UNCHANGED mutation

\* The release closure: the mutation lock, then the materialisation lock, then
\* the pin, each of them only if this call holds it.
ReleaseAll(op) ==
    LET d == DeclarationOf[op] IN
    /\ mutation' = Release(mutation, op)
    /\ mat' = [mat EXCEPT ![d] = Release(@, op)]
    /\ pins' = [pins EXCEPT ![d] = IF Pinned(op) THEN Unpin(@) ELSE @]

Finish(op, step) == Goto(op, step) /\ ReleaseAll(op)

SettledBy(op, who) ==
    /\ Settle(op)
    /\ closedBy' = [closedBy EXCEPT ![op] = IF InState(op, Unsettled) THEN who ELSE @]

-----------------------------------------------------------------------------
\* From the gate to the materialisation lock.

\* `describe`, the refusal of an ordinary mutation of a parked declaration, and
\* the queueing of the others at the materialisation lock.
Admit(op, where) ==
    LET d == DeclarationOf[op] IN
    /\ context' = [context EXCEPT ![op] = where]
    /\ IF clone[d] = "needs-attention" /\ where # "recovery" /\ ~IsRepair(op)
       THEN Goto(op, "refused") /\ UNCHANGED mat
       ELSE /\ mat' = [mat EXCEPT ![d] = Enqueue(@, op)]
            /\ Goto(op, "matWait")

\* A call on a declaration this process has recovered goes straight on.
Arrive(op) ==
    /\ pc[op] = "idle"
    /\ DeclarationOf[op] \in recovered
    /\ Admit(op, "normal")
    /\ UNCHANGED <<journalVars, handlerVars, treeVars, gateVars, clone, closedBy, faults,
                   result, auditVars, mutation, pins>>

\* The first one claims or joins the recovery pass and awaits it, holding nothing.
ArriveFirst(op) ==
    LET d == DeclarationOf[op] IN
    /\ pc[op] = "idle"
    /\ d \notin recovered \cup recovering
    /\ recovering' = recovering \cup {d}
    /\ Goto(op, "awaitPass")
    /\ UNCHANGED <<journalVars, handlerVars, treeVars, lockVars, clone, closedBy, faults,
                   result, context, auditVars, recovered>>

ArriveRecovering(op) ==
    /\ pc[op] = "idle"
    /\ DeclarationOf[op] \in recovering \ recovered
    /\ Goto(op, "refused")
    /\ UNCHANGED <<journalVars, handlerVars, treeVars, lockVars, gateVars, clone, closedBy,
                   faults, result, context, auditVars>>

-----------------------------------------------------------------------------
\* The locks.

\* Either wait ends early: its timer fires or its signal aborts.
GiveUpMaterialisation(op) ==
    /\ pc[op] = "matWait"
    /\ Waiting(mat[DeclarationOf[op]], op)
    /\ mat' = [mat EXCEPT ![DeclarationOf[op]] = GiveUp(@, op)]
    /\ Goto(op, "refused")
    /\ UNCHANGED <<journalVars, handlerVars, treeVars, gateVars, clone, closedBy, faults,
                   result, context, auditVars, mutation, pins>>

\* `ensure` returns the clone and a pin, and the call queues for the mutation
\* lock while it keeps the materialisation lock.
Ensured(op) ==
    LET d == DeclarationOf[op] IN
    /\ pc[op] = "matWait"
    /\ HasMaterialisation(op)
    /\ IF Full(mutation, MutationQueueDepth)
       THEN Finish(op, "refused")
       ELSE /\ mutation' = Enqueue(mutation, op)
            /\ pins' = [pins EXCEPT ![d] = @ + 1]
            /\ Goto(op, "mutWait")
            /\ UNCHANGED mat
    /\ UNCHANGED <<journalVars, handlerVars, treeVars, gateVars, clone, closedBy, faults,
                   result, context, auditVars>>

\* A call that holds the materialisation lock, or both, is refused before it
\* has written anything: `ensure` failed, the volume is too full, the
\* pre-state could not be observed or the intent record not written.
RefuseHolding(op) ==
    /\ \/ pc[op] = "matWait" /\ HasMaterialisation(op)
       \/ pc[op] = "mutWait" /\ HasMutation(op)
    /\ Finish(op, "refused")
    /\ UNCHANGED <<journalVars, handlerVars, treeVars, gateVars, clone, closedBy, faults,
                   result, context, auditVars>>

GiveUpMutation(op) ==
    LET d == DeclarationOf[op] IN
    /\ pc[op] = "mutWait"
    /\ Waiting(mutation, op)
    /\ mutation' = GiveUp(mutation, op)
    /\ mat' = [mat EXCEPT ![d] = Release(@, op)]
    /\ pins' = [pins EXCEPT ![d] = Unpin(@)]
    /\ Goto(op, "refused")
    /\ UNCHANGED <<journalVars, handlerVars, treeVars, gateVars, clone, closedBy, faults,
                   result, context, auditVars>>

\* Under both locks: observe the pre-state, write the intent, call the handler.
BeginCall(op) ==
    /\ pc[op] = "mutWait"
    /\ HasMutation(op)
    /\ Begin(op, git[DeclarationOf[op]])
    /\ Goto(op, "running")
    /\ handler' = [handler EXCEPT ![op] = "running"]
    /\ UNCHANGED <<lockVars, treeVars, gateVars, clone, closedBy, faults,
                   result, context, auditVars, prog, wire>>

-----------------------------------------------------------------------------
\* The handler, which runs its tool's program under both locks.

NextInstruction(op) == ProgramOf(op)[prog[op] + 1]
Unfinished(op) == prog[op] < Len(ProgramOf(op))
Advance(op) == prog' = [prog EXCEPT ![op] = @ + 1]

\* What a push sends is the head its call found, and nothing moves it since.
Pushed(op) == entry[op].pre["head"]

\* Mutation of WriteStep: the result of the write is dropped, and it failed.
WriteStepDropped(op) ==
    /\ NextInstruction(op) = "step"
    /\ UNCHANGED <<journalVars, treeVars>>

\* A step is recorded before the effect it announces.
WriteStep(op) ==
    /\ NextInstruction(op) = "step"
    /\ AppendStep(op)
    /\ UNCHANGED treeVars

ChangeClone(op) ==
    LET d == DeclarationOf[op] IN
    /\ NextInstruction(op) \in LocalEffects
    /\ git' = [git EXCEPT ![d] = After(NextInstruction(op), @, op, Pushed(op))]
    /\ UNCHANGED <<remote, journalVars>>

\* A ref moves that ObservedGitState has no field for.
ChangeUnseen(op) == NextInstruction(op) = "unseen" /\ UNCHANGED <<treeVars, journalVars>>

\* The remote takes a push that is a fast-forward: a new branch, or one no fetch
\* has shown to have moved at the remote.
FastForward(op) ==
    LET upstream == git[DeclarationOf[op]]["upstream"] IN
    upstream \in Ops => ToolOf[upstream] \notin {"git_fetch", "prepare_branch"}

\* A push names the ref it found at the remote, which refuses it once a push of
\* a later call has moved it.
Overtaken(op) ==
    \E p \in Ops : /\ ToolOf[p] = "git_push" /\ DeclarationOf[p] = DeclarationOf[op]
                   /\ prog[p] > 1
                   /\ entry[op].startedAt < entry[p].startedAt

LandPush(op) ==
    /\ NextInstruction(op) = "remote"
    /\ FastForward(op)
    /\ ~Overtaken(op)
    /\ remote' = [remote EXCEPT ![DeclarationOf[op]] = Pushed(op)]
    /\ UNCHANGED <<git, journalVars>>

\* Another branch moves at the remote.
LandElsewhere(op) == NextInstruction(op) = "other" /\ UNCHANGED <<treeVars, journalVars>>

ChildRuns(op) == pc[op] = "running" /\ handler[op] = "running"

HandlerStep(op) ==
    /\ ChildRuns(op)
    /\ Unfinished(op)
    /\ WriteStep(op) \/ ChangeClone(op) \/ ChangeUnseen(op) \/ LandPush(op) \/ LandElsewhere(op)
    /\ Advance(op)
    /\ UNCHANGED <<lockVars, callVars, gateVars, handler, wire, clone, closedBy, faults>>

\* A push the remote already holds lands although nobody waits for it any more.
LateLanding(op) ==
    /\ op \in wire
    /\ wire' = wire \ {op}
    /\ LandPush(op) \/ LandElsewhere(op)
    /\ Advance(op)
    /\ UNCHANGED <<lockVars, callVars, gateVars, handler, clone, closedBy, faults>>

OnTheWire(op) ==
    handler[op] = "running" /\ Unfinished(op) /\ NextInstruction(op) \in {"remote", "other"}

\* The handler succeeds at the end of its program, fails anywhere, or loses a
\* child to a signal, which leaves what the child did unknown.  An outcome that
\* is known is followed by markApplied, whose failure the pipeline ignores.
HandlerReturns(op, outcome) ==
    /\ pc[op] = "running"
    /\ handler[op] = "running"
    /\ ToolOf[op] # "git_raw"
    /\ outcome = "ok" => ~Unfinished(op)
    /\ result' = [result EXCEPT ![op] = outcome]
    /\ handler' = [handler EXCEPT ![op] = "ended"]
    /\ Goto(op, "audit")
    /\ \/ outcome # "unknown" /\ MarkApplied(op) /\ UNCHANGED faults
       \/ outcome # "unknown" /\ Fails /\ UNCHANGED journalVars
       \/ outcome = "unknown" /\ UNCHANGED <<journalVars, faults>>
    /\ Record(op)
    /\ UNCHANGED <<lockVars, treeVars, gateVars, clone, closedBy, context, prog, wire>>

\* The call's limit fires first: the call returns `timeout`, the handler's
\* children are killed, and a push already sent may still land.
LimitFires(op) ==
    /\ pc[op] = "running"
    /\ handler[op] = "running"
    /\ ToolOf[op] # "git_raw"
    /\ result' = [result EXCEPT ![op] = "unknown"]
    /\ handler' = [handler EXCEPT ![op] = "ended"]
    /\ wire' = IF OnTheWire(op) THEN wire \cup {op} ELSE wire
    /\ Goto(op, "audit")
    /\ Record(op)
    /\ UNCHANGED <<journalVars, lockVars, treeVars, gateVars, clone, closedBy, faults,
                   context, prog>>

-----------------------------------------------------------------------------
\* The end of a call.

AfterAudit(op) == IF result[op] = "unknown" THEN "park" ELSE "settle"

\* The audit record precedes the settle or the park.  The trail's single writer
\* serves the appends in order, and that one failed is not looked at.
WriteAudit(op) ==
    /\ AppendDone(op)
    /\ \/ audited' = audited \cup {op} /\ UNCHANGED faults
       \/ Fails /\ UNCHANGED audited
    /\ pc' = [pc EXCEPT ![op] = IF @ = "audit" THEN AfterAudit(op) ELSE @]
    /\ UNCHANGED <<journalVars, lockVars, handlerVars, treeVars, gateVars, clone, closedBy,
                   result, context>>

\* A settle that fails is ignored: the call returns and the entry stays unsettled.
SettleCall(op) ==
    /\ pc[op] = "settle"
    /\ \/ SettledBy(op, "call") /\ UNCHANGED faults
       \/ Fails /\ UNCHANGED <<journalVars, closedBy>>
    /\ Finish(op, "done")
    /\ UNCHANGED <<handlerVars, treeVars, gateVars, clone, result, context, auditVars>>

\* A park that fails turns the result into `infrastructure` and marks nothing.
ParkCall(op) ==
    /\ pc[op] = "park"
    /\ \/ Park(op) /\ Goto(op, "mark") /\ UNCHANGED <<lockVars, faults, result>>
       \/ /\ Fails
          /\ Finish(op, "done")
          /\ result' = [result EXCEPT ![op] = "failed"]
          /\ UNCHANGED journalVars
    /\ UNCHANGED <<handlerVars, treeVars, gateVars, clone, closedBy, context, auditVars>>

\* The clone follows its parked entry; a failure to mark it is ignored.
MarkCall(op) ==
    /\ pc[op] = "mark"
    /\ \/ MarkAttention(DeclarationOf[op]) /\ UNCHANGED faults
       \/ Fails /\ UNCHANGED clone
    /\ Finish(op, "done")
    /\ UNCHANGED <<journalVars, handlerVars, treeVars, gateVars, closedBy, result, context,
                   auditVars>>

-----------------------------------------------------------------------------
\* git_raw, whose handler settles or parks its own entry.

\* The hatch's outcome record, and what became of its child: it ran, it was
\* refused or failed, or its post-state is unknown.
RawAudits(op, outcome) ==
    /\ ToolOf[op] = "git_raw"
    /\ handler[op] = "running"
    /\ outcome = "ok" => ~Unfinished(op)
    /\ outcome = "unknown" => prog[op] > 0
    /\ result' = IF pc[op] = "running" THEN [result EXCEPT ![op] = outcome] ELSE result
    /\ Record(op)
    /\ handler' = [handler EXCEPT ![op] = IF outcome = "unknown" THEN "parking" ELSE "settling"]
    /\ UNCHANGED <<journalVars, lockVars, treeVars, gateVars, clone, closedBy, faults, pc,
                   context, prog, wire>>

\* finishRawJournal ignores the failure of every write it makes; where the settle
\* fails, the markApplied before it has happened.
RawFinishes(op) ==
    /\ ~Recording(op)
    /\ \/ /\ handler[op] = "settling"
          /\ handler' = [handler EXCEPT ![op] = "ended"]
          /\ \/ SettledBy(op, "call") /\ UNCHANGED faults
             \/ Fails /\ MarkApplied(op) /\ UNCHANGED closedBy
          /\ UNCHANGED clone
       \/ /\ handler[op] = "parking"
          /\ handler' = [handler EXCEPT ![op] = "marking"]
          /\ \/ Park(op) /\ UNCHANGED faults
             \/ Fails /\ UNCHANGED journalVars
          /\ UNCHANGED <<clone, closedBy>>
       \/ /\ handler[op] = "marking"
          /\ handler' = [handler EXCEPT ![op] = "ended"]
          /\ \/ MarkAttention(DeclarationOf[op]) /\ UNCHANGED faults
             \/ Fails /\ UNCHANGED clone
          /\ UNCHANGED <<journalVars, closedBy>>
    /\ UNCHANGED <<lockVars, callVars, treeVars, gateVars, prog, wire>>

RawReturns(op) ==
    /\ ToolOf[op] = "git_raw"
    /\ pc[op] = "running"
    /\ handler[op] = "ended"
    /\ Finish(op, "done")
    /\ UNCHANGED <<journalVars, handlerVars, treeVars, gateVars, clone, closedBy, faults,
                   result, context, auditVars>>

\* The pipeline's timer is set before the handler's, so it fires first: the call
\* returns and its locks are released while the handler, aborted, goes on to
\* observe, audit and finish its entry.
RawLimitFires(op) ==
    /\ ToolOf[op] = "git_raw"
    /\ pc[op] = "running"
    /\ handler[op] # "ended"
    /\ result' = [result EXCEPT ![op] = "unknown"]
    /\ Finish(op, "done")
    /\ UNCHANGED <<journalVars, handlerVars, treeVars, gateVars, clone, closedBy, faults,
                   context, auditVars>>

CallStep(op) ==
    \/ Arrive(op)
    \/ ArriveFirst(op)
    \/ ArriveRecovering(op)
    \/ GiveUpMaterialisation(op)
    \/ Ensured(op)
    \/ RefuseHolding(op)
    \/ GiveUpMutation(op)
    \/ BeginCall(op)
    \/ HandlerStep(op)
    \/ LateLanding(op)
    \/ \E outcome \in {"ok", "failed", "unknown"} :
          HandlerReturns(op, outcome) \/ RawAudits(op, outcome)
    \/ LimitFires(op)
    \/ WriteAudit(op)
    \/ SettleCall(op)
    \/ ParkCall(op)
    \/ MarkCall(op)
    \/ RawFinishes(op)
    \/ RawReturns(op)
    \/ RawLimitFires(op)

=============================================================================
