----------------------------- MODULE Scheduler -----------------------------
(***************************************************************************)
(* The scheduler (src/src/scheduler/scheduler.ts): jobs that hold one tool *)
(* call each until they are due, the tick that fires them, cancellation,   *)
(* and what boot makes of the jobs a dead process left running.  The       *)
(* journal is the real one; the pipeline is kept to what a job can tell    *)
(* apart: whether the call began, reached the host, and was closed.        *)
(*                                                                         *)
(* A tick reads the due jobs once and works through that list.  It awaits  *)
(* real I/O only while a job it fired is dispatched, so whatever else runs *)
(* in the process runs between two ticks or during a dispatch.             *)
(***************************************************************************)
EXTENDS Journal

CONSTANTS Jobs,         \* scheduled jobs
          JobOf,        \* the job each call is an attempt of
          HomeOf,       \* the declaration a job is for
          Skippable,    \* jobs created with skip_if_older_than
          Granted,      \* jobs created under a grant, which can be revoked
          NoAttempt,    \* no call
          LongLived,    \* may a job stay `running` for a whole retention window?
          MaxCrashes,   \* bound on the times the process dies
          MaxFaults     \* bound on the store accesses of the scheduler that fail

Attempts(j) == {op \in Ops : JobOf[op] = j}

\* A job is fired again only by a boot, so the attempts never run out.
ASSUME SchedulerAssumption ==
    /\ NoAttempt \notin Ops
    /\ JobOf \in [Ops -> Jobs]
    /\ HomeOf \in [Jobs -> Declarations]
    /\ \A op \in Ops : DeclarationOf[op] = HomeOf[JobOf[op]]
    /\ Skippable \subseteq Jobs
    /\ Granted \subseteq Jobs
    /\ LongLived \in BOOLEAN
    /\ MaxCrashes \in Nat
    /\ MaxFaults \in Nat
    /\ \A j \in Jobs : Cardinality(Attempts(j)) > MaxCrashes

VARIABLES job,      \* job[j]: the status of the row, "none" before, "deleted" after it
          due,      \* jobs whose notBefore has come
          tick,     \* the tick in flight, the rows it has still to judge, the call it awaits
          call,     \* call[op]: how far the dispatch of op has come
          result,   \* result[op]: the outcome dispatch returns
          sent,     \* calls whose request is on its way to the host
          acted,    \* calls the host has acted on
          revoked,  \* jobs whose creating grant has been revoked
          orphaned, \* orphaned declarations
          crashes, faults

inputVars == <<due, revoked, orphaned>>
callVars == <<call, result, sent, acted>>
schedulerVars == <<journalVars, job, tick, callVars, inputVars, crashes, faults>>

Terminal == {"done", "skipped", "cancelled"}
Statuses == {"none", "pending", "running", "needs-attention", "deleted"} \cup Terminal
\* A call the running process is in; "ended" has returned to the tick.
Live == {"dispatched", "running", "returned", "ended"}

TypeOK ==
    /\ JournalTypeOK
    /\ job \in [Jobs -> Statuses]
    /\ tick \in [inFlight : BOOLEAN, todo : SUBSET Jobs, firing : Ops \cup {NoAttempt}]
    /\ call \in [Ops -> Live \cup {"none", "over", "lost"}]
    /\ result \in [Ops -> {"none", "ok", "failed", "unknown"}]
    /\ sent \subseteq Ops
    /\ acted \subseteq Ops
    /\ due \subseteq Jobs
    /\ revoked \subseteq Jobs
    /\ orphaned \subseteq Declarations
    /\ crashes \in Nat
    /\ faults \in Nat

NoTick == [inFlight |-> FALSE, todo |-> {}, firing |-> NoAttempt]

Init ==
    /\ JournalInit
    /\ job = [j \in Jobs |-> "none"]
    /\ tick = NoTick
    /\ call = [op \in Ops |-> "none"]
    /\ result = [op \in Ops |-> "none"]
    /\ sent = {}
    /\ acted = {}
    /\ due = {}
    /\ revoked = {}
    /\ orphaned = {}
    /\ crashes = 0
    /\ faults = 0

-----------------------------------------------------------------------------
Fails == faults < MaxFaults /\ faults' = faults + 1

\* The tick is between two awaits: nothing else runs until it fires or ends.
MidTurn ==
    /\ tick.inFlight
    /\ tick.firing # NoAttempt => call[tick.firing] = "ended"

\* writeStatus: asks nothing of the row, and its failure is only logged.
WriteStatus(j, status) ==
    \/ job' = [job EXCEPT ![j] = status] /\ UNCHANGED faults
    \/ Fails /\ UNCHANGED job

-----------------------------------------------------------------------------
\* Clients, the operator and the clock.

Create(j) ==
    /\ ~MidTurn
    /\ job[j] = "none"
    /\ HomeOf[j] \notin orphaned
    /\ job' = [job EXCEPT ![j] = "pending"]
    /\ UNCHANGED <<journalVars, tick, callVars, inputVars, crashes, faults>>

\* Mutation of Cancellable: whatever has not ended can be cancelled.
NotYetEnded(j) == job[j] \in {"pending", "running"}

Cancellable(j) == job[j] = "pending"

Cancel(j) ==
    /\ ~MidTurn
    /\ Cancellable(j)
    /\ job' = [job EXCEPT ![j] = "cancelled"]
    /\ UNCHANGED <<journalVars, tick, callVars, inputVars, crashes, faults>>

\* cancelForDeclaration, in the transaction that orphans the declaration and
\* revokes the grants issued for it.
Orphan(d) ==
    /\ ~MidTurn
    /\ d \notin orphaned
    /\ orphaned' = orphaned \cup {d}
    /\ job' = [j \in Jobs |-> IF HomeOf[j] = d /\ job[j] = "pending" THEN "cancelled"
                                                                    ELSE job[j]]
    /\ revoked' = revoked \cup {j \in Granted : HomeOf[j] = d}
    /\ UNCHANGED <<journalVars, tick, callVars, due, crashes, faults>>

Revoke(j) ==
    /\ ~MidTurn
    /\ j \in Granted
    /\ job[j] = "pending"
    /\ revoked' = revoked \cup {j}
    /\ UNCHANGED <<journalVars, job, tick, callVars, due, orphaned, crashes, faults>>

ComesDue(j) ==
    /\ job[j] = "pending"
    /\ due' = due \cup {j}
    /\ UNCHANGED <<journalVars, job, tick, callVars, revoked, orphaned, crashes, faults>>

\* An operator resolves the parked entry of a job.
ResolveParked(op) ==
    /\ ~MidTurn
    /\ InState(op, {"attention"})
    /\ Settle(op)
    /\ UNCHANGED <<job, tick, callVars, inputVars, crashes, faults>>

-----------------------------------------------------------------------------
\* Maintenance: rows older than their retention window, which no call or tick
\* in flight can have touched, are deleted.

RetainEntries(old) ==
    /\ ~MidTurn
    /\ old # {}
    /\ \A op \in old : /\ InState(op, {"settled"})
                       /\ op # tick.firing
                       /\ LongLived \/ job[JobOf[op]] # "running"
    /\ RunRetention(old)
    /\ UNCHANGED <<job, tick, callVars, inputVars, crashes, faults>>

RetainJob(j) ==
    /\ ~MidTurn
    /\ job[j] \in Terminal
    /\ j \notin tick.todo
    /\ job' = [job EXCEPT ![j] = "deleted"]
    /\ UNCHANGED <<journalVars, tick, callVars, inputVars, crashes, faults>>

-----------------------------------------------------------------------------
\* The tick.

DuePending == {j \in due : job[j] = "pending"}

\* The timer leaves a tick in flight alone; a read that fails ends the tick.
TickReads ==
    /\ ~tick.inFlight
    /\ DuePending # {}
    /\ \/ /\ tick' = [inFlight |-> TRUE, todo |-> DuePending, firing |-> NoAttempt]
          /\ UNCHANGED faults
       \/ Fails /\ UNCHANGED tick
    /\ UNCHANGED <<journalVars, job, callVars, inputVars, crashes>>

Judging(j) == tick.inFlight /\ tick.firing = NoAttempt /\ j \in tick.todo
Judged(j) == tick' = [tick EXCEPT !.todo = @ \ {j}]

\* The job missed its window by more than its policy allows.
TickSkips(j) ==
    /\ Judging(j)
    /\ j \in Skippable
    /\ WriteStatus(j, "skipped")
    /\ Judged(j)
    /\ UNCHANGED <<journalVars, callVars, inputVars, crashes>>

\* A grant that cannot be read counts as revoked.
TickCancels(j) ==
    /\ Judging(j)
    /\ \/ j \in revoked /\ WriteStatus(j, "cancelled")
       \/ j \in Granted /\ Fails /\ job' = [job EXCEPT ![j] = "cancelled"]
    /\ Judged(j)
    /\ UNCHANGED <<journalVars, callVars, inputVars, crashes>>

\* The declaration, the tool's annotation or a capability is gone; which, and
\* whether a later amendment restores it, is not kept.
TickParks(j) ==
    /\ Judging(j)
    /\ j \notin revoked
    /\ WriteStatus(j, "needs-attention")
    /\ Judged(j)
    /\ UNCHANGED <<journalVars, callVars, inputVars, crashes>>

\* claimForFiring: UPDATE ... WHERE status = 'pending' changed a row.
ClaimWins(j) == job[j] = "pending"

TickPasses(j) ==
    /\ Judging(j)
    /\ j \notin revoked
    /\ \/ ~ClaimWins(j) /\ UNCHANGED faults
       \/ Fails
    /\ Judged(j)
    /\ UNCHANGED <<journalVars, job, callVars, inputVars, crashes>>

\* Operation ids are drawn fresh: which one an attempt gets makes no difference.
NextAttempt(j) == CHOOSE op \in Attempts(j) : call[op] = "none"

\* The job is `running` before its call is dispatched.
TickFires(j, op) ==
    /\ Judging(j)
    /\ j \notin revoked
    /\ ClaimWins(j)
    /\ op \in Attempts(j)
    /\ call[op] = "none"
    /\ op = NextAttempt(j)
    /\ job' = [job EXCEPT ![j] = "running"]
    /\ tick' = [tick EXCEPT !.todo = @ \ {j}, !.firing = op]
    /\ call' = [call EXCEPT ![op] = "dispatched"]
    /\ UNCHANGED <<journalVars, result, sent, acted, inputVars, crashes, faults>>

Outcome(op) == IF result[op] = "ok" THEN "done" ELSE "needs-attention"

TickRecords(op) ==
    /\ tick.firing = op
    /\ call[op] = "ended"
    /\ WriteStatus(JobOf[op], Outcome(op))
    /\ tick' = [tick EXCEPT !.firing = NoAttempt]
    /\ call' = [call EXCEPT ![op] = "over"]
    /\ UNCHANGED <<journalVars, result, sent, acted, inputVars, crashes>>

\* Mutation of TickEnds: the in-flight flag is not reset.
TickStaysInFlight ==
    /\ tick.firing = NoAttempt
    /\ tick.todo = {}
    /\ tick' = [NoTick EXCEPT !.inFlight = TRUE]
    /\ UNCHANGED <<journalVars, job, callVars, inputVars, crashes, faults>>

TickEnds ==
    /\ tick.inFlight
    /\ tick.firing = NoAttempt
    /\ tick.todo = {}
    /\ tick' = NoTick
    /\ UNCHANGED <<journalVars, job, callVars, inputVars, crashes, faults>>

-----------------------------------------------------------------------------
\* The call of a firing job.

Goto(op, step) == call' = [call EXCEPT ![op] = step]

\* Refused at any gate before the intent record, or that record's write failed.
CallRefused(op) ==
    /\ call[op] = "dispatched"
    /\ Goto(op, "ended")
    /\ result' = [result EXCEPT ![op] = "failed"]
    /\ UNCHANGED <<journalVars, job, tick, sent, acted, inputVars, crashes, faults>>

\* The unique index allows a job one entry.
CallBegins(op) ==
    /\ call[op] = "dispatched"
    /\ \A p \in Attempts(JobOf[op]) : ~Exists(p)
    /\ Begin(op, Pristine)
    /\ Goto(op, "running")
    /\ UNCHANGED <<job, tick, result, sent, acted, inputVars, crashes, faults>>

CallWritesStep(op) ==
    /\ call[op] = "running"
    /\ entry[op].steps = 0
    /\ AppendStep(op)
    /\ UNCHANGED <<job, tick, callVars, inputVars, crashes, faults>>

\* hostMutation sends its request only once the step has been written.
CallSends(op) ==
    /\ call[op] = "running"
    /\ entry[op].steps > 0
    /\ op \notin sent \cup acted
    /\ sent' = sent \cup {op}
    /\ UNCHANGED <<journalVars, job, tick, call, result, acted, inputVars, crashes, faults>>

\* A request the host holds lands, whoever still waits for it.
HostActs(op) ==
    /\ op \in sent
    /\ sent' = sent \ {op}
    /\ acted' = acted \cup {op}
    /\ UNCHANGED <<journalVars, job, tick, call, result, inputVars, crashes, faults>>

\* The handler answers or its limit fires; an outcome that is known is followed
\* by markApplied, whose failure is ignored, and every one by the audit append.
CallReturns(op, outcome) ==
    /\ call[op] = "running"
    /\ outcome = "ok" => op \in acted
    /\ Goto(op, "returned")
    /\ result' = [result EXCEPT ![op] = outcome]
    /\ \/ outcome # "unknown" /\ MarkApplied(op) /\ UNCHANGED faults
       \/ outcome # "unknown" /\ Fails /\ UNCHANGED journalVars
       \/ outcome = "unknown" /\ UNCHANGED <<journalVars, faults>>
    /\ UNCHANGED <<job, tick, sent, acted, inputVars, crashes>>

\* An unknown outcome parks the entry and every other settles it; a settle that
\* fails is ignored, and a park that fails turns the result into a failure.
CallCloses(op) ==
    /\ call[op] = "returned"
    /\ Goto(op, "ended")
    /\ IF result[op] = "unknown"
       THEN \/ Park(op) /\ UNCHANGED <<result, faults>>
            \/ Fails /\ result' = [result EXCEPT ![op] = "failed"] /\ UNCHANGED journalVars
       ELSE \/ Settle(op) /\ UNCHANGED <<result, faults>>
            \/ Fails /\ UNCHANGED <<result, journalVars>>
    /\ UNCHANGED <<job, tick, sent, acted, inputVars, crashes>>

-----------------------------------------------------------------------------
\* Death, boot and recovery.

\* Mutation of StatusAtBoot: what is not settled is tried again.
RetriedAtBoot(j) ==
    LET found == {op \in Attempts(j) : Exists(op)} IN
    IF \E op \in found : InState(op, {"settled"}) THEN "done" ELSE "pending"

\* resolveRunningAtBoot, from the job's journal entry alone.
StatusAtBoot(j) ==
    LET found == {op \in Attempts(j) : Exists(op)} IN
    CASE found = {}                                     -> "pending"
      [] \E op \in found : InState(op, {"settled"})     -> "done"
      [] \E op \in found : InState(op, {"attention"})   -> "needs-attention"
      [] OTHER                                          -> "running"

Running == {j \in Jobs : job[j] = "running"}

\* revalidatePending, after the running jobs have been resolved: a pending job
\* the new image's registry no longer fits is parked.
Revalidated(status, fits) == IF status = "pending" /\ ~fits THEN "needs-attention" ELSE status

\* The jobs whose entry cannot be read, or whose row not written, stay `running`.
CrashAndBoot(unread, unfit) ==
    /\ crashes < MaxCrashes
    /\ crashes' = crashes + 1
    /\ unread \subseteq Running
    /\ IF unread = {} THEN UNCHANGED faults ELSE Fails
    /\ job' = [j \in Jobs |-> Revalidated(IF j \in Running \ unread THEN StatusAtBoot(j)
                                                                   ELSE job[j],
                                          j \notin unfit)]
    /\ tick' = NoTick
    /\ call' = [op \in Ops |-> IF call[op] = "none" THEN "none" ELSE "lost"]
    /\ UNCHANGED <<journalVars, result, sent, acted, inputVars>>

\* Recovery reaches the entry after boot has resolved the jobs, on the sweep or
\* on first use, and finds the clone as it was or changed by someone else.
Recover(op, moved) ==
    LET observed == IF moved THEN [entry[op].pre EXCEPT !["head"] = op] ELSE entry[op].pre IN
    /\ ~MidTurn
    /\ call[op] = "lost"
    /\ InState(op, {"intended", "applied"})
    /\ IF Classify(op, observed) \in {"nothing-happened", "completed"}
       THEN Settle(op)
       ELSE Park(op)
    /\ UNCHANGED <<job, tick, callVars, inputVars, crashes, faults>>

-----------------------------------------------------------------------------
TickStep ==
    \/ TickReads
    \/ \E j \in Jobs : \/ TickSkips(j) \/ TickCancels(j) \/ TickParks(j) \/ TickPasses(j)
                       \/ \E op \in Ops : TickFires(j, op)
    \/ \E op \in Ops : TickRecords(op)
    \/ TickEnds

CallStep(op) ==
    \/ CallRefused(op)
    \/ CallBegins(op)
    \/ CallWritesStep(op)
    \/ CallSends(op)
    \/ HostActs(op)
    \/ \E outcome \in {"ok", "failed", "unknown"} : CallReturns(op, outcome)
    \/ CallCloses(op)

BetweenTicks == ~tick.inFlight /\ UNCHANGED schedulerVars

Next ==
    \/ \E j \in Jobs : Create(j) \/ Cancel(j) \/ Revoke(j) \/ ComesDue(j) \/ RetainJob(j)
    \/ \E d \in Declarations : Orphan(d)
    \/ \E op \in Ops : ResolveParked(op) \/ \E moved \in BOOLEAN : Recover(op, moved)
    \/ \E old \in SUBSET Ops : RetainEntries(old)
    \/ TickStep
    \/ \E op \in Ops : CallStep(op)
    \/ \E unread, unfit \in SUBSET Jobs : CrashAndBoot(unread, unfit)
    \/ BetweenTicks

Spec == Init /\ [][Next]_schedulerVars

\* The timer fires again and again, a tick's own steps follow each other, and a
\* dispatched call ends: every handler has a limit and every store access
\* returns.  Nothing is assumed of clients, the host, recovery or maintenance.
CallEnds(op) ==
    \/ CallRefused(op)
    \/ CallBegins(op)
    \/ \E outcome \in {"ok", "failed", "unknown"} : CallReturns(op, outcome)
    \/ CallCloses(op)

FairSpec ==
    /\ Spec
    /\ WF_schedulerVars(TickStep)
    /\ WF_schedulerVars(\E op \in Ops : CallEnds(op))

-----------------------------------------------------------------------------
\* R10: a job's tool call reaches the host at most once, whatever crashes come
\* between the claim, the intent record, the request and the job's own row, and
\* however boot, recovery, the operator and retention follow each other.
ActsAtMostOnce ==
    \A p, q \in acted \cup sent : JobOf[p] = JobOf[q] => p = q

\* A job reported as cancelled or skipped has not reached the host and never
\* will: no request of it is on its way either.
CancelledNeverActs ==
    \A op \in acted \cup sent : job[JobOf[op]] \notin {"cancelled", "skipped"}

\* A decided job is not put back in service, by a tick that read it as pending
\* or by a boot; a job fires from `pending` alone.
DecidedStaysDecided ==
    [][\A j \in Jobs : job[j] \in Terminal \cup {"needs-attention", "deleted"} =>
          job'[j] \notin {"none", "pending", "running"}]_schedulerVars

\* A due job is decided: no failed claim, lost tick or crash leaves it waiting.
DueJobsAreDecided ==
    \A j \in Jobs : (j \in due /\ job[j] = "pending") ~> (job[j] # "pending")

=============================================================================
