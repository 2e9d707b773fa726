---------------------------- MODULE TimersProofs ----------------------------
(***************************************************************************)
(* Proofs about the two parts of the service that act from a timer on what *)
(* the journal holds.                                                      *)
(*                                                                         *)
(* The scheduler: for any number of jobs, attempts, crashes and failing    *)
(* store accesses, a job's tool call reaches the host at most once and     *)
(* never after the job was reported cancelled or skipped, as long as no    *)
(* job stays `running` for a whole retention window.                       *)
(*                                                                         *)
(* The notifier: for any number of notices, entries, tries and mishaps, a  *)
(* row is sent once and once more for each trouble it had (what it is owed *)
(* rests on the claim: OutboxInv), and whoever enqueues a notice is told   *)
(* what became of it (TruthInv).                                           *)
(***************************************************************************)
EXTENDS Scheduler, Outbox, CommonProofs

-----------------------------------------------------------------------------
(***************************************************************************)
(* The scheduler.                                                          *)
(***************************************************************************)
\* A call whose entry was begun, whatever became of the entry since.
HasBegun(op) == entry[op].state # "none"
Unbegun(j) == \A op \in Ops : JobOf[op] = j => ~HasBegun(op)

\* The one call the process may be in is the one the tick awaits, and its job
\* is `running`.
FiringRuns ==
    /\ tick.firing # NoAttempt =>
          /\ tick.inFlight
          /\ call[tick.firing] \in Live
          /\ job[JobOf[tick.firing]] = "running"
    /\ \A op \in Ops : call[op] \in Live => op = tick.firing

\* The jobs a tick has still to judge are pending or were cancelled meanwhile.
TodoIsPendingOrCancelled ==
    \A j \in tick.todo : job[j] \in {"pending", "cancelled"}

\* An entry belongs to a call that was dispatched, and only a call with an
\* entry has a request on its way or at the host.
BegunWereDispatched ==
    /\ \A op \in Ops : HasBegun(op) => call[op] \notin {"none", "dispatched"}
    /\ \A op \in acted \cup sent : HasBegun(op)
    /\ \A op \in Ops : call[op] \in {"running", "returned"} => HasBegun(op)

\* A job that may still fire, or is about to, has no attempt that began, and a
\* job that will not fire never had one.
FiresUnbegun ==
    /\ \A j \in Jobs : job[j] \in {"none", "pending", "cancelled", "skipped"} => Unbegun(j)
    /\ \A op \in Ops : call[op] = "dispatched" => Unbegun(JobOf[op])

OneAttemptBegins ==
    \A p, q \in Ops : HasBegun(p) /\ HasBegun(q) /\ JobOf[p] = JobOf[q] => p = q

\* What boot reads of a running job is all there ever was.
RunningKeepsItsEntry ==
    \A op \in Ops : entry[op].state = "deleted" => job[JobOf[op]] # "running"

Order ==
    /\ FiringRuns
    /\ TodoIsPendingOrCancelled
    /\ BegunWereDispatched
    /\ FiresUnbegun
    /\ OneAttemptBegins
    /\ RunningKeepsItsEntry

Inv == TypeOK /\ Order

-----------------------------------------------------------------------------
\* Type correctness, one group of actions at a time.

\* No transaction of the journal, as far as a scheduled call makes one, leaves
\* the table ill formed.
LEMMA EntryStepKeepsType ==
  ASSUME JournalTypeOK, NEW op \in Ops,
         AppendStep(op) \/ MarkApplied(op) \/ Settle(op) \/ Park(op) \/ UNCHANGED journalVars
  PROVE  JournalTypeOK'
<1>1. CASE UNCHANGED journalVars
  BY <1>1 DEF journalVars, JournalTypeOK
<1> QED
  BY <1>1, AppendStepKeepsType, MarkAppliedKeepsType, SettleKeepsType, ParkKeepsType

\* The initial state is well formed.
LEMMA InitIsTyped == Init => TypeOK
  BY InitHasType DEF Init, TypeOK, NoTick, Statuses, Terminal, Live

\* Clients, operators, the clock and maintenance write well-formed rows.
LEMMA InputKeepsType ==
  ASSUME TypeOK,
         \/ \E j \in Jobs : Create(j) \/ Cancel(j) \/ Revoke(j) \/ ComesDue(j) \/ RetainJob(j)
         \/ \E d \in Declarations : Orphan(d)
  PROVE  TypeOK'
<1>1. JournalTypeOK'
  BY DEF TypeOK, Create, Cancel, Revoke, ComesDue, RetainJob, Orphan, journalVars, JournalTypeOK
<1>2. ASSUME NEW j \in Jobs, Create(j) \/ Cancel(j) \/ RetainJob(j)
      PROVE  TypeOK'
  BY <1>1, <1>2 DEF TypeOK, Create, Cancel, RetainJob, callVars, inputVars, Statuses, Terminal
<1>3. ASSUME NEW j \in Jobs, Revoke(j) \/ ComesDue(j)
      PROVE  TypeOK'
  BY <1>1, <1>3 DEF TypeOK, Revoke, ComesDue, callVars
<1>4. ASSUME NEW d \in Declarations, Orphan(d)
      PROVE  TypeOK'
  BY <1>1, <1>4, SchedulerAssumption DEF TypeOK, Orphan, callVars, Statuses, Terminal
<1> QED
  BY <1>2, <1>3, <1>4

\* What the operator, recovery and retention do to the journal.
LEMMA ClosingKeepsType ==
  ASSUME TypeOK,
         \/ \E op \in Ops : ResolveParked(op) \/ \E moved \in BOOLEAN : Recover(op, moved)
         \/ \E old \in SUBSET Ops : RetainEntries(old)
  PROVE  TypeOK'
<1>1. ASSUME NEW op \in Ops, ResolveParked(op) \/ \E moved \in BOOLEAN : Recover(op, moved)
      PROVE  TypeOK'
  <2>1. Settle(op) \/ Park(op)
    BY <1>1 DEF ResolveParked, Recover
  <2>2. JournalTypeOK'
    BY <2>1, EntryStepKeepsType DEF TypeOK
  <2>3. UNCHANGED <<job, tick, callVars, inputVars, crashes, faults>>
    BY <1>1 DEF ResolveParked, Recover
  <2> QED
    BY <2>2, <2>3 DEF TypeOK, callVars, inputVars
<1>2. ASSUME NEW old \in SUBSET Ops, RetainEntries(old)
      PROVE  TypeOK'
  <2>1. JournalTypeOK'
    BY <1>2, RunRetentionKeepsType DEF TypeOK, RetainEntries
  <2> QED
    BY <1>2, <2>1 DEF TypeOK, RetainEntries, callVars, inputVars
<1> QED
  BY <1>1, <1>2

\* A tick's own writes.
LEMMA TickKeepsType ==
  ASSUME TypeOK, TickStep
  PROVE  TypeOK'
<1>1. JournalTypeOK'
  BY DEF TypeOK, TickStep, TickReads, TickSkips, TickCancels, TickParks, TickPasses, TickFires,
         TickRecords, TickEnds, journalVars, JournalTypeOK
<1>2. CASE TickReads \/ TickEnds
  <2>1. DuePending \in SUBSET Jobs
    BY DEF DuePending, TypeOK
  <2>2. tick' \in [inFlight : BOOLEAN, todo : SUBSET Jobs, firing : Ops \cup {NoAttempt}]
    <3>1. CASE TickReads
      <4>1. \/ tick' = [inFlight |-> TRUE, todo |-> DuePending, firing |-> NoAttempt]
            \/ tick' = tick
        BY <3>1 DEF TickReads
      <4>2. CASE tick' = tick
        BY <4>2 DEF TypeOK
      <4>3. CASE tick' = [inFlight |-> TRUE, todo |-> DuePending, firing |-> NoAttempt]
        BY <2>1, <4>3
      <4> QED
        BY <4>1, <4>2, <4>3
    <3>2. CASE TickEnds
      BY <3>2 DEF TickEnds, NoTick
    <3> QED
      BY <1>2, <3>1, <3>2
  <2> QED
    BY <1>1, <1>2, <2>2 DEF TypeOK, TickReads, TickEnds, Fails, callVars, inputVars
<1>3. ASSUME NEW j \in Jobs, TickSkips(j) \/ TickCancels(j) \/ TickParks(j) \/ TickPasses(j)
      PROVE  TypeOK'
  <2>1. tick' \in [inFlight : BOOLEAN, todo : SUBSET Jobs, firing : Ops \cup {NoAttempt}]
    BY <1>3 DEF TypeOK, TickSkips, TickCancels, TickParks, TickPasses, Judged
  <2>2. job' \in [Jobs -> Statuses] /\ faults' \in Nat
    BY <1>3 DEF TypeOK, TickSkips, TickCancels, TickParks, TickPasses, WriteStatus, Fails,
                Statuses, Terminal
  <2> QED
    BY <1>1, <1>3, <2>1, <2>2 DEF TypeOK, TickSkips, TickCancels, TickParks, TickPasses,
                                  callVars, inputVars
<1>4. ASSUME NEW j \in Jobs, NEW op \in Ops, TickFires(j, op)
      PROVE  TypeOK'
  BY <1>1, <1>4 DEF TypeOK, TickFires, inputVars, Statuses, Live
<1>5. ASSUME NEW op \in Ops, TickRecords(op)
      PROVE  TypeOK'
  <2>1. JobOf[op] \in Jobs
    BY SchedulerAssumption
  <2>2. job' \in [Jobs -> Statuses] /\ faults' \in Nat
    BY <1>5, <2>1 DEF TypeOK, TickRecords, WriteStatus, Outcome, Fails, Statuses, Terminal
  <2> QED
    BY <1>1, <1>5, <2>2 DEF TypeOK, TickRecords, inputVars
<1> QED
  BY <1>2, <1>3, <1>4, <1>5 DEF TickStep

\* A dispatched call's steps.
LEMMA CallKeepsType ==
  ASSUME TypeOK, NEW op \in Ops, CallStep(op)
  PROVE  TypeOK'
<1>1. CASE CallRefused(op)
  BY <1>1 DEF TypeOK, CallRefused, Goto, inputVars, journalVars, JournalTypeOK, Live
<1>2. CASE CallBegins(op)
  <2>1. JournalTypeOK'
    BY <1>2, BeginKeepsType, PristineIsGitState DEF TypeOK, CallBegins
  <2> QED
    BY <1>2, <2>1 DEF TypeOK, CallBegins, Goto, inputVars, Live
<1>3. CASE CallWritesStep(op)
  <2>1. JournalTypeOK'
    BY <1>3, EntryStepKeepsType DEF TypeOK, CallWritesStep
  <2> QED
    BY <1>3, <2>1 DEF TypeOK, CallWritesStep, callVars, inputVars
<1>4. CASE CallSends(op) \/ HostActs(op)
  BY <1>4 DEF TypeOK, CallSends, HostActs, inputVars, journalVars, JournalTypeOK
<1>5. ASSUME NEW outcome \in {"ok", "failed", "unknown"}, CallReturns(op, outcome)
      PROVE  TypeOK'
  <2>1. JournalTypeOK'
    BY <1>5, EntryStepKeepsType DEF TypeOK, CallReturns
  <2> QED
    BY <1>5, <2>1 DEF TypeOK, CallReturns, Goto, Fails, inputVars, Live
<1>6. CASE CallCloses(op)
  <2>1. JournalTypeOK'
    BY <1>6, EntryStepKeepsType DEF TypeOK, CallCloses
  <2>2. result' \in [Ops -> {"none", "ok", "failed", "unknown"}] /\ faults' \in Nat
    BY <1>6 DEF TypeOK, CallCloses, Fails
  <2> QED
    BY <1>6, <2>1, <2>2 DEF TypeOK, CallCloses, Goto, inputVars, Live
<1> QED
  BY <1>1, <1>2, <1>3, <1>4, <1>5, <1>6 DEF CallStep

\* A boot's.
LEMMA BootKeepsType ==
  ASSUME TypeOK, NEW unread \in SUBSET Jobs, NEW unfit \in SUBSET Jobs,
         CrashAndBoot(unread, unfit)
  PROVE  TypeOK'
<1>1. \A j \in Jobs : StatusAtBoot(j) \in Statuses
  BY DEF StatusAtBoot, Statuses, Terminal
<1>2. job' \in [Jobs -> Statuses]
  BY <1>1 DEF TypeOK, CrashAndBoot, Revalidated, Statuses
<1>3. call' \in [Ops -> Live \cup {"none", "over", "lost"}]
  BY DEF TypeOK, CrashAndBoot
<1>4. faults' \in Nat /\ crashes' \in Nat /\ tick' = NoTick
  BY DEF TypeOK, CrashAndBoot, Fails
<1>5. JournalTypeOK'
  BY DEF TypeOK, CrashAndBoot, journalVars, JournalTypeOK
<1> QED
  BY <1>2, <1>3, <1>4, <1>5 DEF TypeOK, CrashAndBoot, NoTick, inputVars

\* Every step keeps the types.
LEMMA StepKeepsTypes == TypeOK /\ [Next]_schedulerVars => TypeOK'
<1> SUFFICES ASSUME TypeOK, [Next]_schedulerVars
             PROVE  TypeOK'
  OBVIOUS
<1>1. CASE UNCHANGED schedulerVars
  BY <1>1 DEF TypeOK, schedulerVars, callVars, inputVars, journalVars, JournalTypeOK
<1> QED
  BY <1>1, InputKeepsType, ClosingKeepsType, TickKeepsType, CallKeepsType, BootKeepsType
     DEF Next, BetweenTicks

\* The rows of jobs and entries, and the calls and ticks of every process, keep
\* their types.
THEOREM SchedulerTypeCorrect == Spec => []TypeOK
<1> QED
  BY InitIsTyped, StepKeepsTypes, PTL DEF Spec

-----------------------------------------------------------------------------
\* The order of a job's life, one group of actions at a time.

\* Once begun, always begun; and only retention deletes.
BegunStay ==
    \A op \in Ops : /\ HasBegun(op)' <=> HasBegun(op)
                    /\ entry'[op].state = "deleted" => entry[op].state = "deleted"

\* The journal's transactions on an entry that exists.
LEMMA EntryStepsKeepBegun ==
  ASSUME TypeOK, NEW op \in Ops,
         AppendStep(op) \/ MarkApplied(op) \/ Settle(op) \/ Park(op) \/ UNCHANGED journalVars
  PROVE  BegunStay
<1> USE DEF TypeOK, JournalTypeOK, BegunStay, HasBegun
<1>1. CASE AppendStep(op)
  BY <1>1 DEF AppendStep, Exists
<1>2. CASE MarkApplied(op)
  BY <1>2 DEF MarkApplied, Exists, InState
<1>3. CASE Settle(op)
  BY <1>3 DEF Settle, Exists
<1>4. CASE Park(op)
  BY <1>4 DEF Park, Exists, InState, journalVars
<1>5. CASE UNCHANGED journalVars
  BY <1>5 DEF journalVars
<1> QED
  BY <1>1, <1>2, <1>3, <1>4, <1>5

\* A step that moves no job, no call and no tick, and begins or deletes no
\* entry, disturbs nothing.
LEMMA QuietStep ==
  ASSUME TypeOK, Order, BegunStay, UNCHANGED <<job, tick, call, sent, acted>>
  PROVE  Order'
<1>1. FiringRuns' /\ TodoIsPendingOrCancelled'
  BY DEF Order, FiringRuns, TodoIsPendingOrCancelled
<1>2. BegunWereDispatched'
  BY DEF Order, BegunWereDispatched, BegunStay, TypeOK
<1>3. FiresUnbegun' /\ OneAttemptBegins' /\ RunningKeepsItsEntry'
  BY DEF Order, FiresUnbegun, OneAttemptBegins, RunningKeepsItsEntry, BegunStay, Unbegun
<1> QED
  BY <1>1, <1>2, <1>3 DEF Order

\* Initially no job, call or entry exists.
LEMMA InitIsOrdered == Init => Order
<1> SUFFICES ASSUME Init
             PROVE  Order
  OBVIOUS
<1>1. \A op \in Ops : entry[op] = NoEntry /\ call[op] = "none"
  BY DEF Init, JournalInit
<1>2. \A op \in Ops : ~HasBegun(op) /\ entry[op].state = "none"
  <2>1. NoEntry.state = "none"
    BY DEF NoEntry
  <2> QED
    BY <1>1, <2>1 DEF HasBegun
<1>3. FiringRuns /\ TodoIsPendingOrCancelled
  BY <1>1 DEF Init, NoTick, FiringRuns, TodoIsPendingOrCancelled, Live
<1> QED
  BY <1>1, <1>2, <1>3 DEF Init, Order, BegunWereDispatched, FiresUnbegun, Unbegun,
                          OneAttemptBegins, RunningKeepsItsEntry

\* Clients and the clock: a job is created and cancelled only while no attempt
\* of it has begun, and deleted only when it can be neither fired nor judged.
LEMMA InputKeepsOrder ==
  ASSUME TypeOK, Order,
         \/ \E j \in Jobs : Create(j) \/ Cancel(j) \/ Revoke(j) \/ ComesDue(j) \/ RetainJob(j)
         \/ \E d \in Declarations : Orphan(d)
  PROVE  Order'
<1>1. UNCHANGED <<entry, tick, call, sent, acted>>
  BY DEF Create, Cancel, Revoke, ComesDue, RetainJob, Orphan, journalVars, callVars
<1>2. \A j \in Jobs :
         \/ job'[j] = job[j]
         \/ job[j] = "none" /\ job'[j] = "pending" /\ j \notin tick.todo
         \/ job[j] = "pending" /\ job'[j] = "cancelled"
         \/ job[j] \in Terminal /\ job'[j] = "deleted" /\ j \notin tick.todo
  BY DEF TypeOK, Create, Cancel, Cancellable, Revoke, ComesDue, RetainJob, Orphan, Order,
         TodoIsPendingOrCancelled
<1>3. FiringRuns'
  <2>1. tick.firing # NoAttempt => tick.firing \in Ops /\ JobOf[tick.firing] \in Jobs
    BY SchedulerAssumption DEF TypeOK
  <2> QED
    BY <1>1, <1>2, <2>1 DEF Order, FiringRuns, Terminal
<1>4. TodoIsPendingOrCancelled'
  BY <1>1, <1>2 DEF Order, TodoIsPendingOrCancelled, TypeOK
<1>5. BegunWereDispatched' /\ OneAttemptBegins'
  BY <1>1 DEF Order, BegunWereDispatched, OneAttemptBegins, HasBegun
<1>6. FiresUnbegun'
  BY <1>1, <1>2 DEF Order, FiresUnbegun, Unbegun, HasBegun, Terminal
<1>7. RunningKeepsItsEntry'
  <2>1. \A op \in Ops : JobOf[op] \in Jobs
    BY SchedulerAssumption
  <2> QED
    BY <1>1, <1>2, <2>1 DEF Order, RunningKeepsItsEntry
<1> QED
  BY <1>3, <1>4, <1>5, <1>6, <1>7 DEF Order

\* The operator and recovery close entries that exist; retention deletes those
\* of jobs that are not `running`.
LEMMA ClosingKeepsOrder ==
  ASSUME ~LongLived, TypeOK, Order,
         \/ \E op \in Ops : ResolveParked(op) \/ \E moved \in BOOLEAN : Recover(op, moved)
         \/ \E old \in SUBSET Ops : RetainEntries(old)
  PROVE  Order'
<1>1. ASSUME NEW op \in Ops, ResolveParked(op) \/ \E moved \in BOOLEAN : Recover(op, moved)
      PROVE  Order'
  <2>1. Settle(op) \/ Park(op)
    BY <1>1 DEF ResolveParked, Recover
  <2>2. UNCHANGED <<job, tick, call, sent, acted>>
    BY <1>1 DEF ResolveParked, Recover, callVars
  <2> QED
    BY <2>1, <2>2, EntryStepsKeepBegun, QuietStep
<1>2. ASSUME NEW old \in SUBSET Ops, RetainEntries(old)
      PROVE  Order'
  <2>1. UNCHANGED <<job, tick, call, sent, acted>>
    BY <1>2 DEF RetainEntries, callVars
  <2>2. \A op \in Ops : /\ HasBegun(op)' <=> HasBegun(op)
                        /\ \/ entry'[op].state = entry[op].state
                           \/ job[JobOf[op]] # "running"
    BY <1>2 DEF RetainEntries, RunRetention, HasBegun, InState, TypeOK, JournalTypeOK
  <2>3. FiringRuns' /\ TodoIsPendingOrCancelled'
    BY <2>1 DEF Order, FiringRuns, TodoIsPendingOrCancelled
  <2>4. BegunWereDispatched'
    BY <2>1, <2>2 DEF Order, BegunWereDispatched, TypeOK
  <2>5. FiresUnbegun' /\ OneAttemptBegins'
    BY <2>1, <2>2 DEF Order, FiresUnbegun, OneAttemptBegins, Unbegun
  <2>6. RunningKeepsItsEntry'
    BY <2>1, <2>2 DEF Order, RunningKeepsItsEntry
  <2> QED
    BY <2>3, <2>4, <2>5, <2>6 DEF Order
<1> QED
  BY <1>1, <1>2

\* A tick's verdicts and its end: what it writes over is pending or cancelled.
LEMMA VerdictKeepsOrder ==
  ASSUME TypeOK, Order, NEW j \in Jobs,
         TickSkips(j) \/ TickCancels(j) \/ TickParks(j) \/ TickPasses(j)
  PROVE  Order'
<1>1. /\ UNCHANGED <<entry, call, sent, acted>>
      /\ tick.inFlight /\ tick.firing = NoAttempt /\ j \in tick.todo
      /\ tick' = [tick EXCEPT !.todo = @ \ {j}]
  BY DEF TickSkips, TickCancels, TickParks, TickPasses, Judging, Judged, journalVars, callVars
<1>2. /\ \A i \in Jobs \ {j} : job'[i] = job[i]
      /\ job'[j] \in {job[j], "skipped", "cancelled", "needs-attention"}
  BY DEF TypeOK, TickSkips, TickCancels, TickParks, TickPasses, WriteStatus
<1>3. job[j] \in {"pending", "cancelled"}
  BY <1>1 DEF Order, TodoIsPendingOrCancelled
<1>4. tick'.firing = NoAttempt /\ tick'.todo = tick.todo \ {j} /\ tick.todo \subseteq Jobs
  BY <1>1 DEF TypeOK
<1>5. FiringRuns'
  BY <1>1, <1>4 DEF Order, FiringRuns
<1>6. TodoIsPendingOrCancelled'
  BY <1>2, <1>4 DEF Order, TodoIsPendingOrCancelled
<1>7. BegunWereDispatched' /\ OneAttemptBegins'
  BY <1>1 DEF Order, BegunWereDispatched, OneAttemptBegins, HasBegun
<1>8. FiresUnbegun'
  BY <1>1, <1>2, <1>3 DEF Order, FiresUnbegun, Unbegun, HasBegun
<1>9. RunningKeepsItsEntry'
  <2>1. \A op \in Ops : JobOf[op] \in Jobs
    BY SchedulerAssumption
  <2> QED
    BY <1>1, <1>2, <1>3, <2>1 DEF Order, RunningKeepsItsEntry
<1> QED
  BY <1>5, <1>6, <1>7, <1>8, <1>9 DEF Order

\* The claim takes a pending job, whose attempts have none of them begun, and
\* dispatches a fresh one.
LEMMA FiringKeepsOrder ==
  ASSUME TypeOK, Order, NEW j \in Jobs, NEW op \in Ops, TickFires(j, op)
  PROVE  Order'
<1>1. /\ UNCHANGED <<entry, sent, acted>>
      /\ tick.inFlight /\ tick.firing = NoAttempt
      /\ job[j] = "pending" /\ JobOf[op] = j /\ call[op] = "none"
      /\ job' = [job EXCEPT ![j] = "running"]
      /\ tick' = [tick EXCEPT !.todo = @ \ {j}, !.firing = op]
      /\ call' = [call EXCEPT ![op] = "dispatched"]
  BY DEF TickFires, Judging, ClaimWins, Attempts, journalVars
<1>2. /\ tick'.firing = op /\ tick'.inFlight /\ tick'.todo = tick.todo \ {j}
      /\ tick.todo \subseteq Jobs
  BY <1>1 DEF TypeOK
<1>3. job'[j] = "running" /\ \A i \in Jobs \ {j} : job'[i] = job[i]
  BY <1>1 DEF TypeOK
<1>4. call'[op] = "dispatched" /\ \A o \in Ops \ {op} : call'[o] = call[o]
  BY <1>1 DEF TypeOK
<1>5. \A o \in Ops : call[o] \notin Live
  BY <1>1, SchedulerAssumption DEF Order, FiringRuns
<1>6. Unbegun(j)
  BY <1>1 DEF Order, FiresUnbegun
<1>7. FiringRuns'
  BY <1>1, <1>2, <1>3, <1>4, <1>5 DEF FiringRuns, Live
<1>8. TodoIsPendingOrCancelled'
  BY <1>2, <1>3 DEF Order, TodoIsPendingOrCancelled
<1>9. BegunWereDispatched'
  BY <1>1, <1>4, <1>6 DEF Order, BegunWereDispatched, Unbegun, HasBegun
<1>10. FiresUnbegun'
  BY <1>1, <1>3, <1>4, <1>6 DEF Order, FiresUnbegun, Unbegun, HasBegun
<1>11. OneAttemptBegins'
  BY <1>1 DEF Order, OneAttemptBegins, HasBegun
<1>12. RunningKeepsItsEntry'
  <2>1. \A o \in Ops : JobOf[o] \in Jobs
    BY SchedulerAssumption
  <2> QED
    BY <1>1, <1>3, <1>6, <2>1 DEF Order, RunningKeepsItsEntry, Unbegun, HasBegun
<1> QED
  BY <1>7, <1>8, <1>9, <1>10, <1>11, <1>12 DEF Order

\* The record of a fired job's outcome decides it.
LEMMA RecordKeepsOrder ==
  ASSUME TypeOK, Order, NEW op \in Ops, TickRecords(op)
  PROVE  Order'
<1>1. /\ UNCHANGED <<entry, sent, acted>>
      /\ tick.firing = op /\ call[op] = "ended"
      /\ tick' = [tick EXCEPT !.firing = NoAttempt]
      /\ call' = [call EXCEPT ![op] = "over"]
  BY DEF TickRecords, journalVars
<1>2. /\ JobOf[op] \in Jobs
      /\ job'[JobOf[op]] \in {job[JobOf[op]], "done", "needs-attention"}
      /\ \A i \in Jobs \ {JobOf[op]} : job'[i] = job[i]
  BY SchedulerAssumption DEF TypeOK, TickRecords, WriteStatus, Outcome
<1>3. tick'.firing = NoAttempt /\ tick'.todo = tick.todo /\ tick.todo \subseteq Jobs
  BY <1>1 DEF TypeOK
<1>4. call'[op] = "over" /\ \A o \in Ops \ {op} : call'[o] = call[o]
  BY <1>1 DEF TypeOK
<1>5. job[JobOf[op]] = "running"
  BY <1>1, SchedulerAssumption DEF Order, FiringRuns
<1>6. FiringRuns'
  BY <1>1, <1>3, <1>4 DEF Order, FiringRuns, Live
<1>7. TodoIsPendingOrCancelled'
  BY <1>2, <1>3, <1>5 DEF Order, TodoIsPendingOrCancelled
<1>8. BegunWereDispatched' /\ OneAttemptBegins'
  BY <1>1, <1>4 DEF Order, BegunWereDispatched, OneAttemptBegins, HasBegun
<1>9. FiresUnbegun'
  BY <1>1, <1>2, <1>4, <1>5 DEF Order, FiresUnbegun, Unbegun, HasBegun
<1>10. RunningKeepsItsEntry'
  <2>1. \A o \in Ops : JobOf[o] \in Jobs
    BY SchedulerAssumption
  <2> QED
    BY <1>1, <1>2, <1>5, <2>1 DEF Order, RunningKeepsItsEntry
<1> QED
  BY <1>6, <1>7, <1>8, <1>9, <1>10 DEF Order

\* A tick starts with pending jobs only, and ends awaiting nothing.
LEMMA TickKeepsOrder ==
  ASSUME TypeOK, Order, TickStep
  PROVE  Order'
<1>1. CASE TickReads \/ TickEnds
  <2>1. UNCHANGED <<entry, job, call, sent, acted>>
    BY <1>1 DEF TickReads, TickEnds, journalVars, callVars
  <2>2. tick.firing = NoAttempt
    BY <1>1 DEF TickReads, TickEnds, Order, FiringRuns
  <2>3. \/ tick' = tick
        \/ tick'.firing = NoAttempt /\ \A j \in tick'.todo : job[j] = "pending"
    BY <1>1 DEF TickReads, TickEnds, NoTick, DuePending
  <2>4. FiringRuns' /\ TodoIsPendingOrCancelled'
    BY <2>1, <2>2, <2>3 DEF Order, FiringRuns, TodoIsPendingOrCancelled
  <2> QED
    BY <2>1, <2>4 DEF Order, BegunWereDispatched, FiresUnbegun, OneAttemptBegins,
                      RunningKeepsItsEntry, Unbegun, HasBegun
<1> QED
  BY <1>1, VerdictKeepsOrder, FiringKeepsOrder, RecordKeepsOrder DEF TickStep

\* The intent record is the job's first: no attempt of it had begun.
LEMMA BeginKeepsOrder ==
  ASSUME TypeOK, Order, NEW op \in Ops, CallBegins(op)
  PROVE  Order'
<1>1. /\ UNCHANGED <<job, tick, sent, acted>>
      /\ call[op] = "dispatched"
      /\ call' = [call EXCEPT ![op] = "running"]
      /\ Begin(op, Pristine)
  BY DEF CallBegins, Goto
<1>2. call'[op] = "running" /\ \A o \in Ops \ {op} : call'[o] = call[o]
  BY <1>1 DEF TypeOK
<1>3. entry'[op].state = "intended" /\ \A o \in Ops \ {op} : entry'[o] = entry[o]
  BY <1>1 DEF Begin, TypeOK, JournalTypeOK
<1>4. HasBegun(op)' /\ \A o \in Ops \ {op} : HasBegun(o)' <=> HasBegun(o)
  BY <1>3 DEF HasBegun
<1>5. Unbegun(JobOf[op]) /\ JobOf[op] \in Jobs
  BY <1>1, SchedulerAssumption DEF Order, FiresUnbegun
<1>6. op = tick.firing /\ job[JobOf[op]] = "running" /\ op # NoAttempt
  BY <1>1, SchedulerAssumption DEF Order, FiringRuns, Live
<1>7. FiringRuns'
  BY <1>1, <1>2, <1>6 DEF Order, FiringRuns, Live
<1>8. TodoIsPendingOrCancelled'
  BY <1>1 DEF Order, TodoIsPendingOrCancelled
<1>9. BegunWereDispatched'
  BY <1>1, <1>2, <1>4 DEF Order, BegunWereDispatched, TypeOK
<1>10. FiresUnbegun'
  <2>1. \A o \in Ops : call'[o] # "dispatched"
    BY <1>2, <1>6 DEF Order, FiringRuns, Live
  <2> QED
    BY <1>1, <1>4, <1>6, <2>1 DEF Order, FiresUnbegun, Unbegun
<1>11. OneAttemptBegins'
  BY <1>4, <1>5 DEF Order, OneAttemptBegins, Unbegun
<1>12. RunningKeepsItsEntry'
  BY <1>1, <1>3 DEF Order, RunningKeepsItsEntry
<1> QED
  BY <1>7, <1>8, <1>9, <1>10, <1>11, <1>12 DEF Order

\* A call that moves on without beginning an entry.
LEMMA CallMovesOn ==
  ASSUME TypeOK, Order, BegunStay, UNCHANGED <<job, tick, sent, acted>>,
         NEW op \in Ops, NEW step \in {"returned", "ended"},
         call[op] \in {"dispatched", "running", "returned"},
         HasBegun(op) \/ step = "ended",
         call' = [call EXCEPT ![op] = step]
  PROVE  Order'
<1>1. call'[op] = step /\ \A o \in Ops \ {op} : call'[o] = call[o]
  BY DEF TypeOK
<1>2. FiringRuns'
  BY <1>1 DEF Order, FiringRuns, Live
<1>3. TodoIsPendingOrCancelled'
  BY DEF Order, TodoIsPendingOrCancelled
<1>4. BegunWereDispatched'
  BY <1>1 DEF Order, BegunWereDispatched, BegunStay, TypeOK
<1>5. FiresUnbegun' /\ OneAttemptBegins' /\ RunningKeepsItsEntry'
  BY <1>1 DEF Order, FiresUnbegun, OneAttemptBegins, RunningKeepsItsEntry, BegunStay, Unbegun
<1> QED
  BY <1>2, <1>3, <1>4, <1>5 DEF Order

\* A dispatched call's steps.
LEMMA CallKeepsOrder ==
  ASSUME TypeOK, Order, NEW op \in Ops, CallStep(op)
  PROVE  Order'
<1>1. CASE CallRefused(op)
  <2>1. UNCHANGED journalVars
    BY <1>1 DEF CallRefused
  <2>2. BegunStay
    BY <2>1, EntryStepsKeepBegun
  <2> QED
    BY <1>1, <2>2, CallMovesOn DEF CallRefused, Goto
<1>2. CASE CallBegins(op)
  BY <1>2, BeginKeepsOrder
<1>3. CASE CallWritesStep(op)
  <2>1. BegunStay
    BY <1>3, EntryStepsKeepBegun DEF CallWritesStep
  <2> QED
    BY <1>3, <2>1, QuietStep DEF CallWritesStep, callVars
<1>4. CASE CallSends(op) \/ HostActs(op)
  <2>1. UNCHANGED <<entry, job, tick, call>>
    BY <1>4 DEF CallSends, HostActs, journalVars
  <2>2. HasBegun(op)
    BY <1>4 DEF CallSends, HostActs, Order, BegunWereDispatched
  <2>3. acted' \cup sent' \subseteq acted \cup sent \cup {op}
    BY <1>4 DEF CallSends, HostActs
  <2>4. BegunWereDispatched'
    BY <2>1, <2>2, <2>3 DEF Order, BegunWereDispatched, HasBegun
  <2> QED
    BY <2>1, <2>4 DEF Order, FiringRuns, TodoIsPendingOrCancelled, FiresUnbegun,
                      OneAttemptBegins, RunningKeepsItsEntry, Unbegun, HasBegun
<1>5. ASSUME NEW outcome \in {"ok", "failed", "unknown"}, CallReturns(op, outcome)
      PROVE  Order'
  <2>1. BegunStay
    BY <1>5, EntryStepsKeepBegun DEF CallReturns
  <2>2. HasBegun(op)
    BY <1>5 DEF CallReturns, Order, BegunWereDispatched
  <2> QED
    BY <1>5, <2>1, <2>2, CallMovesOn DEF CallReturns, Goto
<1>6. CASE CallCloses(op)
  <2>1. Park(op) \/ Settle(op) \/ UNCHANGED journalVars
    BY <1>6 DEF CallCloses
  <2>2. BegunStay
    BY <2>1, EntryStepsKeepBegun
  <2> QED
    BY <1>6, <2>2, CallMovesOn DEF CallCloses, Goto
<1> QED
  BY <1>1, <1>2, <1>3, <1>4, <1>5, <1>6 DEF CallStep

\* A boot returns a job to `pending` only where no entry of it was ever begun.
LEMMA BootKeepsOrder ==
  ASSUME TypeOK, Order, NEW unread \in SUBSET Jobs, NEW unfit \in SUBSET Jobs,
         CrashAndBoot(unread, unfit)
  PROVE  Order'
<1>1. /\ UNCHANGED <<entry, sent, acted>>
      /\ tick' = NoTick
      /\ \A op \in Ops : call'[op] = IF call[op] = "none" THEN "none" ELSE "lost"
  BY DEF CrashAndBoot, journalVars
<1>2. ASSUME NEW j \in Jobs
      PROVE  \/ job'[j] = job[j]
             \/ job'[j] \in {"done", "needs-attention", "running"}
             \/ job[j] = "running" /\ StatusAtBoot(j) = "pending" /\ job'[j] = "pending"
  <2>1. job'[j] = Revalidated(IF j \in Running \ unread THEN StatusAtBoot(j) ELSE job[j],
                              j \notin unfit)
    BY DEF CrashAndBoot
  <2>2. StatusAtBoot(j) \in {"pending", "done", "needs-attention", "running"}
    BY DEF StatusAtBoot
  <2> QED
    BY <2>1, <2>2 DEF Revalidated, Running
<1>3. ASSUME NEW j \in Jobs, job[j] = "running", StatusAtBoot(j) = "pending"
      PROVE  Unbegun(j)
  <2>1. {op \in Attempts(j) : Exists(op)} = {}
    BY <1>3 DEF StatusAtBoot
  <2> QED
    BY <1>3, <2>1 DEF Attempts, Exists, Unbegun, HasBegun, Order, RunningKeepsItsEntry
<1>4. \A j \in Jobs : job'[j] = "running" => job[j] = "running"
  BY DEF CrashAndBoot, Revalidated, Running
<1>5. FiringRuns' /\ TodoIsPendingOrCancelled'
  BY <1>1 DEF NoTick, FiringRuns, TodoIsPendingOrCancelled, Live
<1>6. BegunWereDispatched'
  BY <1>1 DEF Order, BegunWereDispatched, HasBegun
<1>7. FiresUnbegun'
  BY <1>1, <1>2, <1>3 DEF Order, FiresUnbegun, Unbegun, HasBegun
<1>8. OneAttemptBegins'
  BY <1>1 DEF Order, OneAttemptBegins, HasBegun
<1>9. RunningKeepsItsEntry'
  <2>1. \A op \in Ops : JobOf[op] \in Jobs
    BY SchedulerAssumption
  <2> QED
    BY <1>1, <1>4, <2>1 DEF Order, RunningKeepsItsEntry
<1> QED
  BY <1>5, <1>6, <1>7, <1>8, <1>9 DEF Order

\* The invariant is inductive where no job outlives a retention window running.
LEMMA StepKeepsOrder == ~LongLived /\ Inv /\ [Next]_schedulerVars => Inv'
<1> SUFFICES ASSUME ~LongLived, TypeOK, Order, [Next]_schedulerVars
             PROVE  Order'
  BY StepKeepsTypes DEF Inv
<1>1. CASE UNCHANGED schedulerVars
  <2>1. UNCHANGED <<entry, job, tick, call, sent, acted>>
    BY <1>1 DEF schedulerVars, callVars, journalVars
  <2> QED
    BY <2>1 DEF Order, FiringRuns, TodoIsPendingOrCancelled, BegunWereDispatched, FiresUnbegun,
                OneAttemptBegins, RunningKeepsItsEntry, Unbegun, HasBegun
<1> QED
  BY <1>1, InputKeepsOrder, ClosingKeepsOrder, TickKeepsOrder, CallKeepsOrder, BootKeepsOrder
     DEF Next, BetweenTicks

-----------------------------------------------------------------------------
\* R10, for every number of jobs, attempts, crashes and failing accesses: where
\* no job stays `running` for a whole retention window, none reaches the host
\* twice.
THEOREM JobsActAtMostOnce == ~LongLived /\ Spec => []ActsAtMostOnce
<1>1. Init => Inv
  BY InitIsTyped, InitIsOrdered DEF Inv
<1>2. Inv => ActsAtMostOnce
  BY DEF Inv, TypeOK, Order, BegunWereDispatched, OneAttemptBegins, ActsAtMostOnce
<1>3. CASE ~LongLived
  <2>1. Inv /\ [Next]_schedulerVars => Inv'
    BY <1>3, StepKeepsOrder
  <2> QED
    BY <1>1, <1>2, <2>1, PTL DEF Spec
<1> QED
  BY <1>3

\* And a job reported as cancelled or skipped never reaches it at all.
THEOREM CancelledJobsNeverAct == ~LongLived /\ Spec => []CancelledNeverActs
<1>1. Init => Inv
  BY InitIsTyped, InitIsOrdered DEF Inv
<1>2. Inv => CancelledNeverActs
  <2>1. \A op \in Ops : JobOf[op] \in Jobs
    BY SchedulerAssumption
  <2> QED
    BY <2>1 DEF Inv, TypeOK, Order, BegunWereDispatched, FiresUnbegun, Unbegun, CancelledNeverActs
<1>3. CASE ~LongLived
  <2>1. Inv /\ [Next]_schedulerVars => Inv'
    BY <1>3, StepKeepsOrder
  <2> QED
    BY <1>1, <1>2, <2>1, PTL DEF Spec
<1> QED
  BY <1>3

-----------------------------------------------------------------------------
\* No step of any kind puts a decided job back in service, for every retention
\* window: only a claim writes `running`, and it takes a pending job; only a
\* boot writes `pending`, over a running one.
THEOREM DecidedJobsStayDecided == Spec => DecidedStaysDecided
<1> DEFINE Out == Terminal \cup {"needs-attention", "deleted"}
           Kept == \A j \in Jobs : job[j] \in Out => job'[j] \notin {"none", "pending", "running"}
<1>1. ASSUME TypeOK, [Next]_schedulerVars
      PROVE  Kept
  <2>1. CASE UNCHANGED job
    BY <2>1 DEF Terminal
  <2>2. ASSUME NEW j \in Jobs, Create(j) \/ Cancel(j) \/ RetainJob(j)
        PROVE  Kept
    BY <1>1, <2>2 DEF TypeOK, Create, Cancel, Cancellable, RetainJob, Terminal
  <2>3. ASSUME NEW d \in Declarations, Orphan(d)
        PROVE  Kept
    BY <2>3 DEF Orphan, Terminal
  <2>4. ASSUME NEW j \in Jobs, TickSkips(j) \/ TickCancels(j) \/ TickParks(j)
        PROVE  Kept
    BY <1>1, <2>4 DEF TypeOK, TickSkips, TickCancels, TickParks, WriteStatus, Terminal
  <2>5. ASSUME NEW j \in Jobs, NEW op \in Ops, TickFires(j, op)
        PROVE  Kept
    BY <1>1, <2>5 DEF TypeOK, TickFires, ClaimWins, Terminal
  <2>6. ASSUME NEW op \in Ops, TickRecords(op)
        PROVE  Kept
    BY <1>1, <2>6 DEF TypeOK, TickRecords, WriteStatus, Outcome, Terminal
  <2>7. ASSUME NEW unread \in SUBSET Jobs, NEW unfit \in SUBSET Jobs, CrashAndBoot(unread, unfit)
        PROVE  Kept
    BY <2>7 DEF CrashAndBoot, Running, Revalidated, Terminal
  <2>8. ASSUME NEW op \in Ops, CallStep(op)
        PROVE  UNCHANGED job
    BY <2>8 DEF CallStep, CallRefused, CallBegins, CallWritesStep, CallSends, HostActs,
                CallReturns, CallCloses
  <2>9. ASSUME NEW op \in Ops, ResolveParked(op) \/ \E moved \in BOOLEAN : Recover(op, moved)
        PROVE  UNCHANGED job
    BY <2>9 DEF ResolveParked, Recover
  <2>10. ASSUME NEW old \in SUBSET Ops, RetainEntries(old)
         PROVE  UNCHANGED job
    BY <2>10 DEF RetainEntries
  <2>11. CASE TickReads \/ TickEnds \/ \E j \in Jobs : TickPasses(j) \/ Revoke(j) \/ ComesDue(j)
    <3>1. UNCHANGED job
      BY <2>11 DEF TickReads, TickEnds, TickPasses, Revoke, ComesDue
    <3> QED
      BY <2>1, <3>1
  <2> QED
    BY <1>1, <2>1, <2>2, <2>3, <2>4, <2>5, <2>6, <2>7, <2>8, <2>9, <2>10, <2>11
       DEF Next, TickStep, BetweenTicks, schedulerVars
<1>2. TypeOK /\ [Next]_schedulerVars => [Kept]_schedulerVars
  BY <1>1
<1> QED
  BY <1>2, SchedulerTypeCorrect, PTL DEF Spec, DecidedStaysDecided, Out


-----------------------------------------------------------------------------
(***************************************************************************)
(* The notifier.                                                           *)
(***************************************************************************)
Kinds == {"none", "redrive", "timer"}
QuietPass == [step : {"idle", "next"}, kind : Kinds, rest : SUBSET Rows, tries : 0..MaxTries]
BusyPass == [step : {"sending", "taken"}, kind : Kinds, rest : SUBSET Rows, tries : 0..MaxTries,
             row : Rows]

\* The transport has taken the row under delivery, and nobody has recorded it.
UnderWay(r) == pass.step = "taken" /\ pass.row = r

\* The one time a row may have been sent without trouble.
Owed(r) == IF row[r] \in {"delivered", "pruned"} \/ UnderWay(r) THEN 1 ELSE 0

\* The pass delivers only what it claimed, and nobody else touches that row.
ClaimInv == Delivering => row[pass.row] = "in-flight"

CountInv == \A r \in Rows : took[r] <= trouble[r] + Owed(r)

\* What a transaction holds has no row yet.
TxInv ==
    /\ \A n \in Notices : asked[n] = "no" => row[n] = "none"
    /\ \A n \in tx.rows : row[n] = "none" /\ asked[n] # "no"

OutboxInv == OutboxTypeOK /\ pass \in QuietPass \cup BusyPass /\ ClaimInv /\ CountInv /\ TxInv

\* Types of what a step changes.
RowStatuses == {"none", "pending", "in-flight", "delivered", "failed", "pruned"}

LEMMA PassFields ==
  ASSUME NEW p, p \in QuietPass \cup BusyPass
  PROVE  /\ p.step \in {"idle", "next", "sending", "taken"} /\ p.kind \in Kinds
         /\ p.tries \in 0..MaxTries /\ p.rest \subseteq Rows
         /\ p.step \in {"sending", "taken"} => p \in BusyPass /\ p.row \in Rows
         /\ p.step \in {"idle", "next"} => p \in QuietPass
BY DEF QuietPass, BusyPass

LEMMA OutboxStarts == OutboxInit => OutboxInv
<1> SUFFICES ASSUME OutboxInit PROVE OutboxInv
  OBVIOUS
<1>1. JournalTypeOK
  BY InitHasType DEF OutboxInit
<1>2. pass \in QuietPass /\ pass.step = "idle"
  BY OutboxAssumption DEF OutboxInit, NoPass, QuietPass, Kinds
<1>3. tx \in [open : BOOLEAN, rows : SUBSET Notices] /\ tx.rows = {}
  BY DEF OutboxInit, NoTx
<1>4. OutboxTypeOK
  BY <1>1, <1>2, <1>3, OutboxAssumption, PassFields DEF OutboxInit, OutboxTypeOK, Delivering, Kinds
<1>5. ClaimInv /\ CountInv /\ TxInv
  BY <1>2, <1>3 DEF OutboxInit, ClaimInv, Delivering, CountInv, Owed, UnderWay, TxInv, Rows
<1> QED BY <1>2, <1>4, <1>5 DEF OutboxInv

\* What a step must show of types and shapes, and of the one row it moves.
LEMMA RowMoves ==
  ASSUME OutboxInv, NEW r \in Rows,
         JournalTypeOK', tx' \in [open : BOOLEAN, rows : SUBSET Notices],
         asked' \in [Notices -> {"no", "open", "ok", "failed", "died"}],
         pass' \in QuietPass \cup BusyPass, waiting' \subseteq {"redrive", "timer"},
         stranded' \subseteq Rows, mishaps' \in 0..MaxMishaps,
         row' \in [Rows -> RowStatuses], took' \in [Rows -> Nat], trouble' \in [Rows -> Nat],
         \A q \in Rows : q # r =>
            row'[q] = row[q] /\ took'[q] = took[q] /\ trouble'[q] = trouble[q],
         Delivering => pass.row = r,
         Delivering' => pass'.row = r /\ row'[r] = "in-flight",
         took'[r] <= trouble'[r] + Owed(r)',
         TxInv'
  PROVE  OutboxInv'
<1>1. OutboxTypeOK'
  BY PassFields DEF OutboxTypeOK, Delivering, RowStatuses, Kinds
<1>2. ClaimInv'
  BY DEF ClaimInv
<1>3. ASSUME NEW q \in Rows
      PROVE  took'[q] <= trouble'[q] + Owed(q)'
  <2>1. CASE q = r
    BY <2>1
  <2>2. CASE q # r
    <3>1. ~UnderWay(q) /\ ~UnderWay(q)'
      BY <2>2 DEF UnderWay, Delivering
    <3>2. Owed(q)' = Owed(q)
      BY <2>2, <3>1 DEF Owed
    <3>3. took[q] <= trouble[q] + Owed(q)
      BY DEF OutboxInv, CountInv
    <3> QED BY <2>2, <3>2, <3>3
  <2> QED BY <2>1, <2>2
<1> QED BY <1>1, <1>2, <1>3 DEF OutboxInv, CountInv

\* The same of a step that sends nothing and at most lets rows appear.
LEMMA RowsAppear ==
  ASSUME OutboxInv,
         JournalTypeOK', tx' \in [open : BOOLEAN, rows : SUBSET Notices],
         asked' \in [Notices -> {"no", "open", "ok", "failed", "died"}],
         pass' \in QuietPass \cup BusyPass, waiting' \subseteq {"redrive", "timer"},
         mishaps' \in 0..MaxMishaps, UNCHANGED <<took, trouble, stranded>>,
         pass' = pass \/ (~Delivering /\ ~Delivering'),
         row' \in [Rows -> RowStatuses],
         \A q \in Rows : row'[q] = row[q] \/ (row[q] = "none" /\ row'[q] = "pending"),
         TxInv'
  PROVE  OutboxInv'
<1>1. OutboxTypeOK'
  BY PassFields DEF OutboxTypeOK, Delivering, RowStatuses, Kinds, OutboxInv
<1>2. ClaimInv'
  <2> SUFFICES ASSUME Delivering' PROVE row'[pass'.row] = "in-flight"
    BY DEF ClaimInv
  <2>1. pass' = pass /\ Delivering
    BY DEF Delivering
  <2>2. pass.row \in Rows /\ row[pass.row] = "in-flight"
    BY <2>1 DEF OutboxInv, OutboxTypeOK, ClaimInv
  <2> QED BY <2>1, <2>2
<1>3. ASSUME NEW q \in Rows
      PROVE  took'[q] <= trouble'[q] + Owed(q)'
  <2>1. UnderWay(q)' <=> UnderWay(q)
    BY DEF UnderWay, Delivering
  <2>2. Owed(q)' = Owed(q)
    BY <2>1 DEF Owed
  <2>3. took[q] <= trouble[q] + Owed(q)
    BY DEF OutboxInv, CountInv
  <2> QED BY <2>2, <2>3
<1> QED BY <1>1, <1>2, <1>3 DEF OutboxInv, CountInv

LEMMA TxShape ==
  ASSUME NEW n \in Notices
  PROVE  /\ NoTx \in [open : BOOLEAN, rows : SUBSET Notices] /\ NoTx.rows = {}
         /\ [open |-> TRUE, rows |-> {n}] \in [open : BOOLEAN, rows : SUBSET Notices]
         /\ [open |-> TRUE, rows |-> {n}].rows = {n}
BY DEF NoTx

LEMMA RequestsKeep ==
  ASSUME OutboxInv, \/ JournalCalled \/ TimerTicks
                    \/ \E n \in Notices : BeginNotice(n) \/ CommitNotice(n)
  PROVE  OutboxInv'
<1>1. /\ OutboxTypeOK /\ TxInv /\ row \in [Rows -> RowStatuses]
      /\ UNCHANGED <<pass, took, trouble, stranded, mishaps>>
      /\ Rows = Ops \cup Notices
  BY DEF OutboxInv, OutboxTypeOK, RowStatuses, JournalCalled, TimerTicks, BeginNotice, CommitNotice, Rows
<1>2. CASE JournalCalled
  <2>1. JournalTypeOK'
    BY <1>1, <1>2, StepKeepsType DEF JournalCalled, OutboxTypeOK
  <2>2. row' \in [Rows -> RowStatuses]
    BY <1>1, <1>2 DEF JournalCalled, RowStatuses
  <2>3. \A q \in Rows : row'[q] = row[q] \/ (row[q] = "none" /\ row'[q] = "pending")
    BY <1>2 DEF JournalCalled
  <2>4. \A n \in Notices : row'[n] = row[n]
    BY <1>1, <1>2, OutboxAssumption DEF JournalCalled
  <2>5. TxInv'
    BY <1>1, <1>2, <2>4 DEF JournalCalled, TxInv, OutboxTypeOK
  <2> QED BY <1>1, <1>2, <2>1, <2>2, <2>3, <2>5, RowsAppear DEF JournalCalled, OutboxInv, OutboxTypeOK
<1>3. CASE TimerTicks
  <2>1. TxInv' /\ JournalTypeOK'
    BY <1>1, <1>3, StepKeepsType DEF TimerTicks, TxInv, OutboxTypeOK
  <2> QED BY <1>1, <1>3, <2>1, RowsAppear DEF TimerTicks, OutboxInv, OutboxTypeOK
<1>4. ASSUME NEW n \in Notices, BeginNotice(n)
      PROVE  OutboxInv'
  <2>1. JournalTypeOK' /\ UNCHANGED <<row, waiting>>
    BY <1>1, <1>4, StepKeepsType DEF BeginNotice, OutboxTypeOK
  <2>2. asked' \in [Notices -> {"no", "open", "ok", "failed", "died"}]
        /\ asked'[n] # "no" /\ \A m \in Notices : m # n => asked'[m] = asked[m]
    BY <1>1, <1>4 DEF BeginNotice, OutboxTypeOK
  <2>3. tx' \in [open : BOOLEAN, rows : SUBSET Notices] /\ tx'.rows \subseteq {n}
    BY <1>4, TxShape DEF BeginNotice
  <2>4. TxInv'
    BY <1>1, <1>4, <2>1, <2>2, <2>3 DEF TxInv, BeginNotice
  <2> QED BY <1>1, <2>1, <2>2, <2>3, <2>4, RowsAppear DEF OutboxInv, OutboxTypeOK
<1>5. ASSUME NEW n \in Notices, CommitNotice(n)
      PROVE  OutboxInv'
  <2>1. JournalTypeOK' /\ UNCHANGED waiting
    BY <1>1, <1>5, StepKeepsType DEF CommitNotice, OutboxTypeOK
  <2>2. /\ asked' \in [Notices -> {"no", "open", "ok", "failed", "died"}]
        /\ \A m \in Notices : asked'[m] = "no" => asked[m] = "no"
    BY <1>1, <1>5 DEF CommitNotice, OutboxTypeOK
  <2>3. tx' \in [open : BOOLEAN, rows : SUBSET Notices] /\ tx'.rows = {}
    BY <1>5 DEF CommitNotice, NoTx
  <2>4. row' \in [Rows -> RowStatuses]
    BY <1>1, <1>5 DEF CommitNotice, RowStatuses
  <2>5. \A q \in Rows : row'[q] = row[q] \/ (row[q] = "none" /\ row'[q] = "pending")
    BY <1>1, <1>5 DEF CommitNotice, TxInv
  <2>6. TxInv'
    BY <1>1, <1>5, <2>2, <2>3 DEF CommitNotice, TxInv
  <2> QED BY <1>1, <2>1, <2>2, <2>3, <2>4, <2>5, <2>6, RowsAppear DEF OutboxInv, OutboxTypeOK
<1> QED BY <1>2, <1>3, <1>4, <1>5

\* A row that is there is in no transaction.
LEMMA TxKept ==
  ASSUME TxInv, UNCHANGED <<tx, asked>>, NEW r \in Rows, row[r] # "none",
         \A q \in Rows : q # r => row'[q] = row[q],
         tx.rows \subseteq Notices
  PROVE  TxInv'
BY DEF TxInv, Rows

\* The row under delivery.
LEMMA UnderDelivery ==
  ASSUME OutboxInv, Delivering
  PROVE  /\ pass \in BusyPass /\ pass.row \in Rows /\ row[pass.row] = "in-flight"
         /\ took[pass.row] <= trouble[pass.row] + (IF pass.step = "taken" THEN 1 ELSE 0)
<1>1. pass \in BusyPass /\ pass.row \in Rows /\ row[pass.row] = "in-flight"
  BY PassFields DEF OutboxInv, Delivering, ClaimInv
<1>2. Owed(pass.row) = IF pass.step = "taken" THEN 1 ELSE 0
  BY <1>1 DEF Owed, UnderWay
<1> QED BY <1>1, <1>2 DEF OutboxInv, CountInv

LEMMA Typed ==
  ASSUME OutboxInv
  PROVE  /\ JournalTypeOK /\ tx \in [open : BOOLEAN, rows : SUBSET Notices]
         /\ tx.rows \subseteq Notices
         /\ asked \in [Notices -> {"no", "open", "ok", "failed", "died"}]
         /\ waiting \subseteq {"redrive", "timer"} /\ stranded \subseteq Rows
         /\ mishaps \in 0..MaxMishaps
         /\ row \in [Rows -> RowStatuses] /\ took \in [Rows -> Nat] /\ trouble \in [Rows -> Nat]
         /\ pass \in QuietPass \cup BusyPass /\ TxInv
         /\ UNCHANGED journalVars => JournalTypeOK'
BY StepKeepsType DEF OutboxInv, OutboxTypeOK, RowStatuses

LEMMA MishapsBounded ==
  ASSUME OutboxInv, Works \/ Mishap
  PROVE  mishaps' \in 0..MaxMishaps
BY OutboxAssumption DEF OutboxInv, OutboxTypeOK, Works, Mishap

\* An outcome is recorded, or the claim is released, or the row is stranded;
\* the last two are trouble if the row was taken.
LEMMA WriteBackKeeps ==
  ASSUME OutboxInv, Delivering, NEW r \in Rows, r = pass.row,
         NEW status \in RowStatuses, NEW again \in {0, 1},
         \/ status = "delivered" /\ again = 1
         \/ status = "failed" /\ again = 0 /\ pass.step = "sending",
         WriteBack(r, status, again), UNCHANGED <<journalVars, tx, asked, waiting, took>>
  PROVE  OutboxInv'
<1>1. /\ pass \in BusyPass /\ row[r] = "in-flight" /\ took[r] <= trouble[r] + again
      /\ took[r] \in Nat /\ trouble[r] \in Nat
  BY UnderDelivery, Typed
<1>2. /\ pass' \in QuietPass /\ ~Delivering' /\ \A q \in Rows : ~UnderWay(q)'
  BY <1>1, OutboxAssumption DEF WriteBack, QuietPass, BusyPass, Delivering, UnderWay
<1>3. mishaps' \in 0..MaxMishaps
  BY MishapsBounded DEF WriteBack
<1>4. /\ row' \in [Rows -> RowStatuses] /\ trouble' \in [Rows -> Nat] /\ stranded' \subseteq Rows
      /\ \A q \in Rows : q # r => row'[q] = row[q] /\ trouble'[q] = trouble[q]
  BY Typed DEF WriteBack, Become, RowStatuses
<1>5. took'[r] <= trouble'[r] + Owed(r)'
  <2>1. CASE row'[r] = status /\ trouble'[r] = trouble[r]
    <3>1. Owed(r)' = again
      BY <1>2, <2>1 DEF Owed
    <3> QED BY <1>1, <2>1, <3>1
  <2>2. CASE trouble'[r] = trouble[r] + again
    <3>1. Owed(r)' \in {0, 1}
      BY DEF Owed
    <3> QED BY <1>1, <2>2, <3>1
  <2> QED BY <2>1, <2>2, Typed DEF WriteBack, Become
<1>6. TxInv'
  BY <1>1, <1>4, Typed, TxKept
<1> QED BY <1>1, <1>2, <1>3, <1>4, <1>5, <1>6, Typed, RowMoves

LEMMA PassTurnsKeep ==
  ASSUME OutboxInv, (\E kind \in waiting : PassStarts(kind)) \/ PassEnds
  PROVE  OutboxInv'
<1>1. UNCHANGED <<journalVars, row, tx, asked, took, trouble, stranded>>
  BY DEF PassStarts, PassEnds
<1>2. pass' \in QuietPass \cup BusyPass /\ (pass' = pass \/ (~Delivering /\ ~Delivering'))
  <2>1. NoPass \in QuietPass /\ ~(NoPass.step \in {"sending", "taken"})
    BY OutboxAssumption DEF NoPass, QuietPass, Kinds
  <2>2. ASSUME NEW kind \in waiting,
               pass' = [NoPass EXCEPT !.step = "next", !.kind = kind,
                                      !.rest = {r \in Rows : row[r] = "pending"}]
        PROVE  pass' \in QuietPass /\ ~Delivering'
    BY <2>1, <2>2, Typed DEF QuietPass, Kinds, Delivering
  <2> QED BY <2>1, <2>2, Typed DEF PassStarts, PassEnds, Delivering
<1>3. mishaps' \in 0..MaxMishaps /\ waiting' \subseteq {"redrive", "timer"}
  BY Typed, MishapsBounded DEF PassStarts, PassEnds, Works
<1>4. TxInv'
  BY <1>1, Typed DEF TxInv
<1> QED BY <1>1, <1>2, <1>3, <1>4, Typed, RowsAppear

\* Only a row that waits is claimed.
LEMMA ClaimKeeps ==
  ASSUME OutboxInv, NEW r \in Rows, Claim(r)
  PROVE  OutboxInv'
<1>1. /\ pass.step = "next" /\ pass \in QuietPass /\ ~Delivering
      /\ UNCHANGED <<journalVars, tx, asked, waiting, took, trouble, stranded>>
  BY Typed, PassFields DEF Claim, Delivering
<1>2. mishaps' \in 0..MaxMishaps
  BY MishapsBounded DEF Claim
<1>3. CASE UNCHANGED row /\ pass' \in {NoPass, [pass EXCEPT !.rest = @ \ {r}]}
  <2>1. pass' \in QuietPass /\ ~Delivering'
    BY <1>1, <1>3, OutboxAssumption DEF NoPass, QuietPass, Kinds, Delivering
  <2>2. TxInv'
    BY <1>1, <1>3, Typed DEF TxInv
  <2> QED BY <1>1, <1>2, <1>3, <2>1, <2>2, Typed, RowsAppear
<1>4. CASE /\ row[r] = "pending" /\ Become(r, "in-flight")
           /\ pass' = [step |-> "sending", kind |-> pass.kind, rest |-> pass.rest \ {r},
                       tries |-> 0, row |-> r]
  <2>1. /\ pass' \in BusyPass /\ pass'.row = r /\ pass'.step = "sending"
    BY <1>1, <1>4, OutboxAssumption DEF QuietPass, BusyPass
  <2>2. row' \in [Rows -> RowStatuses] /\ row'[r] = "in-flight" /\ \A q \in Rows : q # r => row'[q] = row[q]
    BY <1>4, Typed DEF Become, RowStatuses
  <2>3. took[r] <= trouble[r] /\ took[r] \in Nat /\ trouble[r] \in Nat
    <3>1. Owed(r) = 0
      BY <1>1, <1>4 DEF Owed, UnderWay
    <3>2. took[r] <= trouble[r] + 0
      BY <3>1 DEF OutboxInv, CountInv
    <3> QED BY <3>2, Typed
  <2>4. Owed(r)' = 0
    BY <2>1, <2>2 DEF Owed, UnderWay
  <2>5. TxInv'
    BY <1>1, <1>4, <2>2, Typed, TxKept
  <2> QED BY <1>1, <1>2, <2>1, <2>2, <2>3, <2>4, <2>5, Typed, RowMoves
<1> QED BY <1>3, <1>4 DEF Claim

\* An attempt: the webhook takes the row, or it does not; its answer is
\* recorded, or is lost.
LEMMA AttemptsKeep ==
  ASSUME OutboxInv, Taken \/ Answered \/ NotTaken \/ NotAnswered
  PROVE  OutboxInv'
<1>1. Delivering /\ UNCHANGED <<journalVars, tx, asked, waiting>>
  BY DEF Taken, Answered, NotTaken, NotAnswered, Delivering
<1>3. PICK r \in Rows : r = pass.row
  BY <1>1, UnderDelivery
<1>2. /\ pass \in BusyPass /\ row[r] = "in-flight"
      /\ took[r] <= trouble[r] + (IF pass.step = "taken" THEN 1 ELSE 0)
      /\ took[r] \in Nat /\ trouble[r] \in Nat
  BY <1>1, <1>3, UnderDelivery, Typed
<1>4. CASE Taken
  <2>1. /\ pass' \in BusyPass /\ pass'.row = r /\ pass'.step = "taken"
        /\ UNCHANGED <<row, stranded, trouble, mishaps>> /\ pass.step = "sending"
    BY <1>2, <1>3, <1>4 DEF Taken, BusyPass
  <2>2. /\ took' \in [Rows -> Nat] /\ took'[r] = took[r] + 1
        /\ \A q \in Rows : q # r => took'[q] = took[q]
    BY <1>2, <1>3, <1>4, Typed DEF Taken
  <2>3. Owed(r)' = 1
    BY <2>1 DEF Owed, UnderWay
  <2>4. TxInv'
    BY <1>1, <2>1, Typed DEF TxInv
  <2> QED BY <1>1, <1>2, <1>3, <2>1, <2>2, <2>3, <2>4, Typed, RowMoves
<1>5. CASE Answered
  BY <1>1, <1>2, <1>3, <1>5, WriteBackKeeps DEF Answered, RowStatuses
<1>6. CASE NotTaken
  <2>1. CASE pass' = [pass EXCEPT !.tries = @ + 1] /\ UNCHANGED <<row, stranded, trouble, mishaps>>
    <3>1. pass.tries + 1 \in 0..MaxTries
      BY <1>2, <1>6, <2>1, OutboxAssumption DEF NotTaken, BusyPass, WriteBack
    <3>2. /\ pass' \in BusyPass /\ pass'.row = r /\ pass'.step = pass.step /\ took' = took
      BY <1>2, <1>3, <1>6, <2>1, <3>1 DEF NotTaken, BusyPass
    <3>3. Owed(r)' = Owed(r) /\ took[r] <= trouble[r] + Owed(r)
      BY <1>2, <1>3, <2>1, <3>2 DEF Owed, UnderWay, OutboxInv, CountInv
    <3>4. TxInv'
      BY <1>1, <2>1, Typed DEF TxInv
    <3> QED BY <1>1, <1>2, <1>3, <2>1, <3>2, <3>3, <3>4, Typed, RowMoves
  <2>2. CASE WriteBack(r, "failed", 0)
    BY <1>1, <1>2, <1>3, <1>6, <2>2, WriteBackKeeps DEF NotTaken, RowStatuses
  <2> QED BY <1>3, <1>6, <2>1, <2>2 DEF NotTaken
<1>7. CASE NotAnswered
  <2>1. /\ mishaps' \in 0..MaxMishaps /\ took' = took /\ pass.step = "taken"
        /\ trouble' \in [Rows -> Nat] /\ trouble'[r] = trouble[r] + 1
        /\ \A q \in Rows : q # r => trouble'[q] = trouble[q]
    BY <1>2, <1>3, <1>7, Typed, MishapsBounded DEF NotAnswered
  <2>2. took'[r] <= trouble'[r] + Owed(r)'
    <3>1. Owed(r)' \in {0, 1}
      BY DEF Owed
    <3> QED BY <1>2, <2>1, <3>1
  <2>3. CASE /\ pass.tries + 1 < MaxTries /\ UNCHANGED <<row, stranded>>
             /\ pass' = [pass EXCEPT !.step = "sending", !.tries = @ + 1]
    <3>0. pass.tries + 1 \in 0..MaxTries
      BY <1>2, <2>3, OutboxAssumption DEF BusyPass
    <3>1. pass' \in BusyPass /\ pass'.row = r
      BY <1>2, <1>3, <2>3, <3>0 DEF BusyPass
    <3>2. TxInv'
      BY <1>1, <2>3, Typed DEF TxInv
    <3> QED BY <1>1, <1>2, <1>3, <2>1, <2>2, <2>3, <3>1, <3>2, Typed, RowMoves
  <2>4. CASE /\ pass' = [step |-> "next", kind |-> pass.kind, rest |-> pass.rest, tries |-> 0]
             /\ IF tx.open THEN stranded' = stranded \cup {r} /\ UNCHANGED row
                           ELSE Become(r, "failed") /\ UNCHANGED stranded
    <3>1. pass' \in QuietPass /\ ~Delivering'
      BY <1>2, <2>4, OutboxAssumption DEF BusyPass, QuietPass, Delivering
    <3>2. /\ row' \in [Rows -> RowStatuses] /\ stranded' \subseteq Rows
          /\ \A q \in Rows : q # r => row'[q] = row[q]
      BY <1>2, <2>4, Typed DEF Become, RowStatuses
    <3>3. TxInv'
      BY <1>1, <1>2, <3>2, Typed, TxKept
    <3> QED BY <1>1, <1>2, <1>3, <2>1, <2>2, <3>1, <3>2, <3>3, Typed, RowMoves
  <2> QED BY <1>3, <1>7, <2>3, <2>4 DEF NotAnswered
<1> QED BY <1>4, <1>5, <1>6, <1>7

\* Clearing and retention meet no row that a pass has claimed.
LEMMA TidyingKeeps ==
  ASSUME OutboxInv, NEW r \in Rows, ClearFailed(r) \/ PruneDelivered(r)
  PROVE  OutboxInv'
<1>1. /\ row[r] \in {"failed", "delivered"}
      /\ UNCHANGED <<journalVars, tx, asked, pass, waiting, took, trouble, stranded>>
      /\ mishaps' \in 0..MaxMishaps
  BY Typed, MishapsBounded DEF ClearFailed, PruneDelivered
<1>2. /\ row' \in [Rows -> RowStatuses] /\ \A q \in Rows : q # r => row'[q] = row[q]
      /\ row[r] = "delivered" => row'[r] = "pruned"
  BY Typed DEF ClearFailed, PruneDelivered, Become, RowStatuses
<1>3. Delivering => pass.row # r
  BY <1>1, UnderDelivery
<1>4. OutboxTypeOK'
  BY <1>1, <1>2, Typed, PassFields DEF OutboxTypeOK, Delivering, RowStatuses, Kinds
<1>5. ClaimInv'
  BY <1>1, <1>2, <1>3, UnderDelivery DEF ClaimInv, Delivering
<1>6. ASSUME NEW q \in Rows
      PROVE  took'[q] <= trouble'[q] + Owed(q)'
  <2>1. /\ took[q] <= trouble[q] + Owed(q) /\ took[q] \in Nat /\ trouble[q] \in Nat
        /\ (UnderWay(q)' <=> UnderWay(q))
    BY <1>1, Typed DEF OutboxInv, CountInv, UnderWay
  <2>2. Owed(q) = 1 => Owed(q)' = 1
    BY <1>1, <1>2, <2>1 DEF Owed
  <2>3. Owed(q) \in {0, 1} /\ Owed(q)' \in {0, 1}
    BY DEF Owed
  <2> QED BY <1>1, <2>1, <2>2, <2>3
<1>7. TxInv'
  BY <1>1, <1>2, Typed, TxKept
<1> QED BY <1>1, <1>4, <1>5, <1>6, <1>7, Typed DEF OutboxInv, CountInv

\* A boot sends what the dead process had claimed, which is trouble for the row
\* that was taken.
LEMMA RestartKeeps ==
  ASSUME OutboxInv, Restarts
  PROVE  OutboxInv'
<1>1. /\ tx' = NoTx /\ pass' = NoPass /\ UNCHANGED <<journalVars, took>> /\ mishaps' \in 0..MaxMishaps
      /\ waiting' \subseteq {"redrive", "timer"} /\ stranded' \subseteq Rows
  BY Typed, MishapsBounded DEF Restarts
<1>2. tx' \in [open : BOOLEAN, rows : SUBSET Notices] /\ tx'.rows = {}
  BY <1>1 DEF NoTx
<1>3. /\ asked' \in [Notices -> {"no", "open", "ok", "failed", "died"}]
      /\ \A n \in Notices : asked'[n] = "no" => asked[n] = "no"
  BY Typed DEF Restarts
<1>4. pass' \in QuietPass /\ ~Delivering' /\ \A q \in Rows : ~UnderWay(q)'
  BY <1>1, OutboxAssumption DEF NoPass, QuietPass, Kinds, Delivering, UnderWay
<1>5. /\ row' \in [Rows -> RowStatuses]
      /\ \A q \in Rows : row'[q] = row[q] \/ (row[q] = "in-flight" /\ row'[q] = "pending")
  BY Typed DEF Restarts, Swept, RowStatuses
<1>6. /\ trouble' \in [Rows -> Nat]
      /\ \A q \in Rows : trouble'[q] = IF UnderWay(q) THEN trouble[q] + 1 ELSE trouble[q]
  <2>1. CASE pass.step = "taken"
    BY <2>1, UnderDelivery, Typed DEF Restarts, UnderWay, Delivering
  <2>2. CASE pass.step # "taken"
    BY <2>2, Typed DEF Restarts, UnderWay
  <2> QED BY <2>1, <2>2
<1>7. JournalTypeOK'
  BY <1>1, Typed
<1>8. OutboxTypeOK'
  BY <1>1, <1>2, <1>3, <1>4, <1>5, <1>6, <1>7, Typed, PassFields
     DEF OutboxTypeOK, Delivering, RowStatuses, Kinds
<1>9. ASSUME NEW q \in Rows
      PROVE  took'[q] <= trouble'[q] + Owed(q)'
  <2>1. /\ took[q] <= trouble[q] + Owed(q) /\ took[q] \in Nat /\ trouble[q] \in Nat
    BY Typed DEF OutboxInv, CountInv
  <2>2. CASE UnderWay(q)
    <3>1. Owed(q) = 1 /\ Owed(q)' \in {0, 1}
      BY <2>2 DEF Owed
    <3> QED BY <1>1, <1>6, <2>1, <2>2, <3>1
  <2>3. CASE ~UnderWay(q)
    <3>1. Owed(q)' = Owed(q)
      BY <1>4, <1>5, <2>3 DEF Owed
    <3> QED BY <1>1, <1>6, <2>1, <2>3, <3>1
  <2> QED BY <2>2, <2>3
<1>10. TxInv'
  BY <1>2, <1>3, <1>5, Typed DEF TxInv, Rows
<1>11. ClaimInv'
  BY <1>4 DEF ClaimInv
<1> QED BY <1>4, <1>8, <1>9, <1>10, <1>11 DEF OutboxInv, CountInv

LEMMA OutboxKept ==
  ASSUME OutboxInv, [OutboxNext]_vars
  PROVE  OutboxInv'
<1>1. CASE UNCHANGED vars
  <2>1. UNCHANGED <<journalVars, row, tx, asked, pass, waiting, took, stranded, trouble, mishaps>>
    BY <1>1 DEF vars, outboxVars
  <2>2. TxInv'
    BY <2>1, Typed DEF TxInv
  <2> QED BY <2>1, <2>2, Typed, RowsAppear
<1>2. CASE PassStep
  BY <1>2, PassTurnsKeep, ClaimKeeps, AttemptsKeep, PassFields, Typed DEF PassStep
<1> QED BY <1>1, <1>2, RequestsKeep, TidyingKeeps, RestartKeeps DEF OutboxNext

\* A notice is sent once, and once more for each time that its outcome could not
\* be recorded, its answer was lost or the process died with it taken; no two
\* passes send the same row (notifier.ts, claim, deliverRows, redriveUndelivered).
THEOREM SentAsOftenAsOwed == OutboxSpec => []SentOncePerReason
<1>1. OutboxInv => SentOncePerReason
  <2> SUFFICES ASSUME OutboxInv, NEW r \in Rows PROVE took[r] <= 1 + trouble[r]
    BY DEF SentOncePerReason
  <2>1. took[r] <= trouble[r] + Owed(r) /\ Owed(r) \in {0, 1} /\ took[r] \in Nat /\ trouble[r] \in Nat
    BY Typed DEF OutboxInv, CountInv, Owed
  <2> QED BY <2>1
<1> QED BY <1>1, OutboxStarts, OutboxKept, PTL DEF OutboxSpec

-----------------------------------------------------------------------------
\* While nobody begins a transaction before the one that was rolled back has
\* resumed, whoever finds a transaction open in its turn to commit finds its own.
TruthInv ==
    /\ \A n \in Notices : asked[n] = "ok" <=> row[n] # "none"
    /\ \A n \in Notices : tx.open /\ asked[n] = "open" => tx.rows = {n}
    /\ ~tx.open => tx.rows = {}

\* A step that asks nothing and begins or ends no transaction makes no row of a
\* notice and takes none away.
LEMMA TruthOfOthers ==
  ASSUME OutboxInv, TruthInv,
         \/ JournalCalled \/ TimerTicks \/ PassStep \/ UNCHANGED vars
         \/ \E r \in Rows : ClearFailed(r) \/ PruneDelivered(r)
  PROVE  TruthInv'
<1>1. UNCHANGED <<tx, asked>>
  BY DEF JournalCalled, TimerTicks, PassStep, PassStarts, PassEnds, Claim, Taken, Answered,
         NotTaken, NotAnswered, ClearFailed, PruneDelivered, vars, outboxVars
<1>2. ASSUME NEW n \in Notices
      PROVE  row'[n] = "none" <=> row[n] = "none"
  <2>0. n \in Rows /\ n \notin Ops
    BY OutboxAssumption DEF Rows
  <2>1. CASE JournalCalled
    BY <2>0, <2>1 DEF JournalCalled
  <2>2. CASE TimerTicks \/ UNCHANGED vars
    BY <2>2 DEF TimerTicks, vars, outboxVars
  <2>3. CASE \E r \in Rows : ClearFailed(r) \/ PruneDelivered(r)
    BY <2>0, <2>3, Typed DEF ClearFailed, PruneDelivered, Become
  <2>4. CASE PassStep /\ Delivering
    <3>1. PICK r \in Rows : r = pass.row /\ row[r] = "in-flight"
      BY <2>4, UnderDelivery
    <3>2. \/ row' = row
          \/ \E status \in {"delivered", "failed", "pending"} : row' = [row EXCEPT ![r] = status]
      BY <2>4, <3>1 DEF PassStep, PassStarts, PassEnds, Claim, Taken, Answered, NotTaken,
                        NotAnswered, WriteBack, Become, Delivering
    <3> QED BY <2>0, <3>1, <3>2, Typed
  <2>5. CASE PassStep /\ ~Delivering
    <3>1. \/ row' = row
          \/ \E r \in pass.rest : row[r] = "pending" /\ row' = [row EXCEPT ![r] = "in-flight"]
      BY <2>5 DEF PassStep, PassStarts, PassEnds, Claim, Taken, Answered, NotTaken,
                  NotAnswered, Become, Delivering
    <3> QED BY <2>0, <3>1, Typed
  <2> QED BY <2>1, <2>2, <2>3, <2>4, <2>5
<1> QED BY <1>1, <1>2, Typed DEF TruthInv

LEMMA TruthOfRequests ==
  ASSUME OutboxInv, TruthInv, Resumed, NEW n \in Notices, BeginNotice(n) \/ CommitNotice(n)
  PROVE  TruthInv'
<1>1. CASE BeginNotice(n)
  <2>1. /\ row' = row /\ asked[n] = "no"
        /\ \A m \in Notices : asked[m] = "open" => m \in tx.rows
    BY <1>1 DEF BeginNotice
  <2>2. CASE tx.open
    <3>1. /\ tx' = NoTx /\ asked' = [asked EXCEPT ![n] = "failed"]
      BY <1>1, <2>2 DEF BeginNotice
    <3>2. ~tx'.open /\ tx'.rows = {}
      BY <3>1 DEF NoTx
    <3> QED BY <2>1, <3>1, <3>2, Typed DEF TruthInv
  <2>3. CASE ~tx.open
    <3>1. /\ tx' = [open |-> TRUE, rows |-> {n}] /\ asked' = [asked EXCEPT ![n] = "open"]
      BY <1>1, <2>3 DEF BeginNotice
    <3>2. tx'.rows = {n} /\ tx'.open
      BY <3>1
    <3>3. \A m \in Notices : asked[m] # "open"
      <4> SUFFICES ASSUME NEW m \in Notices, asked[m] = "open" PROVE FALSE
        OBVIOUS
      <4>1. m \in tx.rows
        BY <2>1
      <4> QED BY <2>3, <4>1 DEF TruthInv
    <3> QED BY <2>1, <3>1, <3>2, <3>3, Typed DEF TruthInv
  <2> QED BY <2>2, <2>3
<1>2. CASE CommitNotice(n)
  <2>1. asked[n] = "open" /\ tx' = NoTx /\ ~tx'.open /\ tx'.rows = {}
    BY <1>2 DEF CommitNotice, NoTx
  <2>2. CASE tx.open
    <3>1. tx.rows = {n}
      BY <2>1, <2>2 DEF TruthInv
    <3>2. /\ row' = [r \in Rows |-> IF r \in {n} THEN "pending" ELSE row[r]]
          /\ asked' = [asked EXCEPT ![n] = "ok"]
      BY <1>2, <2>2, <3>1 DEF CommitNotice
    <3> QED BY <2>1, <3>2, Typed DEF TruthInv, Rows
  <2>3. CASE ~tx.open
    BY <1>2, <2>1, <2>3, Typed DEF CommitNotice, TruthInv
  <2> QED BY <2>2, <2>3
<1> QED BY <1>1, <1>2

LEMMA TruthOfRestarts ==
  ASSUME OutboxInv, TruthInv, Restarts
  PROVE  TruthInv'
<1>1. ~tx'.open /\ tx'.rows = {}
  BY DEF Restarts, NoTx
<1>2. \A n \in Notices : asked'[n] = "ok" <=> asked[n] = "ok"
  BY Typed DEF Restarts
<1>3. \A n \in Notices : row'[n] = "none" <=> row[n] = "none"
  BY Typed DEF Restarts, Swept, Rows
<1> QED BY <1>1, <1>2, <1>3 DEF TruthInv

\* Success means that the notice's row was committed and failure that it was
\* not, also when transactions on the one connection meet (notifier.ts, enqueue;
\* structured-store.ts, transaction), as long as the one that was rolled back
\* resumes before a third begins.
THEOREM TransactionsAlwaysTellTrue ==
  ASSUME Resumed
  PROVE  OutboxSpec => []TransactionsTellTrue
<1>1. OutboxInit => TruthInv
  BY DEF OutboxInit, TruthInv, NoTx, Rows
<1>2. OutboxInv /\ TruthInv /\ [OutboxNext]_vars => TruthInv'
  BY TruthOfOthers, TruthOfRequests, TruthOfRestarts DEF OutboxNext
<1>3. OutboxInv /\ TruthInv => TransactionsTellTrue
  BY DEF TruthInv, TransactionsTellTrue
<1> QED BY <1>1, <1>2, <1>3, OutboxStarts, OutboxKept, PTL DEF OutboxSpec
=============================================================================
