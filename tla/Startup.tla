------------------------------- MODULE Startup -------------------------------
(***************************************************************************)
(* Starting and stopping the service on one volume                         *)
(* (src/src/lifecycle/boot.ts): the lease, the checks of the image, the    *)
(* store with its backup and migrations, the takeover's audit record, the  *)
(* service, its maintenance and its end, for a series of instances that    *)
(* start, fail, die and are stopped.                                       *)
(*                                                                         *)
(* Every await of boot is the end of a step.  What boot does to jobs,      *)
(* declarations, entries and clones is in Scheduler, Declarations,         *)
(* Recovery and CloneStore; here those passes succeed or fail the boot.    *)
(***************************************************************************)
EXTENDS Lease, AuditTrail, StoreFile

CONSTANTS MaxFaults,   \* bound on failing writes and failing checks
          Careful      \* what does not go wrong: the lease file changes
                       \* "apart" from its readers, lines are written "whole",
                       \* and every "unlink" of a pass works

ASSUME StartupAssumption ==
    /\ MaxFaults \in Nat
    /\ Careful \subseteq {"apart", "whole", "unlink"}
    /\ NoName \notin [seq : Nat, id : Nat, prev : Nat, names : Instances \cup {NoName}]

VARIABLES step,      \* step[i]: how far an instance is
          faults     \* how many things went wrong

vars == <<lease, trail, storage, step, faults>>

Steps == {"new", "read", "locked", "leased", "checked", "open", "copied", "migrated",
          "telling", "told", "up", "draining", "gone"}

TypeOK ==
    /\ LeaseTypeOK
    /\ TrailTypeOK(Instances \cup {NoName})
    /\ StoreTypeOK
    /\ step \in [Instances -> Steps]
    /\ faults \in 0..MaxFaults

Init ==
    /\ LeaseInit /\ TrailInit /\ StoreInit
    /\ step = [i \in Instances |-> "new"]
    /\ faults = 0

-----------------------------------------------------------------------------
Moves(i, from, to) == step[i] = from /\ step' = [step EXCEPT ![i] = to]
Goes(i, from) == Moves(i, from, "gone")
Holding(i) == step[i] \notin {"new", "read", "gone"}
Fails == faults < MaxFaults /\ faults' = faults + 1
Works == UNCHANGED faults

\* boot, step 1 (acquireLease).
Start(i) ==
    /\ Moves(i, "new", "read")
    /\ ReadLeaseFile(i)
    /\ Works /\ UNCHANGED <<trail, storage>>

Acquire(i) ==
    /\ "apart" \in Careful => file = previous[i]
    /\ Moves(i, "read", "locked")
    /\ TakeLock(i)
    /\ Works /\ UNCHANGED <<trail, storage>>

Refused(i) ==
    /\ Goes(i, "read")
    /\ lock # None
    /\ Works /\ UNCHANGED <<lease, trail, storage>>

NotExclusive(i) ==
    /\ Goes(i, "locked")
    /\ FailSelfTest(i)
    /\ Fails /\ UNCHANGED <<trail, storage>>

NameHolder(i) ==
    /\ Moves(i, "locked", "leased")
    /\ WriteLeaseFile(i)
    /\ Works /\ UNCHANGED <<trail, storage>>

\* A failure of boot past step 1: close what is open, release the lease.
BootFails(i, at) ==
    /\ Goes(i, at)
    /\ Release(i)
    /\ ForgetTail
    /\ Fails

\* Steps 2 and 3: the registry, the console, the ceiling, the executors.
ImageFits(i) ==
    /\ Moves(i, "leased", "checked")
    /\ Works /\ UNCHANGED <<lease, trail, storage>>
ImageUnfit(i) == BootFails(i, "leased") /\ UNCHANGED storage

\* Step 4: the store is opened and checked, copied, migrated.
Open(i) ==
    /\ Moves(i, "checked", "open")
    /\ OpenStore
    /\ Works /\ UNCHANGED <<lease, trail>>
Corrupt(i) == BootFails(i, "checked") /\ UNCHANGED storage

Backup(i) ==
    /\ Moves(i, "open", "copied")
    /\ BackupStore
    /\ Works /\ UNCHANGED <<lease, trail>>
NoBackup(i) == BootFails(i, "open") /\ \E partial \in BOOLEAN : BackupFails(partial)

Migrate(i) ==
    /\ step[i] = "copied"
    /\ ApplyMigration
    /\ Works /\ UNCHANGED <<lease, trail, step>>
NoMigration(i) == BootFails(i, "copied") /\ MigrationFails
Migrated(i) ==
    /\ ~ Pending
    /\ Moves(i, "copied", "migrated")
    /\ Works /\ UNCHANGED <<lease, trail, storage>>

\* The takeover's record: it can be written now, and never fails the boot.
NothingToTell(i) ==
    /\ previous[i] = None
    /\ Moves(i, "migrated", "told")
    /\ Works /\ UNCHANGED <<lease, trail, storage>>
Tell(i) ==
    /\ previous[i] # None
    /\ Moves(i, "migrated", "telling")
    /\ WriteRecord(previous[i])
    /\ Works /\ UNCHANGED <<lease, storage>>
CannotTell(i) ==
    /\ previous[i] # None
    /\ Moves(i, "migrated", "told")
    /\ \E partial \in BOOLEAN : ("whole" \in Careful => ~ partial) /\ WriteFails(partial)
    /\ Fails /\ UNCHANGED <<lease, storage>>
Told(i) ==
    /\ Moves(i, "telling", "told")
    /\ \/ AnswerAppend(TRUE) /\ Works
       \/ AnswerAppend(FALSE) /\ Fails
    /\ ConfirmTakeoverAudited(i)
    /\ UNCHANGED storage

\* The rest of boot: the watchers' revalidation or the journal may fail it.
ComeUp(i) ==
    /\ Moves(i, "told", "up")
    /\ Works /\ UNCHANGED <<lease, trail, storage>>
CannotComeUp(i) == BootFails(i, "told") /\ UNCHANGED storage

-----------------------------------------------------------------------------
\* The service runs: calls write the store and append their records, those that
\* were under way when the signal came too.
Serves(i) == step[i] \in {"up", "draining"}

Serve(i) ==
    /\ Serves(i)
    /\ \/ ChangeContents /\ UNCHANGED trail
       \/ WriteRecord(NoName) /\ UNCHANGED storage
    /\ Works /\ UNCHANGED <<lease, step>>
CannotLog(i) ==
    /\ Serves(i)
    /\ \E partial \in BOOLEAN : ("whole" \in Careful => ~ partial) /\ WriteFails(partial)
    /\ Fails /\ UNCHANGED <<lease, storage, step>>
Logged(i) ==
    /\ Serves(i)
    /\ \/ AnswerAppend(TRUE) /\ Works
       \/ AnswerAppend(FALSE) /\ Fails
    /\ UNCHANGED <<lease, storage, step>>

\* runMaintenance: each owner's retention is one turn of the pass, and the
\* pass does not depend on the order of these two.
KeepTrail(i) ==
    /\ Serves(i)
    /\ \E old \in Closed :
          \/ PruneTrail(old, {}) /\ Works
          \/ /\ "unlink" \notin Careful
             /\ \E stuck \in Closed : PruneTrail(old, {stuck})
             /\ Fails
    /\ UNCHANGED <<lease, storage, step>>
KeepCopies(i) ==
    /\ Serves(i)
    /\ RetainStore
    /\ Works /\ UNCHANGED <<lease, trail, step>>

\* The signal: no timer fires and no request is taken any more.
Drain(i) ==
    /\ Moves(i, "up", "draining")
    /\ Works /\ UNCHANGED <<lease, trail, storage>>

\* Once every request and every pass has ended, the audit trail and the store
\* are closed and the lease is released.
Shutdown(i) ==
    /\ Goes(i, "draining")
    /\ writing = NoName
    /\ Release(i)
    /\ ForgetTail
    /\ Works /\ UNCHANGED storage

\* The process dies between two steps, or while it writes a line.
Die(i) ==
    /\ step[i] \notin {"new", "gone"}
    /\ step' = [step EXCEPT ![i] = "gone"]
    /\ Fall(i)
    /\ IF Holding(i) THEN \/ ForgetTail
                          \/ "whole" \notin Careful /\ step[i] \in {"migrated", "up", "draining"} /\ TornByDeath
                     ELSE UNCHANGED trail
    /\ Works /\ UNCHANGED storage

Over == (\A i \in Instances : step[i] = "gone") /\ UNCHANGED vars

Booting(i) ==
    \/ Start(i) \/ Acquire(i) \/ Refused(i) \/ NotExclusive(i) \/ NameHolder(i)
    \/ ImageFits(i) \/ ImageUnfit(i) \/ Open(i) \/ Corrupt(i)
    \/ Backup(i) \/ NoBackup(i) \/ Migrate(i) \/ NoMigration(i) \/ Migrated(i)
    \/ NothingToTell(i) \/ Tell(i) \/ CannotTell(i) \/ Told(i) \/ ComeUp(i) \/ CannotComeUp(i)

Serving(i) ==
    Serve(i) \/ CannotLog(i) \/ Logged(i) \/ KeepTrail(i) \/ KeepCopies(i)
    \/ Drain(i) \/ Shutdown(i)

Next == (\E i \in Instances : Booting(i) \/ Serving(i) \/ Die(i)) \/ Over

Spec == Init /\ [][Next]_vars

-----------------------------------------------------------------------------
(***************************************************************************)
(* A holder that died is not lost from sight: it is in the audit trail, or *)
(* the lease file still names it, or the instance that took its place      *)
(* knows it and will tell.  Only that instance's own death before it told  *)
(* loses it.  (boot.ts, the takeover record; lease.ts, release and         *)
(* confirmTakeoverAudited.)                                                *)
(***************************************************************************)
IsTold(d) == \E i \in confirmed : previous[i] = d
FallenAreSeen ==
    \A d \in fallen \ excused :
        IsTold(d) \/ file = d \/ \E i \in Instances : Holding(i) /\ previous[i] = d

=============================================================================
