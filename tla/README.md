# A formal model of SubZeroDev.Git

SubZeroDev.Git is one Node process that lets agents, operators and timers work on declared git
repositories: it clones them on a volume, runs typed git and pull-request tools in them, and keeps
a journal, an audit trail and an outbox in a store beside them. These modules model what keeps that
in order: the locks, the journal, the dispatch pipeline and the recovery of what a dead process
left behind; the scheduler, the watcher and the notifier, which act by themselves; the clones and
the branches in them; who may do what; and how the service starts and stops.
TLC checks the model on small instances; TLAPS proves the safety of nearly all of it for instances of any size.

Paths below are relative to the repository; `src/src/` of the source map is the service's `src/`.

## 1. Inventory

| Part | State it keeps | Operations | Talks to |
|---|---|---|---|
| Locks (`locks/locks.ts`) | the mutation mutex, one materialisation mutex per declaration, pins, wait counters | acquire, give up, release, pin, admit a wait | called by the pipeline and the clone store |
| Journal (`journal/journal.ts`) | `journal_entry`, `journal_step` rows; outbox rows that commit with them | begin, appendStep, markApplied, settle, park, classify, runRetention | pipeline, handlers, recovery, operator, scheduler |
| Recovery catalogue and descriptors | one descriptor per tool | expectedPostState, resume | read by `classify` |
| Dispatch pipeline (`dispatch/dispatch-pipeline.ts`) | `recovered`, `recovering`, the last volume reading, sinks of terminal states | dispatch of reads, monitoring waits, mutations | everything above, clone store, audit, tools |
| Git operations, composites, host operations | none of their own; the clone, its refs, the remote, the pull requests | one handler per tool | exec, journal steps, GitHub |
| Recovery (`lifecycle/recovery.ts`) | the claim table of passes | recover, sweep | journal, clone store, dispatch |
| Boot, lease, composition root | the lease file and lock; readiness | boot, maintenance, drain, resolveParkedOperation | everything |
| Clone store (`clone/clone-store.ts`) | `clone` rows, clones and quarantine on disk | ensure, observe, evict, remove, derive, mark and clear attention | locks, git |
| Audit trail (`audit/audit.ts`) | segments of hash-chained records, anchors, the mirrored head | append, query, verify, retention | everyone appends |
| Scheduler (`scheduler/scheduler.ts`) | `scheduled_job` rows | create, cancel, tick, resolveRunningAtBoot | dispatch, journal |
| Notifier (`notifier/notifier.ts`) | `notification_outbox` rows | enqueue, deliverPending, redriveUndelivered, clearFailed | a webhook |
| Watcher (`watcher/watcher.ts`) | files moving between directories, the list of followed pull requests | tick, recoverInterruptedClaims | dispatch, notifier |
| Declarations, authorization | declarations with generation and grant epoch; clients, grants, tokens | their administration | routes, pipeline, scheduler |
| Operator identity, credentials | the credential, codes, sessions; failure marks | sign-ins, re-enrolment; resolve, mark, clear | console routes; every child that needs a secret |
| Structured store | the SQLite file, its one connection, backups and snapshots | open, migrate, transaction, snapshot | all of the above |
| Surfaces | MCP sessions, streams, consents and codes | routing, the sweep of streams | pipeline, authorization |
| Adapters, compiler, console, scripts | none | parsing, translation | pipeline |

What is hard here is not any one of these but their order. The process is a single event loop, so
a stretch of code without a real await is atomic to other requests; it is not atomic to a crash.
Store writes, clone marks, audit appends and files go to different places one after the other. A
call's limit can fire while its handler works on. A push can land after everyone stopped waiting
for it. Recovery, the scheduler, the watcher and maintenance run beside live calls and dispatch
calls of their own. `PROJECT.json` lists these hazards with the line each one bites at, and the
properties that cover them.

What makes each part correct:

* Locks: mutual exclusion, arrival order, no lost hand-over, a bounded queue, idempotent release;
  the counters of waits count waits.
* Journal: an entry never goes back; a park is announced once; retention spares what is unsettled.
* Pipeline: a call acts only under both locks and with its intent on the books, and every exit
  gives back what it took; an outcome nobody knows is parked and never settled.
* Recovery: its verdicts are true of what happened; it never touches a live call nor takes an
  entry out of a human's hands; it ends, and it reaches what nobody asks for.
* Scheduler: a job reaches the host at most once and a cancelled one never; a due one is decided.
* Clone store: a clone in use is not evicted, nothing that exists nowhere else is deleted, marks stay.
* Composites: no commit is lost, no published branch rewritten, and answers are true.
* Watcher: a file opens one pull request, which is followed; only planned paths are committed.
* Notifier: a row is delivered, again only for a reason, and recorded as what it is.
* Audit, lease, store: what was acknowledged stays readable and verifies; one process owns the
  volume and a dead holder is told of; a failed migration names a way back.
* Authorization and surfaces: a call acts within what holds now; an old era's sessions do not.
* Operator identity: a secret begins one session; an owed re-enrolment closes the console.
* Credentials: a refused secret is not used again, and nothing else blocks a declaration.

## 2. Modules

| Module | Models | State and actions |
|---|---|---|
| `Mutex` | `createMutex` | operators on one value `[current, queue]`: `Enqueue`, `GiveUp`, `Release`, `GrantNext`, `Full` |
| `Locks` | `createLocks` and callers that ask once | `mutex`, `call`, `wants`; one action per answer of `acquire`, and both kinds of release |
| `LockService` | abstract: exclusive locks served in arrival order | `owner`, `waiting`, `earlier`, `fresh` |
| `Waits` | `dispatchMonitoringWait`, `awaitChecks` | `wait[w]` from admission to its notice, the counters, the sink and the rows; time in ticks |
| `Tools` | the mutating tools and their recovery descriptors | no state; `Program` gives each tool its journal steps and effects in order |
| `Journal` | `createJournal` | `entry`, `announced`; one action per operation |
| `Dispatch` | `dispatchMutating`, the handlers it runs, the audit queue, the clone mark | `pc[op]` walks a call from `idle` to `done`, `refused` or `lost` |
| `Recovery` | the ladder, the claim table, the sweep | `pass[d]` with its snapshot; one action per verdict and outcome |
| `GitService` | the composition: the above, the operator's route, crash and boot | `resolving`, `crashes`, and everything of the above |
| `SerialLedger` | abstract: one operation acts at a time, on the books first, off them closed or parked | `actor`, `book`, `acted`, `sent` |
| `Scheduler` | `createScheduler`, the tick's timer, boot's resolution of jobs | `job`, `tick`, `call`; one action per verdict of a tick, per step of a fired call, per client operation |
| `Outbox` | `createNotifier`, the store connection's transactions | `row`, `tx`, `pass`; claims, deliveries, write-backs, redelivery |
| `Composites` | both composites and the git tools on a graph of commits | the origin's refs and the clone's; one action per git child |
| `CloneStore` | `createCloneStore` for one declaration | `row`, `tree`, `lock`, `phase[c]`, the maintenance pass, a removal |
| `Watcher` | `createWatcher` for one declaration | `place[f]`, `pending`, `tick`; one action per awaited call and per file written |
| `Lease`, `AuditTrail`, `StoreFile` | the three things on the volume | operators with which `Startup` composes its steps |
| `Startup` | `boot`, maintenance, drain, death | `step[i]` of every instance ever started |
| `Declarations`, `Authorization` | their services | rows by generation, the generation mark; clients, grants, tokens, statement by statement |
| `McpRoutes` | the OAuth and MCP surface over both | `sessions`, `streams`, `pending`, `codes`; `Admitted` is what lets a call in |
| `OperatorIdentity`, `ConsoleAuth` | the identity and the console's routes over it | the credential row, codes, files, sessions; `awaits[r]` is where a request is |
| `Credentials` | the resolver and the calls that use it | `mount`, `variable`, `marks`, `call` |

`Dispatch` extends `Journal` and `Mutex`, `Recovery` extends `Dispatch`, `GitService` extends
`Recovery`; `Scheduler` and `Outbox` extend `Journal`; `Waits` extends `Locks`; `McpRoutes` extends
`Authorization`, which extends `Declarations`; `Startup` extends `Lease`, `AuditTrail` and
`StoreFile`; `ConsoleAuth` extends `OperatorIdentity`. `Locks` implements `LockService` and
`GitService` implements `SerialLedger`, each through an `INSTANCE ... WITH` at the end of the
module. `MC*` modules give the constants their values.

### How state and actions correspond to the code

*A step* runs from one await on real I/O to the next: a lock wait, a git child, a request, the
audit append. Store writes (`DatabaseSync`) are synchronous, so consecutive ones share a turn of
the event loop; they are still separate steps wherever a crash between them leaves something that
must be dealt with (`ParkCall` then `MarkCall`; the statements of a token rotation). A step that
may not be interleaved, but may be cut by a crash, is guarded by `MidTurn`.

*A mutating call.* `idle` - the gate (`ArriveFirst` claims or joins the recovery pass and `PassDone`
goes on, `ArriveRecovering` is refused, `Arrive` goes straight on) - `matWait` - `mutWait` -
`running` - `audit` - `settle`, or `park` and `mark` - `done`. `RefuseHolding` stands for every
refusal under a lock before the intent is written: `ensure` failed, the volume is full, the
pre-state could not be observed, `begin` failed. `GiveUp...` are the timers and aborts of the waits.

*Handlers.* In `Dispatch` a handler runs its tool's program an instruction at a time and may fail,
lose its child to a signal or run into the limit after any of them. Git state is three facets, each
holding the last operation that changed it: equal values mean nothing changed in between. Branch and
worktree digest are left out of the facets because they move with head and index for every tool
here, and `indexDigest` moves for `git_stage` and `git_restore_paths` only. `git_push` pushes the
branch checked out; the tool `push_elsewhere` is the same handler with another branch named
(`input.branch`), whose arrival changes nothing that is observed of the one checked out. A branch
`prepare_branch` makes from a commit tracks nothing (`Untracked`). A fetch is assumed to find news,
and a push is accepted by the remote only where no fetch has shown it moved. One that lands late is
refused once a later push has moved the ref it named (`Overtaken`). `prepare_branch`'s local steps
after its fetch are one `switch` there; `Composites` has them one by one.
`git_raw` ends its own entry, so its `handler` outlives the call: `RawLimitFires` ends the call
while the handler is `running`, `settling`, `parking` or `marking`, and `RawFinishes` comes
whenever it comes. Its intent record is not modelled apart from its outcome record.

*The audit queue.* Appends are written in the order they were asked for (`appends`), which is why
a call's settle waits behind another request's append. `audited` is what reached the trail.

*Recovery.* `Snapshot` reads the unsettled entries and which of them are parked; the pass then works
on that reading. A resume is an ordinary call dispatched with context `recovery`, which skips the
gate. It goes through the same `matWait` and `mutWait` as any other.

*Crash and boot* is one action in every module: volatile state is gone, what was written stays, a
request under way may still land. The git children of a dead process are assumed dead.
`Startup` has boot itself, step by step.

*Monitoring waits.* A wait asks for the materialisation lock only to have its clone made ready, and
polls without it. Of the checks a read returns it tells apart whether one is pending and whether a
required one failed (`red`) or only others did (`amber`). The calls beside the waits are callers of
`Locks`, so that lock waits, refusals and releases of both kinds meet. `LimitFires` is the pipeline's
own limit on the call (`Limit`): the call is answered and gives back what it holds (`cut`), and the
handler goes on to an end that nobody hears (`Unheard`).

*The scheduler.* `TickReads` takes the list of due jobs and the tick works through it, in any order,
since due times are not kept. The only real await in a tick is the dispatch of a job it fired:
`grantIsLive` and `declarations.get` are synchronous store reads behind a promise, so nothing runs
between a verdict's reading and its write (`MidTurn`), and everything runs between the verdicts
before and after a dispatch. `writeStatus` asks nothing of the row it writes and only the claim
(`ClaimWins`) does. Each call is one of the finitely many attempts of its job; a job fires again
only after a boot, so one more attempt than there are crashes is enough (`SchedulerAssumption`).
The tool is `pr_enable_auto_merge`, the one production tool that is schedulable: it writes its
step, sends its request (`sent`), and the host acts on it now or later (`acted`). Retention deletes
settled entries and terminal jobs; `LongLived` says whether a job may stay `running` for so long
that its settled entry is deleted (30 days by default) before a boot has looked at it.

*The outbox.* A park's row commits in the journal's own synchronous transaction. A notice goes
through the one connection, between whose `BEGIN` and `COMMIT` other turns run: passes find the
store locked, and a second transaction is refused and rolls back the first. Passes are serialised
behind a promise (`waiting`).

*Branches.* A commit is `[on, adds]`: the commit of the origin's base it stands on and the changes
added since. A rebase moves the first and keeps of the second what the new base lacks; the host
merges a request as one commit. `Kill` ends a child between any two and, with `crash`, the process;
a composite that was killed is begun again by `Start`.

*Clones.* `tree` is what the directory is: none, partial (being cloned), clean, dirty, broken, or the
remains of one that could not be deleted (`Removed`: `removePartial` tells nobody). A store that was set
up anew or restored from a copy finds a clone it has no row for, which is adopted. Writers hold
the lock and a pin, readers a pin. What awaits git or the disk is cut into steps, what awaits only
the store is one.

*Files.* In `Watcher` a file's state is the directory it lies in, and the list of pull requests is a
file too. Each call of a delivery is a step, at which the consumer's handler, another session
(`Meddle`) or a failure may come in. `opened`, `reconciles`, `strayed` (what was committed outside
its plan), `intruded` (what another session staged after the last look) and `dropped` are history
the code does not keep.

*Starting and stopping.* An instance goes `new`, `read` (lease file), `locked`, `leased`, `checked`,
`open`, `copied`, `migrated`, `telling`, `told`, `up`, `draining`, `gone`. `Shutdown` comes from
`draining` and waits for the record that is being written; a signal before `up` simply kills
(`Die`). A record's hash is its identity: two records never share one.

*Authority.* Every request to `McpRoutes` is one action because the store answers in the turn. A
request carries its session; `Admitted(s, c)` is what `checkSession` and the pipeline's capability
check let through. `eras` and `eraOf` count eras as an observer would, since the code compares
epochs, which start again. `authorization.ts` commits statement by statement, and a `Crash` may
leave any prefix.

*The console.* A request is at `Rest`, in an awaited step of the identity, or past the gate
(`route`). Nothing is read before a route's body arrives, so the body is not a step of its own; a
refused request that changes nothing is no step. Deadlines are the ticks that are left, down to
where they last matter, so that time has no bound.

*Credentials.* Secrets are numbered as they are written, mount and marks carry times of one clock
that does not go back, and a file's content and time change at once. A secret written again with
the same bytes counts as a changed one in the code, as its comment says; it is not written again
here. Which hosts a secret may go to (`allowedHosts`) is refused before anything is read.

## 3. What the runs check

| Run | Instance | Shows |
|---|---|---|
| `locks_waits` | a call and two monitoring waits of two sessions; one wait per session; time of 3 asked, 2 allowed, and a limit of 2 | `ImplementsLockService`: mutexes serve in order of arrival. `PlacesCountWaits`, `VerdictsToldOnce`, `WaitsEnd` |
| `service_crash` | `prepare_branch`, a push and a repair session's commit on one declaration; queue depth 1; 1 failing write and 1 crash | recovery's verdicts are true of what happened and judge no live call; effects follow intents; the service implements `SerialLedger` |
| `service_liveness` | three casts out of `git_raw`, two `prepare_branch` and a push on a second declaration, 1 crash, an operator, fairness | every call ends, leftovers are decided, parked entries wait for a human |
| `scheduler_jobs` | two jobs of one declaration, one under a revocable grant, one that may be skipped; 1 crash, 1 failing access, fairness | no job reaches the host twice or after it was cancelled or skipped; due jobs are decided |
| `branches` | a clone with base and feature branch, 2 changes, 2 commits of the origin's base, 1 kill | no committed change is lost, no published branch rewritten, composites answer truly |
| `clones` | two writers and two readers, a pass, an operator, 2 eras, 2 crashes, deletions that fail | users keep a tree nobody is still making, work is not deleted, marks stay |
| `watcher` | a file under the name of one delivered before, a permitted and a forbidden path; 1 crash, 1 fault, 1 meddling | one pull request per file, followed; the commit within the plan but for what came in after the last look; no file lost; the inbox drains |
| `outbox` | an entry under callers in any order, 2 notices; 2 mishaps, fairness | notices are told truly of their transaction, sent again only for a reason, decided |
| `startup` | 3 instances on one volume, 2 migrations, segments of 2 lines, 5 records; 1 fault | the trail keeps and verifies what it acknowledged; the way back is right; dead holders are told of |
| `access` | one declaration in 2 eras, 1 client, 1 grant, 3 tokens, 2 session ids for 1 place, 1 stream | authority is current; one refresh token per grant; streams catch up |
| `console` | 2 requests, 1 code, 1 token, 3 TOTP secrets, 2 sessions, 2 states for 1 place; unbounded time | a secret begins one session; the gate holds |
| `credentials` | 2 declarations on one reference, 2 calls and a first clone, 2 secrets, 4 ticks, 1 store failure | blocks are deserved; a refused secret stays refused |

Each property of a run has a mutant: a plausible slip in one definition (defined just before the
original, marked "Mutation of") under which TLC finds the property violated.

*The casts of `service_liveness`.* One instance with every actor at once is out of TLC's reach, so
`MCServiceCasts` says which calls take part and when (`early`, `late` after the boot, `inPass`,
`inResume`), and runs each cast: the hatch beside a composite, with an operator; and a composite cut
short by the crash, which a second composite of the same clone resumes or awaits in its pass while
the hatch waits for it too, or while a call of another declaration has or awaits the mutation lock.
That the pass's own dispatched call, a call that waits for the pass and one that waits for the lock
are there together is what a circle of waits would need. Clients and operators are not fair, so a
cast only leaves out calls that nothing makes.

*Why these bounds.* Every instance has what its hazard needs and one actor more where there is a
queue. Of calls: one that holds, one that waits, one that is refused at the bound; they share a
declaration, where all conflicts over a clone and its entries are (`LocksAreDisciplined` covers
contention across declarations). Two jobs are what a stale list needs, each with an attempt for the
boot before and after the crash. One crash separates the process that acted from the one that
judges; `clones` has two, so that what one boot made is judged by another. Three instances are a
holder that dies, a successor that dies before it told, and one that must tell. Two eras are what
an epoch that starts again needs, three tokens a pair and its rotation. One session place for two ids
makes every second session evict. The mutation queue is empty of waiters in `locks_waits`
(`MutationQueueDepth = 0`) and one deep in the service; every depth is proved. `PerProcess` does
not bind with two waits; what it counts is proved for every limit.

`CHECK_DEADLOCK FALSE` is said of the waits' instances only, whose calls all end; elsewhere
something can always happen, or a named stuttering step (`Idle`, `Over`) is allowed exactly when
everything is done, so that a stuck call is reported. `CONSTRAINT`s leave out states and no behaviour of interest: in `access`
one consent is on its way at a time and the operator's own tokens are issued while no client is
registered (they share token numbers only); in `outbox`, the pre-state and step numbers, which no
operation of the journal reads.

### What is true only under conditions

Some switches (`Careful`, `Orderly`, `Quiet`, `Resumed`, `LongLived`) take a case out of a run
because the code does not keep the property in that case; the next section says what happens then.

| Switch | What it leaves out |
|---|---|
| `Watcher` `redrop` | a file dropped under the name of one that is being delivered |
| `CloneStore` `derive` | a clone that is made, marked or brought into a new era while a maintenance pass looks at it |
| `CloneStore` `remove` | a clone that is made, or a mutation of it, while a removal looks at it |
| `CloneStore` `quarantine` | a quarantine under a call or an unsettled entry |
| `CloneStore` `deleted` | a row whose write fails after its directory was deleted |
| `CloneStore` `eras` | a call under way while its declaration is orphaned and declared again |
| `Startup` `apart`, `whole`, `unlink` | a lease file that changes between being read and the lock; half-written lines; a retention pass that cannot delete what it anchored |
| `Credentials` `calls`, `tie`, `read` | a rotation under a call that is refused the old secret (the old one stays good until the calls that hold it end), in the millisecond of a mark, between the resolver's reading of the file and of the mark |
| `Composites` `onbranch`, `prompt` | a hatch commit on the detached head of a stale rebase; a composite begun while a killed push is still on its way |
| `Outbox` `Resumed` | a third transaction before the first one, which the second rolled back, has resumed |
| `Scheduler` `LongLived` | a job that stays `running` for a retention window |

Besides:

* `ForgottenNeverActed` is checked in instances without `sync_base`, where the code lets it fail
  (below), and without a fetch on a branch that tracks nothing, where it fails the same way;
  `git/recovery-descriptors.ts:85` accepts a forgotten fetch that moved nothing. Its theorem names
  the same condition (`EffectsAreSeen`), and another one says that nothing else is ever forgotten.
* `CompletedIsTrue` speaks of behaviours in which no store write failed. A call whose settle failed
  leaves its entry, and a later effect on the same clone makes recovery judge it `completed`. Of a
  push of the branch checked out the verdict is true all the same (`CompletedPushesArrived`). Neither
  speaks of a push that names another branch, of which the verdict can be false (next section).
* `LeftoversAreDecided` is checked without failing writes: an entry whose settle failed during a
  pass (`recovery.ts:128`) stays as it is until the next boot, because the pass counts as done.
* A failed `markAttention` after a park is ignored (`dispatch-pipeline.ts:836`, `recovery.ts:100`)
  and leaves a parked entry behind a ready clone until the next pass.
* `GateHolds` is about entering a route. A request past the gate goes on when another one logs out
  or a re-enrolment becomes owed.
* Invariant S8 (`design/20-contract.md:3460`) asks an audit record of every mutating call. A call that
  dies before its append is settled by recovery without one (`recovery.ts:226`), so no property
  here says that a settled call is audited.

### Where the code does not do what its documents say

Found while modelling, each by lifting the switch named or by an instance with the operator or the
tool named. Three have a property of the documents' own words and a configuration, which TLC ends
with a counterexample:

| Configuration | Module | Refuted |
|---|---|---|
| `Waits_sink.cfg` | `MCWaits` | `NoEntryOutlives`, what the pipeline says of its sink |
| `Service_push.cfg` | `MCGitService` | `NamedPushesArrived`, what the descriptor of `git_push` says |
| `Clones_adopted.cfg` | `CloneStore` | `HalfMadeNeverAdopted`, what `ensure` says of a half-made tree |

*Service.*
* "The clone is unparked only when this was the declaration's *last* parked entry"
  (`compose.ts:1059`): a call is parked while the route awaits its audit append; the route then
  clears the mark by the list it read before (`compose.ts:1070`).
* "a settled entry with a still-marked clone is repairable from this same route" (`compose.ts:1029`):
  after a crash between settle and clear (`compose.ts:1042`) no parked entry is left to name, and
  the route refuses.
* "A parked declaration refuses ordinary mutations" (`dispatch-pipeline.ts:580`): the gate is read
  before the lock waits, and a queued call runs on a declaration parked by the call before it.
* "Parked on a timeout regardless ..." (`git-operations.ts:1207`) and
  `dispatch-pipeline.ts:810`: the pipeline's limit fires first, the hatch's child ends as
  `cancelled`, and the late handler settles the entry.
* "Parking is the honest verdict for a window that cannot be observed"
  (`git/recovery-descriptors.ts:111`): `sync_base` records no step and on a feature branch changes
  nothing that is observed, so `classify` answers `nothing-happened` before it asks the descriptor
  (`journal.ts:344`).

* "A push that landed left the tracked ref for the pushed branch at the local head"
  (`git/recovery-descriptors.ts:77`): the descriptor compares the upstream with the head of the branch
  that is checked out, and `git_push` pushes `input.branch ?? currentBranch`
  (`git-operations.ts:963`); the watcher always names one (`watcher.ts:389`). A push of another branch
  that was killed after its step and never arrived is settled `completed` when the branch checked out
  tracks its head (`Service_push.cfg`).

*Scheduler* (`LongLived`). "A `running` job is never simply fired again at boot"
(`design/20-contract.md:3431`): a boot leaves the job `running` because its entry is undecided;
the entry is settled later and deleted by retention, and the next boot takes the job for one that
never dispatched. Also, verdicts of a tick other than firing are written unconditionally
(`scheduler.ts:357,376,384,393`), so that a job cancelled during an earlier job's dispatch can end
as `skipped` or `needs-attention`. It does not fire.

*Waits.* The pipeline's limit may fire while a read is in flight (`dispatch-pipeline.ts:434`): the call
returns `timeout`, the take finds the sink empty and no operator is told, and what the handler writes
into the sink afterwards stays, against "an entry never outlives the operation that wrote it"
(`dispatch-pipeline.ts:247`) and R11 of the contract (`Waits_sink.cfg`). The cap on a wait may equal that
limit, so a wait that uses all of its time races it. `host-operations.ts:444` says the backoff "is clamped to what is left of the deadline"; the
code ends the wait at once as timed out (`:456`), "when the wait ran out". A read that has no checks
yet, or lacks a required one, concludes the wait. A sleep is not cut short by a cancellation. A
wait's row is lost when its transaction fails, which is logged. A mutation that begins and ends
inside a read leaves `mutationInFlight` false (`design/20-contract.md:1784`, `git-operations.ts:147`);
reads are not modelled.

*Composites.* A kill between `git branch feature <tip>` (`composites.ts:288`) and the `update-ref` of
the base (`:302`): the resume finds the branch and leaves the base its local-only commits, though
the descriptor calls the composite idempotent from any partial state; likewise when the branch was
there from the start, against invariant 3 of `design/20-contract.md:1907`. `reconcile_after_merge`
succeeds on a base that has commits of its own, if it has the origin's too (`merge --ff-only`,
`composites.ts:393`). Without `onbranch`,
`git_commit` runs on the detached head of a stale rebase (`git-operations.ts:898`) and
`abortStaleRebase` drops the commit. Without `prompt`, a push lands after its branch was rebased.

*Clones.* Without `derive`, the pass writes what it read over marks and over `materialising` (comment
`clone-store.ts:1033`), and over the generation a call has just brought up to date, so that eviction
asks for the unsettled entries of the wrong era. Without `remove`, a removal that found the clone
clean deletes what a call did afterwards, and it asks for the entries of the generation it read at
first; neither it nor a quarantine takes a lock or, the latter, looks at pins. Without `eras`, a call
that read its generation before it waits for recovery or a lock (`dispatch-pipeline.ts:643`, `:689`,
`:767`) begins an entry of the old era after the new one was declared, since `declare` asks only for
pins and entries (`declarations.ts:453`); eviction and removal ask for the row's generation alone.
"Whatever is on disk is a partial tree - never adopt it as `ready`" (`clone-store.ts:822`): a removal
that fails is told to nobody (`removePartial`, `:466`), and `ensure` adopts what is left (`:838`;
`Clones_adopted.cfg`). Likewise an eviction or removal that failed to delete writes its row all the same,
and the mark with it is gone. Recovery marks a clone
that is not there, and the next materialisation hands it over.

*Watcher.* The claim of a file dropped again replaces the one under delivery (`watcher.ts:654`),
though "a watched file is never deleted" (`design/20-contract.md:3498`). Pull requests are
reconciled before the gate (`watcher.ts:799`, compare contract `:3509`). A crash between the move
to `failed/` and the audit leaves a file nobody was told of. What another session stages between the watcher's
last look and its commit (`watcher.ts:380-386`) is committed with the file, within no plan; the run
has it, and `CommitsWithinPlan` says that nothing else is.

*Starting.* Without `apart`, the successor tells of the holder whose file it read, not of the one
that died (`lease.ts:204`). Without `unlink`, a pass that anchored a segment and failed to delete it
ends in a reported break (comment `audit.ts:237`). After pruning, a store that cannot be read makes
`chainState` report one too (`readRetainedAnchors`, "best-effort", `audit.ts:175`).

*Outbox.* With `Resumed` false and three notices, a request is answered with success and its row
was rolled back (`notifier.ts:409`, "land together or not at all"; `structured-store.ts:337`).

*Credentials.* Without `calls`, a late refusal of the old secret marks the new one (comment
`credentials.ts:92`); without `tie`, a rotation in the millisecond of the mark stays blocked; without
`read`, a refused secret is handed out once more.

*Console.* A crash after an enrolment's commit leaves a credential whose secret and codes nobody was
shown. A break-glass file whose rename back fails after a wrong guess is gone. A code or token spent
before a crash or a failed store begins no session at all.

## 4. Fairness

* `Locks` assumes that a holder releases, which the pipeline does in a `finally`.
* `GitService`: weak fairness of the steps of a call that has begun to wait or act
  (`CallProgress`), of passes and the sweep (`PassProgress`), and of the operator's second half
  (`ClearParked`): each is a continuation of an await that ends by itself, the handler's because of
  its limit (`invokeModuleWithinLimit`). Nothing is assumed of clients, of the timers that end a
  wait, of the limit itself, or of a push nobody waits for. `HandlerReturns` is one action with any
  outcome, so fairness promises that a handler returns, not what.
* `Scheduler`: the tick and its timer, and the steps with which a dispatched call ends.
* `Waits`: the steps of a wait (children are killed at their cap, timers fire), holders release,
  and time passes. Nothing of the host's answers or of cancellation.
* `Outbox`: the timer, the steps of a pass (attempts are bounded), and the resumption of an awaited
  transaction.
* `McpRoutes`: the sweep, when its timer is armed.
* `Watcher`: weak fairness of the poll and of what it awaits; strong fairness of `Repair`, an
  operator who, finding something to put right between ticks again and again, does so.

## 5. What is proved

Every invariant, every refinement and every action property the runs check, for any number of calls,
declarations, waits, jobs, rows, instances, sessions, files and commits, any depth, limit or era, and
any number of crashes and faults. None of these is inductive as it stands; the last column says what
it needs besides itself and the types. Where a switch or a condition of section 3 is in a statement,
it is an `ASSUME` of the theorem and named here.

| Theorems | Module | Argument |
|---|---|---|
| `LocksTypeCorrect`, `CallsAlwaysAgree`, `NoWakeupIsLost`, `QueueStaysWithinDepth` | `WaitsProofs` | inductive together (`QueuesInv`): that a second release changes nothing rests on the agreement of calls and mutex, that a release hands the lock on rests on there being no free mutex with waiters |
| `LocksImplementLockService` | `WaitsProofs` | from `QueuesInv`: a caller stands in a queue once, so joining, giving up and handing over are the service's steps and the queue's order its `earlier` |
| `WaitsTypeCorrect`, `PlacesAlwaysCount`, `VerdictsAlwaysTold` | `WaitsProofs` | types, the count and a `VerdictOf` each wait, which ties sink and rows to where the wait is, and keeps those of a wait cut off at its limit empty; the count changes with the cardinality of the waits inside, by one at admission, at the end and at the limit; time and the lock service leave all of it alone |
| `JournalTypeCorrect`, `ParkAnnouncedExactlyOnce`, `EntriesNeverGoBackwards` | `CommonProofs` | types and the announcement count, because no operation puts a parked entry back where it could be parked anew |
| `ServiceTypeCorrect`, `LocksAreDisciplined`, `RecoveryMeetsOnlyTheDead`, `EffectsFollowIntent`, `ParkedWaitsForHuman` | `GitServiceProofs` | one invariant, `ServiceInv`. `LockInv` ties every `pc` to its place in the two mutexes. `CallInv` says of each call what its place implies of entry, handler and audit, so that an effect has its intent. `PassInv` says that a pass holds only entries of calls that are dead or ended: until its pass is done a declaration's calls are quiet, except the one the pass dispatched itself, and what is to decide was begun by calls that are over. A step of a call leaves the facts of others alone, one of a pass moves calls that hold nothing, and a boot restores all |
| `ServiceImplementsLedger` | `GitServiceProofs` | from `ServiceInv`: the ledger's actor is the call that holds the mutation lock; a step of a handler, a settle, a park, a verdict of recovery and the operator's answer are steps of the ledger and all else stutters |
| `NoActIsForgotten` (`EffectsAreSeen`), `OnlyTheUnseenIsForgotten` | `GitServiceProofs` | `HistoryInv`, below: what a call did still shows against what it found, so an observation equal to that means it did nothing; a call once forgotten does nothing more |
| `CompletedPushesArrived` (pushes of the branch checked out) | `GitServiceProofs` | `HistoryInv`: a branch that tracks its head was pushed there (`RemoteInv`), also after late landings |
| `CompletedCallsActed` | `GitServiceProofs` | `VerdictInv`: a pass decides what is open and not parked (`SnapshotInv`); while no write has failed, an entry is left open by dying only and its clone has one (`OpenInv`), so that what changed there is that call's own doing |
| `SchedulerTypeCorrect`, `DecidedJobsStayDecided` | `TimersProofs` | only a claim writes `running` and only over `pending`, only a boot writes `pending` and only over `running` |
| `JobsActAtMostOnce`, `CancelledJobsNeverAct` (`~LongLived`) | `TimersProofs` | the one live call is the one the tick awaits and its job is `running` (`FiringRuns`); a job that may fire, or was cancelled or skipped, has no attempt that began (`FiresUnbegun`); a running job's entry is still there (`RunningKeepsItsEntry`), which makes boot's reading of a missing entry right and which retention would break; so one attempt of a job at most ever begins |
| `SentAsOftenAsOwed` | `TimersProofs` | `OutboxInv`: the pass delivers only what it claimed and that row stays `in-flight`; a row was sent as often as it had trouble, and once more if it is delivered or just sent |
| `TransactionsAlwaysTellTrue` (`Resumed`) | `TimersProofs` | `TruthInv`: whoever finds a transaction open in its turn to commit finds its own |
| `LeaseIsExclusive`, `FallenStaySeen` (`apart`) | `StartupProofs` | `HolderInv`: one instance holds the kernel's lock, the file names it from its own write on, and a name in the file is of one that wrote it. `SightInv`: what was read before the lock is still so under it |
| `FailureAlwaysNamesWayBack` | `StartupProofs` | `CopiesInv`: until the boot ends its copy is whole, of what it found, and the newest of its kind, which rotation keeps |
| `BreaksAreNeverFalse`, `AckedAlwaysReadable` (`whole`, `unlink`) | `StartupProofs` | `TrailInv`: there are a first and a last segment between which all files are there, line follows line and segment follows segment through the end its anchor keeps; the mirror is never ahead of the files; the tail in memory is theirs; what was acknowledged lies in a segment that is there or before the first |
| `AccessStays`, `AuthorityAlwaysCurrent`, `OneRefreshTokenPerGrant` | `AccessProofs` | a session compares epochs, which start again; what it is owed rests on the tables. `MarkInv`: generations never return. `EraAt`: a grant of the active generation is of its era. `TokenInv`: a rotation spends the old refresh token before it writes the new one. `SessionInv`: a session's live grant is of the active generation, and a stream's session is there |
| `ConsoleAgrees`, `SecretsSpentOnce`, `GateAlwaysHolds` | `SecretsProofs` | `SpentInv`: a secret that a request holds or a session began with is used up, one request holds it, and the token on the volume was written. `GateInv`: a code that was used is owed for, and the credential row says so |
| `MarksAgree`, `BlocksAlwaysDeserved` (`calls`, `tie`), `RefusedAlwaysStayRefused` (`read`) | `SecretsProofs` | `MarksInv`: no time is ahead of the clock, a mark is of a refusal, and a call that is refused was refused what the file holds |
| `CloneAgrees`, `UsersAlwaysHaveTree`, `WorkAlwaysStays`, `MarksAlwaysSurvive` (`Tidy`: all of `Orderly`) | `ClonesProofs` | row and tree agree (`RowInv`) at every stage of making a clone (`MakingInv`) because one call at a time makes it (`HolderInv`); users and unsettled entries are of the row's own generation (`UseInv`), for which no call may be under way between two eras; what a pass or a removal read before it waited is still so (`PassInv`, `RemoverInv`) |
| `WatcherTypeCorrect`, `DeliveriesHappenOnce` | `ClonesProofs` | `Holding`: the file a tick delivers lies in `processing/`. `DeliveryInv`: up to its `pr_open` it has no pull request, nor has a file in the inbox, to which nothing goes back: an interrupted claim ends in `failed/` |
| `FilesAlwaysSurvive` (`redrop`) | `ClonesProofs` | `NamesInv`: a name stands for one file in inbox and `processing/` together; in `processed/` and `failed/` a free name is taken. That the search for one ends at a free one is `FreeCopyIsFree` |
| `CommitsStayWithinPlan` | `ClonesProofs` | `PlanInv`: from the first look on what is declared is permitted, and from the second on what is staged, but for what came in since |
| `OpenAlwaysFollowed` | `ClonesProofs` | `FollowInv`: while the list is gone through, it is within what was kept and what is left; a file that is about to be moved is in the list. What survives a torn list is read by a recursive function, about which `ReadableEntries` reasons from its least counterexample |
| `CompositesAgree`, `CompositesAlwaysTellTrue` | `ClonesProofs` | what the steps before looked at still holds (`PrepareInv`, `ReconcileInv`: the merge either finds the origin's commit in the base already or moves a base without commits of its own); what a killed rebase goes back to is the branch (`RebaseInv`); what was landed stays in the base (`LandedInv`) |
| `WorkAlwaysKept` (`onbranch`) | `ClonesProofs` | each ref that is moved or deleted held nothing that no other ref holds, or nothing but what landed |
| `PublishedBranchesOnlyGrow` (`prompt`) | `ClonesProofs` | `UnpublishedInv`: a branch that the fetch did not find at the origin is not there until the composite ends |

*Recovery's verdicts.* Recovery compares one observation with what the call found, and neither says
who changed what. `HistoryInv` supplies the history: each facet of a clone, and of the state a call
found, names a call that executed the instruction that writes it (`Explained`); no call writes a
facet twice, so what one found never comes back after it wrote (`ShowsIn`); a branch made from a
commit tracks nothing, which is the exception that hides a fetch. To be inductive it also needs what
the working call has kept of the state it found (`WorksOn`), that entries are numbered in the order
their calls held the clone (`OrderInv`), and of a push on the wire that it would be refused where the
clone already tracks another head (`TreeInv`). The last one does not hold of a remote that takes an
old push after a newer one, which is where `Overtaken` comes from. `OpenInv` rests on the locks too:
if an entry is open at a call that holds its clone, the pass is not done, hence the call is the
composite that the pass runs again in the place of the entry it is at (`WorkerIsAlone`).

`CommonProofs` has the lemmas on the mutex: what joining, giving up and releasing do to the holder,
the waiters, their order and the queue's length, for any set of callers. `StartupProofs` first
reduces each step to what it is to the lease, to the store or to the trail (`LeaseMove`,
`StoreMove`, `TrailMove`), and the invariants are kept by those moves.

*Assumed* are the named `ASSUME`s of the modules, which TLC evaluates in every run: that markers for
"nobody" or "nothing" (`Nobody`, `None`, `NoRow`, `NoName`, `NoFile`, `NoAttempt`, `NoSession`) are
not among what they stand beside, as `null` is not; that kinds of things are disjoint where the code
keeps them in different tables; that every call has a declaration and a tool; that limits are
naturals, and positive where the configuration requires it; that calls, waits and files are finitely
many. None of them bounds how many.

*Model-checked only:*

* `WaitsEnd`, `EveryCallEnds`, `LeftoversAreDecided`, `DueJobsAreDecided`, `StreamsCatchUp`,
  `RowsAreDecided`, `InboxDrains`: liveness under fairness and ENABLED are not handled by the prover.
* What a recursive definition computes for every input, since induction over data cannot be
  instantiated. The proofs use of such definitions what follows from a least counterexample.

## 6. Plan

The modules of the plan are written: locks and waits, journal, pipeline, recovery and the operator's
route, the scheduler, the notifier, the branches, the clone store, the watcher, starting and
stopping with lease, audit and store, access, the console, credentials. What is left is proof: the
safety half of the liveness properties, that whoever is waited for can move.

## 7. Not modelled, and why

Reads change nothing the properties speak of. Schema and capability checks precede a call's path and
refuse before it. The volume watermark is one of the reasons of `RefuseHolding`. Boot's parking of
entries whose tool an upgrade removed needs two images. The host's other mutations are single
requests between an intent and its settle, as `Dispatch` has them for a push. Migrations' SQL,
SQLite, the hashing of passwords and records, TOTP arithmetic, HTTP and GitHub's protocol are
computation or someone else's code. The administration routes, the compiler, the adapters, the
console, the proxy and the scripts keep no state that interacts with the rest. `PROJECT.json` lists
every part with its status.
