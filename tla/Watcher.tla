------------------------------ MODULE Watcher ------------------------------
(***************************************************************************)
(* The file watcher (src/src/watcher/watcher.ts, pending-pull-requests.ts) *)
(* for one declaration: a dropped file's way through the directories of    *)
(* the inbox, the calls its delivery dispatches, the list of pull requests *)
(* it follows, the gate of each tick, and restarts.                        *)
(*                                                                         *)
(* A file's state is the directory it lies in and nothing else; the list   *)
(* is a file too.  Between two awaited calls a tick is one step, save      *)
(* where two files are written one after the other.                        *)
(***************************************************************************)
EXTENDS Integers, Sequences, FiniteSets, Functions

CONSTANTS Files,        \* deliveries
          Older,        \* those that a former version of the service delivered
          NameOf,       \* NameOf[f]: the name a file is dropped under
          Paths,        \* paths of the working tree
          Permitted,    \* those that the plan permits
          NoFile,       \* none of them
          MaxRestarts,  \* bound on crashes
          MaxFailings,  \* bound on failing reads, writes and exceptions
          MaxMeddling,  \* bound on changes that others make to the clone
          Careful       \* where others are careful: "redrop"

ASSUME WatcherAssumption ==
    /\ IsFiniteSet(Files) /\ NoFile \notin Files
    /\ Older \subseteq Files
    /\ DOMAIN NameOf = Files
    /\ Permitted \subseteq Paths
    /\ {MaxRestarts, MaxFailings, MaxMeddling} \subseteq Nat
    /\ Careful \subseteq {"redrop"}

VARIABLES place,     \* place[f]: the directory a file lies in
          copy,      \* copy[f]: the counter in its name there
          headless,  \* entries of the list that do not have the pushed head
          pending,   \* the pull requests followed, by file: the list on disk
          pr,        \* pr[f]: the file's pull request at the host
          clone,     \* what CloneStore.describe says
          worktree,  \* worktree[p]: a path of the working tree
          tampered,  \* state directories that are none
          poll,      \* the tick in flight, or the recovery at a start
          inFlight,  \* tickInFlight
          opened, reconciles, dropped,  \* history: pull requests opened,
             \* reconciled and given up
          strayed, intruded,  \* history: by delivery, the paths committed outside the
             \* plan, and those that others staged after the watcher's last look
          restarts, failings, meddled

disk == <<place, copy, pending>>
world == <<headless, pr, clone, worktree, tampered>>
history == <<opened, reconciles, strayed, intruded, dropped>>
bounds == <<restarts, failings, meddled>>
watcherVars == <<disk, world, poll, inFlight, history, bounds>>

Directories == {"processing", "processed", "failed"}
\* The calls a delivery dispatches, in their order.
Dispatches == {"plan", "branch", "apply", "look", "stage", "lookAgain", "commit",
          "push", "open", "merge"}
Ticks == [at : {"idle", "follow", "reconcile", "reconciled", "gate", "ensure", "clean",
                "record", "move", "tell", "recover", "recovered"} \cup Dispatches,
          file : Files \cup {NoFile}, rest : Seq(Files), kept : Seq(Files),
          todo : SUBSET Files, declared : SUBSET Paths]
AtRest == [at |-> "idle", file |-> NoFile, rest |-> <<>>, kept |-> <<>>, todo |-> {}, declared |-> {}]

WatcherTypeOK ==
    /\ place \in [Files -> {"outside", "inbox", "gone"} \cup Directories]
    /\ copy \in [Files -> 0..Cardinality(Files)]
    /\ headless \subseteq Older
    /\ pending \in Seq(Files)
    /\ pr \in [Files -> {"none", "open", "merged", "closed"}]
    /\ clone \in {"absent", "ready", "attention"}
    /\ worktree \in [Paths -> {"same", "changed", "staged"}]
    /\ tampered \subseteq Directories
    /\ poll \in Ticks
    /\ inFlight \in BOOLEAN
    /\ opened \in [Files -> Nat] /\ reconciles \in [Files -> Nat]
    /\ strayed \subseteq (Files \cup {NoFile}) \X Paths
    /\ intruded \subseteq (Files \cup {NoFile}) \X Paths
    /\ dropped \subseteq Files

WatcherInit ==
    /\ place = [f \in Files |-> IF f \in Older THEN "processed" ELSE "outside"]
    /\ copy = [f \in Files |-> 0]
    /\ headless \in SUBSET Older
    /\ pending \in {s \in [1..Cardinality(Older) -> Older] : Range(s) = Older}
    /\ pr = [f \in Files |-> IF f \in Older THEN "open" ELSE "none"]
    /\ clone = "absent"
    /\ worktree = [p \in Paths |-> "same"]
    /\ tampered = {}
    /\ poll = AtRest
    /\ inFlight = FALSE
    /\ opened = [f \in Files |-> IF f \in Older THEN 1 ELSE 0]
    /\ reconciles = [f \in Files |-> 0]
    /\ strayed = {} /\ intruded = {}
    /\ dropped = {}
    /\ restarts = 0 /\ failings = 0 /\ meddled = 0

-----------------------------------------------------------------------------
\* Moving files.

Failing == failings < MaxFailings /\ failings' = failings + 1
Working == UNCHANGED failings

\* Mutation of FreeCopy: the counter ahead of the name is left out.
FreeCopyAlways(f, dir) == 0

\* uniqueTerminalName, within one tick of the clock.
FreeCopy(f, dir) ==
    CHOOSE n \in 0..Cardinality(Files) :
       /\ \A g \in Files : place[g] = dir /\ NameOf[g] = NameOf[f] => copy[g] # n
       /\ \A m \in 0..(n - 1) : \E g \in Files :
             place[g] = dir /\ NameOf[g] = NameOf[f] /\ copy[g] = m

\* renameSync: what has the name there already is no more.
Rename(f, dir, n) ==
    /\ place' = [g \in Files |->
          IF g = f THEN dir
          ELSE IF place[g] = dir /\ NameOf[g] = NameOf[f] /\ copy[g] = n THEN "gone"
          ELSE place[g]]
    /\ copy' = [copy EXCEPT ![f] = n]

\* moveToProcessed and moveToFailed: refused, failed, or done.
Move(f, dir) ==
    \/ dir \in tampered /\ Working /\ UNCHANGED <<place, copy>>
    \/ dir \notin tampered /\ Failing /\ UNCHANGED <<place, copy>>
    \/ dir \notin tampered /\ Working /\ Rename(f, dir, FreeCopy(f, dir))

Ended ==
    /\ poll' = AtRest
    /\ inFlight' = FALSE

GoOn(step) == poll' = [poll EXCEPT !.at = step] /\ UNCHANGED inFlight
Telling == poll' = [AtRest EXCEPT !.at = "tell"] /\ UNCHANGED inFlight

-----------------------------------------------------------------------------
\* What others do.

Drop(f) ==
    /\ place[f] = "outside"
    /\ \A g \in Files : NameOf[g] = NameOf[f] =>
          place[g] \notin {"inbox"} \cup (IF "redrop" \in Careful THEN {"processing"} ELSE {})
    /\ place' = [place EXCEPT ![f] = "inbox"]
    /\ UNCHANGED <<copy, pending, world, poll, inFlight, history, bounds>>

HostResolves(f) ==
    /\ pr[f] = "open"
    /\ \E s \in {"merged", "closed"} : pr' = [pr EXCEPT ![f] = s]
    /\ UNCHANGED <<disk, headless, clone, worktree, tampered, poll, inFlight, history, bounds>>

\* Another session's call on the same clone, between any two of the watcher's.
Meddle(p) ==
    /\ meddled < MaxMeddling
    /\ meddled' = meddled + 1
    /\ clone = "ready" /\ poll.at \in Dispatches
    /\ \E s \in {"changed", "staged"} :
          /\ worktree' = [worktree EXCEPT ![p] = s]
          /\ intruded' = IF s = "staged" /\ poll.at = "commit"
                            THEN intruded \cup {<<poll.file, p>>} ELSE intruded
    /\ UNCHANGED <<disk, headless, pr, clone, tampered, poll, inFlight, opened, reconciles, strayed,
                   dropped, restarts, failings>>

Tamper(dir) ==
    /\ Failing
    /\ tampered' = tampered \cup {dir}
    /\ UNCHANGED <<disk, headless, pr, clone, worktree, poll, inFlight, history, restarts, meddled>>

\* The operator puts the directories and the clone right again.
Repair ==
    /\ poll.at = "idle"
    /\ tampered # {} \/ clone = "attention" \/ \E p \in Paths : worktree[p] # "same"
    /\ tampered' = {}
    /\ clone' = IF clone = "attention" THEN "ready" ELSE clone
    /\ worktree' = [p \in Paths |-> "same"]
    /\ UNCHANGED <<disk, headless, pr, poll, inFlight, history, bounds>>

Evict ==
    /\ poll.at = "idle"
    /\ clone = "ready"
    /\ \A p \in Paths : worktree[p] = "same"
    /\ clone' = "absent"
    /\ UNCHANGED <<disk, headless, pr, worktree, tampered, poll, inFlight, history, bounds>>

\* Files in processed/ of a certain age are the only ones ever deleted.
RunRetention ==
    /\ "processed" \notin tampered
    /\ \E f \in Files :
          /\ place[f] = "processed"
          /\ place' = [place EXCEPT ![f] = "gone"]
    /\ UNCHANGED <<copy, pending, world, poll, inFlight, history, bounds>>

-----------------------------------------------------------------------------
\* The start of a tick: nothing selected, refused, or following.

\* Entries that fail validation are paged and leave the list.
Readable(list) ==
    LET upTo[n \in 0..Len(list)] ==
          IF n = 0 THEN <<>>
          ELSE IF list[n] \in headless THEN upTo[n - 1]
          ELSE Append(upTo[n - 1], list[n])
    IN  upTo[Len(list)]

TickStarts ==
    /\ poll.at = "idle" /\ ~inFlight
    /\ \/ /\ Failing
          /\ UNCHANGED <<pending, poll, inFlight, dropped>>
       \/ /\ tampered # {}
          /\ Working
          /\ UNCHANGED <<pending, poll, inFlight, dropped>>
       \/ /\ tampered = {}
          /\ Working
          /\ pending' = Readable(pending)
          /\ dropped' = dropped \cup (headless \cap Range(pending))
          /\ inFlight' = TRUE
          /\ poll' = [AtRest EXCEPT !.at = "follow", !.rest = Readable(pending)]
    /\ UNCHANGED <<place, copy, world, opened, reconciles, strayed, intruded, restarts, meddled>>

WriteList(kept, rest) == pending' = kept \o rest

Advance(kept) ==
    /\ poll' = [poll EXCEPT !.rest = Tail(@), !.kept = kept, !.at = "follow"]
    /\ UNCHANGED inFlight
    /\ WriteList(kept, Tail(poll.rest))

\* pr_status: what cannot be read now is asked again, what is refused is not.
StatusRead ==
    /\ poll.at = "follow" /\ poll.rest # <<>>
    /\ LET f == Head(poll.rest) IN
       \/ /\ \/ pr[f] = "open" /\ Working
             \/ Failing
          /\ Advance(Append(poll.kept, f))
          /\ UNCHANGED dropped
       \/ /\ \/ pr[f] = "closed" /\ Working
             \/ Failing
          /\ Advance(poll.kept)
          /\ dropped' = dropped \cup {f}
       \/ /\ pr[f] = "merged"
          /\ GoOn("reconcile")
          /\ Working
          /\ UNCHANGED <<pending, dropped>>
    /\ UNCHANGED <<place, copy, world, opened, reconciles, strayed, intruded, restarts, meddled>>

\* reconcile_after_merge, which may park the clone; told either way.
Reconcile ==
    /\ poll.at = "reconcile"
    /\ reconciles' = [reconciles EXCEPT ![Head(poll.rest)] = @ + 1]
    /\ clone' \in {clone} \cup (IF clone = "ready" THEN {"attention"} ELSE {})
    /\ GoOn("reconciled")
    /\ UNCHANGED <<disk, headless, pr, worktree, tampered, opened, strayed, intruded, dropped, bounds>>

Reconciled ==
    /\ poll.at = "reconciled"
    /\ Advance(poll.kept)
    /\ UNCHANGED <<place, copy, world, history, bounds>>

Followed ==
    /\ poll.at = "follow" /\ poll.rest = <<>>
    /\ GoOn("gate")
    /\ UNCHANGED <<disk, world, history, bounds>>

Inbox == {f \in Files : place[f] = "inbox"}

\* Mutation of FirstUse: what is not materialised is not clean.
FirstUseNever == FALSE

\* A dropped file is a first use of a clone that is not there.
FirstUse == clone = "absent" /\ Inbox # {}

Gate ==
    /\ poll.at = "gate"
    /\ \/ /\ clone # "ready" /\ ~FirstUse
          /\ Ended
          /\ Working
       \/ /\ Failing
          /\ Ended
       \/ /\ FirstUse
          /\ GoOn("ensure")
          /\ Working
       \/ /\ clone = "ready"
          /\ GoOn("clean")
          /\ Working
    /\ UNCHANGED <<disk, world, history, restarts, meddled>>

MaterialiseClone ==
    /\ poll.at = "ensure"
    /\ \/ /\ clone' = "ready"
          /\ worktree' = [p \in Paths |-> "same"]
          /\ GoOn("clean")
          /\ Working
       \/ /\ Failing
          /\ Ended
          /\ UNCHANGED <<clone, worktree>>
    /\ UNCHANGED <<disk, headless, pr, tampered, history, restarts, meddled>>

\* isClean, pickCandidate and claim.
ClaimFile ==
    /\ poll.at = "clean"
    /\ \/ /\ \/ Working /\ (Inbox = {} \/ \E p \in Paths : worktree[p] # "same")
             \/ Failing
          /\ Ended
          /\ UNCHANGED <<place, copy>>
       \/ /\ \A p \in Paths : worktree[p] = "same"
          /\ Inbox # {} /\ "processing" \in tampered
          /\ Working
          /\ Ended
          /\ UNCHANGED <<place, copy>>
       \/ /\ \A p \in Paths : worktree[p] = "same"
          /\ "processing" \notin tampered
          /\ \E f \in Inbox :
                /\ Rename(f, "processing", 0)
                /\ poll' = [AtRest EXCEPT !.at = "plan", !.file = f]
          /\ Working
          /\ UNCHANGED inFlight
    /\ UNCHANGED <<pending, world, history, restarts, meddled>>

-----------------------------------------------------------------------------
\* runProtocol: each call is a dispatch of its own, and no lock spans two.

Changed == {p \in Paths : worktree[p] # "same"}
Staged == {p \in Paths : worktree[p] = "staged"}

Plan ==
    /\ poll.at = "plan"
    /\ GoOn("branch")
    /\ UNCHANGED <<clone, worktree, pr, opened, strayed>>

\* prepare_branch refuses a tree that is not clean.
PrepareBranch ==
    /\ poll.at = "branch" /\ clone = "ready"
    /\ Changed = {}
    /\ GoOn("apply")
    /\ UNCHANGED <<clone, worktree, pr, opened, strayed>>

\* The consumer's handler says what it changed, and may be wrong.
Apply ==
    /\ poll.at = "apply" /\ clone = "ready"
    /\ \E actual, said \in SUBSET Paths :
          /\ worktree' = [p \in Paths |-> IF p \in actual THEN "changed" ELSE worktree[p]]
          /\ poll' = [poll EXCEPT !.at = "look", !.declared = said]
    /\ UNCHANGED <<inFlight, clone, pr, opened, strayed>>

Stage ==
    /\ poll.at = "stage" /\ clone = "ready"
    /\ worktree' = [p \in Paths |-> IF p \in poll.declared /\ worktree[p] = "changed" THEN "staged" ELSE worktree[p]]
    /\ GoOn("lookAgain")
    /\ UNCHANGED <<clone, pr, opened, strayed>>

\* Mutation of SeenAsDeclared: the second observation compares nothing.
SeenOnce ==
    poll.at = "look" => Changed = poll.declared /\ Changed \subseteq Permitted

\* The two observations of the clone between the calls.
SeenAsDeclared ==
    /\ Changed = poll.declared
    /\ poll.at = "lookAgain" => Staged = poll.declared
    /\ poll.at = "look" => Changed \subseteq Permitted

Look ==
    /\ poll.at \in {"look", "lookAgain"}
    /\ SeenAsDeclared
    /\ poll' = IF poll.at = "look" THEN [poll EXCEPT !.at = "stage"]
               ELSE [poll EXCEPT !.at = "commit", !.declared = {}]
    /\ UNCHANGED <<inFlight, clone, worktree, pr, opened, strayed>>

Commit ==
    /\ poll.at = "commit" /\ clone = "ready"
    /\ strayed' = strayed \cup ({poll.file} \X (Staged \ Permitted))
    /\ worktree' = [p \in Paths |-> IF p \in Staged THEN "same" ELSE worktree[p]]
    /\ GoOn("push")
    /\ UNCHANGED <<clone, pr, opened>>

Push ==
    /\ poll.at = "push" /\ clone = "ready"
    /\ GoOn("open")
    /\ UNCHANGED <<clone, worktree, pr, opened, strayed>>

HostOpens(f) ==
    /\ opened' = [opened EXCEPT ![f] = @ + 1]
    /\ pr' = [pr EXCEPT ![f] = "open"]

PrOpen ==
    /\ poll.at = "open"
    /\ HostOpens(poll.file)
    /\ GoOn("merge")
    /\ UNCHANGED <<clone, worktree, strayed>>

\* Auto-merge or not, and whether it could be enabled, the file is delivered.
EnableAutoMerge ==
    /\ poll.at = "merge"
    /\ GoOn("record")
    /\ UNCHANGED <<clone, worktree, pr, opened, strayed>>

Protocol ==
    /\ \/ Plan \/ PrepareBranch \/ Apply \/ Stage \/ Look \/ Commit \/ Push
       \/ PrOpen \/ EnableAutoMerge
    /\ UNCHANGED <<disk, headless, tampered, reconciles, intruded, dropped, bounds>>

\* A call is not granted or its answer cannot be read, or the observation does
\* not fit: the file goes to failed/.  What the call did stays done.
Rejected ==
    /\ poll.at \in Dispatches \ {"merge"}
    /\ \/ /\ poll.at \in {"look", "lookAgain"} /\ ~SeenAsDeclared
          /\ clone' = "attention"
          /\ UNCHANGED <<worktree, pr, opened>>
       \/ /\ clone' \in {clone, "attention"}
          /\ \/ UNCHANGED <<worktree, pr, opened>>
             \/ /\ poll.at = "apply"
                /\ \E p \in Paths : worktree' = [worktree EXCEPT ![p] = "changed"]
                /\ UNCHANGED <<pr, opened>>
             \/ /\ poll.at = "open"
                /\ HostOpens(poll.file)
                /\ UNCHANGED worktree
    /\ Move(poll.file, "failed")
    /\ Telling
    /\ UNCHANGED <<pending, headless, tampered, reconciles, strayed, intruded, dropped, restarts, meddled>>

\* An exception leaves the file where it is, whatever the protocol did.
Throws ==
    /\ poll.at \in (Dispatches \ {"merge"}) \cup {"record"}
    /\ Failing
    /\ Telling
    /\ UNCHANGED <<disk, world, history, restarts, meddled>>

\* Mutation of Delivered: the file is moved, then its pull request recorded.
MovedThenRecorded ==
    \/ /\ poll.at = "record"
       /\ Move(poll.file, "processed")
       /\ GoOn("move")
       /\ UNCHANGED pending
    \/ /\ poll.at = "move"
       /\ pending' = Append(pending, poll.file)
       /\ Working
       /\ Telling
       /\ UNCHANGED <<place, copy>>

\* The pull request is recorded, then the file moved.
Delivered ==
    \/ /\ poll.at = "record"
       /\ pending' = Append(pending, poll.file)
       /\ Working
       /\ GoOn("move")
       /\ UNCHANGED <<place, copy>>
    \/ /\ poll.at = "move"
       /\ Move(poll.file, "processed")
       /\ Telling
       /\ UNCHANGED pending

Deliver ==
    /\ Delivered
    /\ UNCHANGED <<world, history, restarts, meddled>>

\* auditAndNotify, and the tick has ended.
Tell ==
    /\ poll.at = "tell"
    /\ Ended
    /\ UNCHANGED <<disk, world, history, bounds>>

-----------------------------------------------------------------------------
\* Restarts.

Processing == {f \in Files : place[f] = "processing"}

\* stop waits for the tick in flight; a crash does not.
Restart ==
    /\ restarts < MaxRestarts
    /\ restarts' = restarts + 1
    /\ inFlight' = TRUE
    /\ poll' = [AtRest EXCEPT !.at = "recover",
                               !.todo = IF "processing" \in tampered THEN {} ELSE Processing]
    /\ UNCHANGED <<disk, world, history, failings, meddled>>

\* Mutation of Interrupted: what was being delivered is delivered again.
InterruptedAgain(f) ==
    /\ Working
    /\ Rename(f, "inbox", 0)

\* What is found in processing/ is never delivered again.
Interrupted(f) == Move(f, "failed")

RecoverInterruptedClaim ==
    /\ poll.at = "recover"
    /\ \E f \in poll.todo :
          /\ Interrupted(f)
          /\ poll' = [poll EXCEPT !.todo = @ \ {f}, !.at = "recovered", !.file = f]
    /\ UNCHANGED <<pending, world, inFlight, history, restarts, meddled>>

\* Told, and on with the next; polling starts after the last.
Recovered ==
    /\ \/ poll.at = "recovered" /\ GoOn("recover")
       \/ poll.at = "recover" /\ poll.todo = {} /\ Ended
    /\ UNCHANGED <<disk, world, history, bounds>>

-----------------------------------------------------------------------------
Step ==
    \/ TickStarts \/ StatusRead \/ Reconcile \/ Reconciled \/ Followed
    \/ Gate \/ MaterialiseClone \/ ClaimFile \/ Protocol \/ Rejected \/ Throws
    \/ Deliver \/ Tell \/ RecoverInterruptedClaim \/ Recovered

WatcherNext ==
    \/ Step
    \/ \E f \in Files : Drop(f) \/ HostResolves(f)
    \/ \E p \in Paths : Meddle(p)
    \/ \E dir \in Directories : Tamper(dir)
    \/ Repair \/ Evict \/ RunRetention \/ Restart

WatcherSpec == WatcherInit /\ [][WatcherNext]_watcherVars

\* The poll goes on, what it awaits ends, and an operator who finds something to
\* repair between ticks, again and again, repairs it.
WatcherFairSpec == WatcherSpec /\ WF_watcherVars(Step) /\ SF_watcherVars(Repair)

-----------------------------------------------------------------------------
\* No file that was handed over is lost, save an old delivery to retention:
\* nothing is moved onto another file (watcher.ts, claim, moveToFailed, moveToProcessed;
\* contract D6).
FilesSurvive ==
    [][\A f \in Files : place[f] # "gone" /\ place'[f] = "gone" =>
          place[f] = "processed" /\ UNCHANGED poll]_watcherVars

\* A dropped file opens one pull request at most, whatever crashed while it
\* was delivered (watcher.ts, recoverInterruptedClaims; contract D8).
DeliveredOnce == \A f \in Files : opened[f] <= 1

\* What is committed for a file outside its plan was staged by another session
\* between the watcher's last look and its commit, in no other way: not by a consumer's
\* handler that lies, nor by a call that came in anywhere before (watcher.ts,
\* runProtocol; contract D12, D13).
CommitsWithinPlan == strayed \subseteq intruded

\* A pull request whose file was delivered is followed for as long as it is
\* open, over crashes and refused moves, unless the watcher gave it up for a
\* reason it has told (watcher.ts, tickOneDeclaration; contract D19).
OpenIsFollowed ==
    \A f \in Files :
       (place[f] = "processed" /\ pr[f] = "open" /\ f \notin dropped) =>
          f \in Range(pending)

\* A dropped file does not wait in the inbox for ever, whatever failed while
\* it waited (watcher.ts, start, tickGuarded).
InboxDrains == \A f \in Files : (place[f] = "inbox") ~> (place[f] # "inbox")

=============================================================================
