----------------------------- MODULE CloneStore -----------------------------
(***************************************************************************)
(* The clone store (src/src/clone/clone-store.ts) for one declaration: the *)
(* clone's row in the store, its directory on the volume, the              *)
(* materialisation lock and the pins, under calls that materialise and use *)
(* the clone, the maintenance pass that derives and evicts clones, an      *)
(* operator who removes one, and crashes.                                  *)
(*                                                                         *)
(* The row is written from many places and only some hold the lock; what   *)
(* awaits git or the disk is cut into steps there, and what awaits only    *)
(* the store is one step.  Declarations share nothing here but the room on *)
(* the volume, which runs out when it likes.                               *)
(***************************************************************************)
EXTENDS Integers, FiniteSets

CONSTANTS Writers,        \* mutating calls: lock and pin to their end
          Readers,        \* reads and monitoring waits: the pin only
          NoRow,          \* no row in the clone table
          None,           \* nobody
          MaxGeneration,  \* bound on the declaration's eras
          MaxCrashes,     \* bound on crashes
          Orderly           \* what goes the easy way: "derive", "remove" and
                            \* "quarantine" meet nothing they could undo (Apart),
                            \* "deleted" rows are written, and no call is under
                            \* way between two "eras"

ASSUME CloneStoreAssumption ==
    /\ Writers \cap Readers = {}
    /\ "evict" \notin Writers \cup Readers
    /\ None \notin Writers \cup Readers \cup {"evict"}
    /\ MaxGeneration \in Nat \ {0}
    /\ MaxCrashes \in Nat
    /\ Orderly \subseteq {"derive", "remove", "quarantine", "deleted", "eras"}

VARIABLES row,      \* the clone's row
          tree,     \* its directory
          lock,     \* who holds the materialisation lock
          phase,    \* phase[c]: how far a call is
          entries,  \* the generations with an unsettled journal entry
          gen,      \* the declaration's generation
          era,      \* era[c]: the generation that call c was admitted under
          pass,     \* the maintenance pass: its step and the row it read
          remover,  \* the operator's removal: its step and the generation it read
          crashes

vars == <<row, tree, lock, phase, entries, gen, era, pass, remover, crashes>>

Calls == Writers \cup Readers
Rows == [state : {"absent", "materialising", "ready", "attention", "evicted"},
         gen : 1..MaxGeneration]
ASSUME NoRowAssumption == NoRow \notin Rows
\* "clean" holds nothing that is not at the remote too, "dirty" does; git
\* cannot read a "broken" one, and may or may not read a "partial" one, which
\* it is from git clone's first file until the row says that it is ready, nor
\* the "remains" of one that could not be deleted.
Trees == {"none", "partial", "remains", "clean", "dirty", "broken"}
Pieces == {"partial", "remains"}
\* From arrival to the wait for the lock, the measuring of the volume, the
\* clone or the adoption, the last probes, and the use of the clone.
Phases == {"idle", "wait", "room", "clone", "identity", "cloned", "adopt", "adopted", "use"}

TypeOK ==
    /\ row \in Rows \cup {NoRow}
    /\ tree \in Trees
    /\ lock \in Calls \cup {"evict", None}
    /\ phase \in [Calls -> Phases]
    /\ entries \subseteq 1..MaxGeneration
    /\ gen \in 1..MaxGeneration
    /\ era \in [Calls -> 1..MaxGeneration]
    /\ pass \in [step : {"idle", "derive", "probe", "check", "delete"}, seen : Rows \cup {NoRow}]
    /\ remover \in [step : {"idle", "readable", "status", "delete"}, gen : 1..MaxGeneration]
    /\ crashes \in 0..MaxCrashes

Resting == [step |-> "idle", seen |-> NoRow]
NotRemoving == [step |-> "idle", gen |-> 1]

\* A store that was set up anew, or restored from a copy, knows nothing of a
\* clone that is on the volume.
Init ==
    /\ row = NoRow
    /\ tree \in {"none", "clean", "dirty"}
    /\ lock = None
    /\ phase = [c \in Calls |-> "idle"]
    /\ entries = {}
    /\ gen = 1
    /\ era = [c \in Calls |-> 1]
    /\ pass = Resting
    /\ remover = NotRemoving
    /\ crashes = 0

-----------------------------------------------------------------------------
Row(state, g) == [state |-> state, gen |-> g]

State == IF row = NoRow THEN "absent" ELSE row.state

\* activeOperationCount, by who is counted.
Pins == {c \in Calls : phase[c] = "use"}

Goto(c, p) == phase' = [phase EXCEPT ![c] = p]

\* A read gives the lock back as soon as it has its pin.
Served(c) ==
    /\ Goto(c, "use")
    /\ lock' = IF c \in Readers THEN None ELSE c

Refused(c) ==
    /\ Goto(c, "idle")
    /\ lock' = None

\* removePartial: that a directory cannot be deleted, wholly or in part, is told
\* to nobody.
Removed ==
    \/ tree' = "none"
    \/ tree \in Pieces /\ tree' = "remains"
    \/ tree \in {"clean", "dirty"} /\ tree' \in {tree, "remains"}
    \/ tree = "broken" /\ UNCHANGED tree

\* A partial tree goes, and the row says that there is no clone, unless its
\* write fails, which nobody asks.
Undone(c) ==
    /\ Removed
    /\ row' \in {row, Row("absent", era[c])}
    /\ Refused(c)

\* The row after its tree has gone.
Written(after) ==
    row' \in {after} \cup (IF "deleted" \in Orderly THEN {} ELSE {row})

\* What a pass or a removal does not meet: a clone that is being made; and a pass,
\* no mark and no clone brought into a new era; a removal, no mutation.
Making == \E c \in Calls : phase[c] \notin {"idle", "wait", "use"}
Deriving == "derive" \in Orderly /\ pass.step \in {"derive", "probe"}
Removing == "remove" \in Orderly /\ remover.step # "idle"
Apart(what) == what \in Orderly => ~Making /\ ~Deriving /\ ~Removing

-----------------------------------------------------------------------------
\* ensure.

Arrive(c) ==
    /\ phase[c] = "idle"
    /\ Goto(c, "wait")
    /\ era' = [era EXCEPT ![c] = gen]
    /\ UNCHANGED <<row, tree, lock, entries, gen, pass, remover, crashes>>

GiveUp(c) ==
    /\ phase[c] = "wait"
    /\ Goto(c, "idle")
    /\ UNCHANGED <<row, tree, lock, entries, gen, era, pass, remover, crashes>>

\* Mutation of HandOver: what is marked is adopted, and the mark forgotten.
HandOverReady(c) ==
    /\ State \in {"ready", "attention"}
    /\ Deriving => row.gen = era[c]
    /\ row' = Row("ready", era[c])
    /\ UNCHANGED tree
    /\ Served(c)

\* A clone that is there is handed over as it is, marked or not; only its
\* generation becomes the call's.
HandOver(c) ==
    /\ State \in {"ready", "attention"}
    /\ Deriving => row.gen = era[c]
    /\ row' = Row(row.state, era[c])
    /\ UNCHANGED tree
    /\ Served(c)

\* Mutation of ClearAway: what a dead call left is adopted.
LeaveAsFound(c) ==
    /\ State = "materialising" /\ ~Deriving /\ ~Removing
    /\ UNCHANGED <<row, tree>>
    /\ Goto(c, IF tree = "none" THEN "room" ELSE "adopt")
    /\ lock' = c

\* What a dead call left half cloned goes; what of it cannot be deleted is
\* adopted next.  The row's write may fail, and the call with it.
ClearAway(c) ==
    /\ State = "materialising" /\ ~Deriving /\ ~Removing
    /\ Removed
    /\ \/ /\ row' = Row("absent", era[c])
          /\ Goto(c, IF tree' = "none" THEN "room" ELSE "adopt")
          /\ lock' = c
       \/ UNCHANGED row /\ Refused(c)

\* No clone by the row: a directory is adopted, or one is cloned.
StartAfresh(c) ==
    /\ State \in {"absent", "evicted"} /\ ~Deriving /\ ~Removing
    /\ UNCHANGED <<row, tree>>
    /\ Goto(c, IF tree = "none" THEN "room" ELSE "adopt")
    /\ lock' = c

Ensure(c) ==
    /\ phase[c] = "wait"
    /\ lock = None
    /\ HandOver(c) \/ ClearAway(c) \/ StartAfresh(c)
    /\ UNCHANGED <<entries, gen, era, pass, remover, crashes>>

\* The volume is measured: refused at the watermark, or cloned.
Measured(c) ==
    /\ phase[c] = "room"
    /\ \/ /\ Refused(c)
          /\ UNCHANGED row
       \/ /\ row' = Row("materialising", era[c])
          /\ Goto(c, "clone")
          /\ UNCHANGED lock
    /\ UNCHANGED <<tree, entries, gen, era, pass, remover, crashes>>

CloneAppears(c) ==
    /\ phase[c] = "clone"
    /\ tree = "none"
    /\ tree' = "partial"
    /\ UNCHANGED <<row, lock, phase, entries, gen, era, pass, remover, crashes>>

CloneEnds(c) ==
    /\ phase[c] = "clone"
    /\ \/ Undone(c)
       \/ /\ tree = "partial"
          /\ Goto(c, "identity")
          /\ UNCHANGED <<row, tree, lock>>
    /\ UNCHANGED <<entries, gen, era, pass, remover, crashes>>

IdentitySet(c) ==
    /\ phase[c] = "identity"
    /\ \/ Undone(c)
       \/ /\ tree # "none"
          /\ Goto(c, "cloned")
          /\ UNCHANGED <<row, tree, lock>>
    /\ UNCHANGED <<entries, gen, era, pass, remover, crashes>>

\* The probes of a directory found without a row: unreadable, of another
\* remote or impossible to configure, or adopted.
AdoptionProbed(c) ==
    /\ phase[c] = "adopt"
    /\ \/ Refused(c)
       \/ /\ tree \notin {"none", "broken"}
          /\ Goto(c, "adopted")
          /\ UNCHANGED lock
    /\ UNCHANGED <<row, tree, entries, gen, era, pass, remover, crashes>>

\* A clone whose row cannot be written is not served, and stays.
Materialised(c) ==
    /\ phase[c] \in {"cloned", "adopted"}
    /\ \/ /\ row' = Row("ready", era[c])
          /\ tree' = IF phase[c] = "cloned" /\ tree = "partial" THEN "clean" ELSE tree
          /\ Served(c)
       \/ /\ UNCHANGED <<row, tree>>
          /\ Refused(c)
    /\ UNCHANGED <<entries, gen, era, pass, remover, crashes>>

-----------------------------------------------------------------------------
\* The use of a clone: a mutating call begins its entry and works, an
\* ordinary one on a clone that is ready only.

Begin(c) ==
    /\ c \in Writers /\ phase[c] = "use" /\ State = "ready" /\ ~Removing
    /\ entries' = entries \cup {era[c]}
    /\ UNCHANGED <<row, tree, lock, phase, gen, era, pass, remover, crashes>>

Work(c) ==
    /\ c \in Writers /\ phase[c] = "use" /\ era[c] \in entries /\ ~Removing
    /\ tree \in {"clean", "dirty", "remains"}
    /\ tree' \in {"clean", "dirty"}
    /\ UNCHANGED <<row, lock, phase, entries, gen, era, pass, remover, crashes>>

\* A mutating call settles its entry or parks it and marks the clone; the
\* entry of an earlier call stays as it is.
WriterEnds(c) ==
    /\ c \in Writers /\ phase[c] = "use"
    /\ \/ /\ era[c] \in entries => State = "ready"
          /\ entries' = entries \ {era[c]}
          /\ UNCHANGED row
       \/ /\ era[c] \in entries /\ ~Deriving
          /\ row' = IF row = NoRow THEN row ELSE Row("attention", row.gen)
          /\ UNCHANGED entries
    /\ Refused(c)
    /\ UNCHANGED <<tree, gen, era, pass, remover, crashes>>

\* A read ends; the watcher may mark the clone for what it has read.
ReaderEnds(c) ==
    /\ c \in Readers /\ phase[c] = "use"
    /\ Goto(c, "idle")
    /\ \/ UNCHANGED row
       \/ row # NoRow /\ ~Deriving /\ row' = Row("attention", row.gen)
    /\ UNCHANGED <<tree, lock, entries, gen, era, pass, remover, crashes>>

\* Recovery settles what a dead call left, or parks it and marks the clone.
Recover(g) ==
    /\ g \in entries
    /\ \A c \in Writers : phase[c] # "use"
    /\ \/ entries' = entries \ {g} /\ State # "attention" /\ UNCHANGED row
       \/ /\ row # NoRow /\ ~Deriving
          /\ row' = Row("attention", row.gen)
          /\ UNCHANGED entries
    /\ UNCHANGED <<tree, lock, phase, gen, era, pass, remover, crashes>>

\* The operator has resolved what was parked: clearAttention.
ClearAttention ==
    /\ State = "attention" /\ ~Deriving
    /\ \A c \in Writers : phase[c] # "use"
    /\ row' = Row("ready", row.gen)
    /\ entries' = {}
    /\ UNCHANGED <<tree, lock, phase, gen, era, pass, remover, crashes>>

\* The clone as declare asks of it: computeBlockers for every era, where the row
\* knows of a clone and of its remote.
SafeToAdopt ==
    \/ State = "absent"
    \/ /\ State \in {"ready", "attention"}
       /\ tree \in {"clean"} \cup Pieces
       /\ Pins = {} /\ entries = {}

\* Orphaned, and declared again over no clone by the row or one without a
\* blocker of any era.  A call admitted before goes on as it was admitted.
Redeclare ==
    /\ gen < MaxGeneration
    /\ "eras" \in Orderly => \A c \in Calls : phase[c] = "idle"
    /\ SafeToAdopt
    /\ gen' = gen + 1
    /\ era' = [c \in Calls |-> IF phase[c] = "idle" THEN gen + 1 ELSE era[c]]
    /\ UNCHANGED <<row, tree, lock, phase, entries, pass, remover, crashes>>

\* The disk or a process killed within git spoils the directory.
Spoil ==
    /\ tree \in {"clean", "dirty"} \cup Pieces
    /\ tree' = "broken"
    /\ UNCHANGED <<row, lock, phase, entries, gen, era, pass, remover, crashes>>

-----------------------------------------------------------------------------
\* deriveAllStatesFromDisk.

\* What the probe of a directory makes of the row that was read.
Probed(seen) ==
    (IF tree \in {"broken"} \cup Pieces THEN {Row("attention", seen.gen)} ELSE {})
    \cup (IF tree # "broken"
          THEN {Row(IF seen.state = "attention" THEN "attention" ELSE "ready", seen.gen)}
          ELSE {})

Missing(seen) == IF seen.state \in {"absent", "evicted"} THEN row ELSE Row("absent", seen.gen)

DeriveReads ==
    /\ pass = Resting
    /\ row # NoRow
    /\ Apart("derive")
    /\ pass' = [step |-> "derive", seen |-> row]
    /\ UNCHANGED <<row, tree, lock, phase, entries, gen, era, remover, crashes>>

\* No directory; one whose call died, which only the lock can tell; or a probe.
DeriveLooks ==
    /\ pass.step = "derive"
    /\ \/ /\ tree = "none"
          /\ row' = Missing(pass.seen)
          /\ pass' = Resting
          /\ UNCHANGED tree
       \/ /\ tree # "none" /\ pass.seen.state = "materialising"
          /\ IF lock = None
             THEN Removed /\ row' = Row("absent", pass.seen.gen)
             ELSE UNCHANGED <<row, tree>>
          /\ pass' = Resting
       \/ /\ tree # "none" /\ pass.seen.state # "materialising"
          /\ pass' = [pass EXCEPT !.step = "probe"]
          /\ UNCHANGED <<row, tree>>
    /\ UNCHANGED <<lock, phase, entries, gen, era, remover, crashes>>

\* The directory may have gone by now; git cannot read it then.
DeriveWrites ==
    /\ pass.step = "probe"
    /\ row' \in IF tree = "none" THEN {Row("attention", pass.seen.gen)} ELSE Probed(pass.seen)
    /\ pass' = Resting
    /\ UNCHANGED <<tree, lock, phase, entries, gen, era, remover, crashes>>

-----------------------------------------------------------------------------
\* evictIfSafe.

TakesLock == lock = None /\ lock' = "evict"

EvictStarts ==
    /\ pass = Resting
    /\ State \notin {"absent", "evicted"}
    /\ Pins = {}
    /\ TakesLock
    /\ pass' = [step |-> "check", seen |-> row]
    /\ UNCHANGED <<row, tree, phase, entries, gen, era, remover, crashes>>

LetGo == lock' = IF lock = "evict" THEN None ELSE lock

\* Mutation of NoBlockers: a parked entry's clone counts as idle.
NoBlockersButEntries(g) ==
    /\ tree \in {"clean"} \cup Pieces
    /\ Pins = {}

\* computeBlockers, for the generation of the row that was read.
NoBlockers(g) ==
    /\ tree \in {"clean"} \cup Pieces
    /\ Pins = {}
    /\ g \notin entries

EvictChecks ==
    /\ pass.step = "check"
    /\ \/ /\ pass' = Resting
          /\ LetGo
       \/ /\ NoBlockers(pass.seen.gen)
          /\ pass' = [pass EXCEPT !.step = "delete"]
          /\ UNCHANGED lock
    /\ UNCHANGED <<row, tree, phase, entries, gen, era, remover, crashes>>

EvictDeletes ==
    /\ pass.step = "delete"
    /\ Removed
    /\ Written(Row("evicted", pass.seen.gen))
    /\ pass' = Resting
    /\ LetGo
    /\ UNCHANGED <<phase, entries, gen, era, remover, crashes>>

-----------------------------------------------------------------------------
\* remove, which takes no lock.

RemoveStarts ==
    /\ remover.step = "idle"
    /\ Apart("remove")
    /\ IF State \in {"absent", "evicted"} /\ tree = "none"
       THEN row' = NoRow /\ UNCHANGED remover
       ELSE /\ remover' = [step |-> "readable", gen |-> IF row = NoRow THEN gen ELSE row.gen]
            /\ UNCHANGED row
    /\ UNCHANGED <<tree, lock, phase, entries, gen, era, pass, crashes>>

\* Unreadable: refused, or set aside whole when the operator insists.
RemoveProbes ==
    /\ remover.step = "readable"
    /\ \/ /\ tree # "broken"
          /\ remover' = [remover EXCEPT !.step = "status"]
          /\ UNCHANGED <<row, tree>>
       \/ /\ tree \in {"broken", "none"} \cup Pieces
          /\ remover' = NotRemoving
          /\ UNCHANGED <<row, tree>>
       \/ /\ tree \in {"broken"} \cup Pieces
          /\ "quarantine" \in Orderly => entries = {} /\ Pins = {}
          /\ tree' = "none"
          /\ Written(NoRow)
          /\ remover' = NotRemoving
    /\ UNCHANGED <<lock, phase, entries, gen, era, pass, crashes>>

\* git's own probes, in several processes.
RemoveInspects ==
    /\ remover.step = "status"
    /\ remover' = IF tree \in {"clean"} \cup Pieces
                  THEN [remover EXCEPT !.step = "delete"] ELSE NotRemoving
    /\ UNCHANGED <<row, tree, lock, phase, entries, gen, era, pass, crashes>>

\* The pins and the journal are asked in the turn that deletes.
RemoveDeletes ==
    /\ remover.step = "delete"
    /\ remover' = NotRemoving
    /\ IF Pins = {} /\ remover.gen \notin entries
       THEN Removed /\ Written(NoRow)
       ELSE UNCHANGED <<row, tree>>
    /\ UNCHANGED <<lock, phase, entries, gen, era, pass, crashes>>

-----------------------------------------------------------------------------
\* The process dies; boot derives the row before anything is served.
CrashAndBoot ==
    /\ crashes < MaxCrashes
    /\ crashes' = crashes + 1
    /\ IF row = NoRow
       THEN UNCHANGED <<row, tree>>
       ELSE \/ tree = "none" /\ row' = Missing(row) /\ UNCHANGED tree
            \/ /\ tree # "none" /\ row.state = "materialising"
               /\ Removed /\ row' = Row("absent", row.gen)
            \/ /\ tree # "none" /\ row.state # "materialising"
               /\ row' \in Probed(row) /\ UNCHANGED tree
    /\ lock' = None
    /\ phase' = [c \in Calls |-> "idle"]
    /\ pass' = Resting
    /\ remover' = NotRemoving
    /\ UNCHANGED <<entries, gen, era>>

Next ==
    \/ \E c \in Calls :
          \/ Arrive(c) \/ GiveUp(c) \/ Ensure(c) \/ Measured(c)
          \/ CloneAppears(c) \/ CloneEnds(c) \/ IdentitySet(c) \/ AdoptionProbed(c)
          \/ Materialised(c) \/ Begin(c) \/ Work(c) \/ WriterEnds(c) \/ ReaderEnds(c)
    \/ \E g \in 1..MaxGeneration : Recover(g)
    \/ ClearAttention \/ Redeclare \/ Spoil
    \/ DeriveReads \/ DeriveLooks \/ DeriveWrites
    \/ EvictStarts \/ EvictChecks \/ EvictDeletes
    \/ RemoveStarts \/ RemoveProbes \/ RemoveInspects \/ RemoveDeletes
    \/ CrashAndBoot

Spec == Init /\ [][Next]_vars

-----------------------------------------------------------------------------
\* A call is served a clone that is there, and not one that git clone has not
\* finished, and nothing takes it away from under the call, whichever of the
\* pin and the lock protects it (clone-store.ts, ensure, evictIfSafe, remove).
\* The remains of a clone that could not be deleted are adopted as a clone.
UsersHaveTree == Pins # {} => tree \notin {"none", "partial"}

\* A readable clone is deleted, wholly or in part, only when everything in it is
\* at the remote, no call uses it and no unsettled entry, of whatever era, still
\* needs it to tell what happened (clone-store.ts, computeBlockers).
WorkStays ==
    [][(tree \in {"clean", "dirty"} /\ tree' \in {"none"} \cup Pieces) =>
          (tree = "clean" /\ Pins = {} /\ entries = {})]_vars

\* The mark an operator is to look at is cleared by the operator or goes with
\* the clone itself, or with the attempt to delete it: no call, pass or boot
\* takes it (clone-store.ts, ensure, deriveAllStatesFromDisk).
MarksSurvive ==
    [][State = "attention" /\ State' # "attention" =>
          ClearAttention \/ tree' = "none" \/ EvictDeletes \/ RemoveDeletes]_vars

\* What ensure says of a row left at `materialising`: what is on disk is a partial
\* tree, never to be adopted.  A removal that fails, which removePartial tells
\* nobody, refutes it.
HalfMadeNeverAdopted ==
    [][\A c \in Calls :
          phase[c] = "wait" /\ State = "materialising" => phase'[c] # "adopt"]_vars
=============================================================================
