------------------------------ MODULE StoreFile ------------------------------
(***************************************************************************)
(* The structured store as a file (src/src/store/structured-store.ts): its *)
(* schema and contents, and the copies in backups/, taken before every     *)
(* migration and as snapshots, and pruned by age.                          *)
(***************************************************************************)
EXTENDS Integers, FiniteSets

CONSTANTS Latest,          \* the image's newest migration
          KeptBackups,     \* pre-migration copies retention keeps
          KeptSnapshots,   \* snapshots it keeps
          MaxContents,     \* bound on the changes of the store's contents
          MaxStamps        \* bound on the times at which snapshots are taken

ASSUME StoreFileAssumption ==
    /\ Latest \in Nat \ {0}
    /\ KeptBackups \in Nat \ {0} /\ KeptSnapshots \in Nat \ {0}
    /\ MaxContents \in Nat /\ MaxStamps \in Nat

VARIABLES store,     \* the store: the last migration applied, and its contents
          found,     \* the store as this boot opened it
          copies,    \* the files in backups/
          stamp,     \* the time of the last copy
          offered    \* the copy the last failed migration named

storage == <<store, found, copies, stamp, offered>>

Stores == [schema : 0..Latest, contents : 0..MaxContents]
Copies == [kind : {"pre-migration", "snapshot"}, at : Nat, of : Stores, whole : BOOLEAN]
NoCopy == [kind |-> "none"]

StoreTypeOK ==
    /\ store \in Stores /\ found \in Stores
    /\ copies \subseteq Copies
    /\ stamp \in Nat
    /\ offered \in Copies \cup {NoCopy}

StoreInit ==
    /\ store \in [schema : 0..(Latest - 1), contents : {0}]
    /\ found = store
    /\ copies = {} /\ stamp = 0 /\ offered = NoCopy

-----------------------------------------------------------------------------
OfKind(kind) == {c \in copies : c.kind = kind}
\* newestWithPrefix goes by the names of the files; a copy cut short has one too.
NewestOf(kind) ==
    IF OfKind(kind) = {} THEN NoCopy
    ELSE CHOOSE c \in OfKind(kind) : \A d \in OfKind(kind) : d.at <= c.at

TheCopy(kind, whole) == [kind |-> kind, at |-> stamp + 1, of |-> store, whole |-> whole]

\* copyTo: a file named for the time, or the beginning of one, or none.
CopyTo(kind) ==
    /\ copies' = copies \cup {TheCopy(kind, TRUE)}
    /\ stamp' = stamp + 1
CopyFails(kind, partial) ==
    /\ copies' = IF partial THEN copies \cup {TheCopy(kind, FALSE)} ELSE copies
    /\ stamp' = stamp + 1

OpenStore ==
    /\ found' = store
    /\ offered' = NoCopy
    /\ UNCHANGED <<store, copies, stamp>>

\* Mutation of BackupStore: a copy is taken only where there is none.
BackupOnce ==
    IF OfKind("pre-migration") = {}
    THEN CopyTo("pre-migration") /\ UNCHANGED <<store, found, offered>>
    ELSE UNCHANGED storage

\* backupBeforeMigration, on every boot.
BackupStore == CopyTo("pre-migration") /\ UNCHANGED <<store, found, offered>>

BackupFails(partial) == CopyFails("pre-migration", partial) /\ UNCHANGED <<store, found, offered>>

\* migrate: one migration is one transaction.
Pending == store.schema < Latest
ApplyMigration ==
    /\ Pending
    /\ store' = [store EXCEPT !.schema = @ + 1]
    /\ UNCHANGED <<found, copies, stamp, offered>>

\* It fails: the transaction is undone and the error names the newest copy.
MigrationFails ==
    /\ Pending
    /\ offered' = NewestOf("pre-migration")
    /\ UNCHANGED <<store, found, copies, stamp>>

\* The service writes to its store.
ChangeContents ==
    /\ store.contents < MaxContents
    /\ store' = [store EXCEPT !.contents = @ + 1]
    /\ UNCHANGED <<found, copies, stamp, offered>>

\* runRetention: when a snapshot is due it is taken, or fails and is skipped;
\* then the oldest copies of each kind beyond those kept are deleted.
Doomed(all, kind, keep) ==
    LET alike == {c \in all : c.kind = kind}
    IN  {c \in alike : Cardinality({d \in alike : d.at > c.at}) >= keep}
Pruned(all) == all \ (Doomed(all, "pre-migration", KeptBackups) \cup Doomed(all, "snapshot", KeptSnapshots))
RetainStore ==
    /\ \/ copies' = Pruned(copies) /\ UNCHANGED stamp
       \/ /\ stamp < MaxStamps
          /\ \E whole \in BOOLEAN : copies' = Pruned(copies \cup {TheCopy("snapshot", whole)})
          /\ stamp' = stamp + 1
    /\ UNCHANGED <<store, found, offered>>

-----------------------------------------------------------------------------
(***************************************************************************)
(* The copy that a failed migration names to the operator is a whole image *)
(* of the store as that boot found it, before the first of its migrations, *)
(* and is there: neither a copy of another boot nor one cut short          *)
(* (structured-store.ts, backupBeforeMigration and migrate).               *)
(***************************************************************************)
FailureNamesWayBack ==
    offered # NoCopy => offered \in copies /\ offered.whole /\ offered.of = found
=============================================================================
