------------------------------- MODULE Outbox -------------------------------
(***************************************************************************)
(* The outbox (src/src/notifier/notifier.ts): the rows that tell an        *)
(* operator something, the transactions that add them and the passes that  *)
(* deliver them.  A park adds its row in the journal's own transaction,    *)
(* which runs in one turn of the event loop.  Every other notice goes      *)
(* through the store's one connection (structured-store.ts, transaction),  *)
(* which awaits between BEGIN and COMMIT: other turns come between, other  *)
(* connections find the store locked for longer than they wait, and a      *)
(* second transaction is refused and rolls back the first.                 *)
(*                                                                         *)
(* A transport is configured.  Without one the passes do nothing.          *)
(***************************************************************************)
EXTENDS Journal

CONSTANTS Notices,      \* the notices that are not parks
          MaxTries,     \* deliveries tried per row and pass
          MaxMishaps,   \* bound on crashes, failing writes, lost answers and clears
          Resumed       \* a transaction undone by another is resumed before a third begins

ASSUME OutboxAssumption ==
    /\ Notices \cap Ops = {}
    /\ MaxTries \in Nat \ {0}
    /\ MaxMishaps \in Nat
    /\ Resumed \in BOOLEAN

VARIABLES row,       \* row[r]: the status of a notice's row
          tx,        \* the store connection's transaction and the rows it inserted
          asked,     \* asked[n]: where the request to enqueue a notice is
          pass,      \* the delivery pass
          waiting,   \* the passes behind it
          took,      \* took[r]: how often the transport took the row
          stranded,  \* the rows in flight whose claim could not be released
          trouble,   \* trouble[r]: what may have had it sent once more
          mishaps    \* how many there were

outboxVars == <<row, tx, asked, pass, waiting, took, stranded, trouble, mishaps>>
vars == <<journalVars, outboxVars>>

Rows == Ops \cup Notices
NoTx == [open |-> FALSE, rows |-> {}]
NoPass == [step |-> "idle", kind |-> "none", rest |-> {}, tries |-> 0]
Delivering == pass.step \in {"sending", "taken"}

OutboxTypeOK ==
    /\ JournalTypeOK
    /\ row \in [Rows -> {"none", "pending", "in-flight", "delivered", "failed", "pruned"}]
    /\ tx \in [open : BOOLEAN, rows : SUBSET Notices]
    /\ asked \in [Notices -> {"no", "open", "ok", "failed", "died"}]
    /\ pass.step \in {"idle", "next", "sending", "taken"}
    /\ pass.kind \in {"none", "redrive", "timer"}
    /\ pass.tries \in 0..MaxTries
    /\ pass.rest \subseteq Rows /\ (Delivering => pass.row \in Rows)
    /\ waiting \subseteq {"redrive", "timer"}
    /\ stranded \subseteq Rows
    /\ took \in [Rows -> Nat] /\ trouble \in [Rows -> Nat]
    /\ mishaps \in 0..MaxMishaps

OutboxInit ==
    /\ JournalInit
    /\ row = [r \in Rows |-> "none"]
    /\ tx = NoTx
    /\ asked = [n \in Notices |-> "no"]
    /\ pass = NoPass /\ waiting = {"redrive"}
    /\ stranded = {}
    /\ took = [r \in Rows |-> 0] /\ trouble = [r \in Rows |-> 0]
    /\ mishaps = 0

\* A mishap happens, within the bound.
Mishap == mishaps < MaxMishaps /\ mishaps' = mishaps + 1
Works == UNCHANGED mishaps
Become(r, status) == row' = [row EXCEPT ![r] = status]

-----------------------------------------------------------------------------
\* The journal's callers; while the store is locked its writes fail.
JournalCalled ==
    /\ ~ tx.open
    /\ JournalNext
    /\ row' = [r \in Rows |-> IF r \in Ops /\ row[r] = "none" /\ announced'[r] > announced[r]
                              THEN "pending" ELSE row[r]]
    /\ UNCHANGED <<tx, asked, pass, waiting, took, trouble, mishaps, stranded>>

\* Mutation of BeginNotice: a transaction that meets another one joins it.
BeginNoticeJoins(n) ==
    /\ asked[n] = "no"
    /\ Resumed => \A m \in Notices : asked[m] = "open" => m \in tx.rows
    /\ tx' = [open |-> TRUE, rows |-> tx.rows \cup {n}]
    /\ asked' = [asked EXCEPT ![n] = "open"]
    /\ UNCHANGED <<journalVars, row, pass, waiting, took, trouble, mishaps, stranded>>

\* transaction(enqueue) up to its await: BEGIN and the row, or an error of
\* BEGIN, which is answered by a ROLLBACK whoever's transaction it was.
BeginNotice(n) ==
    /\ asked[n] = "no"
    /\ Resumed => \A m \in Notices : asked[m] = "open" => m \in tx.rows
    /\ IF tx.open
       THEN tx' = NoTx /\ asked' = [asked EXCEPT ![n] = "failed"]
       ELSE /\ tx' = [open |-> TRUE, rows |-> {n}]
            /\ asked' = [asked EXCEPT ![n] = "open"]
    /\ UNCHANGED <<journalVars, row, pass, waiting, took, trouble, mishaps, stranded>>

\* The rest of it: COMMIT, or its error when there is nothing to commit.
CommitNotice(n) ==
    /\ asked[n] = "open"
    /\ IF tx.open
       THEN /\ row' = [r \in Rows |-> IF r \in tx.rows THEN "pending" ELSE row[r]]
            /\ asked' = [asked EXCEPT ![n] = "ok"]
       ELSE asked' = [asked EXCEPT ![n] = "failed"] /\ UNCHANGED row
    /\ tx' = NoTx
    /\ UNCHANGED <<journalVars, pass, waiting, took, trouble, mishaps, stranded>>

-----------------------------------------------------------------------------
\* deliveryTimer: one pass of the timer's at a time, behind any other.
TimerTicks ==
    /\ "timer" \notin waiting /\ pass.kind # "timer"
    /\ waiting' = waiting \cup {"timer"}
    /\ UNCHANGED <<journalVars, row, tx, asked, pass, took, trouble, mishaps, stranded>>

\* The pass reads the rows it will deliver, or fails to.
PassStarts(kind) ==
    /\ pass.step = "idle"
    /\ kind \in waiting
    /\ waiting' = waiting \ {kind}
    /\ \/ /\ pass' = [NoPass EXCEPT !.step = "next", !.kind = kind,
                                    !.rest = {r \in Rows : row[r] = "pending"}]
          /\ Works
       \/ UNCHANGED pass /\ Mishap
    /\ UNCHANGED <<journalVars, row, tx, asked, took, trouble, stranded>>

\* claim: a store that cannot be written ends the pass, a lost claim skips the row.
Claim(r) ==
    /\ pass.step = "next"
    /\ r \in pass.rest
    /\ \/ /\ (tx.open /\ Works) \/ Mishap
          /\ pass' = NoPass
          /\ UNCHANGED row
       \/ /\ ~ tx.open
          /\ row[r] = "pending"
          /\ Become(r, "in-flight")
          /\ pass' = [step |-> "sending", kind |-> pass.kind, rest |-> pass.rest \ {r},
                      tries |-> 0, row |-> r]
          /\ Works
       \/ /\ ~ tx.open
          /\ row[r] # "pending"
          /\ pass' = [pass EXCEPT !.rest = @ \ {r}]
          /\ UNCHANGED row /\ Works
    /\ UNCHANGED <<journalVars, tx, asked, waiting, took, trouble, stranded>>

\* The write-back of an outcome.  When it fails the claim is released; when that
\* fails, too, the row is stranded.  `again' is 1 if the row was delivered.
WriteBack(r, status, again) ==
    /\ pass' = [step |-> "next", kind |-> pass.kind, rest |-> pass.rest, tries |-> 0]
    /\ \/ ~ tx.open /\ Become(r, status) /\ Works /\ UNCHANGED <<stranded, trouble>>
       \/ /\ ~ tx.open /\ Mishap
          /\ Become(r, "pending") /\ UNCHANGED stranded
          /\ trouble' = [trouble EXCEPT ![r] = @ + again]
       \/ /\ (tx.open /\ Works) \/ Mishap
          /\ UNCHANGED row /\ stranded' = stranded \cup {r}
          /\ trouble' = [trouble EXCEPT ![r] = @ + again]

\* The webhook takes the notice; whether the answer arrives is another matter.
Taken ==
    /\ pass.step = "sending"
    /\ pass' = [pass EXCEPT !.step = "taken"]
    /\ took' = [took EXCEPT ![pass.row] = @ + 1]
    /\ UNCHANGED <<journalVars, row, tx, asked, waiting, trouble, mishaps, stranded>>

Answered ==
    /\ pass.step = "taken"
    /\ WriteBack(pass.row, "delivered", 1)
    /\ UNCHANGED <<journalVars, tx, asked, waiting, took>>

\* attemptDelivery fails without the webhook having taken it: once more after
\* the backoff, or the row is given up.
NotTaken ==
    /\ pass.step = "sending"
    /\ IF pass.tries + 1 < MaxTries
       THEN pass' = [pass EXCEPT !.tries = @ + 1] /\ UNCHANGED <<row, stranded, trouble, mishaps>>
       ELSE WriteBack(pass.row, "failed", 0)
    /\ UNCHANGED <<journalVars, tx, asked, waiting, took>>

\* It fails although the webhook took it: the answer was late or an error.
NotAnswered ==
    /\ pass.step = "taken"
    /\ Mishap
    /\ trouble' = [trouble EXCEPT ![pass.row] = @ + 1]
    /\ IF pass.tries + 1 < MaxTries
       THEN /\ pass' = [pass EXCEPT !.step = "sending", !.tries = @ + 1]
            /\ UNCHANGED <<row, stranded>>
       ELSE /\ pass' = [step |-> "next", kind |-> pass.kind, rest |-> pass.rest, tries |-> 0]
            /\ IF tx.open THEN stranded' = stranded \cup {pass.row} /\ UNCHANGED row
                          ELSE Become(pass.row, "failed") /\ UNCHANGED stranded
    /\ UNCHANGED <<journalVars, tx, asked, waiting, took>>

PassEnds ==
    /\ pass.step = "next" /\ pass.rest = {}
    /\ pass' = NoPass
    /\ UNCHANGED <<journalVars, row, tx, asked, waiting, took, trouble, mishaps, stranded>>

-----------------------------------------------------------------------------
\* clearFailed and runRetention.
ClearFailed(r) ==
    /\ Mishap
    /\ ~ tx.open
    /\ row[r] = "failed"
    /\ Become(r, "pending")
    /\ UNCHANGED <<journalVars, tx, asked, pass, waiting, took, trouble, stranded>>

PruneDelivered(r) ==
    /\ ~ tx.open
    /\ row[r] = "delivered"
    /\ Become(r, "pruned")
    /\ UNCHANGED <<journalVars, tx, asked, pass, waiting, took, trouble, mishaps, stranded>>

\* Mutation of Swept: every row is sent again, whatever became of it.
SweptWhole == [r \in Rows |-> IF row[r] \in {"in-flight", "delivered", "failed"} THEN "pending" ELSE row[r]]

\* Mutation of Swept: the claims of the dead process stay.
NotSwept == row

Swept == [r \in Rows |-> IF row[r] = "in-flight" THEN "pending" ELSE row[r]]

\* The process dies, what was not committed is gone, and the next one boots
\* and re-drives; if its sweep fails it makes no pass.
Restarts ==
    /\ Mishap
    /\ tx' = NoTx
    /\ asked' = [n \in Notices |-> IF asked[n] = "open" THEN "died" ELSE asked[n]]
    /\ pass' = NoPass
    /\ trouble' = IF pass.step = "taken" THEN [trouble EXCEPT ![pass.row] = @ + 1] ELSE trouble
    /\ \/ row' = Swept /\ waiting' = {"redrive"} /\ stranded' = {}
       \/ UNCHANGED row /\ waiting' = {} /\ stranded' = {r \in Rows : row[r] = "in-flight"}
    /\ UNCHANGED <<journalVars, took>>

PassStep ==
    \/ \E kind \in waiting : PassStarts(kind)
    \/ \E r \in pass.rest : Claim(r)
    \/ Taken \/ Answered \/ NotTaken \/ NotAnswered \/ PassEnds

OutboxNext ==
    \/ JournalCalled
    \/ \E n \in Notices : BeginNotice(n) \/ CommitNotice(n)
    \/ TimerTicks \/ PassStep
    \/ \E r \in Rows : ClearFailed(r) \/ PruneDelivered(r)
    \/ Restarts

\* The timer ticks, a pass goes on because every attempt is bounded, and an
\* awaited transaction is resumed.
OutboxSpec ==
    /\ OutboxInit /\ [][OutboxNext]_vars
    /\ WF_vars(TimerTicks)
    /\ WF_vars(PassStep)
    /\ \A n \in Notices : WF_vars(CommitNotice(n))

-----------------------------------------------------------------------------
(***************************************************************************)
(* Whoever asks for a notice is told the truth: success means that its row *)
(* was committed, and failure that it was not, also when transactions on   *)
(* the one connection meet (notifier.ts, enqueue: "land together or not at *)
(* all"; structured-store.ts, transaction).                                *)
(***************************************************************************)
TransactionsTellTrue ==
    \A n \in Notices :
        /\ asked[n] = "ok" => row[n] # "none"
        /\ asked[n] = "failed" => row[n] = "none"

(***************************************************************************)
(* A notice reaches the operator once, and once more only for a reason:    *)
(* its outcome could not be recorded, an answer was lost, or the process   *)
(* died before it recorded it.  Two passes never send the same row         *)
(* (notifier.ts, serialised, claim and redriveUndelivered).                *)
(***************************************************************************)
SentOncePerReason == \A r \in Rows : took[r] <= 1 + trouble[r]

(***************************************************************************)
(* A row that waits is delivered or given up, also when the process that   *)
(* claimed it died, unless it is stranded: neither its outcome nor the     *)
(* release of its claim could be written, or a boot could not sweep the    *)
(* claims, which the code leaves to the next restart (notifier.ts:334).    *)
(***************************************************************************)
Decided(r) == row[r] \in {"delivered", "failed", "pruned"}
RowsAreDecided == \A r \in Rows : row[r] = "pending" ~> Decided(r) \/ r \in stranded
=============================================================================
