-------------------------------- MODULE Waits --------------------------------
(***************************************************************************)
(* The monitoring wait (dispatchMonitoringWait and awaitChecks) among the  *)
(* other users of the lock service.  A wait is admitted by two counters,   *)
(* takes its declaration's materialisation lock only while the clone is    *)
(* made ready, and then reads the host's checks until it reaches a verdict *)
(* or its time is up; a verdict an operator must hear of goes by way of a  *)
(* sink to a notifier row.  The pipeline's own limit on the call may fire  *)
(* first: the call is answered, and the handler goes on unheard.           *)
(*                                                                         *)
(* The host answers as it likes.  Of the checks a read returns, a wait     *)
(* tells apart whether one is pending, and whether a required one failed   *)
(* ("red") or only others did ("amber").                                   *)
(***************************************************************************)
EXTENDS Locks, FiniteSets

CONSTANTS Waits,            \* the calls of Calls that are monitoring waits
          Sessions,
          NoSession,
          PerSession,       \* concurrentWaitsPerSession
          PerProcess,       \* concurrentLockFreeOperations
          Asked,            \* the durations a caller asks for, in ticks
          Limit,            \* the registry's timeoutSeconds for the tool
          Cap,              \* the lower of it and the service's own cap on waits
          PollInterval,
          Backoffs          \* what a rate limit asks the wait to sleep

ASSUME WaitsAssumption ==
    /\ Waits \subseteq Calls /\ IsFiniteSet(Waits)
    /\ NoSession \notin Sessions
    /\ PerSession \in Nat \ {0} /\ PerProcess \in Nat \ {0}
    /\ Asked \subseteq Nat /\ Cap \in Nat /\ Limit \in Nat /\ Cap <= Limit /\ PollInterval \in Nat \ {0}
    /\ Backoffs \subseteq Nat \ {0}

VARIABLES wait,      \* wait[w]: how far w has come
          inFlight,  \* lockFreeInFlight
          perSession,\* waitsPerSession
          pinned,    \* the waits that hold an active pin
          cut,       \* the waits whose call was answered at its limit
          sink,      \* terminalSink
          rows,      \* rows[w]: the notifier's rows that name w
          lost       \* the waits whose row could not be enqueued

waitVars == <<wait, inFlight, perSession, pinned, cut, sink, rows, lost>>
allVars == <<vars, waitVars>>
Findings == {"pending", "red", "amber"}
Reads == {saw \in SUBSET Findings : ~({"red", "amber"} \subseteq saw)}
Told == {"red", "timed-out"}                   \* the ends an operator hears of
Ends == Told \cup {"none", "refused", "error", "concluded", "cancelled"}
Points == {"new", "ensuring", "read", "judge", "asleep", "settle", "done"}

WaitsTypeOK ==
    /\ wait \in [Waits -> [at : Points, from : Sessions \cup {NoSession},
                           left : 0..Cap, until : 0..Cap, limit : 0..Limit, saw : Reads,
                           aborted : BOOLEAN, end : Ends]]
    /\ inFlight \in 0..PerProcess
    /\ perSession \in [Sessions -> 0..PerSession]
    /\ pinned \subseteq Waits /\ cut \subseteq Waits /\ lost \subseteq Waits
    /\ sink \in [Waits -> Told \cup {"none"}]
    /\ rows \in [Waits -> Seq(Told)]

MonitoringInit ==
    /\ Init
    /\ \A w \in Waits : wants[w] \in DeclarationIds
    /\ wait = [w \in Waits |-> [at |-> "new", from |-> NoSession, left |-> 0, until |-> 0,
                                limit |-> 0, saw |-> {}, aborted |-> FALSE, end |-> "none"]]
    /\ inFlight = 0 /\ perSession = [s \in Sessions |-> 0]
    /\ pinned = {} /\ cut = {} /\ lost = {}
    /\ sink = [w \in Waits |-> "none"] /\ rows = [w \in Waits |-> <<>>]

At(w, at) == wait[w].at = at
\* The handler has its answer; the pipeline's finally blocks are still to run, or
\* ran when the call was cut off.
EndHaving(w, end, saw) ==
    wait' = [wait EXCEPT ![w].at = "settle", ![w].end = end, ![w].left = 0, ![w].limit = 0,
                         ![w].saw = saw, ![w].aborted = FALSE]
End(w, end) == EndHaving(w, end, {})

-----------------------------------------------------------------------------
\* Admission: refused outright, never queued.
Admitted(s) == inFlight < PerProcess /\ perSession[s] < PerSession

Admit(w, s) ==
    /\ At(w, "new")
    /\ IF Admitted(s)
          THEN /\ inFlight' = inFlight + 1
               /\ perSession' = [perSession EXCEPT ![s] = @ + 1]
               /\ wait' = [wait EXCEPT ![w].at = "ensuring", ![w].from = s]
          ELSE /\ wait' = [wait EXCEPT ![w].at = "done", ![w].end = "refused"]
               /\ UNCHANGED <<inFlight, perSession>>
    /\ UNCHANGED <<vars, pinned, cut, sink, rows, lost>>

\* Mutation of Vacate: the place is given back beside the pin only.
VacateWithPin(w) ==
    IF w \in pinned
    THEN /\ inFlight' = inFlight - 1
         /\ perSession' = [perSession EXCEPT ![wait[w].from] = @ - 1]
    ELSE UNCHANGED <<inFlight, perSession>>

Vacate(w) ==
    /\ inFlight' = IF inFlight > 0 THEN inFlight - 1 ELSE 0
    /\ perSession' = [perSession EXCEPT ![wait[w].from] = IF @ > 0 THEN @ - 1 ELSE 0]

\* The clone is made ready under the materialisation lock, as for a read.
AskForLock(w) ==
    /\ At(w, "ensuring")
    /\ \/ wait[w].aborted /\ (AcquireAborted(w) \/ Abort(w))
       \/ AcquireRefused(w) \/ Acquire(w) \/ Timeout(w)
    /\ UNCHANGED waitVars

NotEnsured(w) ==
    /\ At(w, "ensuring") /\ call[w] \in Answered
    /\ End(w, "error")
    /\ UNCHANGED <<vars, inFlight, perSession, pinned, cut, sink, rows, lost>>

EnsureFails(w) ==
    /\ At(w, "ensuring")
    /\ ReleaseLock(w)
    /\ End(w, "error")
    /\ UNCHANGED <<inFlight, perSession, pinned, cut, sink, rows, lost>>

\* The lock is released before the wait begins, the pin kept; the time asked for is
\* cut to the cap, and the pipeline's timer starts with the handler.
Clamp(asked) == IF asked <= Cap THEN asked ELSE Cap

Ensured(w, asked) ==
    /\ At(w, "ensuring")
    /\ ReleaseLock(w)
    /\ pinned' = pinned \cup {w}
    /\ wait' = [wait EXCEPT ![w].at = "read", ![w].left = Clamp(asked),
                         ![w].limit = Limit]
    /\ UNCHANGED <<inFlight, perSession, cut, sink, rows, lost>>

-----------------------------------------------------------------------------
\* awaitChecks.
Quiet == UNCHANGED <<vars, inFlight, perSession, pinned, cut, rows, lost>>

TimeOut(w) == End(w, "timed-out") /\ sink' = [sink EXCEPT ![w] = "timed-out"]
Sleep(w, ticks) ==
    /\ wait' = [wait EXCEPT ![w].at = "asleep", ![w].until = wait[w].left - ticks, ![w].saw = {}]
    /\ UNCHANGED sink

\* Nothing pending concludes the wait; otherwise it sleeps, if a poll still fits.
Conclude(w, saw) ==
    IF "pending" \notin saw
    THEN EndHaving(w, "concluded", saw) /\ UNCHANGED sink
    ELSE IF wait[w].aborted
    THEN End(w, "cancelled") /\ UNCHANGED sink
    ELSE IF wait[w].left <= PollInterval
    THEN EndHaving(w, "timed-out", saw) /\ sink' = [sink EXCEPT ![w] = "timed-out"]
    ELSE Sleep(w, PollInterval)

\* The clone has no head to wait on, the credential cannot be prepared, or the read
\* fails otherwise than by a rate limit.
ReadFails(w) ==
    /\ At(w, "read")
    /\ End(w, "error")
    /\ Quiet /\ UNCHANGED sink

\* Mutation of BacksOff: the limit's own delay is waited out whatever is left.
BacksOffAlways(left, backoff) == TRUE

BacksOff(left, backoff) == backoff < left

\* The host says so, or the credential's own budget is spent, which is looked at
\* before the signal is.
RateLimited(w, backoff) ==
    /\ At(w, "read")
    /\ IF BacksOff(wait[w].left, backoff)
       THEN Sleep(w, IF backoff > wait[w].left THEN wait[w].left ELSE backoff)
       ELSE TimeOut(w)
    /\ Quiet

\* Mutation of Judged: the failures are looked at once nothing is pending.
JudgedLast(saw) == "pending" \notin saw /\ saw # {}

\* A failure is judged on every read, before what is pending.
Judged(saw) == saw \cap {"red", "amber"} # {}

ReadChecks(w, saw) ==
    /\ At(w, "read") /\ ~wait[w].aborted
    /\ IF Judged(saw)
       THEN wait' = [wait EXCEPT ![w].at = "judge", ![w].saw = saw] /\ UNCHANGED sink
       ELSE Conclude(w, saw)
    /\ Quiet

\* requiredCheckFailure: the required checks are read from the clone's own config,
\* and one that failed is put to the open pull request with that head.  What cannot
\* be read, and a failure with no pull request, is refused rather than passed.
Judge(w) ==
    /\ At(w, "judge")
    /\ \/ End(w, "error") /\ UNCHANGED sink
       \/ "red" \in wait[w].saw /\ EndHaving(w, "red", wait[w].saw) /\ sink' = [sink EXCEPT ![w] = "red"]
       \/ "red" \notin wait[w].saw /\ Conclude(w, wait[w].saw)
    /\ Quiet

Wake(w) ==
    /\ At(w, "asleep") /\ wait[w].left <= wait[w].until
    /\ wait' = [wait EXCEPT ![w].at = "read", ![w].until = 0]
    /\ Quiet /\ UNCHANGED sink

\* The caller's signal; a sleep is not cut short by it.
Cancel(w) ==
    /\ ~At(w, "new") /\ ~At(w, "settle") /\ ~At(w, "done") /\ ~wait[w].aborted
    /\ wait' = [wait EXCEPT ![w].aborted = TRUE]
    /\ Quiet /\ UNCHANGED sink

Less(ticks) == IF ticks > 0 THEN ticks - 1 ELSE 0

Tick ==
    /\ \E w \in Waits : wait[w].left > 0 \/ wait[w].limit > 0
    /\ wait' = [w \in Waits |-> [wait[w] EXCEPT !.left = Less(@), !.limit = Less(@)]]
    /\ Quiet /\ UNCHANGED sink

-----------------------------------------------------------------------------
\* Mutation of Terminal: the envelope's kind decides, and a cancelled wait is one
\* more that timed out.
TerminalByEnvelope(w) ==
    IF wait[w].end = "cancelled" THEN "timed-out" ELSE sink[w]

\* takeTerminal: the sink decides what is owed.
Terminal(w) == sink[w]

\* The finally blocks: one take, the row in a transaction of its own, which may
\* fail; then the pin and the place are given back.
EndWait(w, stored) ==
    /\ At(w, "settle") /\ w \notin cut
    /\ sink' = [sink EXCEPT ![w] = "none"]
    /\ IF Terminal(w) = "none" THEN stored /\ UNCHANGED <<rows, lost>>
       ELSE IF stored THEN rows' = [rows EXCEPT ![w] = Append(@, Terminal(w))] /\ UNCHANGED lost
       ELSE lost' = lost \cup {w} /\ UNCHANGED rows
    /\ pinned' = pinned \ {w}
    /\ Vacate(w)
    /\ wait' = [wait EXCEPT ![w].at = "done", ![w].from = NoSession, ![w].saw = {}]
    /\ UNCHANGED <<vars, cut>>

\* invokeModuleWithinLimit: the timer fires while the handler is at work, its
\* signal is aborted and the call answered.  The same finally blocks run, and the
\* take finds the sink empty; the handler goes on.  (At "settle" the timer changes
\* the envelope and nothing else.)
LimitFires(w) ==
    /\ wait[w].at \in {"read", "judge", "asleep"} /\ wait[w].limit = 0 /\ w \notin cut
    /\ cut' = cut \cup {w}
    /\ sink' = [sink EXCEPT ![w] = "none"]
    /\ pinned' = pinned \ {w}
    /\ Vacate(w)
    /\ wait' = [wait EXCEPT ![w].aborted = TRUE]
    /\ UNCHANGED <<vars, rows, lost>>

\* What the handler of such a call answers nobody reads, and what it left in the
\* sink nobody takes.
Unheard(w) ==
    /\ At(w, "settle") /\ w \in cut
    /\ wait' = [wait EXCEPT ![w].at = "done", ![w].from = NoSession, ![w].saw = {}]
    /\ Quiet /\ UNCHANGED sink

-----------------------------------------------------------------------------
\* The other callers of the lock service do what Locks says.
OtherCall(c) ==
    /\ c \notin Waits
    /\ \/ AcquireAborted(c) \/ AcquireRefused(c) \/ Acquire(c)
       \/ Timeout(c) \/ Abort(c) \/ ReleaseLock(c) \/ ReleaseAgain(c)
    /\ UNCHANGED waitVars

WaitStep(w) ==
    \/ NotEnsured(w) \/ EnsureFails(w) \/ (\E asked \in Asked : Ensured(w, asked))
    \/ ReadFails(w) \/ (\E backoff \in Backoffs : RateLimited(w, backoff))
    \/ (\E saw \in Reads : ReadChecks(w, saw))
    \/ Judge(w) \/ Wake(w)
    \/ (\E stored \in BOOLEAN : EndWait(w, stored))
    \/ LimitFires(w) \/ Unheard(w)

MonitoringNext ==
    \/ \E c \in Calls : OtherCall(c)
    \/ \E w \in Waits, s \in Sessions : Admit(w, s)
    \/ \E w \in Waits : AskForLock(w) \/ WaitStep(w) \/ Cancel(w)
    \/ Tick

\* Every child of a wait answers or is killed at its cap, every timer fires, every
\* holder of a lock releases it, and time passes.
MonitoringFairness ==
    /\ \A w \in Waits : WF_allVars(WaitStep(w)) /\ WF_allVars(AskForLock(w))
    /\ \A c \in Calls \ Waits : WF_allVars(ReleaseLock(c) /\ OtherCall(c))
    /\ WF_allVars(Tick)

MonitoringSpec == MonitoringInit /\ [][MonitoringNext]_allVars /\ MonitoringFairness

-----------------------------------------------------------------------------
\* The counters that admit waits count exactly the waits under way, so no way out of
\* a wait (an ensure that fails, a lock not granted, a cancelled wait, one cut off
\* at its limit) costs the service a place for good, and none frees another's.
Inside == {w \in Waits \ cut : wait[w].at \notin {"new", "done"}}

PlacesCountWaits ==
    /\ inFlight = Cardinality(Inside)
    /\ \A s \in Sessions : perSession[s] = Cardinality({w \in Inside : wait[w].from = s})

\* A required check that failed is never passed over: no wait concludes or runs out
\* of time having read one, and the operator is told of one only when it was read.
EndIsTrue(w) ==
    /\ wait[w].end = "concluded" => wait[w].saw \cap {"red", "pending"} = {}
    /\ wait[w].end = "timed-out" => "red" \notin wait[w].saw
    /\ wait[w].end = "red" => "red" \in wait[w].saw

\* The operator is told once of each wait that ended red or ran out of time while
\* its call was under way, and of no other, the cancelled ones included, and what is
\* told is true of the last read; no such wait leaves an entry in the sink.  Of one
\* whose call was cut off at the pipeline's limit nobody is told, whatever its
\* handler finds later: a verdict costs no second row.
VerdictsToldOnce ==
    \A w \in Waits :
        /\ At(w, "settle") => EndIsTrue(w)
        /\ w \in cut => rows[w] = <<>>
        /\ At(w, "done") /\ w \notin cut =>
              /\ sink[w] = "none"
              /\ w \notin lost =>
                    rows[w] = IF wait[w].end \in Told THEN <<wait[w].end>> ELSE <<>>

\* What the pipeline says of its take: no entry of the sink outlives the operation
\* that wrote it.  The handler of a wait cut off at its limit refutes it.
NoEntryOutlives == \A w \in Waits : At(w, "done") => sink[w] = "none"

\* A wait that was admitted ends, and its handler with it, whatever the host answers
\* and however long its checks stay pending or its rate limit lasts.
WaitsEnd == \A w \in Waits : At(w, "ensuring") ~> At(w, "done")
=============================================================================
