----------------------------- MODULE AuditTrail -----------------------------
(***************************************************************************)
(* The audit trail (src/src/audit/audit.ts): numbered segment files of     *)
(* records, each chained to the one before it by its hash; the anchors of  *)
(* the segments retention deleted and the mirror of the head, both rows of *)
(* the store; and the head the process holds in memory.                    *)
(*                                                                         *)
(* A record's hash is its identity here: two records never share one.      *)
(* Appends wait for each other, so at most one is in flight.               *)
(***************************************************************************)
EXTENDS Integers, FiniteSets, SequencesExt

CONSTANTS SegmentLines,   \* the lines a segment file has room for
          MaxRecords,     \* bound on the records ever written
          NoName          \* nothing; no holder named

ASSUME AuditTrailAssumption == SegmentLines \in Nat \ {0} /\ MaxRecords \in Nat \ {0}

VARIABLES segments,   \* the segment files: their lines, by number
          ragged,     \* the segments whose last line has no end
          anchors,    \* the end of every segment retention deleted
          mirror,     \* the head as the store has it
          tail,       \* what the process remembers of the end of the trail
          writing,    \* the record whose append is not answered yet
          acked,      \* the records whose append was answered with success
          issued      \* how many records were made

trail == <<segments, ragged, anchors, mirror, tail, writing, acked, issued>>

Numbers == 1..MaxRecords
\* A line holds a record, with the lease holder it names, or cannot be read.
Unreadable == [seq |-> 0, id |-> 0, prev |-> 0, names |-> NoName]
Lines(named) == [seq : Numbers, id : Numbers, prev : 0..MaxRecords, names : named]
Heads == [seq : 0..MaxRecords, id : 0..MaxRecords]
Genesis == [seq |-> 0, id |-> 0]

\* The process has not looked at the files yet.
Unknown == [known |-> FALSE, head |-> Genesis, segment |-> 1, size |-> 0]

TrailTypeOK(named) ==
    /\ DOMAIN segments \subseteq Numbers
    /\ \A s \in DOMAIN segments : segments[s] \in Seq(Lines(named) \cup {Unreadable})
    /\ ragged \subseteq DOMAIN segments
    /\ DOMAIN anchors \subseteq Numbers /\ \A s \in DOMAIN anchors : anchors[s] \in Heads
    /\ mirror \in Heads \cup {NoName}
    /\ tail \in [known : BOOLEAN, head : Heads, segment : Numbers, size : 0..MaxRecords]
    /\ writing = NoName \/ writing \in Lines(named)
    /\ acked \subseteq [id : Numbers, segment : Numbers]
    /\ issued \in 0..MaxRecords

TrailInit ==
    /\ segments = << >> /\ ragged = {} /\ anchors = << >> /\ mirror = NoName
    /\ tail = Unknown /\ writing = NoName /\ acked = {} /\ issued = 0

-----------------------------------------------------------------------------
Readable(line) == line.seq # 0
End(line) == [seq |-> line.seq, id |-> line.id]
Newest(numbers) == CHOOSE n \in numbers : \A m \in numbers : m <= n
Oldest(numbers) == CHOOSE n \in numbers : \A m \in numbers : n <= m

\* Which lines of a segment can be read (streamSegmentLines).
Legible(s) == {k \in DOMAIN segments[s] : Readable(segments[s][k])}
AllLegible(s) == Legible(s) = DOMAIN segments[s]

\* Mutation of DerivedHead: the store's row is the head whenever it is there.
MirroredHead == IF mirror # NoName THEN mirror ELSE Genesis

\* deriveHeadFromFiles: the last record that can be read, in the last segment
\* that has one.
DerivedHead ==
    LET holding == {s \in DOMAIN segments : Legible(s) # {}}
        last    == Newest(holding)
    IN  IF holding = {} THEN Genesis ELSE End(segments[last][Newest(Legible(last))])

\* ensureInitialized: the files decide, once per process.
Hydrated ==
    IF tail.known
    THEN tail
    ELSE LET last == IF DOMAIN segments = {} THEN 1 ELSE Newest(DOMAIN segments)
         IN  [known   |-> TRUE,
              head    |-> DerivedHead,
              segment |-> last,
              size    |-> IF last \in DOMAIN segments THEN Len(segments[last]) ELSE 0]

\* What line k of segment s continues; the trail starts from `start'.
LineBefore(s, k, start) ==
    LET earlier == {t \in DOMAIN segments : t < s}
    IN  IF k > 1 THEN segments[s][k - 1]
        ELSE IF earlier = {} THEN start ELSE Last(segments[Newest(earlier)])

\* verifyFromDisk, given the anchors and the mirror the store let it read: the
\* lines must continue each other from the anchor before the first segment on,
\* and reach as far as the mirror.
Broken(readAnchors, readMirror) ==
    LET files  == DOMAIN segments
        before == IF files = {} THEN 0 ELSE Oldest(files) - 1
        start  == IF before \in DOMAIN readAnchors THEN readAnchors[before] ELSE Genesis
        end    == IF files = {} THEN start ELSE Last(segments[Newest(files)])
        Continues(line, from) == line.prev = from.id /\ line.seq = from.seq + 1
    IN  \/ \E s \in files : \E k \in DOMAIN segments[s] :
              \/ ~ Readable(segments[s][k])
              \/ ~ Continues(segments[s][k], LineBefore(s, k, start))
        \/ readMirror # NoName /\ readMirror.seq > end.seq

\* readMirroredHead, readRetainedAnchors: of a store that cannot be read, nothing.
ReadMirror(readable) == IF readable THEN mirror ELSE NoName
ReadAnchors(readable) == IF readable THEN anchors ELSE << >>

\* safeChainState: what the health view is told.
ChainBroken(readable) == Broken(ReadAnchors(readable), ReadMirror(readable))

\* query: one line that cannot be read fails the whole of it.
Queried ==
    IF \A s \in DOMAIN segments : AllLegible(s)
    THEN UNION {{segments[s][k].id : k \in DOMAIN segments[s]} : s \in DOMAIN segments}
    ELSE {}

-----------------------------------------------------------------------------
\* The segment's lines after a line was added; after a fragment, it and the
\* new line are one line that nobody can read.
Extended(s, line) ==
    IF s \notin DOMAIN segments
    THEN <<line>>
    ELSE IF s \in ragged
         THEN Append(Front(segments[s]), Unreadable)
         ELSE Append(segments[s], line)

Rolled(t) == IF t.size > 0 /\ t.size + 1 > SegmentLines
             THEN [t EXCEPT !.segment = @ + 1, !.size = 0]
             ELSE t

WithLine(s, line) == [n \in DOMAIN segments \cup {s} |->
                          IF n = s THEN Extended(s, line) ELSE segments[n]]

NextRecord(t, names) ==
    [seq |-> t.head.seq + 1, id |-> issued + 1, prev |-> t.head.id, names |-> names]

\* doAppend up to the end of appendFile: the record is in the file, and the
\* caller does not know yet.
WriteRecord(names) ==
    LET t == Rolled(Hydrated)
        record == NextRecord(t, names)
    IN  /\ writing = NoName
        /\ issued < MaxRecords
        /\ issued' = issued + 1
        /\ tail' = [t EXCEPT !.size = @ + 1]
        /\ segments' = WithLine(t.segment, record)
        /\ ragged' = ragged \ {t.segment}
        /\ writing' = record
        /\ UNCHANGED <<anchors, mirror, acked>>

\* appendFile failed: nothing was written, or the beginning of the line.
WriteFails(partial) ==
    LET t == Rolled(Hydrated)
        torn == partial /\ t.segment \notin ragged
    IN  /\ writing = NoName
        /\ tail' = t
        /\ segments' = IF torn THEN WithLine(t.segment, Unreadable) ELSE segments
        /\ ragged' = IF torn THEN ragged \cup {t.segment} ELSE ragged
        /\ UNCHANGED <<anchors, mirror, writing, acked, issued>>

\* The rest of doAppend: the mirror, whose failure is swallowed, the head, and
\* the answer.
AnswerAppend(mirrored) ==
    /\ writing # NoName
    /\ mirror' = IF mirrored THEN End(writing) ELSE mirror
    /\ tail' = [tail EXCEPT !.head = End(writing)]
    /\ acked' = acked \cup {[id |-> writing.id, segment |-> tail.segment]}
    /\ writing' = NoName
    /\ UNCHANGED <<segments, ragged, anchors, issued>>

\* Mutation of Closed: the segment being written is pruned like any other.
ClosedOrNot == DOMAIN segments

\* The segments that take no more records.
Closed == IF DOMAIN segments = {} THEN {} ELSE DOMAIN segments \ {Newest(DOMAIN segments)}

\* runRetention: every closed segment last written before the cutoff is read,
\* anchored and deleted, each on its own; `kept' are those that could not be
\* deleted.
PruneTrail(old, kept) ==
    LET sound == {s \in Closed : s <= old /\ AllLegible(s)}
        gone  == sound \ kept
    IN  /\ kept \subseteq sound
        /\ anchors' = [s \in DOMAIN anchors \cup sound |->
                          IF s \in DOMAIN anchors THEN anchors[s] ELSE End(Last(segments[s]))]
        /\ segments' = [s \in DOMAIN segments \ gone |-> segments[s]]
        /\ ragged' = ragged \ gone
        /\ tail' = Hydrated
        /\ UNCHANGED <<mirror, writing, acked, issued>>

\* What a process that ends leaves: the files and the rows.
ForgetTail ==
    /\ tail' = Unknown
    /\ writing' = NoName
    /\ UNCHANGED <<segments, ragged, anchors, mirror, acked, issued>>

\* It died while it wrote the beginning of a line.
TornByDeath ==
    LET t == Rolled(Hydrated)
    IN  /\ writing = NoName
        /\ t.segment \notin ragged
        /\ segments' = WithLine(t.segment, Unreadable)
        /\ ragged' = ragged \cup {t.segment}
        /\ tail' = Unknown
        /\ UNCHANGED <<anchors, mirror, writing, acked, issued>>

-----------------------------------------------------------------------------
(***************************************************************************)
(* A record whose append was answered is in what a query returns until     *)
(* retention anchors and deletes its segment: no later append, failure,    *)
(* restart or retention loses it, or makes any line of the trail one that  *)
(* fails every query (audit.ts, doAppend, query and runRetention).         *)
(***************************************************************************)
AckedStaysReadable ==
    \A a \in acked :
        IF a.segment \in DOMAIN segments THEN a.id \in Queried ELSE a.segment \in DOMAIN anchors

(***************************************************************************)
(* Nobody tampers with the files here, so verification of what is on disk  *)
(* never reports a break: not after a lost mirror write, a crash between   *)
(* the record and its answer, a pruned segment or a restart; nor, as long  *)
(* as nothing was pruned, while the store cannot be read (verifyFromDisk,  *)
(* ensureInitialized, safeChainState).                                     *)
(***************************************************************************)
NoFalseBreak ==
    /\ ~ ChainBroken(TRUE)
    /\ DOMAIN anchors = {} => ~ ChainBroken(FALSE)
=============================================================================
