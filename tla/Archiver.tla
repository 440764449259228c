------------------------------- MODULE Archiver -------------------------------
(***************************************************************************)
(* hydrozoa-archiver beside a running node: the loop of main.rs, the pass   *)
(* of pass.rs, the writes of archive.rs and the reads of HeadStore.  One    *)
(* step of the model is one effect another process or a crash can fall      *)
(* between: a catch-up, a committed batch, a posted report.                 *)
(***************************************************************************)
EXTENDS HeadNode

CONSTANTS
    Batch,      \* entries per committed batch (BATCH)
    Once,       \* TRUE: run with --once
    NodeUrl,    \* TRUE: a node_url is configured
    MaxFaults   \* bound: failed passes and crashes together

ASSUME ArchiverAssumption ==
    /\ Batch \in Nat \ {0}
    /\ Once \in BOOLEAN
    /\ NodeUrl \in BOOLEAN
    /\ MaxFaults \in Nat

VARIABLES
    archive,     \* archive[j]: the archive's copy of journal j, fsynced
    asnap,       \* asnap[f]: the archive's copy of row f
    view,        \* what the secondary shows of the journals
    viewSnap,    \* and of the fixed families
    pc,          \* where the archiver is
    full,        \* the running pass copies the fixed families too
    lastFull,    \* last_full is set: a full pass succeeded in this process
    cur,         \* the family the pass is at
    pos,         \* the index the scan of journal cur yields from
    highest,     \* the watermark of journal cur so far
    watermarks,  \* PassReport::watermarks
    gaps,        \* PassReport::gaps
    warned,      \* history: the gaps logged as warnings
    flagged,     \* history: the gaps logged as errors
    faults       \* passes failed and crashes so far

passVars     == <<full, cur, pos, highest, watermarks, gaps>>
viewVars     == <<view, viewSnap>>
archiverVars == <<archive, asnap, viewVars, pc, passVars, lastFull, warned,
                  flagged, faults>>
vars         == <<headVars, archiverVars>>

Gap == [cf : Journals, expected_from : Index, node_floor : Index]

ArchiverInit ==
    /\ archive = Empty
    /\ asnap = [f \in Fixed |-> NoMark]
    /\ view = Empty
    /\ viewSnap = asnap
    /\ pc = "down"
    /\ full = FALSE /\ lastFull = FALSE
    /\ cur = 1 /\ pos = 0 /\ highest = None
    /\ watermarks = NoMark
    /\ gaps = {} /\ warned = {} /\ flagged = {}
    /\ faults = 0

Init == HeadInit /\ ArchiverInit

CatchUp == view' = node /\ viewSnap' = snap

(* The pass's locals, once it is over.                                      *)
ForgetPass ==
    /\ full' = FALSE
    /\ cur' = 1 /\ pos' = 0 /\ highest' = None
    /\ watermarks' = NoMark
    /\ gaps' = {}

(* The process starts, opens both stores, and enters the loop.  Under       *)
(* --once an operator or a timer may run it again after it exits.           *)
Start ==
    /\ pc \in {"down", "exited"}
    /\ pc' = "idle"
    /\ lastFull' = FALSE
    /\ CatchUp
    /\ UNCHANGED <<headVars, archive, asnap, passVars, warned, flagged, faults>>

(* A pass must be full at the first turn and under --once; otherwise it is  *)
(* full when the full interval has gone by, at any turn.                    *)
DueOnce(f) == f = ~lastFull    \* slip: the interval is never looked at
Due(f)     == (Once \/ ~lastFull) => f

(* A pass begins, and catches up, once.                                     *)
BeginPass(f) ==
    /\ pc = "idle"
    /\ Due(f)
    /\ full' = f
    /\ CatchUp
    /\ pc' = "journal"
    /\ UNCHANGED <<headVars, archive, asnap, lastFull, cur, pos, highest,
                   watermarks, gaps, warned, flagged, faults>>

(* Where a journal's copy resumes: slips, and what the code does.           *)
ResumeAtTip(tip, floor)   == IF tip # None THEN tip ELSE IF floor # None THEN floor ELSE 0
ResumePastTip(tip, floor) == IF tip # None THEN tip + 2 ELSE IF floor # None THEN floor ELSE 0
ResumeFromOne(tip, floor) == (IF tip # None THEN tip ELSE 0) + 1
Resume(tip, floor) ==
    IF tip # None THEN tip + 1
    ELSE IF floor # None THEN floor
    ELSE 0

(* The gap between the archive's tip and what the node still holds, if any. *)
GapAtSecond(j, tip, floor) ==    \* slip: misses a gap of one entry
    LET from == Resume(tip, floor)
    IN  IF tip # None /\ floor > from + 1
        THEN {[cf |-> j, expected_from |-> from, node_floor |-> floor]}
        ELSE {}

GapAt(j, tip, floor) ==
    LET from == Resume(tip, floor)
    IN  IF tip # None /\ floor # None /\ floor > from
        THEN {[cf |-> j, expected_from |-> from, node_floor |-> floor]}
        ELSE {}

ArchiveTip == Tip(archive[cur])
ViewFloor  == Floor(view[cur])

(* copy_journal up to its scan: find the resume point, warn of a gap.       *)
OpenJournal ==
    LET from == Resume(ArchiveTip, ViewFloor)
        gap  == GapAt(cur, ArchiveTip, ViewFloor)
    IN  /\ pc = "journal"
        /\ Encodable(cur, from)
        /\ gaps' = gaps \cup gap
        /\ warned' = warned \cup gap
        /\ highest' = ArchiveTip
        /\ pos' = from
        /\ pc' = "scan"
        /\ UNCHANGED <<headVars, archive, asnap, viewVars, full, lastFull, cur,
                       watermarks, flagged, faults>>

(* What the scan has yet to yield.                                          *)
Left == From(view[cur], pos)

(* A full batch is written and fsynced, and the scan goes on behind it.     *)
CommitBatch ==
    /\ pc = "scan"
    /\ \E m \in Left :
          LET batch == {k \in Left : k <= m}
          IN  /\ Cardinality(batch) = Batch
              /\ archive' = [archive EXCEPT ![cur] = Put(@, view[cur], batch)]
              /\ highest' = m
              /\ pos' = m + 1
    /\ UNCHANGED <<headVars, asnap, viewVars, pc, full, lastFull, cur,
                   watermarks, gaps, warned, flagged, faults>>

(* The family after cur: the next journal, then the fixed families of a     *)
(* full pass, then the report.                                              *)
AdvanceToReport ==    \* slip: the fixed families are left out
    IF cur < NumJournals THEN pc' = "journal" /\ cur' = cur + 1
                         ELSE pc' = "report" /\ cur' = 1

Advance ==
    \/ /\ cur < NumJournals
       /\ pc' = "journal" /\ cur' = cur + 1
    \/ /\ cur = NumJournals
       /\ full /\ NumFixed > 0
       /\ pc' = "fixed" /\ cur' = 1
    \/ /\ cur = NumJournals
       /\ ~(full /\ NumFixed > 0)
       /\ pc' = "report" /\ cur' = 1

MarkLive(before, rest)     == Tip(node[cur])    \* slip: the node's tip of now
MarkNext(before, rest)     == IF rest = {} THEN before ELSE Max(rest) + 1
MarkIfCopied(before, rest) == IF rest = {} THEN None ELSE Max(rest)

(* The last index copied, or what the archive held already: a journal with  *)
(* nothing new is reported all the same.                                    *)
JournalMark(before, rest) == IF rest = {} THEN before ELSE Max(rest)

(* The scan ends short of a batch: the remainder is written, and the report *)
(* takes the highest index the archive now holds.                           *)
FinishJournal ==
    /\ pc = "scan"
    /\ Cardinality(Left) < Batch
    /\ archive' = [archive EXCEPT ![cur] = Put(@, view[cur], Left)]
    /\ watermarks' = [watermarks EXCEPT ![cur] = JournalMark(highest, Left)]
    /\ highest' = None /\ pos' = 0
    /\ Advance
    /\ UNCHANGED <<headVars, asnap, viewVars, full, lastFull, gaps, warned,
                   flagged, faults>>

(* What the scan of a fixed family yields.                                  *)
LiveRow(f)  == snap[f]    \* slip: catches up again before each family
FixedRow(f) == viewSnap[f]

(* copy_family: one committed row of a fixed family.  Rows are only ever    *)
(* put: one that the node has deleted stays in the archive.                 *)
CopyFixed ==
    /\ pc = "fixed"
    /\ asnap' = [asnap EXCEPT ![cur] = IF FixedRow(cur) # NoMark THEN FixedRow(cur) ELSE @]
    /\ \/ cur < NumFixed /\ cur' = cur + 1 /\ pc' = "fixed"
       \/ cur = NumFixed /\ cur' = 1 /\ pc' = "report"
    /\ UNCHANGED <<headVars, archive, viewVars, full, lastFull, pos, highest,
                   watermarks, gaps, warned, flagged, faults>>

(* A posted report is out of the archiver's hands, whether or not the       *)
(* client waits for the answer, whatever that says.                         *)
Post(m) ==
    IF Cardinality(inflight \cup {m}) <= MaxInflight
    THEN inflight' = inflight \cup {m}
    ELSE UNCHANGED inflight

(* Nothing is posted without a node, and no empty report.                   *)
SendWatermark ==
    IF NodeUrl /\ watermarks # NoMark THEN Post(watermarks) ELSE UNCHANGED inflight

(* The loop sleeps, or under --once the process returns.                    *)
EndTurn == pc' = IF Once THEN "exited" ELSE "idle"

(* The pass succeeded: its gaps are logged as errors, its watermarks sent.  *)
ReportPass ==
    /\ pc = "report"
    /\ lastFull' = (lastFull \/ full)
    /\ flagged' = flagged \cup gaps
    /\ SendWatermark
    /\ ForgetPass
    /\ EndTurn
    /\ UNCHANGED <<node, next, boot, snap, adopted, written, archive, asnap,
                   viewVars, warned, faults>>

(* The pass fails: its report is dropped and the loop goes on.              *)
AbandonPass ==
    /\ ForgetPass
    /\ EndTurn
    /\ UNCHANGED <<headVars, archive, asnap, viewVars, lastFull, warned, flagged>>

(* A catch-up, a read or a write returns an error.                          *)
FailPass ==
    /\ pc \in {"idle", "journal", "scan", "fixed"}
    /\ faults < MaxFaults
    /\ faults' = faults + 1
    /\ AbandonPass

(* The resume point is one past what the key width can hold.                *)
OverflowPass ==
    /\ pc = "journal"
    /\ ~Encodable(cur, Resume(ArchiveTip, ViewFloor))
    /\ AbandonPass
    /\ UNCHANGED faults

(* The process is gone, and its report and its view with it; what it        *)
(* committed was fsynced.                                                   *)
Die ==
    /\ pc' = "down"
    /\ lastFull' = FALSE
    /\ view' = Empty /\ viewSnap' = [f \in Fixed |-> NoMark]
    /\ ForgetPass
    /\ UNCHANGED <<archive, asnap, warned, flagged>>

Crash ==
    /\ pc \notin {"down", "exited"}
    /\ faults < MaxFaults
    /\ faults' = faults + 1
    /\ Die
    /\ UNCHANGED headVars

ArchiverStep ==
    \/ \E f \in BOOLEAN : BeginPass(f)
    \/ OpenJournal
    \/ CommitBatch
    \/ FinishJournal
    \/ CopyFixed
    \/ ReportPass
    \/ OverflowPass

ArchiverNext == Start \/ ArchiverStep \/ FailPass \/ Crash

Next == \/ HeadNext /\ UNCHANGED archiverVars
        \/ ArchiverNext

(* A node that deletes only what a watermark allows.                        *)
Spec == Init /\ [][Next]_vars

(* The archiver keeps taking steps and is started again when it is down; it *)
(* is never held up by the node.  Time passes, so the full interval keeps   *)
(* elapsing.  A report posted again and again gets through.                 *)
Fairness ==
    /\ WF_vars(Start)
    /\ WF_vars(ArchiverStep)
    /\ SF_vars(BeginPass(TRUE))
    /\ SF_vars((\E m \in inflight : Adopt(m)) /\ UNCHANGED archiverVars)

FairSpec == Spec /\ Fairness

RogueNext == Next \/ \E j \in Journals : RogueTrim(j) /\ UNCHANGED archiverVars

(* A node that deletes as it pleases.                                       *)
RogueSpec == Init /\ [][RogueNext]_vars

FairRogueSpec == RogueSpec /\ Fairness
===============================================================================
