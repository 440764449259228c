----------------------------- MODULE ArchiverProps -----------------------------
(***************************************************************************)
(* What the archiver promises, as properties of Archiver.                   *)
(***************************************************************************)
EXTENDS Archiver

Generation == 0 .. MaxBoots
Families   == [Journals -> [Index -> Generation]]
Snapshots  == [Fixed -> Reports]

(* Type invariant of the node and of the archiver.                          *)
TypeOK ==
    /\ node \in Families /\ written \in Families
    /\ next \in [Journals -> 0 .. MaxIndex + 1]
    /\ boot \in 1 .. MaxBoots
    /\ snap \in Snapshots
    /\ adopted \in Reports
    /\ inflight \subseteq Reports
    /\ archive \in Families /\ view \in Families
    /\ asnap \in Snapshots /\ viewSnap \in Snapshots
    /\ pc \in {"down", "idle", "journal", "scan", "fixed", "report", "exited"}
    /\ full \in BOOLEAN /\ lastFull \in BOOLEAN
    /\ cur \in Nat /\ (pc = "fixed" => cur \in Fixed)
    /\ pc # "fixed" => cur \in Journals
    /\ pos \in 0 .. MaxIndex + 1
    /\ highest \in Mark
    /\ watermarks \in Reports
    /\ gaps \subseteq Gap /\ warned \subseteq Gap /\ flagged \subseteq Gap
    /\ faults \in Nat

(* Entry i of journal j exists in the archive as the node last wrote it.    *)
Archived(j, i) == archive[j][i] = written[j][i]

(* No entry is ever lost: whatever the node wrote is in its store or in the *)
(* archive, through crashes of the archiver, restarts of the node, late,    *)
(* lost and reordered reports.  This is what the fsync in                   *)
(* archive.rs:157 and the order of commit and report in main.rs:73-89 are   *)
(* for.                                                                     *)
NoLoss ==
    \A j \in Journals, i \in Index :
        written[j][i] # 0 => node[j][i] = written[j][i] \/ Archived(j, i)

(* Everything at or below a watermark that the node acts on, or may yet     *)
(* receive, is durably archived - also for a report that was overtaken by   *)
(* later passes (watermark.rs:11-15).                                       *)
Covered(m) ==
    \A j \in Journals, i \in Index :
        (i <= m[j] /\ written[j][i] # 0) => Archived(j, i)

WatermarkCovered == Covered(adopted) /\ \A m \in inflight : Covered(m)

(* The archive's tip is a sound resume point whatever pass last crashed:    *)
(* below an archived entry nothing the node ever wrote is missing           *)
(* (archive.rs:118-122).                                                    *)
ArchivedInOrder ==
    \A j \in Journals, i, k \in Index :
        (archive[j][k] # 0 /\ i < k /\ written[j][i] # 0) => Archived(j, i)

(* A node that deletes only below the watermark never makes a gap: no pass  *)
(* can mistake retention at work for loss (pass.rs:109-121).                *)
NoGaps == warned = {}

(* The archived fixed families never describe a journal entry the archive   *)
(* lacks: whatever pass or crash it ends on, the archive's snapshots are    *)
(* backed by its journals (pass.rs:61-64).                                  *)
SnapshotBacked ==
    \A f \in Fixed, j \in Journals, i \in Index :
        (i <= asnap[f][j] /\ written[j][i] # 0) => Archived(j, i)

(* When a pass is about to be reported as complete, everything its one      *)
(* catch-up showed is archived; of a row it did not show, the archive may   *)
(* still hold the copy of an earlier pass (pass.rs:65-83, 159-185).         *)
Copied(f, rows) == rows[f] # NoMark => asnap[f] = rows[f]

PassComplete ==
    pc = "report" =>
        /\ \A j \in Journals, i \in Index :
               view[j][i] # 0 => archive[j][i] = view[j][i]
        /\ full => \A f \in Fixed : Copied(f, viewSnap)

-------------------------------------------------------------------------------
(* Against a node that deletes as it pleases.                               *)

(* Every hole in the archive lies in a gap that was logged when the pass    *)
(* went over it (pass.rs:30-33).                                            *)
Hole(j, i) ==
    /\ written[j][i] # 0 /\ archive[j][i] = 0
    /\ \E k \in Held(archive[j]) : k < i
    /\ \E k \in Held(archive[j]) : k > i

InGap(j, i, G) ==
    \E g \in G : g.cf = j /\ g.expected_from <= i /\ i < g.node_floor

HolesWarned == \A j \in Journals, i \in Index : Hole(j, i) => InGap(j, i, warned)

(* A gap never names an entry that is still to be had: its range is in      *)
(* neither store, then and ever after (pass.rs:32-33).                      *)
GapsAreReal ==
    \A g \in warned : \A i \in g.expected_from .. g.node_floor - 1 :
        node[g.cf][i] = 0 /\ archive[g.cf][i] = 0

(* README.md:85-88 of the archiver: a gap "is logged at error rather than   *)
(* passed over": an archive with a hole has, sooner or later, said so.      *)
HolesFlagged ==
    \A j \in Journals, i \in Index : Hole(j, i) ~> InGap(j, i, flagged)

(* What the node keeps is archived in the end, although each run of --once  *)
(* makes one attempt, exits with success whatever came of it, and leaves    *)
(* what it has not done to the next (main.rs:91-100).                       *)
KeptIsArchived ==
    \A j \in Journals, i \in Index :
        node[j][i] # 0 ~> (Archived(j, i) \/ node[j][i] = 0)

-------------------------------------------------------------------------------
(* Under FairSpec, once failures and crashes cease.                         *)

(* Every entry written while the archiver is deployed reaches the archive:  *)
(* a failed pass or a crash only delays it (main.rs:91-95).                 *)
EverythingArchived ==
    \A j \in Journals, i \in Index : written[j][i] # 0 ~> Archived(j, i)

(* The node ends up allowed to delete all it wrote, whatever reports were   *)
(* lost, overtaken or forgotten by a restart: each pass reports every       *)
(* journal again (pass.rs:148-150, main.rs:105-106).                        *)
SpaceReclaimable ==
    <>[](\A j \in Journals :
            Held(written[j]) # {} => adopted[j] = next[j] - 1)

(* The archived rows catch up with the node's: a row that the node comes to *)
(* keep is in the end archived as it is (main.rs:70-71).                    *)
SnapshotsConverge ==
    \A f \in Fixed : <>[](snap[f] # NoMark) => <>[](asnap[f] = snap[f])

-------------------------------------------------------------------------------
(* Archive and node together implement a store with retention: the archived *)
(* prefix and the discarded prefix of each journal.                         *)
Kept(j)    == Floor(node[j])
Missing(j) == {i \in Index : written[j][i] # 0 /\ ~Archived(j, i)}

Saved     == [j \in Journals |->
                 IF Missing(j) = {} THEN next[j] ELSE Min(Missing(j))]
Discarded == [j \in Journals |-> IF Kept(j) = None THEN next[j] ELSE Kept(j)]

Retained == INSTANCE Retention
    WITH Lanes <- Journals, written <- next, saved <- Saved, discarded <- Discarded

(* The node only ever discards what was saved (Retention).                  *)
RetentionSpec == Retained!Spec
===============================================================================
