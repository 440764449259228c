------------------------------- MODULE PowerLoss -------------------------------
(***************************************************************************)
(* Archiver with the two things that set a node back: the machine loses     *)
(* power, and the node's store is lost and the archive copied in its place. *)
(* The node does not fsync (hydrozoa-archiver/src/archive.rs:154), a        *)
(* secondary reads what the operating system holds (hydrozoa-store/tests/   *)
(* secondary_semantics.rs:247-286), and the archiver fsyncs: so a power     *)
(* loss can take from the node what the archive keeps.  An archive has the  *)
(* node's layout, so that a node can open a copy of it (archive.rs:3-6).    *)
(*                                                                          *)
(* The boot counter that becomes the generation of the stamps is held in    *)
(* the store and bumped at startup (hydrozoa-store/src/journal.rs:13-15):   *)
(* it is a row of a fixed family, and only a full pass copies it.           *)
(***************************************************************************)
EXTENDS ArchiverProps

(* The row the counter is in.                                               *)
ASSUME PowerLossAssumption == NumFixed > 0

VARIABLES
    disk,         \* the node's store as far as it has reached the disk
    viewBoot,     \* the boot counter as the secondary shows it
    archiveBoot,  \* the archive's copy of it
    agreed,       \* history: no power loss since the start or the last restore
    settled,      \* history: nothing was archived since the last full pass
    ordered       \* history: no power loss, and every restore was settled

counterVars == <<viewBoot, archiveBoot>>
historyVars == <<agreed, settled, ordered>>
powerVars   == <<vars, disk, counterVars, historyVars>>

Store == [node |-> node, next |-> next, snap |-> snap, boot |-> boot]

PowerInit ==
    /\ Init
    /\ disk = Store
    /\ viewBoot = 0 /\ archiveBoot = 0
    /\ agreed = TRUE /\ settled = FALSE /\ ordered = TRUE

(* The operating system writes the store back; the log is written in order, *)
(* so what is on disk is always a whole earlier state.                      *)
WriteBack ==
    /\ disk' = Store
    /\ UNCHANGED <<vars, counterVars, historyVars>>

(* Node and archiver go down; the node comes back with what is on disk,     *)
(* bumps the counter it finds there, and appends from there.                *)
LosePower ==
    /\ disk.boot < MaxBoots
    /\ boot' = disk.boot + 1
    /\ node' = disk.node /\ next' = disk.next /\ snap' = disk.snap
    /\ adopted' = NoMark /\ inflight' = {}
    /\ Die
    /\ viewBoot' = 0
    /\ agreed' = FALSE /\ ordered' = FALSE
    /\ UNCHANGED <<written, faults, disk, archiveBoot, settled>>

(* The archiver is stopped, whatever it is at, the node's store is replaced *)
(* by a copy of the archive, and the node boots on it.  It goes on behind   *)
(* all that the journals and the snapshots it finds tell of.  What it wrote *)
(* and the archive does not have is gone.                                   *)
EndOf(j) == 1 + Max({Tip(archive[j])} \cup {asnap[f][j] : f \in Fixed})

Restore ==
    /\ archiveBoot < MaxBoots
    /\ Die
    /\ viewBoot' = 0
    /\ boot' = archiveBoot + 1
    /\ node' = archive
    /\ next' = [j \in Journals |-> EndOf(j)]
    /\ snap' = asnap
    /\ written' = archive
    /\ adopted' = NoMark
    /\ disk' = Store'
    /\ agreed' = TRUE
    /\ ordered' = (ordered /\ settled)
    /\ UNCHANGED <<inflight, faults, archiveBoot, settled>>

(* A catch-up shows the counter too; a full pass copies it with the rows of *)
(* the last fixed family.                                                   *)
CatchUpStep ==
    /\ Start \/ \E f \in BOOLEAN : BeginPass(f)
    /\ viewBoot' = boot
    /\ UNCHANGED <<archiveBoot, settled>>

FixedStep ==
    /\ CopyFixed
    /\ archiveBoot' = IF cur = NumFixed THEN viewBoot ELSE archiveBoot
    /\ UNCHANGED <<viewBoot, settled>>

WriteStep ==
    /\ CommitBatch \/ FinishJournal
    /\ settled' = (settled /\ UNCHANGED archive)
    /\ UNCHANGED counterVars

ReportStep ==
    /\ ReportPass
    /\ settled' = (settled \/ full)
    /\ UNCHANGED counterVars

OtherStep ==
    /\ \/ HeadNext /\ UNCHANGED archiverVars
       \/ OpenJournal \/ OverflowPass \/ FailPass \/ Crash
    /\ UNCHANGED <<counterVars, settled>>

PowerNext ==
    \/ /\ CatchUpStep \/ FixedStep \/ WriteStep \/ ReportStep \/ OtherStep
       /\ UNCHANGED <<disk, agreed, ordered>>
    \/ WriteBack
    \/ LosePower
    \/ Restore

PowerSpec == PowerInit /\ [][PowerNext]_powerVars

-------------------------------------------------------------------------------
(* An entry once archived is never changed or removed, not even when the    *)
(* node writes another one at its index: a pass resumes above the archive's *)
(* tip and never goes back (pass.rs:98-99).                                 *)
ArchiveAppendOnly ==
    [][\A j \in Journals, i \in Index :
           archive[j][i] # 0 => archive'[j][i] = archive[j][i]]_powerVars

(* Archive and node agree wherever both hold an entry.                      *)
Agree ==
    \A j \in Journals, i \in Index :
        (archive[j][i] # 0 /\ node[j][i] # 0) => archive[j][i] = node[j][i]

(* A restore heals what a power loss did: a node that was put back on its   *)
(* archive, whichever pass that ended on, and the archive agree again, the  *)
(* archiver loses nothing the node writes from then on, reports that are    *)
(* still under way from the node's former life included, and the archived   *)
(* snapshots are again backed by the archived journals (archive.rs:3-6).    *)
RestoreHeals ==
    agreed => Agree /\ NoLoss /\ WatermarkCovered /\ SnapshotBacked

(* A node that is restored from what a full pass left boots under a new     *)
(* generation: as long as nothing else is restored, generations never fall  *)
(* along a journal's index, in the node and in the archive, and replay in   *)
(* the order of the stamps agrees with index order (journal.rs:13-17, 44).  *)
Rising(families) ==
    \A j \in Journals : \A i, k \in Held(families[j]) :
        i < k => families[j][i] <= families[j][k]

GenerationsRise == ordered => Rising(node) /\ Rising(archive)

(* secondary_semantics.rs:256-258: that the secondary sees what was not     *)
(* fsynced "decides only how promptly disk is freed, never whether the      *)
(* archive is sound": the archive holds what the node holds.                *)
ArchiveSound == Agree
===============================================================================
