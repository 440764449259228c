------------------------------ MODULE PowerProofs ------------------------------
(***************************************************************************)
(* Proofs about PowerLoss: what holds of an archive whatever becomes of the *)
(* node, and what a restore brings back.                                    *)
(***************************************************************************)
EXTENDS PowerLoss, PassProofs

USE JournalsAssumption, HeadNodeAssumption, ArchiverAssumption, PowerLossAssumption

(* The steps of node and archiver are as they were.                         *)
LEMMA OrdinaryStep ==
    ASSUME CatchUpStep \/ FixedStep \/ WriteStep \/ ReportStep \/ OtherStep
    PROVE  Next
<1> QED
  BY DEF CatchUpStep, FixedStep, WriteStep, ReportStep, OtherStep, Next, ArchiverNext,
         ArchiverStep

-------------------------------------------------------------------------------
(* Type correctness.                                                        *)

PowerTypeOK ==
    /\ TypeOK
    /\ disk \in [node : Families, next : [Journals -> 0 .. MaxIndex + 1],
                 snap : Snapshots, boot : 1 .. MaxBoots]
    /\ viewBoot \in Generation /\ archiveBoot \in Generation

(* Max is the greatest of a nonempty set of marks, too.                     *)
LEMMA MaxOfMarks ==
    ASSUME NEW S \in SUBSET Mark, S # {}
    PROVE  Max(S) \in S /\ \A x \in S : Max(S) >= x
<1> DEFINE T == {MaxIndex - x : x \in S}
<1>1. T \in SUBSET Nat /\ T # {}
  <2>1. \A x \in S : MaxIndex - x \in Nat
    BY DEF Mark, Index, None, JournalsAssumption
  <2>2. \A t \in T : t \in Nat
    BY <2>1
  <2> QED BY <2>2
<1>2. PICK t \in T : \A u \in T : t <= u
  BY <1>1, LeastNatural
<1>3. PICK x \in S : t = MaxIndex - x
  OBVIOUS
<1>4. \A y \in S : x >= y
  <2> TAKE y \in S
  <2>1. MaxIndex - x <= MaxIndex - y
    BY <1>2, <1>3
  <2> QED BY <2>1 DEF Mark, None, Index, JournalsAssumption
<1> QED BY <1>4 DEF Max

(* The end of an archive's journal is behind all that the archive tells of. *)
LEMMA EndBehindAll ==
    ASSUME TypeOK, NEW j \in Journals
    PROVE  /\ EndOf(j) \in 0 .. MaxIndex + 1
           /\ \A i \in Index : archive[j][i] # 0 => i < EndOf(j)
           /\ \A f \in Fixed : asnap[f][j] < EndOf(j)
<1> DEFINE S == {Tip(archive[j])} \cup {asnap[f][j] : f \in Fixed}
<1>1. S \in SUBSET Mark /\ S # {}
  BY TipOfFamily DEF TypeOK, Snapshots, Reports
<1>2. Max(S) \in S /\ \A x \in S : Max(S) >= x
  BY <1>1, MaxOfMarks
<1>3. \A x \in Mark : x \in Int /\ -1 <= x /\ x <= MaxIndex
  BY DEF Mark, None, Index, JournalsAssumption
<1>4. EndOf(j) = 1 + Max(S)
  BY DEF EndOf
<1>5. \A i \in Index : archive[j][i] # 0 => Tip(archive[j]) \in Index /\ i <= Tip(archive[j])
  BY TipOfFamily
<1>6. Tip(archive[j]) \in S /\ \A f \in Fixed : asnap[f][j] \in S
  OBVIOUS
<1>7. \A x \in S : x < EndOf(j)
  <2> HIDE DEF S
  <2> QED BY <1>1, <1>2, <1>3, <1>4
<1>8. EndOf(j) \in 0 .. MaxIndex + 1
  <2> HIDE DEF S
  <2> QED BY <1>1, <1>2, <1>3, <1>4
<1>9. \A i \in Index : archive[j][i] # 0 => i < EndOf(j)
  <2> HIDE DEF S
  <2> QED BY <1>5, <1>6, <1>7, <1>8 DEF Index
<1> QED BY <1>6, <1>7, <1>8, <1>9

(* What a process leaves that is gone is well typed.                        *)
LEMMA DieType ==
    ASSUME TypeOK, Die
    PROVE  /\ archive' \in Families /\ view' \in Families
           /\ asnap' \in Snapshots /\ viewSnap' \in Snapshots
           /\ pc' \in {"down", "idle", "journal", "scan", "fixed", "report", "exited"}
           /\ full' \in BOOLEAN /\ lastFull' \in BOOLEAN
           /\ cur' \in Nat /\ (pc' = "fixed" => cur' \in Fixed)
           /\ pc' # "fixed" => cur' \in Journals
           /\ pos' \in 0 .. MaxIndex + 1
           /\ highest' \in Mark
           /\ watermarks' \in Reports
           /\ gaps' \subseteq Gap /\ warned' \subseteq Gap /\ flagged' \subseteq Gap
<1>1. NoMark \in Reports /\ Empty \in Families
  BY DEF NoMark, Reports, Mark, Empty, Families, Generation, HeadNodeAssumption
<1>2. view' \in Families /\ viewSnap' \in Snapshots /\ lastFull' \in BOOLEAN
  BY <1>1 DEF Die, Snapshots
<1>3. pc' = "down" /\ ForgetPass
  BY DEF Die
<1> QED BY <1>2, <1>3, ForgetType DEF Die, TypeOK

(* Node, archiver, disk and counters keep their types through power losses  *)
(* and restores: the restored node begins within the range of its indices.  *)
THEOREM PowerTypeCorrect == PowerSpec => []PowerTypeOK
<1> USE DEF headVars, archiverVars, passVars, viewVars, counterVars, historyVars
<1>1. PowerInit => PowerTypeOK
  <2> SUFFICES ASSUME PowerInit PROVE PowerTypeOK
    OBVIOUS
  <2>1. TypeOK
    BY InitType DEF PowerInit
  <2>2. disk = Store /\ viewBoot = 0 /\ archiveBoot = 0
    BY DEF PowerInit
  <2> QED BY <2>1, <2>2 DEF PowerTypeOK, TypeOK, Store, Generation, HeadNodeAssumption
<1>2. ASSUME PowerTypeOK, [PowerNext]_powerVars PROVE PowerTypeOK'
  <2>0. TypeOK /\ boot \in Generation /\ 0 \in Generation
    BY <1>2 DEF PowerTypeOK, TypeOK, Generation, HeadNodeAssumption
  <2>1. CASE UNCHANGED powerVars
    BY <1>2, <2>1 DEF powerVars, vars, PowerTypeOK, TypeOK
  <2>2. ASSUME CatchUpStep \/ FixedStep \/ WriteStep \/ ReportStep \/ OtherStep,
               UNCHANGED disk
        PROVE  PowerTypeOK'
    <3>1. TypeOK'
      BY <2>0, <2>2, OrdinaryStep, HeadType, ArchiverType DEF Next
    <3>2. viewBoot' \in {viewBoot, boot} /\ archiveBoot' \in {archiveBoot, viewBoot}
      BY <2>2 DEF CatchUpStep, FixedStep, WriteStep, ReportStep, OtherStep
    <3> QED BY <1>2, <2>0, <2>2, <3>1, <3>2 DEF PowerTypeOK
  <2>3. CASE WriteBack
    <3>1. TypeOK'
      BY <2>0, <2>3 DEF WriteBack, vars, TypeOK
    <3>2. Store \in [node : Families, next : [Journals -> 0 .. MaxIndex + 1],
                     snap : Snapshots, boot : 1 .. MaxBoots]
      BY <2>0 DEF Store, TypeOK
    <3> QED BY <1>2, <2>3, <3>1, <3>2 DEF PowerTypeOK, WriteBack
  <2>4. CASE LosePower
    <3>1. /\ node' \in Families /\ next' \in [Journals -> 0 .. MaxIndex + 1]
          /\ snap' \in Snapshots /\ boot' \in 1 .. MaxBoots
      BY <1>2, <2>4 DEF LosePower, PowerTypeOK, HeadNodeAssumption
    <3>2. /\ adopted' \in Reports /\ inflight' \subseteq Reports
          /\ written' \in Families /\ faults' \in Nat
      BY <2>0, <2>4 DEF LosePower, TypeOK, NoMark, Reports, Mark
    <3>3. TypeOK'
      BY <2>0, <2>4, <3>1, <3>2, DieType DEF LosePower, TypeOK
    <3> QED BY <1>2, <2>0, <2>4, <3>3 DEF PowerTypeOK, LosePower
  <2>5. CASE Restore
    <3>1. boot' \in 1 .. MaxBoots
      BY <1>2, <2>5 DEF Restore, PowerTypeOK, Generation, HeadNodeAssumption
    <3>2. next' \in [Journals -> 0 .. MaxIndex + 1]
      BY <2>0, <2>5, EndBehindAll DEF Restore
    <3>3. /\ node' \in Families /\ snap' \in Snapshots
          /\ adopted' \in Reports /\ inflight' \subseteq Reports
          /\ written' \in Families /\ faults' \in Nat
      BY <2>0, <2>5 DEF Restore, TypeOK, NoMark, Reports, Mark
    <3>4. TypeOK'
      BY <2>0, <2>5, <3>1, <3>2, <3>3, DieType DEF Restore, TypeOK
    <3>5. disk' = [node |-> node', next |-> next', snap |-> snap', boot |-> boot']
      BY <2>5 DEF Restore, Store
    <3> QED BY <1>2, <2>0, <2>5, <3>1, <3>2, <3>3, <3>4, <3>5 DEF PowerTypeOK, Restore
  <2> QED BY <1>2, <2>1, <2>2, <2>3, <2>4, <2>5 DEF PowerNext
<1> QED BY <1>1, <1>2, PTL DEF PowerSpec

-------------------------------------------------------------------------------
(* What holds whatever node the archive stands beside.                      *)

(* No mark is above all that the archive holds.                             *)
Backed(m) ==
    \A j \in Journals :
        m[j] = None \/ \E k \in Index : archive[j][k] # 0 /\ m[j] <= k

(* A scan is above all that the archive holds, and its watermark is not.    *)
ScanAbove ==
    pc = "scan" =>
        /\ \A i \in Index : archive[cur][i] # 0 => i < pos
        /\ highest = None \/ (highest \in Index /\ archive[cur][highest] # 0)

BaseInv == /\ ScanAbove
           /\ Backed(watermarks) /\ Backed(adopted) /\ \A m \in inflight : Backed(m)

(* What a batch puts into the archive goes above all that it holds.         *)
LEMMA BatchAbove ==
    ASSUME TypeOK, ScanAbove, pc = "scan", NEW S \in SUBSET Left,
           archive' = [archive EXCEPT ![cur] = Put(@, view[cur], S)]
    PROVE  /\ \A j \in Journals, i \in Index :
                 archive[j][i] # 0 => archive'[j][i] = archive[j][i]
           /\ \A i \in Index : archive'[cur][i] # 0 => archive[cur][i] # 0 \/ i \in S
           /\ \A i \in S : i \in Index /\ pos <= i /\ archive'[cur][i] # 0
<1>1. cur \in Journals /\ archive \in Families /\ pos \in Int
  BY DEF TypeOK
<1>2. /\ \A i \in Index :
            archive'[cur][i] = IF i \in S THEN view[cur][i] ELSE archive[cur][i]
      /\ \A j \in Journals : j # cur => archive'[j] = archive[j]
  BY <1>1 DEF Families, Put
<1>3. \A i \in S : i \in Index /\ pos <= i /\ view[cur][i] # 0
  BY DEF Left, From, Held
<1>4. \A i \in S : archive[cur][i] = 0
  BY <1>1, <1>3 DEF ScanAbove, Index
<1> QED BY <1>2, <1>3, <1>4

(* No step of node or archiver changes an entry the archive has.            *)
LEMMA NeverRewritten ==
    ASSUME TypeOK, ScanAbove, Next
    PROVE  \A j \in Journals, i \in Index :
               archive[j][i] # 0 => archive'[j][i] = archive[j][i]
<1>1. CASE UNCHANGED archive
  BY <1>1
<1>2. CASE CommitBatch
  <2>1. PICK S \in SUBSET Left : archive' = [archive EXCEPT ![cur] = Put(@, view[cur], S)]
    BY <1>2, BatchLeft
  <2> QED BY <1>2, <2>1, BatchAbove DEF CommitBatch
<1>3. CASE FinishJournal
  BY <1>3, BatchAbove DEF FinishJournal
<1> QED
  BY <1>1, <1>2, <1>3
  DEF Next, archiverVars, ArchiverNext, ArchiverStep, Start, BeginPass, OpenJournal,
      CopyFixed, ReportPass, OverflowPass, FailPass, AbandonPass, Crash, Die

(* A mark that is backed stays backed.                                      *)
LEMMA BackedStays ==
    ASSUME TypeOK, ScanAbove, Next
    PROVE  \A m : Backed(m) =>
               \A j \in Journals :
                   m[j] = None \/ \E k \in Index : archive'[j][k] # 0 /\ m[j] <= k
<1> QED BY NeverRewritten DEF Backed

(* What the report says of a journal, the archive holds.                    *)
LEMMA MarkBacked ==
    ASSUME TypeOK, BaseInv, FinishJournal
    PROVE  LET top == watermarks'[cur]
           IN  top = None \/ \E k \in Index : archive'[cur][k] # 0 /\ top <= k
<1>1. /\ pc = "scan" /\ cur \in Journals
      /\ archive' = [archive EXCEPT ![cur] = Put(@, view[cur], Left)]
      /\ watermarks'[cur] = JournalMark(highest, Left)
  BY DEF FinishJournal, TypeOK, Reports
<1>2. /\ \A j \in Journals, i \in Index : archive[j][i] # 0 => archive'[j][i] = archive[j][i]
      /\ \A i \in Left : i \in Index /\ archive'[cur][i] # 0
  BY <1>1, BatchAbove DEF BaseInv
<1>3. CASE Left = {}
  <2>1. watermarks'[cur] = highest
    BY <1>1, <1>3 DEF JournalMark
  <2>2. highest = None \/ (highest \in Index /\ archive'[cur][highest] # 0)
    BY <1>1, <1>2 DEF BaseInv, ScanAbove
  <2> QED BY <2>1, <2>2 DEF Index
<1>4. CASE Left # {}
  <2>1. Left \in SUBSET Index
    BY DEF Left, From, Held
  <2>2. watermarks'[cur] \in Left
    BY <1>1, <1>4, <2>1, MaxOfIndices DEF JournalMark
  <2>3. watermarks'[cur] \in Index /\ archive'[cur][watermarks'[cur]] # 0
    BY <1>2, <2>2
  <2> QED BY <2>3 DEF Index
<1> QED BY <1>3, <1>4

(* No step of node or archiver breaks the invariant.                        *)
LEMMA BaseStep ==
    ASSUME TypeOK, BaseInv, Next
    PROVE  BaseInv'
<1> USE DEF archiverVars, passVars, viewVars, headVars
<1>1. \A m : Backed(m) =>
          \A j \in Journals :
              m[j] = None \/ \E k \in Index : archive'[j][k] # 0 /\ m[j] <= k
  BY BackedStays DEF BaseInv
<1>2. Backed(NoMark)
  BY DEF Backed, NoMark
<1>3. ASSUME ScanAbove', Backed(watermarks'), Backed(adopted'),
             \A m \in inflight' : Backed(m)
      PROVE  BaseInv'
  BY <1>1, <1>3 DEF BaseInv, Backed
<1>4. ASSUME UNCHANGED <<archive, pc, cur, pos, highest>> \/ pc' # "scan",
             watermarks' \in {watermarks, NoMark}, adopted' \in {adopted, NoMark},
             inflight' \subseteq inflight \cup {watermarks}
      PROVE  BaseInv'
  <2>1. ScanAbove'
    BY <1>4 DEF BaseInv, ScanAbove
  <2>2. Backed(watermarks') /\ Backed(adopted') /\ \A m \in inflight' : Backed(m)
    BY <1>2, <1>4 DEF BaseInv
  <2> QED BY <1>3, <2>1, <2>2
<1>5. ASSUME HeadNext, UNCHANGED archiverVars PROVE BaseInv'
  <2>1. ASSUME NEW m \in inflight, Adopt(m) PROVE BaseInv'
    <3>1. Backed(m) /\ Backed(adopted)
      BY DEF BaseInv
    <3>2. Backed(adopted')
      BY <2>1, <3>1 DEF Adopt, Backed
    <3>3. ScanAbove' /\ Backed(watermarks') /\ \A k \in inflight' : Backed(k)
      BY <1>5, <2>1 DEF Adopt, BaseInv, ScanAbove
    <3> QED BY <1>3, <3>2, <3>3
  <2>2. ASSUME NEW j \in Journals, Append(j) \/ Trim(j) PROVE BaseInv'
    BY <1>4, <1>5, <2>2 DEF Append, Trim, Delete
  <2>3. ASSUME NEW f \in Fixed, Snapshot(f) \/ Settle(f) PROVE BaseInv'
    BY <1>4, <1>5, <2>3 DEF Snapshot, Settle
  <2>4. ASSUME NEW m \in inflight, Lose(m) PROVE BaseInv'
    BY <1>4, <1>5, <2>4 DEF Lose
  <2>5. CASE Restart
    BY <1>4, <1>5, <2>5 DEF Restart
  <2> QED BY <1>5, <2>1, <2>2, <2>3, <2>4, <2>5 DEF HeadNext
<1>6. CASE OpenJournal
  <2>1. cur \in Journals /\ ArchiveTip \in Mark
    BY <1>6, LookupTypes DEF OpenJournal, TypeOK
  <2>2. /\ ArchiveTip # None => ArchiveTip \in Index /\ archive[cur][ArchiveTip] # 0
        /\ \A i \in Index : archive[cur][i] # 0 => ArchiveTip \in Index /\ i <= ArchiveTip
    BY TipOfFamily DEF ArchiveTip
  <2>3. ArchiveTip # None => pos' = ArchiveTip + 1
    BY <1>6 DEF OpenJournal, Resume
  <2>4. \A i \in Index : archive[cur][i] # 0 => i < pos'
    BY <2>2, <2>3 DEF Index, None
  <2>5. ScanAbove'
    BY <1>6, <2>2, <2>4 DEF OpenJournal, ScanAbove
  <2>6. Backed(watermarks') /\ Backed(adopted') /\ \A m \in inflight' : Backed(m)
    BY <1>6 DEF OpenJournal, BaseInv
  <2> QED BY <1>3, <2>5, <2>6
<1>7. CASE CommitBatch
  <2>1. PICK m \in Left :
            LET batch == {k \in Left : k <= m}
            IN  /\ archive' = [archive EXCEPT ![cur] = Put(@, view[cur], batch)]
                /\ highest' = m
                /\ pos' = m + 1
    BY <1>7 DEF CommitBatch
  <2> DEFINE S == {k \in Left : k <= m}
  <2>2. S \in SUBSET Left /\ m \in S
    BY DEF Left, From, Held, Index
  <2>3. archive' = [archive EXCEPT ![cur] = Put(@, view[cur], S)] /\ \A i \in S : i <= m
    BY <2>1
  <2> HIDE DEF S
  <2>4. /\ \A i \in Index : archive'[cur][i] # 0 => archive[cur][i] # 0 \/ i \in S
        /\ \A i \in S : i \in Index /\ pos <= i /\ archive'[cur][i] # 0
    BY <1>7, <2>2, <2>3, BatchAbove DEF BaseInv, CommitBatch
  <2>5. \A i \in Index : archive[cur][i] # 0 => i < pos
    BY <1>7 DEF BaseInv, ScanAbove, CommitBatch
  <2>6. pos \in Int /\ m \in Index /\ pos <= m /\ pos' = m + 1 /\ highest' = m
    BY <2>1, <2>2, <2>4 DEF TypeOK
  <2>7. \A i \in Index : archive'[cur][i] # 0 => i < pos'
    BY <2>3, <2>4, <2>5, <2>6 DEF Index
  <2>8. ScanAbove'
    BY <1>7, <2>2, <2>4, <2>6, <2>7 DEF CommitBatch, ScanAbove
  <2>9. Backed(watermarks') /\ Backed(adopted') /\ \A k \in inflight' : Backed(k)
    BY <1>7 DEF CommitBatch, BaseInv
  <2> QED BY <1>3, <2>8, <2>9
<1>8. CASE FinishJournal
  <2>1. PICK c \in Journals : c = cur
    BY <1>8 DEF FinishJournal, TypeOK
  <2>2. c \in Journals => (watermarks'[c] = None
                             \/ \E k \in Index : archive'[c][k] # 0 /\ watermarks'[c] <= k)
    BY <1>8, <2>1, MarkBacked
  <2>3. \A j \in Journals : j # c => watermarks'[j] = watermarks[j]
    BY <1>8, <2>1 DEF FinishJournal, TypeOK, Reports
  <2>4. Backed(watermarks) /\ Backed(adopted) /\ \A m \in inflight : Backed(m)
    BY DEF BaseInv
  <2>5. Backed(watermarks)'
    BY <1>1, <2>2, <2>3, <2>4 DEF Backed
  <2>6. Backed(adopted)' /\ (\A m \in inflight : Backed(m))'
    BY <1>1, <1>8, <2>4 DEF FinishJournal, Backed
  <2>7. ScanAbove'
    BY <1>8 DEF FinishJournal, Advance, ScanAbove
  <2> QED BY <2>5, <2>6, <2>7 DEF BaseInv
<1>9. CASE Start
  BY <1>4, <1>9 DEF Start
<1>10. ASSUME NEW f \in BOOLEAN, BeginPass(f) PROVE BaseInv'
  BY <1>4, <1>10 DEF BeginPass
<1>11. CASE CopyFixed
  BY <1>4, <1>11 DEF CopyFixed
<1>12. CASE ReportPass
  BY <1>4, <1>12 DEF ReportPass, ForgetPass, EndTurn, SendWatermark, Post
<1>13. ASSUME AbandonPass PROVE BaseInv'
  BY <1>4, <1>13 DEF AbandonPass, ForgetPass, EndTurn
<1>14. CASE Crash
  BY <1>4, <1>14 DEF Crash, Die, ForgetPass
<1> QED
  BY <1>5, <1>6, <1>7, <1>8, <1>9, <1>10, <1>11, <1>12, <1>13, <1>14
  DEF Next, ArchiverNext, ArchiverStep, OverflowPass, FailPass

(* It holds beside every node, whatever became of the one before.           *)
LEMMA BaseInductive == PowerSpec => []BaseInv
<1> USE DEF headVars, archiverVars, passVars, viewVars
<1>1. PowerInit => BaseInv
  BY DEF PowerInit, Init, HeadInit, ArchiverInit, BaseInv, ScanAbove, Backed, NoMark
<1>2. ASSUME PowerTypeOK, BaseInv, [PowerNext]_powerVars PROVE BaseInv'
  <2>1. ASSUME UNCHANGED vars PROVE BaseInv'
    BY <1>2, <2>1 DEF vars, BaseInv, ScanAbove, Backed
  <2>2. CASE CatchUpStep \/ FixedStep \/ WriteStep \/ ReportStep \/ OtherStep
    BY <1>2, <2>2, OrdinaryStep, BaseStep DEF PowerTypeOK
  <2>3. CASE UNCHANGED powerVars \/ WriteBack
    BY <2>1, <2>3 DEF powerVars, WriteBack
  <2>4. CASE LosePower \/ Restore
    <3>1. /\ UNCHANGED archive /\ pc' = "down" /\ watermarks' = NoMark
          /\ adopted' = NoMark /\ inflight' \subseteq inflight
      BY <2>4 DEF LosePower, Restore, Die, ForgetPass
    <3>2. \A m \in inflight' : Backed(m)
      BY <1>2, <3>1 DEF BaseInv
    <3> QED BY <3>1, <3>2 DEF BaseInv, ScanAbove, Backed, NoMark
  <2> QED BY <1>2, <2>2, <2>3, <2>4 DEF PowerNext
<1> QED BY <1>1, <1>2, PowerTypeCorrect, PTL DEF PowerSpec

(* What is archived is archived for good, whatever the node does at its     *)
(* index, whatever it loses, and whichever pass is cut short.               *)
THEOREM NothingRewritten == PowerSpec => ArchiveAppendOnly
<1>1. ASSUME PowerTypeOK, BaseInv, [PowerNext]_powerVars
      PROVE  [\A j \in Journals, i \in Index :
                 archive[j][i] # 0 => archive'[j][i] = archive[j][i]]_powerVars
  <2>1. CASE CatchUpStep \/ FixedStep \/ WriteStep \/ ReportStep \/ OtherStep
    BY <1>1, <2>1, OrdinaryStep, NeverRewritten DEF PowerTypeOK, BaseInv
  <2>2. CASE WriteBack \/ LosePower \/ Restore
    BY <2>2 DEF WriteBack, LosePower, Restore, Die, vars, archiverVars
  <2> QED BY <1>1, <2>1, <2>2 DEF PowerNext
<1> QED BY <1>1, PowerTypeCorrect, BaseInductive, PTL DEF PowerSpec, ArchiveAppendOnly

-------------------------------------------------------------------------------
(* What a restore brings back.                                              *)

(* A node put back on its archive has nothing the archive lacks, and what   *)
(* any report tells of lies below where it goes on.                         *)
LEMMA RestoreSafety ==
    ASSUME TypeOK, BaseInv, Restore
    PROVE  SafetyInv' /\ PassInv'
<1>1. /\ node' = archive /\ written' = archive /\ archive' = archive /\ asnap' = asnap
      /\ snap' = asnap /\ next' = [j \in Journals |-> EndOf(j)]
      /\ adopted' = NoMark /\ watermarks' = NoMark /\ inflight' = inflight
      /\ pc' = "down" /\ cur' = 1
      /\ view' = Empty /\ viewSnap' = [f \in Fixed |-> NoMark]
  BY DEF Restore, Die, ForgetPass
<1>2. \A j \in Journals :
          /\ next'[j] \in Nat
          /\ \A i \in Index : archive[j][i] # 0 => i < next'[j]
          /\ \A f \in Fixed : asnap[f][j] < next'[j]
  BY <1>1, EndBehindAll
<1>3. \A j \in Journals, i \in Index : Archived(j, i)'
  BY <1>1 DEF Archived
<1>4. /\ \A j \in Journals, i \in Index : view'[j][i] = 0
      /\ \A j \in Journals : NoMark[j] = -1
      /\ \A j \in Journals : NoMark[j] < next'[j]
  BY <1>1, <1>2 DEF Empty, NoMark, None
<1>5. HistoryInv'
  BY <1>1, <1>2, <1>4 DEF HistoryInv
<1>6. NoLoss' /\ ArchivedInOrder' /\ ViewInv' /\ ScanInv'
  BY <1>1, <1>3 DEF NoLoss, ArchivedInOrder, ViewInv, ScanInv
<1>7. ASSUME NEW m \in Reports, Backed(m) PROVE \A j \in Journals : m[j] < next'[j]
  <2> SUFFICES ASSUME NEW j \in Journals PROVE m[j] < next'[j]
    OBVIOUS
  <2>1. CASE m[j] = None
    BY <1>2, <2>1 DEF None
  <2>2. CASE m[j] # None
    <3>1. PICK k \in Index : archive[j][k] # 0 /\ m[j] <= k
      BY <1>7, <2>2 DEF Backed
    <3>2. k < next'[j] /\ m[j] \in Int
      BY <1>2, <1>7, <3>1 DEF Reports, Mark, None, Index
    <3> QED BY <1>2, <3>1, <3>2 DEF Index
  <2> QED BY <2>1, <2>2
<1>8. \A m \in inflight : \A j \in Journals : m[j] < next'[j]
  BY <1>7 DEF BaseInv, TypeOK
<1>9. MarkInv'
  BY <1>1, <1>3, <1>4, <1>8 DEF MarkInv, Sound
<1>10. RowsInRange'
  BY <1>1, <1>2, <1>4 DEF RowsInRange
<1>11. ViewBacked' /\ SnapshotBacked' /\ JournalsCopied' /\ RowsCopied'
  BY <1>1, <1>3 DEF ViewBacked, SnapshotBacked, JournalsCopied, RowsCopied, Done
<1> QED BY <1>1, <1>5, <1>6, <1>9, <1>10, <1>11 DEF SafetyInv, PassInv

(* As long as node and archive agree, all that holds without power losses   *)
(* holds.                                                                   *)
AgreedInv == agreed => SafetyInv /\ PassInv

LEMMA UnchangedSafety ==
    ASSUME SafetyInv, PassInv, UNCHANGED vars PROVE SafetyInv' /\ PassInv'
<1> USE DEF vars, headVars, archiverVars, viewVars, passVars
<1>1. SafetyInv'
  BY DEF SafetyInv, HistoryInv, NoLoss, ArchivedInOrder, ViewInv, ScanInv, MarkInv,
         Sound, Archived
<1>2. PassInv'
  BY DEF PassInv, RowsInRange, ViewBacked, SnapshotBacked, JournalsCopied, RowsCopied,
         Done, Copied, Archived
<1> QED BY <1>1, <1>2

LEMMA AgreedInductive == PowerSpec => []AgreedInv
<1>1. PowerInit => AgreedInv
  BY InitSafety, InitPass DEF PowerInit, AgreedInv
<1>2. ASSUME PowerTypeOK, BaseInv, AgreedInv, [PowerNext]_powerVars PROVE AgreedInv'
  <2>1. CASE UNCHANGED powerVars \/ WriteBack
    BY <1>2, <2>1, UnchangedSafety DEF powerVars, historyVars, WriteBack, AgreedInv
  <2>2. ASSUME CatchUpStep \/ FixedStep \/ WriteStep \/ ReportStep \/ OtherStep,
               UNCHANGED agreed
        PROVE  AgreedInv'
    BY <1>2, <2>2, OrdinaryStep, HeadSafety, ArchiverSafety, HeadPass, ArchiverPass
    DEF PowerTypeOK, AgreedInv, Next
  <2>3. CASE LosePower
    BY <2>3 DEF LosePower, AgreedInv
  <2>4. CASE Restore
    BY <1>2, <2>4, RestoreSafety DEF PowerTypeOK, AgreedInv
  <2> QED BY <1>2, <2>1, <2>2, <2>3, <2>4 DEF PowerNext
<1> QED BY <1>1, <1>2, PowerTypeCorrect, BaseInductive, PTL DEF PowerSpec

(* A restore heals what power losses did, after any number of them.         *)
THEOREM RestoresHeal == PowerSpec => []RestoreHeals
<1>1. AgreedInv => RestoreHeals
  BY DEF AgreedInv, RestoreHeals, SafetyInv, HistoryInv, MarkInv, Sound, PassInv, Agree,
         WatermarkCovered, Covered
<1> QED BY <1>1, AgreedInductive, PTL

-------------------------------------------------------------------------------
(* Generations.                                                             *)

(* No entry is of a later boot than the counter says, on each side: the     *)
(* node's, the view's once it has caught up, and the archive's, if nothing  *)
(* was archived since the counter was.                                      *)
CounterInv ==
    /\ \A j \in Journals, i \in Index : written[j][i] <= boot
    /\ pc # "down" => \A j \in Journals, i \in Index :
                          archive[j][i] <= viewBoot /\ view[j][i] <= viewBoot
    /\ settled => \A j \in Journals, i \in Index : archive[j][i] <= archiveBoot

RisingInv == /\ ordered => agreed /\ CounterInv /\ Rising(written)
             /\ (pc = "report" /\ full) => archiveBoot = viewBoot

(* A new entry has the highest index and the highest generation.            *)
LEMMA AppendRises ==
    ASSUME TypeOK, SafetyInv, CounterInv, Rising(written), NEW a \in Journals, Append(a)
    PROVE  /\ Rising(written')
           /\ \A j \in Journals, i \in Index : written'[j][i] <= boot
<1> DEFINE n == next[a]
<1>1. n \in Index /\ boot \in Nat /\ written \in Families
  BY DEF TypeOK, Append, Index
<1>2. /\ written'[a][n] = boot
      /\ \A j \in Journals, i \in Index : (j # a \/ i # n) => written'[j][i] = written[j][i]
  BY <1>1 DEF Append, Families
<1>3. \A i \in Index : written[a][i] # 0 => i < n
  BY DEF SafetyInv, HistoryInv
<1>4. \A j \in Journals, i \in Index : written[j][i] <= boot
  BY DEF CounterInv
<1> HIDE DEF n
<1>5. \A j \in Journals, i \in Index : written'[j][i] <= boot
  BY <1>1, <1>2, <1>4
<1>6. ASSUME NEW j \in Journals, NEW i \in Held(written'[j]), NEW k \in Held(written'[j]), i < k
      PROVE  written'[j][i] <= written'[j][k]
  <2>1. i \in Index /\ k \in Index /\ written'[j][i] # 0 /\ written'[j][k] # 0
    BY <1>6 DEF Held
  <2>2. CASE j = a /\ k = n
    BY <1>2, <1>5, <2>1, <2>2
  <2>3. CASE ~(j = a /\ k = n)
    <3>1. written'[j][k] = written[j][k]
      BY <1>2, <2>1, <2>3
    <3>2. ~(j = a /\ i = n)
      <4>1. j = a => k < n
        BY <1>3, <2>1, <2>3, <3>1
      <4> QED BY <1>1, <1>6, <2>1, <4>1 DEF Index
    <3>3. written'[j][i] = written[j][i]
      BY <1>2, <2>1, <3>2
    <3>4. i \in Held(written[j]) /\ k \in Held(written[j])
      BY <2>1, <3>1, <3>3 DEF Held
    <3> QED BY <1>6, <3>1, <3>3, <3>4 DEF Rising
  <2> QED BY <2>2, <2>3
<1> QED BY <1>5, <1>6 DEF Rising

(* A step of the node makes no stamp of a boot that the counter has not     *)
(* reached.                                                                 *)
LEMMA HeadRises ==
    ASSUME TypeOK, SafetyInv, CounterInv, Rising(written), HeadNext,
           UNCHANGED <<archiverVars, counterVars, settled>>
    PROVE  CounterInv' /\ Rising(written')
<1> USE DEF archiverVars, viewVars, passVars, counterVars
<1>1. ASSUME UNCHANGED written, boot <= boot' PROVE CounterInv' /\ Rising(written')
  <2>1. \A j \in Journals, i \in Index : written[j][i] \in Int /\ written[j][i] <= boot
    BY DEF TypeOK, Families, Generation, CounterInv, HeadNodeAssumption
  <2>2. boot \in Int /\ boot' \in Int
    BY DEF TypeOK, HeadNext, Append, Trim, Delete, Snapshot, Settle, Adopt, Lose, Restart
  <2> QED BY <1>1, <2>1, <2>2 DEF CounterInv
<1>2. boot <= boot
  BY DEF TypeOK
<1>3. ASSUME NEW j \in Journals, Append(j) PROVE CounterInv' /\ Rising(written')
  BY <1>3, AppendRises DEF Append, CounterInv
<1>4. ASSUME NEW j \in Journals, Trim(j) PROVE CounterInv' /\ Rising(written')
  BY <1>1, <1>2, <1>4 DEF Trim, Delete
<1>5. ASSUME NEW f \in Fixed, Snapshot(f) \/ Settle(f) PROVE CounterInv' /\ Rising(written')
  BY <1>1, <1>2, <1>5 DEF Snapshot, Settle
<1>6. ASSUME NEW m \in inflight, Adopt(m) \/ Lose(m) PROVE CounterInv' /\ Rising(written')
  BY <1>1, <1>2, <1>6 DEF Adopt, Lose
<1>7. CASE Restart
  <2>1. boot <= boot'
    BY <1>7 DEF Restart, TypeOK
  <2> QED BY <1>1, <1>7, <2>1 DEF Restart
<1> QED BY <1>3, <1>4, <1>5, <1>6, <1>7 DEF HeadNext

(* Nor does a step of the archiver archive one: what it copies was shown    *)
(* together with the counter.                                               *)
LEMMA ArchiverRises ==
    ASSUME PowerTypeOK, SafetyInv, CounterInv, RisingInv, UNCHANGED <<boot, written>>,
           CatchUpStep \/ FixedStep \/ WriteStep \/ ReportStep \/ OtherStep
    PROVE  CounterInv'
<1> USE DEF headVars, viewVars, passVars, counterVars
<1>1. /\ boot \in Nat /\ viewBoot \in Nat /\ archiveBoot \in Nat
      /\ \A j \in Journals, i \in Index :
            written[j][i] \in Nat /\ archive[j][i] \in Nat /\ view[j][i] \in Nat
  BY DEF PowerTypeOK, TypeOK, Families, Generation, HeadNodeAssumption
<1>2. \A j \in Journals, i \in Index :
          written[j][i] <= boot /\ node[j][i] <= boot /\ archive[j][i] <= boot
  BY <1>1 DEF CounterInv, SafetyInv, HistoryInv
<1>3. CASE CatchUpStep
  <2>1. view' = node /\ viewBoot' = boot /\ UNCHANGED <<archive, archiveBoot, settled>>
    BY <1>3 DEF CatchUpStep, Start, BeginPass, CatchUp
  <2> QED BY <1>2, <2>1 DEF CounterInv
<1>4. CASE FixedStep
  BY <1>4 DEF FixedStep, CopyFixed, CounterInv
<1>5. ASSUME NEW S \in SUBSET Left, pc = "scan", WriteStep,
             archive' = [archive EXCEPT ![cur] = Put(@, view[cur], S)],
             UNCHANGED view
      PROVE  CounterInv'
  <2>1. cur \in Journals /\ archive \in Families
    BY <1>5 DEF PowerTypeOK, TypeOK
  <2>2. \A j \in Journals, i \in Index :
            archive'[j][i] = archive[j][i] \/ archive'[j][i] = view[j][i]
    BY <1>5, <2>1 DEF Families, Put
  <2>3. \A j \in Journals, i \in Index :
            archive[j][i] <= viewBoot /\ view[j][i] <= viewBoot
    BY <1>5 DEF CounterInv
  <2>4. \A j \in Journals, i \in Index : archive'[j][i] <= viewBoot
    BY <2>2, <2>3
  <2>5. settled' => settled /\ archive' = archive
    BY <1>5 DEF WriteStep
  <2> QED BY <1>5, <2>3, <2>4, <2>5 DEF CounterInv, WriteStep
<1>6. CASE WriteStep
  <2>1. CASE CommitBatch
    <3>1. PICK S \in SUBSET Left : archive' = [archive EXCEPT ![cur] = Put(@, view[cur], S)]
      BY <2>1, BatchLeft
    <3> QED BY <1>5, <1>6, <2>1, <3>1 DEF CommitBatch
  <2>2. CASE FinishJournal
    BY <1>5, <1>6, <2>2 DEF FinishJournal
  <2> QED BY <1>6, <2>1, <2>2 DEF WriteStep
<1>7. CASE ReportStep
  <2>1. /\ pc = "report" /\ (settled' => settled \/ full)
        /\ UNCHANGED <<archive, view, counterVars>>
    BY <1>7 DEF ReportStep, ReportPass
  <2>2. \A j \in Journals, i \in Index :
            archive[j][i] <= viewBoot /\ view[j][i] <= viewBoot
    BY <2>1 DEF CounterInv
  <2>3. settled' => \A j \in Journals, i \in Index : archive[j][i] <= archiveBoot
    BY <2>1, <2>2 DEF CounterInv, RisingInv
  <2> QED BY <2>1, <2>2, <2>3 DEF CounterInv
<1>8. CASE OtherStep
  <2>1. UNCHANGED <<archive, counterVars, settled>> /\ (pc' # "down" => pc # "down" /\ view' = view)
    BY <1>8
    DEF OtherStep, OpenJournal, OverflowPass, FailPass, AbandonPass, Crash, Die, archiverVars
  <2> QED BY <2>1 DEF CounterInv
<1> QED BY <1>3, <1>4, <1>6, <1>7, <1>8

(* A full pass that comes to its report has copied the counter.             *)
LEMMA CounterCopied ==
    ASSUME RisingInv, CatchUpStep \/ FixedStep \/ WriteStep \/ ReportStep \/ OtherStep
    PROVE  (pc' = "report" /\ full') => archiveBoot' = viewBoot'
<1> USE DEF headVars, viewVars, passVars, counterVars, archiverVars
<1>1. CASE CatchUpStep
  BY <1>1 DEF CatchUpStep, Start, BeginPass
<1>2. CASE FixedStep
  BY <1>2 DEF FixedStep, CopyFixed
<1>3. CASE WriteStep
  BY <1>3 DEF WriteStep, CommitBatch, FinishJournal, Advance
<1>4. CASE ReportStep
  BY <1>4 DEF ReportStep, ReportPass, EndTurn
<1>5. CASE OtherStep
  BY <1>5
  DEF OtherStep, OpenJournal, OverflowPass, FailPass, AbandonPass, EndTurn, Crash, Die,
      RisingInv
<1> QED BY <1>1, <1>2, <1>3, <1>4, <1>5

LEMMA RisingInductive == PowerSpec => []RisingInv
<1> USE DEF headVars, archiverVars, viewVars, passVars, counterVars, historyVars
<1>1. PowerInit => RisingInv
  <2> SUFFICES ASSUME PowerInit PROVE RisingInv
    OBVIOUS
  <2>1. /\ viewBoot = 0 /\ archiveBoot = 0 /\ agreed = TRUE /\ settled = FALSE
        /\ pc = "down" /\ boot = 1
    BY DEF PowerInit, Init, HeadInit, ArchiverInit
  <2>2. \A j \in Journals, i \in Index : written[j][i] \in {0, 1}
    BY DEF PowerInit, Init, HeadInit
  <2>3. Rising(written)
    BY <2>2 DEF Rising, Held
  <2>4. \A j \in Journals, i \in Index : written[j][i] <= boot
    BY <2>1, <2>2
  <2> QED BY <2>1, <2>3, <2>4 DEF RisingInv, CounterInv
<1>2. ASSUME PowerTypeOK, AgreedInv, RisingInv, [PowerNext]_powerVars PROVE RisingInv'
  <2>1. CASE UNCHANGED powerVars \/ WriteBack
    BY <1>2, <2>1 DEF powerVars, vars, WriteBack, RisingInv, CounterInv, Rising
  <2>2. ASSUME CatchUpStep \/ FixedStep \/ WriteStep \/ ReportStep \/ OtherStep,
               UNCHANGED <<agreed, ordered>>
        PROVE  RisingInv'
    <3>1. ASSUME ordered, SafetyInv, agreed, CounterInv, Rising(written)
          PROVE  CounterInv' /\ Rising(written')
      <4>1. CASE OtherStep /\ HeadNext /\ UNCHANGED archiverVars
        BY <1>2, <3>1, <4>1, HeadRises DEF PowerTypeOK, OtherStep
      <4>2. CASE UNCHANGED <<boot, written>>
        BY <1>2, <2>2, <3>1, <4>2, ArchiverRises DEF Rising
      <4>3. \/ OtherStep /\ HeadNext /\ UNCHANGED archiverVars
            \/ UNCHANGED <<boot, written>>
        BY <2>2
        DEF CatchUpStep, Start, BeginPass, FixedStep, CopyFixed, WriteStep, CommitBatch,
            FinishJournal, ReportStep, ReportPass, OtherStep, OpenJournal, OverflowPass,
            FailPass, AbandonPass, Crash
      <4> QED BY <4>1, <4>2, <4>3
    <3> QED BY <1>2, <2>2, <3>1, CounterCopied DEF AgreedInv, RisingInv
  <2>3. CASE LosePower
    BY <2>3 DEF LosePower, Die, RisingInv
  <2>4. CASE Restore
    <3>1. /\ archiveBoot \in Nat /\ \A j \in Journals, i \in Index : archive[j][i] \in Nat
      BY <1>2 DEF PowerTypeOK, TypeOK, Families, Generation, HeadNodeAssumption
    <3>2. /\ written' = archive /\ archive' = archive /\ boot' = archiveBoot + 1
          /\ pc' = "down" /\ UNCHANGED <<archiveBoot, settled>>
          /\ agreed' /\ (ordered' => ordered /\ settled)
      BY <2>4 DEF Restore, Die
    <3>3. ordered' => \A j \in Journals, i \in Index : archive[j][i] <= archiveBoot
      BY <1>2, <3>2 DEF RisingInv, CounterInv
    <3>4. ordered' => Rising(archive)
      BY <1>2, <3>2 DEF RisingInv, AgreedInv, SafetyInv, HistoryInv, Rising, Held
    <3> QED BY <3>1, <3>2, <3>3, <3>4 DEF RisingInv, CounterInv, Rising
  <2> QED BY <1>2, <2>1, <2>2, <2>3, <2>4 DEF PowerNext
<1> QED BY <1>1, <1>2, PowerTypeCorrect, AgreedInductive, PTL DEF PowerSpec

(* As long as only archives that a full pass has left are restored, the     *)
(* generations never fall along a journal, in the node or in the archive.   *)
THEOREM GenerationsInOrder == PowerSpec => []GenerationsRise
<1>1. RisingInv /\ AgreedInv => GenerationsRise
  BY DEF RisingInv, AgreedInv, SafetyInv, HistoryInv, GenerationsRise, Rising, Held
<1> QED BY <1>1, RisingInductive, AgreedInductive, PTL
===============================================================================
