------------------------------- MODULE GapProofs -------------------------------
(***************************************************************************)
(* Proofs about the gaps that passes log: none beside a node that deletes   *)
(* only what a watermark covers, and the right ones beside any other.       *)
(***************************************************************************)
EXTENDS ArchiverProofs

USE JournalsAssumption, HeadNodeAssumption, ArchiverAssumption

-------------------------------------------------------------------------------
(* A node that deletes what a watermark covers.                            *)

(* The node writes each journal without a hole.                             *)
NoHoles ==
    \A j \in Journals, i, k \in Index :
        (written[j][i] # 0 /\ i < k /\ k < next[j]) => written[j][k] # 0

GapInv == NoHoles /\ gaps = {} /\ NoGaps

(* What the view lacks between the archive's tip and its own floor would be *)
(* archived, and above the tip nothing is.                                  *)
LEMMA OpensWithoutGap ==
    ASSUME TypeOK, SafetyInv, NoHoles, cur \in Journals
    PROVE  GapAt(cur, ArchiveTip, ViewFloor) = {}
<1> DEFINE tip == ArchiveTip
           floor == ViewFloor
<1>1. next[cur] \in Nat
  BY DEF TypeOK
<1>2. /\ tip \in Mark /\ floor \in Mark
      /\ tip # None => tip \in Index /\ archive[cur][tip] # 0
      /\ \A i \in Index : archive[cur][i] # 0 => tip \in Index /\ i <= tip
      /\ floor # None => floor \in Index /\ view[cur][floor] # 0
      /\ \A i \in Index : view[cur][i] # 0 => floor \in Index /\ floor <= i
  BY TipOfFamily, FloorOfFamily DEF ArchiveTip, ViewFloor
<1> HIDE DEF tip, floor
<1> SUFFICES ASSUME tip # None, floor # None, floor > tip + 1 PROVE FALSE
  BY DEF GapAt, Resume, tip, floor
<1>3. tip \in Index /\ floor \in Index /\ tip + 1 \in Index
  BY <1>2, JournalsAssumption DEF Index, JournalsAssumption
<1>4. written[cur][tip] # 0 /\ written[cur][floor] # 0
  BY <1>1, <1>2, <1>3 DEF SafetyInv, HistoryInv
<1>5. floor < next[cur]
  BY <1>1, <1>3, <1>4 DEF SafetyInv, HistoryInv
<1>6. tip < tip + 1 /\ tip + 1 < next[cur] /\ tip + 1 < floor
  BY <1>1, <1>3, <1>5 DEF Index
<1>7. written[cur][tip + 1] # 0
  BY <1>1, <1>3, <1>4, <1>6 DEF NoHoles
<1>8. view[cur][tip + 1] = 0 /\ archive[cur][tip + 1] = 0
  BY <1>2, <1>3, <1>6 DEF Index
<1>9. Archived(cur, tip + 1)
  BY <1>1, <1>2, <1>3, <1>6, <1>7, <1>8 DEF SafetyInv, ViewInv
<1> QED BY <1>7, <1>8, <1>9 DEF Archived

(* An append goes right behind what was written.                            *)
LEMMA AppendLeavesNoHole ==
    ASSUME TypeOK, HistoryInv, NoHoles, NEW a \in Journals, Append(a)
    PROVE  NoHoles'
<1> DEFINE n == next[a]
<1>1. n \in Index /\ boot # 0 /\ next[a] \in Int
  BY DEF TypeOK, Append, Index
<1>2. /\ \A i \in Index : written'[a][i] = IF i = n THEN boot ELSE written[a][i]
      /\ next'[a] = n + 1
      /\ \A j \in Journals : j # a => written'[j] = written[j] /\ next'[j] = next[j]
  BY <1>1 DEF TypeOK, Append, Families
<1> HIDE DEF n
<1> SUFFICES ASSUME NEW j \in Journals, NEW i \in Index, NEW k \in Index,
                    written'[j][i] # 0, i < k, k < next'[j]
             PROVE  written'[j][k] # 0
  BY DEF NoHoles
<1>3. CASE j # a
  BY <1>2, <1>3 DEF NoHoles
<1>4. CASE j = a
  <2>1. k <= n /\ i # n
    BY <1>1, <1>2, <1>4 DEF Index
  <2>2. CASE k = n
    BY <1>1, <1>2, <1>4, <2>2
  <2>3. CASE k # n
    <3>1. written[a][i] # 0 /\ k < n
      BY <1>1, <1>2, <1>4, <2>1, <2>3 DEF Index
    <3> QED BY <1>2, <1>4, <2>3, <3>1 DEF NoHoles, n
  <2> QED BY <2>2, <2>3
<1> QED BY <1>3, <1>4

(* With a node that deletes only below the watermark no gap is ever logged. *)
THEOREM NoFalseGaps == Spec => []NoGaps
<1>1. Init => GapInv
  <2> SUFFICES ASSUME Init PROVE GapInv
    OBVIOUS
  <2>1. PICK lo, hi \in [Journals -> 0 .. MaxStart] :
            /\ node = [j \in Journals |-> [i \in Index |->
                          IF lo[j] <= i /\ i < hi[j] THEN 1 ELSE 0]]
            /\ next = hi
            /\ written = node
    BY DEF Init, HeadInit
  <2>2. NoHoles
    BY <2>1, HeadNodeAssumption DEF NoHoles, Index, HeadNodeAssumption
  <2> QED BY <2>2 DEF GapInv, NoGaps, Init, ArchiverInit
<1>2. ASSUME TypeOK, SafetyInv, GapInv, [Next]_vars PROVE GapInv'
  <2> USE DEF headVars, archiverVars, viewVars, passVars
  <2>1. ASSUME UNCHANGED <<next, written, warned>>, gaps' \in {gaps, {}}
        PROVE  GapInv'
    BY <1>2, <2>1 DEF GapInv, NoHoles, NoGaps
  <2>2. CASE UNCHANGED vars
    BY <2>1, <2>2 DEF vars
  <2>3. ASSUME HeadNext, UNCHANGED archiverVars PROVE GapInv'
    <3>1. ASSUME NEW j \in Journals, Append(j) PROVE GapInv'
      BY <1>2, <2>3, <3>1, AppendLeavesNoHole DEF GapInv, NoGaps, SafetyInv
    <3>2. ASSUME NEW j \in Journals, Trim(j) PROVE GapInv'
      BY <2>1, <2>3, <3>2 DEF Trim, Delete
    <3>3. ASSUME NEW f \in Fixed, Snapshot(f) \/ Settle(f) PROVE GapInv'
      BY <2>1, <2>3, <3>3 DEF Snapshot, Settle
    <3>4. ASSUME NEW m \in inflight, Adopt(m) \/ Lose(m) PROVE GapInv'
      BY <2>1, <2>3, <3>4 DEF Adopt, Lose
    <3>5. CASE Restart
      BY <2>1, <2>3, <3>5 DEF Restart
    <3> QED BY <2>3, <3>1, <3>2, <3>3, <3>4, <3>5 DEF HeadNext
  <2>4. CASE OpenJournal
    <3>1. cur \in Journals
      BY <1>2, <2>4 DEF TypeOK, OpenJournal
    <3>2. GapAt(cur, ArchiveTip, ViewFloor) = {}
      BY <1>2, <3>1, OpensWithoutGap DEF GapInv
    <3> QED BY <2>1, <2>4, <3>2, Zenon DEF OpenJournal
  <2>5. ASSUME AbandonPass PROVE GapInv'
    BY <2>1, <2>5 DEF AbandonPass, ForgetPass
  <2>6. CASE Start
    BY <2>1, <2>6 DEF Start
  <2>7. ASSUME NEW f \in BOOLEAN, BeginPass(f) PROVE GapInv'
    BY <2>1, <2>7 DEF BeginPass
  <2>8. CASE CommitBatch \/ FinishJournal \/ CopyFixed
    BY <2>1, <2>8 DEF CommitBatch, FinishJournal, CopyFixed
  <2>9. CASE ReportPass
    BY <2>1, <2>9 DEF ReportPass, ForgetPass
  <2>10. CASE Crash
    BY <2>1, <2>10 DEF Crash, Die, ForgetPass
  <2> QED
    BY <1>2, <2>2, <2>3, <2>4, <2>5, <2>6, <2>7, <2>8, <2>9, <2>10
    DEF Next, ArchiverNext, ArchiverStep, OverflowPass, FailPass
<1>3. GapInv => NoGaps
  BY DEF GapInv
<1> QED BY <1>1, <1>2, <1>3, TypeCorrect, SafetyInductive, PTL DEF Spec

-------------------------------------------------------------------------------
(* A node that deletes as it pleases.                                       *)

(* What the node keeps of a journal is its end.                             *)
NodeSuffix ==
    \A j \in Journals, i, k \in Index :
        (node[j][i] # 0 /\ i < k /\ k < next[j]) => node[j][k] # 0

(* The view has no hole.                                                    *)
ViewWhole ==
    \A j \in Journals, i, k, m \in Index :
        (view[j][i] # 0 /\ view[j][m] # 0 /\ i < k /\ k < m) => view[j][k] # 0

(* What the view lacks below an entry it shows, the node lacks for good.    *)
ViewFresh ==
    \A j \in Journals, i, k \in Index :
        (view[j][k] # 0 /\ i < k /\ view[j][i] = 0) => node[j][i] = 0

(* A scan goes on right behind what the archive holds, if that is anything, *)
(* and has warned of what it is to jump over.                               *)
ScanWarned ==
    pc = "scan" =>
        /\ \A i \in Index : archive[cur][i] # 0 => i < pos /\ highest # None
        /\ highest # None => /\ highest \in Index /\ pos = highest + 1
                             /\ archive[cur][highest] # 0
        /\ \A i, k \in Index :
              (/\ highest # None /\ pos <= i /\ i < k
               /\ view[cur][i] = 0 /\ view[cur][k] # 0) => InGap(cur, i, warned)

(* The range of a gap is empty on every side, and below what is written     *)
(* next.                                                                    *)
GapsEmpty ==
    \A g \in warned :
        /\ g.node_floor <= next[g.cf]
        /\ \A i \in Index :
              (g.expected_from <= i /\ i < g.node_floor)
                 => node[g.cf][i] = 0 /\ view[g.cf][i] = 0 /\ archive[g.cf][i] = 0

RogueInv == /\ HistoryInv /\ NodeSuffix /\ ViewWhole /\ ViewFresh
            /\ ScanWarned /\ GapsEmpty /\ HolesWarned

LEMMA InitRogue == Init => RogueInv
<1> SUFFICES ASSUME Init PROVE RogueInv
  OBVIOUS
<1>1. PICK lo, hi \in [Journals -> 0 .. MaxStart] :
          /\ node = [j \in Journals |-> [i \in Index |->
                        IF lo[j] <= i /\ i < hi[j] THEN 1 ELSE 0]]
          /\ next = hi
  BY DEF Init, HeadInit
<1>2. /\ archive = Empty /\ view = Empty /\ pc = "down" /\ warned = {}
  BY DEF Init, ArchiverInit
<1>3. HistoryInv
  BY InitSafety DEF SafetyInv
<1>4. NodeSuffix
  BY <1>1 DEF NodeSuffix, Index
<1>5. ViewWhole /\ ViewFresh /\ ScanWarned /\ GapsEmpty
  BY <1>2 DEF ViewWhole, ViewFresh, ScanWarned, GapsEmpty, Empty
<1>6. HolesWarned
  BY <1>2 DEF HolesWarned, Hole, Held, Empty
<1> QED BY <1>3, <1>4, <1>5, <1>6 DEF RogueInv

(* A step that touches no journal and no view, and leaves the scan, keeps   *)
(* the invariant.                                                           *)
LEMMA RogueIdle ==
    ASSUME RogueInv, UNCHANGED <<node, next, written, archive, view, warned>>,
           pc' # "scan" \/ UNCHANGED <<pc, cur, pos, highest>>
    PROVE  RogueInv'
<1>1. HistoryInv' /\ NodeSuffix' /\ ViewWhole' /\ ViewFresh'
  BY DEF RogueInv, HistoryInv, NodeSuffix, ViewWhole, ViewFresh
<1>2. GapsEmpty' /\ HolesWarned'
  BY DEF RogueInv, GapsEmpty, HolesWarned, Hole, Held, InGap
<1>3. ScanWarned'
  BY DEF RogueInv, ScanWarned, InGap
<1> QED BY <1>1, <1>2, <1>3 DEF RogueInv

(* An append is above all that anyone has seen.                             *)
LEMMA RogueAppend ==
    ASSUME TypeOK, RogueInv, NEW a \in Journals, Append(a), UNCHANGED archiverVars
    PROVE  RogueInv'
<1> USE DEF archiverVars, passVars, viewVars
<1> DEFINE n == next[a]
<1>1. /\ n \in Index /\ boot # 0 /\ next \in [Journals -> Nat]
      /\ node \in Families /\ written \in Families /\ warned \subseteq Gap
  BY DEF TypeOK, Append, Index
<1>2. /\ written'[a][n] = boot /\ node'[a][n] = boot /\ next'[a] = n + 1
      /\ \A j \in Journals, i \in Index : (j # a \/ i # n) =>
            written'[j][i] = written[j][i] /\ node'[j][i] = node[j][i]
      /\ \A j \in Journals : j # a => next'[j] = next[j]
      /\ UNCHANGED <<archive, view, pc, pos, cur, highest, warned>>
  BY <1>1 DEF Append, Families
<1>3. \A j \in Journals, i \in Index :
          (written[j][i] # 0 \/ node[j][i] # 0 \/ archive[j][i] # 0 \/ view[j][i] # 0)
             => i < next[j]
  BY DEF RogueInv, HistoryInv
<1>4. archive[a][n] = 0 /\ view[a][n] = 0
  BY <1>1, <1>3
<1>5. \A j \in Journals : next[j] <= next'[j] /\ next[j] \in Nat /\ next'[j] \in Nat
  BY <1>1, <1>2
<1> HIDE DEF n
<1>6. HistoryInv'
  <2> SUFFICES ASSUME NEW j \in Journals, NEW i \in Index
               PROVE  /\ written'[j][i] # 0 => i < next'[j]
                      /\ node'[j][i] # 0 => node'[j][i] = written'[j][i]
                      /\ archive'[j][i] # 0 => archive'[j][i] = written'[j][i]
                      /\ view'[j][i] # 0 => view'[j][i] = written'[j][i]
    BY DEF HistoryInv
  <2>1. CASE j = a /\ i = n
    BY <1>1, <1>2, <1>4, <2>1 DEF Index
  <2>2. CASE ~(j = a /\ i = n)
    BY <1>2, <1>3, <1>5, <2>2 DEF RogueInv, HistoryInv, Index
  <2> QED BY <2>1, <2>2
<1>7. NodeSuffix'
  <2> SUFFICES ASSUME NEW j \in Journals, NEW i \in Index, NEW k \in Index,
                      node'[j][i] # 0, i < k, k < next'[j]
               PROVE  node'[j][k] # 0
    BY DEF NodeSuffix
  <2>1. CASE j = a /\ k = n
    BY <1>1, <1>2, <2>1
  <2>2. CASE j # a
    BY <1>2, <2>2 DEF RogueInv, NodeSuffix
  <2>3. CASE j = a /\ k # n
    <3>0. k < n + 1 /\ k # n /\ n \in Int /\ i \in Int /\ k \in Int
      BY <1>1, <1>2, <2>3 DEF Index
    <3>1. k < n /\ i # n
      BY <3>0
    <3>2. node[a][i] # 0 /\ node'[a][k] = node[a][k]
      BY <1>2, <2>3, <3>1
    <3>3. k < next[a]
      BY <3>1 DEF n
    <3> QED BY <2>3, <3>2, <3>3 DEF RogueInv, NodeSuffix
  <2> QED BY <2>1, <2>2, <2>3
<1>8. ViewWhole' /\ ScanWarned'
  BY <1>2 DEF RogueInv, ViewWhole, ScanWarned, InGap
<1>9. ViewFresh'
  <2>1. \A i, k \in Index : (view[a][k] # 0 /\ i < k) => i # n
    BY <1>3, <1>1 DEF Index, n
  <2> QED BY <1>2, <2>1 DEF RogueInv, ViewFresh
<1>10. GapsEmpty'
  <2> SUFFICES ASSUME NEW g \in warned
               PROVE  /\ g.node_floor <= next'[g.cf]
                      /\ \A i \in Index :
                            (g.expected_from <= i /\ i < g.node_floor)
                               => /\ node'[g.cf][i] = 0 /\ view[g.cf][i] = 0
                                  /\ archive[g.cf][i] = 0
    BY <1>2 DEF GapsEmpty
  <2>1. g.cf \in Journals /\ g.node_floor \in Index /\ g.node_floor <= next[g.cf]
    BY <1>1 DEF Gap, RogueInv, GapsEmpty
  <2>2. g.node_floor <= next'[g.cf]
    BY <1>5, <2>1 DEF Index
  <2>3. \A i \in Index : i < g.node_floor => (g.cf # a \/ i # n)
    BY <1>1, <2>1 DEF Index, n
  <2> QED BY <1>2, <2>1, <2>2, <2>3 DEF RogueInv, GapsEmpty
<1>11. HolesWarned'
  <2>1. \A j \in Journals, i \in Index : Hole(j, i)' => Hole(j, i)
    <3> SUFFICES ASSUME NEW j \in Journals, NEW i \in Index, Hole(j, i)'
                 PROVE  Hole(j, i)
      OBVIOUS
    <3>1. PICK k \in Index : archive[j][k] # 0 /\ k > i
      BY <1>2 DEF Hole, Held
    <3>2. j # a \/ i # n
      BY <1>1, <1>3, <3>1 DEF Index, n
    <3> QED BY <1>2, <3>2 DEF Hole, Held
  <2> QED BY <1>2, <2>1 DEF RogueInv, HolesWarned, InGap
<1> QED BY <1>6, <1>7, <1>8, <1>9, <1>10, <1>11 DEF RogueInv

(* A deletion takes a prefix, and leaves the archive its holes.             *)
LEMMA RogueDelete ==
    ASSUME TypeOK, RogueInv, NEW t \in Journals, NEW n \in Index, Delete(t, n),
           UNCHANGED archiverVars
    PROVE  RogueInv'
<1> USE DEF archiverVars, passVars, viewVars
<1>1. /\ \A j \in Journals : j # t => node'[j] = node[j]
      /\ \A i \in Index : node'[t][i] = IF i <= n THEN 0 ELSE node[t][i]
      /\ UNCHANGED <<next, written>>
  BY DEF TypeOK, Families, Delete, DropUpTo
<1>2. \A j \in Journals, i \in Index : node'[j][i] # 0 => node'[j][i] = node[j][i]
  BY <1>1
<1>3. HistoryInv' /\ ViewWhole' /\ ViewFresh' /\ ScanWarned' /\ HolesWarned'
  BY <1>1, <1>2 DEF RogueInv, HistoryInv, ViewWhole, ViewFresh, ScanWarned, HolesWarned,
                    Hole, Held, InGap
<1>4. NodeSuffix'
  BY <1>1, <1>2 DEF RogueInv, NodeSuffix, Index
<1>5. GapsEmpty'
  BY <1>1, <1>2 DEF RogueInv, GapsEmpty, TypeOK, Gap
<1> QED BY <1>3, <1>4, <1>5 DEF RogueInv

LEMMA RogueHead ==
    ASSUME TypeOK, RogueInv, UNCHANGED archiverVars,
           HeadNext \/ \E j \in Journals : RogueTrim(j)
    PROVE  RogueInv'
<1> USE DEF archiverVars, passVars, viewVars
<1>1. ASSUME NEW j \in Journals, Append(j) PROVE RogueInv'
  BY <1>1, RogueAppend
<1>2. ASSUME NEW j \in Journals, Trim(j) \/ RogueTrim(j) PROVE RogueInv'
  BY <1>2, RogueDelete DEF Trim, RogueTrim
<1>3. ASSUME NEW f \in Fixed, Snapshot(f) \/ Settle(f) PROVE RogueInv'
  BY <1>3, RogueIdle DEF Snapshot, Settle
<1>4. ASSUME NEW m \in inflight, Adopt(m) \/ Lose(m) PROVE RogueInv'
  BY <1>4, RogueIdle DEF Adopt, Lose
<1>5. CASE Restart
  BY <1>5, RogueIdle DEF Restart
<1> QED BY <1>1, <1>2, <1>3, <1>4, <1>5 DEF HeadNext

(* A catch-up shows the end of each journal, and no gap's range.            *)
LEMMA RogueCatchUp ==
    ASSUME TypeOK, RogueInv, CatchUp, UNCHANGED <<headVars, archive, warned>>,
           pc' # "scan"
    PROVE  RogueInv'
<1> USE DEF headVars
<1>1. view' = node
  BY DEF CatchUp
<1>2. HistoryInv' /\ NodeSuffix' /\ ViewFresh' /\ ScanWarned'
  BY <1>1 DEF RogueInv, HistoryInv, NodeSuffix, ViewFresh, ScanWarned
<1>3. ViewWhole'
  <2>1. \A j \in Journals, k, m \in Index : (node[j][m] # 0 /\ k < m) => k < next[j]
    BY DEF RogueInv, HistoryInv, TypeOK, Index
  <2> QED BY <1>1, <2>1 DEF RogueInv, ViewWhole, NodeSuffix
<1>4. GapsEmpty' /\ HolesWarned'
  BY <1>1 DEF RogueInv, GapsEmpty, HolesWarned, Hole, Held, InGap
<1> QED BY <1>2, <1>3, <1>4 DEF RogueInv

(* A journal is opened with a warning of what its scan is to jump over:     *)
(* what the view lacks between the archive's tip and its own floor.  The    *)
(* node lacks it too, for good.                                             *)
LEMMA RogueOpen ==
    ASSUME TypeOK, RogueInv, OpenJournal
    PROVE  RogueInv'
<1> USE DEF headVars, viewVars
<1> DEFINE tip == ArchiveTip
           floor == ViewFloor
           gap == GapAt(cur, ArchiveTip, ViewFloor)
<1>1. /\ pc = "journal" /\ pc' = "scan" /\ cur \in Journals
      /\ highest' = tip /\ pos' = Resume(tip, floor) /\ warned' = warned \cup gap
      /\ UNCHANGED <<node, next, written, archive, view, cur>>
  BY DEF OpenJournal, TypeOK
<1>2. /\ tip \in Mark /\ floor \in Mark
      /\ tip # None => tip \in Index /\ archive[cur][tip] # 0
      /\ \A i \in Index : archive[cur][i] # 0 => tip \in Index /\ i <= tip
      /\ floor # None => floor \in Index /\ view[cur][floor] # 0
      /\ \A i \in Index : view[cur][i] # 0 => floor \in Index /\ floor <= i
  BY TipOfFamily, FloorOfFamily DEF ArchiveTip, ViewFloor
<1>3. /\ tip # None => pos' = tip + 1
      /\ gap = IF tip # None /\ floor # None /\ floor > tip + 1
               THEN {[cf |-> cur, expected_from |-> tip + 1, node_floor |-> floor]}
               ELSE {}
  BY <1>1 DEF Resume, GapAt
<1> HIDE DEF tip, floor, gap
<1>4. HistoryInv' /\ NodeSuffix' /\ ViewWhole' /\ ViewFresh'
  BY <1>1 DEF RogueInv, HistoryInv, NodeSuffix, ViewWhole, ViewFresh
<1>5. HolesWarned'
  BY <1>1 DEF RogueInv, HolesWarned, Hole, Held, InGap
<1>6. \A i \in Index : i \in Nat /\ i # None
  BY DEF Index, None
<1>7. ScanWarned'
  <2>1. \A i \in Index : archive[cur][i] # 0 => i < pos' /\ tip # None
    BY <1>2, <1>3, <1>6
  <2>2. ASSUME NEW i \in Index, NEW k \in Index, tip # None, pos' <= i, i < k,
               view[cur][i] = 0, view[cur][k] # 0
        PROVE  InGap(cur, i, warned')
    <3>1. floor \in Index /\ floor <= k /\ view[cur][floor] # 0 /\ floor # None
      BY <1>2, <1>6, <2>2
    <3>2. i < floor
      <4>1. CASE i = floor
        BY <2>2, <3>1, <4>1
      <4>2. CASE floor < i
        BY <1>1, <2>2, <3>1, <4>2 DEF RogueInv, ViewWhole
      <4> QED BY <1>6, <3>1, <4>1, <4>2
    <3>3. tip \in Index /\ pos' = tip + 1
      BY <1>2, <1>3, <2>2
    <3>4. floor > tip + 1
      BY <1>6, <2>2, <3>1, <3>2, <3>3
    <3>5. [cf |-> cur, expected_from |-> tip + 1, node_floor |-> floor] \in warned'
      BY <1>1, <1>3, <2>2, <3>1, <3>4
    <3> QED BY <2>2, <3>2, <3>3, <3>5 DEF InGap
  <2> QED BY <1>1, <1>2, <1>3, <2>1, <2>2 DEF ScanWarned
<1>8. GapsEmpty'
  <2>1. ASSUME NEW g \in gap
        PROVE  /\ g.node_floor <= next[g.cf]
               /\ \A i \in Index :
                     (g.expected_from <= i /\ i < g.node_floor)
                        => node[g.cf][i] = 0 /\ view[g.cf][i] = 0 /\ archive[g.cf][i] = 0
    <3>1. /\ g.cf = cur /\ g.expected_from = tip + 1 /\ g.node_floor = floor
          /\ tip # None /\ floor # None
      BY <1>3, <2>1
    <3>2. tip \in Index /\ floor \in Index /\ view[cur][floor] # 0
      BY <1>2, <3>1
    <3>3. floor < next[cur]
      BY <1>1, <3>2 DEF RogueInv, HistoryInv
    <3>4. floor <= next[cur]
      BY <1>1, <1>6, <3>2, <3>3 DEF TypeOK
    <3>5. ASSUME NEW i \in Index, tip + 1 <= i, i < floor
          PROVE  node[cur][i] = 0 /\ view[cur][i] = 0 /\ archive[cur][i] = 0
      <4>1. view[cur][i] = 0
        BY <1>2, <1>6, <3>2, <3>5
      <4>2. archive[cur][i] = 0
        BY <1>2, <1>6, <3>2, <3>5
      <4>3. node[cur][i] = 0
        BY <1>1, <3>2, <3>5, <4>1 DEF RogueInv, ViewFresh
      <4> QED BY <4>1, <4>2, <4>3
    <3> QED BY <3>1, <3>4, <3>5
  <2> QED BY <1>1, <2>1 DEF RogueInv, GapsEmpty
<1> QED BY <1>4, <1>5, <1>7, <1>8 DEF RogueInv

(* The first entries of what a scan has left go right behind the archive's  *)
(* tip, or behind a gap that was warned of: no other hole comes about.      *)
LEMMA RogueCopy ==
    ASSUME TypeOK, RogueInv, pc = "scan",
           UNCHANGED <<node, next, written, view, warned>>,
           NEW S \in SUBSET Left,
           \A k \in S, i \in Left : i < k => i \in S,
           archive' = [archive EXCEPT ![cur] = Put(@, view[cur], S)]
    PROVE  /\ HistoryInv' /\ NodeSuffix' /\ ViewWhole' /\ ViewFresh'
           /\ GapsEmpty' /\ HolesWarned'
           /\ \A i, k \in Index :
                 (/\ archive[cur][i] = 0 /\ i \notin S /\ k \in S
                  /\ pos <= i /\ i < k) => view[cur][i] = 0
<1>1. cur \in Journals /\ archive \in Families /\ pos \in Int
  BY DEF TypeOK
<1>2. /\ \A i \in Index :
            archive'[cur][i] = IF i \in S THEN view[cur][i] ELSE archive[cur][i]
      /\ \A j \in Journals : j # cur => archive'[j] = archive[j]
  BY <1>1 DEF Families, Put
<1>3. \A i \in S : i \in Index /\ pos <= i /\ view[cur][i] # 0
  BY DEF Left, From, Held
<1>4. \A i \in Index : (view[cur][i] # 0 /\ pos <= i) => i \in Left
  BY DEF Left, From, Held
<1>5. HistoryInv'
  BY <1>2 DEF RogueInv, HistoryInv
<1>6. NodeSuffix' /\ ViewWhole' /\ ViewFresh'
  BY DEF RogueInv, NodeSuffix, ViewWhole, ViewFresh
<1>7. GapsEmpty'
  <2>1. \A j \in Journals, i \in Index :
            (archive[j][i] = 0 /\ view[j][i] = 0) => archive'[j][i] = 0
    BY <1>2
  <2>2. \A g \in warned : g.cf \in Journals
    BY DEF TypeOK, Gap
  <2> QED BY <2>1, <2>2 DEF RogueInv, GapsEmpty
<1>8. \A i, k \in Index :
          (i \notin S /\ k \in S /\ pos <= i /\ i < k) => view[cur][i] = 0
  BY <1>4
<1>9. HolesWarned'
  <2> SUFFICES ASSUME NEW j \in Journals, NEW i \in Index,
                      written[j][i] # 0, archive'[j][i] = 0,
                      NEW b \in Index, archive'[j][b] # 0, b < i,
                      NEW t \in Index, archive'[j][t] # 0, i < t
               PROVE  InGap(j, i, warned)
    BY DEF HolesWarned, Hole, Held, InGap
  <2>1. CASE j # cur
    BY <1>2, <2>1 DEF RogueInv, HolesWarned, Hole, Held
  <2>2. CASE j = cur
    <3>1. archive[cur][i] = 0 /\ i \notin S
      BY <1>2, <1>3, <2>2
    <3>2. ASSUME archive[cur][b] # 0, archive[cur][t] # 0 PROVE InGap(j, i, warned)
      BY <1>1, <2>2, <3>1, <3>2 DEF RogueInv, HolesWarned, Hole, Held
    <3>3. ASSUME archive[cur][t] = 0 PROVE InGap(j, i, warned)
      <4>1. t \in S /\ pos <= t /\ view[cur][t] # 0
        BY <1>2, <1>3, <2>2, <3>3
      <4>2. CASE b \in S
        <5>1. pos <= i
          BY <1>1, <1>3, <4>2 DEF Index
        <5>2. view[cur][i] = 0
          BY <1>8, <3>1, <4>1, <5>1
        <5> QED BY <1>1, <1>3, <4>1, <4>2, <5>2 DEF RogueInv, ViewWhole
      <4>3. CASE b \notin S
        <5>1. archive[cur][b] # 0 /\ highest # None
          BY <1>2, <2>2, <4>3 DEF RogueInv, ScanWarned
        <5>2. highest \in Index /\ pos = highest + 1 /\ archive[cur][highest] # 0
          BY <5>1 DEF RogueInv, ScanWarned
        <5>3. CASE pos <= i
          BY <1>8, <2>2, <3>1, <4>1, <5>1, <5>3 DEF RogueInv, ScanWarned
        <5>4. CASE i < pos
          <6>1. i < highest
            BY <3>1, <5>2, <5>4 DEF Index
          <6> QED BY <1>1, <2>2, <3>1, <5>1, <5>2, <6>1 DEF RogueInv, HolesWarned, Hole, Held
        <5> QED BY <1>1, <5>3, <5>4 DEF Index
      <4> QED BY <4>2, <4>3
    <3>4. ASSUME archive[cur][t] # 0, archive[cur][b] = 0 PROVE InGap(j, i, warned)
      <4>1. b \in S /\ pos <= b
        BY <1>2, <1>3, <2>2, <3>4
      <4>2. t < pos
        BY <3>4 DEF RogueInv, ScanWarned
      <4> QED BY <1>1, <4>1, <4>2 DEF Index
    <3> QED BY <3>2, <3>3, <3>4
  <2> QED BY <2>1, <2>2
<1> QED BY <1>5, <1>6, <1>7, <1>8, <1>9

(* Every step of the archiver keeps the invariant.                          *)
LEMMA RogueArchiver ==
    ASSUME TypeOK, RogueInv, ArchiverNext
    PROVE  RogueInv'
<1> USE DEF headVars, viewVars, passVars
<1>1. CASE Start
  BY <1>1, RogueCatchUp DEF Start
<1>2. ASSUME NEW f \in BOOLEAN, BeginPass(f) PROVE RogueInv'
  BY <1>2, RogueCatchUp DEF BeginPass
<1>3. CASE CommitBatch
  <2>1. PICK m \in Left :
            LET batch == {k \in Left : k <= m}
            IN  /\ archive' = [archive EXCEPT ![cur] = Put(@, view[cur], batch)]
                /\ highest' = m
                /\ pos' = m + 1
    BY <1>3 DEF CommitBatch
  <2> DEFINE S == {k \in Left : k <= m}
  <2>2. /\ S \in SUBSET Left /\ m \in S
        /\ \A k \in S, i \in Left : i < k => i \in S
        /\ \A i \in S : i <= m
        /\ \A i \in Left : i > m \/ i \in S
    BY DEF Left, From, Held, Index
  <2>3. archive' = [archive EXCEPT ![cur] = Put(@, view[cur], S)]
    BY <2>1
  <2> HIDE DEF S
  <2>4. /\ pc = "scan" /\ UNCHANGED <<pc, cur, node, next, written, view, warned>>
        /\ cur \in Journals /\ pos \in Int /\ archive \in Families
        /\ highest' = m /\ pos' = m + 1 /\ m \in Index /\ pos <= m /\ view[cur][m] # 0
    BY <1>3, <2>1 DEF CommitBatch, TypeOK, Left, From, Held
  <2>5. /\ HistoryInv' /\ NodeSuffix' /\ ViewWhole' /\ ViewFresh'
        /\ GapsEmpty' /\ HolesWarned'
    BY <2>2, <2>3, <2>4, RogueCopy
  <2>6. \A i \in Index :
            archive'[cur][i] = IF i \in S THEN view[cur][i] ELSE archive[cur][i]
    BY <2>3, <2>4 DEF Families, Put
  <2>7. \A i \in Index : archive'[cur][i] # 0 => i < pos'
    BY <2>2, <2>4, <2>6 DEF RogueInv, ScanWarned, Index
  <2>8. archive'[cur][m] # 0
    BY <2>2, <2>4, <2>6
  <2>9. \A i, k \in Index :
            (pos' <= i /\ i < k /\ view[cur][k] # 0) => view[cur][i] # 0
    BY <2>4 DEF RogueInv, ViewWhole, Index
  <2>10. ScanWarned'
    BY <2>4, <2>7, <2>8, <2>9 DEF ScanWarned, None, Index
  <2> QED BY <2>5, <2>10 DEF RogueInv
<1>4. CASE FinishJournal
  <2>1. /\ HistoryInv' /\ NodeSuffix' /\ ViewWhole' /\ ViewFresh'
        /\ GapsEmpty' /\ HolesWarned'
    BY <1>4, RogueCopy DEF FinishJournal
  <2>2. ScanWarned'
    BY <1>4 DEF FinishJournal, Advance, ScanWarned
  <2> QED BY <2>1, <2>2 DEF RogueInv
<1>5. CASE CopyFixed
  BY <1>5, RogueIdle DEF CopyFixed
<1>6. CASE ReportPass
  BY <1>6, RogueIdle DEF ReportPass, EndTurn
<1>7. CASE AbandonPass
  BY <1>7, RogueIdle DEF AbandonPass, EndTurn
<1>8. CASE Crash
  <2>1. /\ UNCHANGED <<node, next, written, archive, warned>>
        /\ pc' = "down" /\ view' = Empty
    BY <1>8 DEF Crash, Die
  <2>2. \A j \in Journals, i \in Index : view'[j][i] = 0
    BY <2>1 DEF Empty
  <2>3. HistoryInv' /\ NodeSuffix' /\ ViewWhole' /\ ViewFresh' /\ ScanWarned'
    BY <2>1, <2>2 DEF RogueInv, HistoryInv, NodeSuffix, ViewWhole, ViewFresh, ScanWarned
  <2>4. HolesWarned'
    BY <2>1 DEF RogueInv, HolesWarned, Hole, Held, InGap
  <2>5. GapsEmpty'
    BY <2>1, <2>2 DEF RogueInv, GapsEmpty, TypeOK, Gap
  <2> QED BY <2>3, <2>4, <2>5 DEF RogueInv
<1> QED
  BY <1>1, <1>2, <1>3, <1>4, <1>5, <1>6, <1>7, <1>8, RogueOpen
  DEF ArchiverNext, ArchiverStep, OverflowPass, FailPass

LEMMA RogueInductive == RogueSpec => [](TypeOK /\ RogueInv)
<1>1. Init => TypeOK /\ RogueInv
  BY InitType, InitRogue
<1>2. ASSUME TypeOK, RogueInv, [RogueNext]_vars PROVE TypeOK' /\ RogueInv'
  <2>1. CASE UNCHANGED vars
    <3>1. TypeOK'
      BY <1>2, <2>1 DEF TypeOK, vars, headVars, archiverVars, viewVars, passVars
    <3>2. RogueInv'
      BY <1>2, <2>1, RogueIdle DEF vars, headVars, archiverVars, viewVars, passVars
    <3> QED BY <3>1, <3>2
  <2>2. CASE Next
    BY <1>2, <2>2, HeadType, ArchiverType, RogueHead, RogueArchiver DEF Next
  <2>3. ASSUME NEW t \in Journals, RogueTrim(t), UNCHANGED archiverVars
        PROVE  TypeOK' /\ RogueInv'
    <3>1. PICK n \in Index : Delete(t, n)
      BY <2>3 DEF RogueTrim
    <3>2. DropUpTo(node[t], n) \in [Index -> Generation]
      BY <1>2 DEF TypeOK, Families, DropUpTo, Generation, HeadNodeAssumption
    <3>3. node' \in Families
      BY <1>2, <3>1, <3>2 DEF TypeOK, Delete, Families
    <3>4. TypeOK'
      BY <1>2, <2>3, <3>1, <3>3
      DEF TypeOK, Delete, archiverVars, viewVars, passVars
    <3>5. RogueInv'
      BY <1>2, <2>3, RogueHead
    <3> QED BY <3>4, <3>5
  <2> QED BY <1>2, <2>1, <2>2, <2>3 DEF RogueNext
<1> QED BY <1>1, <1>2, PTL DEF RogueSpec

(* Whatever a node deletes, every hole in the archive was warned of when    *)
(* the pass went over it.                                                   *)
THEOREM EveryHoleWarned == RogueSpec => []HolesWarned
<1>1. RogueInv => HolesWarned
  BY DEF RogueInv
<1> QED BY <1>1, RogueInductive, PTL

(* And every warning is true, then and ever after.                          *)
THEOREM EveryGapReal == RogueSpec => []GapsAreReal
<1>1. TypeOK /\ RogueInv => GapsAreReal
  <2> SUFFICES ASSUME TypeOK, RogueInv, NEW g \in warned,
                      NEW i \in g.expected_from .. g.node_floor - 1
               PROVE  node[g.cf][i] = 0 /\ archive[g.cf][i] = 0
    BY DEF GapsAreReal
  <2>1. g.expected_from \in Index /\ g.node_floor \in Index
    BY DEF TypeOK, Gap
  <2>2. i \in Index /\ g.expected_from <= i /\ i < g.node_floor
    BY <2>1 DEF Index
  <2> QED BY <2>2 DEF RogueInv, GapsEmpty
<1> QED BY <1>1, RogueInductive, PTL
===============================================================================
