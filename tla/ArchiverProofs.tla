---------------------------- MODULE ArchiverProofs ----------------------------
(***************************************************************************)
(* Proofs about Archiver, for every number of journals, every index bound,  *)
(* every batch size and every bound on failures.                            *)
(***************************************************************************)
EXTENDS ArchiverProps, TLAPS, WellFoundedInduction

(* Facts about the operators of Journals.                                   *)

(* A nonempty set of natural numbers has a least member.                    *)
LEMMA LeastNatural ==
    ASSUME NEW S \in SUBSET Nat, S # {}
    PROVE  \E x \in S : \A y \in S : x <= y
<1> DEFINE R == {ss \in Nat \X Nat : ss[1] < ss[2]}
<1>1. R = OpToRel(<, Nat)
  BY Zenon DEF OpToRel
<1>2. IsWellFoundedOn(R, Nat)
  BY <1>1, NatLessThanWellFounded, Zenon
<1>3. PICK x \in S : \A y \in S : ~ (<<y, x>> \in R)
  <2> HIDE DEF R
  <2> QED BY <1>2, WFMin
<1>4. \A y \in S : x <= y
  <2> TAKE y \in S
  <2>1. x \in Nat /\ y \in Nat
    OBVIOUS
  <2>2. y < x => <<y, x>> \in R
    BY <2>1
  <2> QED BY <1>3, <2>1, <2>2
<1> QED BY <1>4

(* Max and Min are the greatest and the least of a nonempty set of indices. *)
LEMMA MinOfIndices ==
    ASSUME NEW S \in SUBSET Index, S # {}
    PROVE  Min(S) \in S /\ \A x \in S : Min(S) <= x
<1>1. \E x \in S : \A y \in S : x <= y
  BY LeastNatural DEF Index
<1> QED BY <1>1 DEF Min

LEMMA MaxOfIndices ==
    ASSUME NEW S \in SUBSET Index, S # {}
    PROVE  Max(S) \in S /\ \A x \in S : Max(S) >= x
<1> DEFINE T == {MaxIndex - x : x \in S}
<1> USE JournalsAssumption
<1>1. T \in SUBSET Nat /\ T # {}
  <2>1. \A x \in S : MaxIndex - x \in Nat
    BY DEF Index, JournalsAssumption
  <2>2. \A t \in T : t \in Nat
    BY <2>1
  <2> QED BY <2>2
<1>2. PICK t \in T : \A u \in T : t <= u
  BY <1>1, LeastNatural
<1>3. PICK x \in S : t = MaxIndex - x
  OBVIOUS
<1>4. \A y \in S : x >= y
  <2> TAKE y \in S
  <2>1. MaxIndex - x <= MaxIndex - y
    BY <1>2, <1>3
  <2> QED BY <2>1 DEF Index, JournalsAssumption
<1> QED BY <1>4 DEF Max

(* What Tip and Floor return: a held index with none above it, or below it, *)
(* or None for an empty family.                                             *)
LEMMA TipOfFamily ==
    ASSUME NEW f
    PROVE  /\ Tip(f) \in Mark
           /\ Tip(f) # None => Tip(f) \in Index /\ f[Tip(f)] # 0
           /\ \A i \in Index : f[i] # 0 => Tip(f) \in Index /\ i <= Tip(f)
<1>1. CASE Held(f) = {}
  BY <1>1 DEF Held, Tip, Mark
<1>2. CASE Held(f) # {}
  <2>1. Max(Held(f)) \in Held(f) /\ \A x \in Held(f) : Max(Held(f)) >= x
    BY <1>2, MaxOfIndices DEF Held
  <2> QED BY <1>2, <2>1, JournalsAssumption DEF Held, Tip, Mark, Index, JournalsAssumption
<1> QED BY <1>1, <1>2

LEMMA FloorOfFamily ==
    ASSUME NEW f
    PROVE  /\ Floor(f) \in Mark
           /\ Floor(f) # None => Floor(f) \in Index /\ f[Floor(f)] # 0
           /\ \A i \in Index : f[i] # 0 => Floor(f) \in Index /\ Floor(f) <= i
<1>1. CASE Held(f) = {}
  BY <1>1 DEF Held, Floor, Mark
<1>2. CASE Held(f) # {}
  <2>1. Min(Held(f)) \in Held(f) /\ \A x \in Held(f) : Min(Held(f)) <= x
    BY <1>2, MinOfIndices DEF Held
  <2> QED BY <1>2, <2>1, JournalsAssumption DEF Held, Floor, Mark, Index, JournalsAssumption
<1> QED BY <1>1, <1>2

(* Entries put into a family: those at S come from g, the others stay.      *)
LEMMA PutEntries ==
    ASSUME NEW f, NEW g, NEW S, NEW i \in Index
    PROVE  /\ i \in S => Put(f, g, S)[i] = g[i]
           /\ i \notin S => Put(f, g, S)[i] = f[i]
<1> QED BY DEF Put

-------------------------------------------------------------------------------
(* Resume points and gaps.                                                  *)

(* The resume point lies within the indices or one past them.               *)
LEMMA ResumeType ==
    ASSUME NEW tip \in Mark, NEW floor \in Mark
    PROVE  Resume(tip, floor) \in 0 .. MaxIndex + 1
<1> QED BY JournalsAssumption DEF Resume, Mark, None, Index, JournalsAssumption

(* A gap a pass finds is a record of type Gap.                              *)
LEMMA GapType ==
    ASSUME NEW j \in Journals, NEW tip \in Mark, NEW floor \in Mark
    PROVE  GapAt(j, tip, floor) \subseteq Gap
<1> QED BY JournalsAssumption DEF GapAt, Gap, Resume, Mark, None, Index, JournalsAssumption

-------------------------------------------------------------------------------
(* Type correctness.                                                        *)

USE JournalsAssumption, HeadNodeAssumption, ArchiverAssumption

(* What the family lookups of a pass return.                                *)
LEMMA LookupTypes ==
    /\ ArchiveTip \in Mark
    /\ ViewFloor \in Mark
    /\ Resume(ArchiveTip, ViewFloor) \in 0 .. MaxIndex + 1
<1> QED BY TipOfFamily, FloorOfFamily, ResumeType DEF ArchiveTip, ViewFloor

(* The initial states are well typed.                                       *)
LEMMA InitType == Init => TypeOK
<1> SUFFICES ASSUME Init PROVE TypeOK
  OBVIOUS
<1>1. PICK lo, hi \in [Journals -> 0 .. MaxStart] :
          /\ \A j \in Journals : hi[j] <= MaxIndex + 1
          /\ node = [j \in Journals |-> [i \in Index |->
                        IF lo[j] <= i /\ i < hi[j] THEN 1 ELSE 0]]
          /\ next = hi
          /\ boot = 1
          /\ snap = [f \in Fixed |-> [j \in Journals |-> hi[j] - 1]]
          /\ adopted = NoMark
          /\ inflight = {}
          /\ written = node
  BY DEF Init, HeadInit
<1>2. node \in Families /\ written \in Families
  BY <1>1 DEF Families, Generation, HeadNodeAssumption
<1>3. next \in [Journals -> 0 .. MaxIndex + 1] /\ snap \in Snapshots
  <2>1. \A j \in Journals : hi[j] \in 0 .. MaxIndex + 1 /\ hi[j] - 1 \in Mark
    BY <1>1 DEF Mark, None, Index, HeadNodeAssumption, JournalsAssumption
  <2> QED BY <1>1, <2>1 DEF Snapshots, Reports
<1>4. NoMark \in Reports /\ Empty \in Families /\ asnap \in Snapshots
  BY DEF Init, ArchiverInit, NoMark, Reports, Mark, Empty, Families, Generation,
         Snapshots, HeadNodeAssumption
<1>5. 1 \in Journals
  BY DEF Journals, JournalsAssumption
<1>6. full \in BOOLEAN /\ lastFull \in BOOLEAN /\ gaps = {} /\ warned = {} /\ flagged = {}
  BY DEF Init, ArchiverInit
<1>7. /\ archive \in Families /\ view \in Families
      /\ viewSnap \in Snapshots /\ watermarks \in Reports
      /\ pc = "down" /\ cur = 1 /\ pos = 0 /\ highest = None /\ faults = 0
  BY <1>4 DEF Init, ArchiverInit
<1>8. adopted \in Reports /\ inflight \subseteq Reports /\ boot \in 1 .. MaxBoots
  BY <1>1, <1>4 DEF HeadNodeAssumption
<1>9. pos \in 0 .. MaxIndex + 1 /\ highest \in Mark /\ cur \in Nat /\ faults \in Nat
  BY <1>7 DEF Mark, JournalsAssumption
<1> QED
  BY <1>2, <1>3, <1>4, <1>5, <1>6, <1>7, <1>8, <1>9 DEF TypeOK

(* A step of the node keeps the types.                                      *)
LEMMA HeadType ==
    ASSUME TypeOK, HeadNext, UNCHANGED archiverVars
    PROVE  TypeOK'
<1> USE DEF archiverVars, passVars, viewVars
<1>1. ASSUME NEW j \in Journals, Append(j) PROVE TypeOK'
  <2>1. next[j] \in Index /\ boot \in Generation
    BY <1>1 DEF TypeOK, Append, Index, Generation
  <2>2. node' \in Families /\ written' \in Families
    BY <1>1, <2>1 DEF TypeOK, Append, Families
  <2>3. next' \in [Journals -> 0 .. MaxIndex + 1]
    BY <1>1, <2>1, JournalsAssumption DEF TypeOK, Append, Index, JournalsAssumption
  <2> QED BY <1>1, <2>2, <2>3 DEF TypeOK, Append
<1>2. ASSUME NEW j \in Journals, Trim(j) PROVE TypeOK'
  <2>1. PICK n \in Index : Delete(j, n)
    BY <1>2 DEF Trim
  <2>2. DropUpTo(node[j], n) \in [Index -> Generation]
    BY DEF TypeOK, Families, DropUpTo, Generation, HeadNodeAssumption
  <2>3. node' \in Families
    BY <2>1, <2>2 DEF TypeOK, Delete, Families
  <2> QED BY <2>1, <2>3 DEF TypeOK, Delete
<1>3. ASSUME NEW f \in Fixed, Snapshot(f) PROVE TypeOK'
  <2>1. Tips \in Reports
    BY DEF TypeOK, Tips, Reports, Mark, None, Index, JournalsAssumption
  <2>2. snap' \in Snapshots
    BY <1>3, <2>1 DEF TypeOK, Snapshot, Snapshots
  <2> QED BY <1>3, <2>2 DEF TypeOK, Snapshot
<1>7. ASSUME NEW f \in Fixed, Settle(f) PROVE TypeOK'
  <2>1. NoMark \in Reports
    BY DEF NoMark, Reports, Mark
  <2>2. snap' \in Snapshots
    BY <1>7, <2>1 DEF TypeOK, Settle, Snapshots
  <2> QED BY <1>7, <2>2 DEF TypeOK, Settle
<1>4. ASSUME NEW m \in inflight, Adopt(m) PROVE TypeOK'
  <2>1. m \in Reports
    BY DEF TypeOK
  <2>2. adopted' \in Reports
    BY <1>4, <2>1 DEF TypeOK, Adopt, Reports
  <2> QED BY <1>4, <2>2 DEF TypeOK, Adopt
<1>5. ASSUME NEW m \in inflight, Lose(m) PROVE TypeOK'
  BY <1>5 DEF TypeOK, Lose
<1>6. CASE Restart
  <2>1. NoMark \in Reports
    BY DEF NoMark, Reports, Mark
  <2> QED BY <1>6, <2>1 DEF TypeOK, Restart, HeadNodeAssumption
<1> QED BY <1>1, <1>2, <1>3, <1>4, <1>5, <1>6, <1>7 DEF HeadNext

(* A pass that is over leaves well-typed locals.                            *)
LEMMA ForgetType ==
    ASSUME ForgetPass, NEW p \in {"down", "idle", "exited"}, pc' = p
    PROVE  /\ full' \in BOOLEAN /\ gaps' = {}
           /\ cur' \in Nat /\ (pc' = "fixed" => cur' \in Fixed)
           /\ pc' # "fixed" => cur' \in Journals
           /\ pos' \in 0 .. MaxIndex + 1
           /\ highest' \in Mark
           /\ watermarks' \in Reports
<1>1. full' \in BOOLEAN /\ gaps' = {}
  BY DEF ForgetPass
<1>2. cur' = 1 /\ pos' = 0 /\ highest' = None /\ watermarks' = NoMark
  BY DEF ForgetPass
<1> QED
  BY <1>1, <1>2, JournalsAssumption
  DEF Journals, Mark, NoMark, Reports, JournalsAssumption

(* A step of the archiver keeps the types.                                  *)
LEMMA ArchiverType ==
    ASSUME TypeOK, ArchiverNext
    PROVE  TypeOK'
<1> USE DEF headVars, passVars, viewVars
<1>1. CASE Start
  <2>1. lastFull' \in BOOLEAN
    BY <1>1 DEF Start
  <2> QED BY <1>1, <2>1 DEF TypeOK, Start, CatchUp
<1>2. ASSUME NEW f \in BOOLEAN, BeginPass(f) PROVE TypeOK'
  <2>1. full' \in BOOLEAN
    BY <1>2 DEF BeginPass
  <2> QED BY <1>2, <2>1 DEF TypeOK, BeginPass, CatchUp
<1>3. CASE OpenJournal
  <2>1. GapAt(cur, ArchiveTip, ViewFloor) \subseteq Gap
    BY <1>3, LookupTypes, GapType DEF TypeOK, OpenJournal
  <2> QED BY <1>3, <2>1, LookupTypes DEF TypeOK, OpenJournal
<1>4. CASE CommitBatch
  <2>1. PICK m \in Left :
            LET batch == {k \in Left : k <= m}
            IN  /\ archive' = [archive EXCEPT ![cur] = Put(@, view[cur], batch)]
                /\ highest' = m
                /\ pos' = m + 1
    BY <1>4 DEF CommitBatch
  <2>2. m \in Index
    BY DEF Left, From, Held
  <2>3. \A S : cur \in Journals => Put(archive[cur], view[cur], S) \in [Index -> Generation]
    BY DEF TypeOK, Families, Put
  <2>4. archive' \in Families
    BY <1>4, <2>1, <2>3 DEF TypeOK, CommitBatch, Families
  <2>5. highest' \in Mark /\ pos' \in 0 .. MaxIndex + 1
    BY <2>1, <2>2, JournalsAssumption DEF Mark, Index, JournalsAssumption
  <2> QED BY <1>4, <2>4, <2>5 DEF TypeOK, CommitBatch
<1>5. CASE FinishJournal
  <2>1. Left \in SUBSET Index
    BY DEF Left, From, Held
  <2>2. JournalMark(highest, Left) \in Mark
    BY <2>1, MaxOfIndices DEF TypeOK, JournalMark, Mark
  <2>3. watermarks' \in Reports
    BY <1>5, <2>2 DEF TypeOK, FinishJournal, Reports
  <2>4. Put(archive[cur], view[cur], Left) \in [Index -> Generation]
    BY <1>5 DEF TypeOK, Families, Put, FinishJournal
  <2>5. archive' \in Families
    BY <1>5, <2>4 DEF TypeOK, FinishJournal, Families
  <2>6. highest' \in Mark /\ pos' \in 0 .. MaxIndex + 1
    BY <1>5, JournalsAssumption DEF FinishJournal, Mark, JournalsAssumption
  <2>7. /\ pc' \in {"journal", "fixed", "report"} /\ cur' \in Nat
        /\ pc' = "fixed" => cur' \in Fixed
        /\ pc' # "fixed" => cur' \in Journals
    BY <1>5, JournalsAssumption, HeadNodeAssumption
    DEF TypeOK, FinishJournal, Advance, Journals, Fixed, JournalsAssumption,
        HeadNodeAssumption
  <2> QED BY <1>5, <2>3, <2>5, <2>6, <2>7 DEF TypeOK, FinishJournal
<1>6. CASE CopyFixed
  <2>1. viewSnap[cur] \in Reports /\ asnap[cur] \in Reports
    BY <1>6 DEF TypeOK, CopyFixed, Snapshots
  <2>2. asnap' \in Snapshots
    BY <1>6, <2>1 DEF TypeOK, CopyFixed, Snapshots, FixedRow
  <2>3. /\ pc' \in {"fixed", "report"} /\ cur' \in Nat
        /\ pc' = "fixed" => cur' \in Fixed
        /\ pc' # "fixed" => cur' \in Journals
    BY <1>6, JournalsAssumption, HeadNodeAssumption
    DEF TypeOK, CopyFixed, Journals, Fixed, JournalsAssumption, HeadNodeAssumption
  <2> QED BY <1>6, <2>2, <2>3 DEF TypeOK, CopyFixed
<1>7. CASE ReportPass
  <2>1. inflight' \subseteq Reports
    BY <1>7 DEF TypeOK, ReportPass, SendWatermark, Post
  <2>2. pc' \in {"idle", "exited"} /\ lastFull' \in BOOLEAN
    BY <1>7 DEF TypeOK, ReportPass, EndTurn
  <2> QED BY <1>7, <2>1, <2>2, ForgetType DEF TypeOK, ReportPass
<1>8. ASSUME AbandonPass, faults' \in Nat PROVE TypeOK'
  <2>1. pc' \in {"idle", "exited"}
    BY <1>8 DEF AbandonPass, EndTurn
  <2> QED BY <1>8, <2>1, ForgetType DEF TypeOK, AbandonPass
<1>9. CASE OverflowPass \/ FailPass
  BY <1>8, <1>9 DEF OverflowPass, FailPass, TypeOK
<1>10. CASE Crash
  <2>1. NoMark \in Reports /\ Empty \in Families
    BY HeadNodeAssumption
    DEF NoMark, Reports, Mark, Empty, Families, Generation, HeadNodeAssumption
  <2>2. view' \in Families /\ viewSnap' \in Snapshots /\ lastFull' \in BOOLEAN
    BY <1>10, <2>1 DEF Crash, Die, Snapshots
  <2>3. pc' = "down" /\ faults' \in Nat
    BY <1>10 DEF Crash, Die, TypeOK
  <2> QED BY <1>10, <2>2, <2>3, ForgetType DEF TypeOK, Crash, Die
<1> QED
  BY <1>1, <1>2, <1>3, <1>4, <1>5, <1>6, <1>7, <1>9, <1>10
  DEF ArchiverNext, ArchiverStep

(* The model is well typed in every reachable state: no index, watermark or *)
(* cursor of a pass leaves its range, whatever fails.                       *)
THEOREM TypeCorrect == Spec => []TypeOK
<1>1. ASSUME TypeOK, [Next]_vars PROVE TypeOK'
  <2>1. CASE UNCHANGED vars
    BY <1>1, <2>1
    DEF TypeOK, vars, headVars, archiverVars, viewVars, passVars
  <2>2. CASE Next
    BY <1>1, <2>2, HeadType, ArchiverType DEF Next
  <2> QED BY <1>1, <2>1, <2>2
<1> QED BY InitType, <1>1, PTL DEF Spec

-------------------------------------------------------------------------------
(* The inductive invariant behind the safety properties.                    *)

(* A mark no higher than what was written, with all below it archived.      *)
Sound(m) ==
    \A j \in Journals :
        /\ m[j] < next[j]
        /\ \A i \in Index : (i <= m[j] /\ written[j][i] # 0) => Archived(j, i)

(* What was written lies below the next index, and every copy agrees with it. *)
HistoryInv ==
    \A j \in Journals, i \in Index :
        /\ written[j][i] # 0 => i < next[j]
        /\ node[j][i] # 0 => node[j][i] = written[j][i]
        /\ archive[j][i] # 0 => archive[j][i] = written[j][i]
        /\ view[j][i] # 0 => view[j][i] = written[j][i]

(* What the view lacks below an entry it shows is archived: it was trimmed. *)
ViewInv ==
    \A j \in Journals, i, k \in Index :
        (view[j][k] # 0 /\ i < k /\ written[j][i] # 0 /\ view[j][i] = 0)
            => Archived(j, i)

(* A scan has archived everything below its position.                       *)
ScanInv ==
    pc = "scan" =>
        /\ pos <= next[cur]
        /\ highest < pos
        /\ \A i \in Index :
              (i < pos /\ written[cur][i] # 0) => Archived(cur, i)

(* Every watermark in the pass's report, under way, or adopted is sound.    *)
MarkInv == Sound(watermarks) /\ Sound(adopted) /\ \A m \in inflight : Sound(m)

SafetyInv == /\ HistoryInv /\ NoLoss /\ ArchivedInOrder /\ ViewInv
             /\ ScanInv /\ MarkInv

(* It holds at the start: the archive is empty and nothing is adopted.      *)
LEMMA InitSafety == Init => SafetyInv
<1> SUFFICES ASSUME Init PROVE SafetyInv
  OBVIOUS
<1>1. PICK lo, hi \in [Journals -> 0 .. MaxStart] :
          /\ node = [j \in Journals |-> [i \in Index |->
                        IF lo[j] <= i /\ i < hi[j] THEN 1 ELSE 0]]
          /\ next = hi
          /\ adopted = NoMark
          /\ inflight = {}
          /\ written = node
  BY DEF Init, HeadInit
<1>2. /\ archive = Empty /\ view = Empty /\ pc = "down" /\ watermarks = NoMark
  BY DEF Init, ArchiverInit
<1>3. HistoryInv /\ NoLoss
  BY <1>1, <1>2, JournalsAssumption, HeadNodeAssumption
  DEF HistoryInv, NoLoss, Empty, Index, JournalsAssumption, HeadNodeAssumption
<1>4. ArchivedInOrder /\ ViewInv /\ ScanInv
  BY <1>2 DEF ArchivedInOrder, ViewInv, ScanInv, Empty
<1>5. Sound(NoMark)
  BY <1>1, HeadNodeAssumption DEF Sound, NoMark, None, Index, HeadNodeAssumption
<1> QED BY <1>1, <1>2, <1>3, <1>4, <1>5 DEF SafetyInv, MarkInv

(* A step that touches no journal, on either side, and puts no mark the     *)
(* invariant does not already know about, keeps it.                         *)
LEMMA IdleStep ==
    ASSUME SafetyInv, UNCHANGED <<node, next, written, archive, view>>,
           pc' # "scan", Sound(watermarks'), Sound(adopted'), \A m \in inflight' : Sound(m)
    PROVE  SafetyInv'
<1>1. HistoryInv' /\ NoLoss' /\ ArchivedInOrder' /\ ViewInv'
  BY DEF SafetyInv, HistoryInv, NoLoss, ArchivedInOrder, ViewInv, Archived
<1>2. ScanInv'
  BY DEF ScanInv
<1>3. MarkInv'
  BY DEF MarkInv, Sound, Archived
<1> QED BY <1>1, <1>2, <1>3 DEF SafetyInv

(* A report that names nothing is sound.                                    *)
LEMMA NoMarkSound == TypeOK => Sound(NoMark)
<1> QED BY JournalsAssumption DEF TypeOK, Sound, NoMark, None, Index, JournalsAssumption

(* A batch is some of what the scan has left.                               *)
LEMMA BatchLeft ==
    ASSUME CommitBatch
    PROVE  \E S \in SUBSET Left : archive' = [archive EXCEPT ![cur] = Put(@, view[cur], S)]
<1>1. PICK m \in Left :
          archive' = [archive EXCEPT ![cur] = Put(@, view[cur], {k \in Left : k <= m})]
  BY DEF CommitBatch
<1> DEFINE batch == {k \in Left : k <= m}
<1>2. batch \in SUBSET Left
  OBVIOUS
<1> HIDE DEF batch
<1> QED BY <1>1, <1>2 DEF batch

(* Copying the first entries a scan has left keeps the archive faithful and *)
(* in order, and takes nothing from it.                                     *)
LEMMA CopyStep ==
    ASSUME TypeOK, SafetyInv, pc = "scan", UNCHANGED <<node, next, written, view>>,
           NEW S \in SUBSET Left,
           \A k \in S, i \in Left : i < k => i \in S,
           archive' = [archive EXCEPT ![cur] = Put(@, view[cur], S)]
    PROVE  /\ HistoryInv' /\ NoLoss' /\ ArchivedInOrder' /\ ViewInv'
           /\ \A j \in Journals, i \in Index :
                 (written[j][i] # 0 /\ Archived(j, i)) => Archived(j, i)'
           /\ \A k \in S, i \in Index :
                 (i <= k /\ written[cur][i] # 0) => archive'[cur][i] = written[cur][i]
<1>1. cur \in Journals /\ archive \in Families /\ view \in Families /\ pos \in Int
  BY DEF TypeOK
<1>2. \A k \in Left : k \in Index /\ view[cur][k] # 0 /\ view[cur][k] = written[cur][k] /\ pos <= k
  BY <1>1 DEF Left, From, Held, SafetyInv, HistoryInv
<1>3. \A i \in Index : (view[cur][i] # 0 /\ pos <= i) => i \in Left
  BY DEF Left, From, Held
<1>4. \A i \in Index : archive'[cur][i] =
          IF i \in S THEN written[cur][i] ELSE archive[cur][i]
  BY <1>1, <1>2 DEF Families, Put
<1>5. \A j \in Journals : j # cur => archive'[j] = archive[j]
  BY <1>1 DEF Families
<1>6. \A j \in Journals, i \in Index :
          (written[j][i] # 0 /\ Archived(j, i)) => Archived(j, i)'
  BY <1>4, <1>5 DEF Archived
<1>7. \A k \in S, i \in Index :
          (i <= k /\ written[cur][i] # 0) => archive'[cur][i] = written[cur][i]
  <2> SUFFICES ASSUME NEW k \in S, NEW i \in Index, i <= k, written[cur][i] # 0
               PROVE  archive'[cur][i] = written[cur][i]
    OBVIOUS
  <2>0. k \in Index /\ view[cur][k] # 0 /\ pos <= k
    BY <1>2
  <2>1. CASE i < pos
    BY <1>1, <1>6, <2>1 DEF SafetyInv, ScanInv, Archived
  <2>2. CASE pos <= i /\ view[cur][i] # 0
    <3>1. i \in S
      <4>1. i = k \/ i < k
        BY <2>0 DEF Index
      <4> QED BY <1>3, <2>2, <4>1
    <3> QED BY <1>4, <3>1
  <2>3. CASE pos <= i /\ view[cur][i] = 0
    <3>1. i < k
      BY <2>0, <2>3 DEF Index
    <3>2. Archived(cur, i)
      BY <1>1, <2>0, <2>3, <3>1 DEF SafetyInv, ViewInv
    <3> QED BY <1>1, <1>6, <3>2 DEF Archived
  <2>4. i < pos \/ pos <= i
    BY <1>1 DEF Index
  <2> QED BY <2>1, <2>2, <2>3, <2>4
<1>8. HistoryInv'
  BY <1>4, <1>5 DEF SafetyInv, HistoryInv
<1>9. NoLoss'
  BY <1>6 DEF SafetyInv, NoLoss
<1>10. ArchivedInOrder'
  <2> SUFFICES ASSUME NEW j \in Journals, NEW i \in Index, NEW k \in Index,
                      archive'[j][k] # 0, i < k, written[j][i] # 0
               PROVE  Archived(j, i)'
    BY DEF ArchivedInOrder
  <2>1. CASE archive[j][k] # 0
    BY <1>6, <2>1 DEF SafetyInv, ArchivedInOrder
  <2>2. CASE archive[j][k] = 0
    <3>1. j = cur /\ k \in S
      BY <1>4, <1>5, <2>2
    <3> QED BY <1>7, <3>1 DEF Archived, Index
  <2> QED BY <2>1, <2>2
<1>11. ViewInv'
  BY <1>6 DEF SafetyInv, ViewInv
<1> QED BY <1>6, <1>7, <1>8, <1>9, <1>10, <1>11

(* An append is beyond everything copied, shown or marked so far.           *)
LEMMA AppendSafety ==
    ASSUME TypeOK, SafetyInv, NEW a \in Journals, Append(a), UNCHANGED archiverVars
    PROVE  SafetyInv'
<1> USE DEF archiverVars, passVars, viewVars
<1> DEFINE n == next[a]
<1>1. n \in Index /\ boot # 0
  BY DEF TypeOK, Append, Index
<1>2. /\ archive \in Families /\ view \in Families /\ node \in Families
      /\ written \in Families /\ next \in [Journals -> Nat]
      /\ watermarks \in Reports /\ adopted \in Reports /\ inflight \subseteq Reports
      /\ (pc = "scan" => cur \in Journals) /\ pos \in Nat
  BY DEF TypeOK
<1>3. written[a][n] = 0 /\ node[a][n] = 0 /\ archive[a][n] = 0 /\ view[a][n] = 0
  BY <1>1, <1>2 DEF SafetyInv, HistoryInv, Index
<1>4. /\ written'[a][n] = boot /\ node'[a][n] = boot /\ next'[a] = n + 1
      /\ \A j \in Journals, i \in Index : (j # a \/ i # n) =>
            written'[j][i] = written[j][i] /\ node'[j][i] = node[j][i]
      /\ \A j \in Journals : j # a => next'[j] = next[j]
      /\ UNCHANGED <<archive, view, pc, pos, cur, highest, watermarks, adopted,
                     inflight>>
  BY <1>1, <1>2 DEF Append, Families
<1> HIDE DEF n
<1>5. \A j \in Journals, i \in Index :
          (written[j][i] # 0 /\ Archived(j, i)) => Archived(j, i)'
  BY <1>3, <1>4 DEF Archived
<1>6. HistoryInv'
  <2>1. \A i \in Index : written[a][i] # 0 => i < n
    BY DEF SafetyInv, HistoryInv, n
  <2>3. n \in Int /\ \A i \in Index : i \in Int
    BY <1>1 DEF Index
  <2> SUFFICES ASSUME NEW j \in Journals, NEW i \in Index
               PROVE  /\ written'[j][i] # 0 => i < next'[j]
                      /\ node'[j][i] # 0 => node'[j][i] = written'[j][i]
                      /\ archive'[j][i] # 0 => archive'[j][i] = written'[j][i]
                      /\ view'[j][i] # 0 => view'[j][i] = written'[j][i]
    BY DEF HistoryInv
  <2>4. CASE j # a
    BY <1>4, <2>4 DEF SafetyInv, HistoryInv
  <2>5. CASE j = a
    <3>1. written'[a][i] # 0 => i < n + 1
      BY <1>4, <2>1, <2>3
    <3>3. /\ node'[a][i] # 0 => node'[a][i] = written'[a][i]
          /\ archive'[a][i] # 0 => archive'[a][i] = written'[a][i]
          /\ view'[a][i] # 0 => view'[a][i] = written'[a][i]
      BY <1>1, <1>3, <1>4 DEF SafetyInv, HistoryInv
    <3> QED BY <1>4, <2>5, <3>1, <3>3
  <2> QED BY <2>4, <2>5
<1>7. NoLoss'
  BY <1>4, <1>5 DEF SafetyInv, NoLoss
<1>8. \A j \in Journals, k \in Index :
          (archive[j][k] # 0 \/ view[j][k] # 0) => k < next[j]
  BY DEF SafetyInv, HistoryInv
<1>9. ArchivedInOrder' /\ ViewInv'
  <2>1. \A j \in Journals, i, k \in Index :
            (k < next[j] /\ i < k) => written'[j][i] = written[j][i]
    BY <1>1, <1>2, <1>4 DEF Index, n
  <2> QED BY <1>4, <1>5, <1>8, <2>1 DEF SafetyInv, ArchivedInOrder, ViewInv
<1>10. ScanInv'
  <2> SUFFICES ASSUME pc = "scan" PROVE ScanInv'
    BY <1>4 DEF ScanInv
  <2>1. cur \in Journals /\ pos <= next[cur]
    BY <1>2 DEF SafetyInv, ScanInv
  <2>2. pos <= next'[cur]
    BY <1>2, <1>4, <2>1 DEF n
  <2>3. \A i \in Index : i < pos => written'[cur][i] = written[cur][i]
    BY <1>2, <1>4, <2>1 DEF Index, n
  <2>4. \A i \in Index : (i < pos /\ written'[cur][i] # 0) => Archived(cur, i)'
    BY <1>4, <2>3 DEF SafetyInv, ScanInv, Archived
  <2> QED BY <1>4, <2>2, <2>4 DEF SafetyInv, ScanInv
<1>11. ASSUME NEW m \in Reports, Sound(m)
       PROVE  /\ \A j \in Journals : m[j] < next'[j]
              /\ \A j \in Journals, i \in Index :
                    (i <= m[j] /\ written'[j][i] # 0) => Archived(j, i)'
  <2> SUFFICES ASSUME NEW j \in Journals
               PROVE  /\ m[j] < next'[j]
                      /\ \A i \in Index :
                            (i <= m[j] /\ written'[j][i] # 0) => Archived(j, i)'
    OBVIOUS
  <2>1. m[j] \in Int /\ m[j] < next[j]
    BY <1>11 DEF Sound, Reports, Mark, None, Index
  <2>2. m[j] < next'[j]
    BY <1>2, <1>4, <2>1 DEF n
  <2>3. \A i \in Index : i <= m[j] => written'[j][i] = written[j][i]
    BY <1>2, <1>4, <2>1 DEF Index, n
  <2>4. \A i \in Index : (i <= m[j] /\ written'[j][i] # 0) => Archived(j, i)'
    BY <1>4, <1>11, <2>3 DEF Sound, Archived
  <2> QED BY <2>2, <2>4
<1>12. MarkInv'
  BY <1>2, <1>4, <1>11 DEF SafetyInv, MarkInv, Sound
<1> QED
  BY <1>4, <1>6, <1>7, <1>9, <1>10, <1>12 DEF SafetyInv

(* What may be deleted is archived, so no entry goes from both sides.       *)
LEMMA TrimSafety ==
    ASSUME TypeOK, SafetyInv, NEW t \in Journals, Trim(t), UNCHANGED archiverVars
    PROVE  SafetyInv'
<1> USE DEF archiverVars, passVars, viewVars
<1>1. PICK n \in Index : n <= adopted[t] /\ Delete(t, n)
  BY DEF Trim
<1>2. /\ \A j \in Journals : j # t => node'[j] = node[j]
      /\ \A i \in Index : node'[t][i] = IF i <= n THEN 0 ELSE node[t][i]
      /\ UNCHANGED <<next, adopted, inflight, written>>
  BY <1>1 DEF TypeOK, Families, Delete, DropUpTo
<1>3. \A i \in Index : (i <= n /\ written[t][i] # 0) => Archived(t, i)
  <2>1. n \in Int /\ adopted[t] \in Int
    BY DEF TypeOK, Reports, Mark, None, Index
  <2> QED BY <1>1, <2>1 DEF SafetyInv, MarkInv, Sound, Index
<1>4. NoLoss'
  BY <1>2, <1>3 DEF SafetyInv, NoLoss, Archived
<1>5. HistoryInv'
  BY <1>2 DEF SafetyInv, HistoryInv
<1> QED
  BY <1>2, <1>4, <1>5
  DEF SafetyInv, ArchivedInOrder, ViewInv, ScanInv, MarkInv, Sound, Archived

(* No other step of the node touches a journal, and each takes over marks   *)
(* that were sound.                                                         *)
LEMMA HeadSafety ==
    ASSUME TypeOK, SafetyInv, HeadNext, UNCHANGED archiverVars
    PROVE  SafetyInv'
<1> USE DEF archiverVars, passVars, viewVars
<1>1. ASSUME UNCHANGED <<node, next, written>>, Sound(adopted'),
             \A m \in inflight' : Sound(m)
      PROVE  SafetyInv'
  BY <1>1
  DEF SafetyInv, HistoryInv, NoLoss, ArchivedInOrder, ViewInv, ScanInv, MarkInv,
      Sound, Archived
<1>2. ASSUME NEW f \in Fixed, Snapshot(f) PROVE SafetyInv'
  BY <1>1, <1>2 DEF Snapshot, SafetyInv, MarkInv
<1>6. ASSUME NEW f \in Fixed, Settle(f) PROVE SafetyInv'
  BY <1>1, <1>6 DEF Settle, SafetyInv, MarkInv
<1>3. ASSUME NEW m \in inflight, Adopt(m) PROVE SafetyInv'
  <2>1. Sound(m) /\ Sound(adopted)
    BY DEF SafetyInv, MarkInv
  <2>2. Sound(adopted')
    BY <1>3, <2>1 DEF Adopt, Sound
  <2> QED BY <1>1, <1>3, <2>2 DEF Adopt, SafetyInv, MarkInv
<1>4. ASSUME NEW m \in inflight, Lose(m) PROVE SafetyInv'
  BY <1>1, <1>4 DEF Lose, SafetyInv, MarkInv
<1>5. CASE Restart
  BY <1>1, <1>5, NoMarkSound DEF Restart, SafetyInv, MarkInv
<1> QED BY <1>2, <1>3, <1>4, <1>5, <1>6, AppendSafety, TrimSafety DEF HeadNext

(* A catch-up shows the node's journals, and what they lack is archived.    *)
LEMMA CatchUpSafety ==
    ASSUME TypeOK, SafetyInv, CatchUp, pc' # "scan",
           UNCHANGED <<headVars, archive, watermarks>>
    PROVE  SafetyInv'
<1> USE DEF headVars
<1>1. view' = node
  BY DEF CatchUp
<1>2. HistoryInv' /\ NoLoss' /\ ArchivedInOrder'
  BY <1>1 DEF SafetyInv, HistoryInv, NoLoss, ArchivedInOrder, Archived
<1>3. ViewInv'
  BY <1>1 DEF SafetyInv, ViewInv, NoLoss, Archived
<1>4. ScanInv' /\ MarkInv'
  BY DEF SafetyInv, ScanInv, MarkInv, Sound, Archived
<1> QED BY <1>2, <1>3, <1>4 DEF SafetyInv

(* A journal is opened at a point below which all is archived.              *)
LEMMA OpenSafety ==
    ASSUME TypeOK, SafetyInv, OpenJournal
    PROVE  SafetyInv'
<1> USE DEF headVars, viewVars
<1> DEFINE tip == ArchiveTip
           floor == ViewFloor
<1>1. cur \in Journals /\ cur' = cur /\ next[cur] \in Nat
  BY DEF OpenJournal, TypeOK
<1>2. /\ tip \in Mark /\ floor \in Mark
      /\ tip # None => tip \in Index /\ archive[cur][tip] # 0
      /\ \A i \in Index : archive[cur][i] # 0 => tip \in Index /\ i <= tip
      /\ floor # None => floor \in Index /\ view[cur][floor] # 0
      /\ \A i \in Index : view[cur][i] # 0 => floor \in Index /\ floor <= i
  BY TipOfFamily, FloorOfFamily DEF ArchiveTip, ViewFloor
<1>3. /\ highest' = tip /\ pos' = Resume(tip, floor)
      /\ UNCHANGED <<node, next, written, adopted, inflight, archive, view,
                     watermarks>>
  BY DEF OpenJournal
<1> HIDE DEF tip, floor
<1>5. /\ pos' <= next[cur] /\ tip < pos'
      /\ \A i \in Index : (i < pos' /\ written[cur][i] # 0) => Archived(cur, i)
  <2>1. CASE tip # None
    <3>1. tip \in Index /\ pos' = tip + 1 /\ written[cur][tip] = archive[cur][tip]
      BY <1>1, <1>2, <1>3, <2>1 DEF Resume, SafetyInv, HistoryInv
    <3>2. tip < next[cur]
      BY <1>1, <1>2, <2>1, <3>1 DEF SafetyInv, HistoryInv
    <3>3. \A i \in Index : i < tip \/ i = tip \/ ~(i < pos')
      BY <3>1 DEF Index
    <3>4. \A i \in Index : (i < tip /\ written[cur][i] # 0) => Archived(cur, i)
      BY <1>1, <1>2, <2>1, <3>1 DEF SafetyInv, ArchivedInOrder
    <3>5. pos' <= next[cur] /\ tip < pos'
      BY <1>1, <3>1, <3>2 DEF Index
    <3> QED BY <3>1, <3>3, <3>4, <3>5 DEF Archived
  <2>2. CASE tip = None /\ floor # None
    <3>1. floor \in Index /\ pos' = floor /\ view[cur][floor] # 0
      BY <1>2, <1>3, <2>2 DEF Resume
    <3>2. floor < next[cur]
      BY <1>1, <3>1 DEF SafetyInv, HistoryInv
    <3>3. \A i \in Index : i < floor => view[cur][i] = 0
      BY <1>2, <3>1 DEF Index
    <3>4. \A i \in Index : (i < floor /\ written[cur][i] # 0) => Archived(cur, i)
      BY <1>1, <3>1, <3>3 DEF SafetyInv, ViewInv
    <3> QED BY <1>1, <2>2, <3>1, <3>2, <3>4 DEF Index, None
  <2>3. CASE tip = None /\ floor = None
    BY <1>1, <1>3, <2>3 DEF Resume, Index, None
  <2> QED BY <2>1, <2>2, <2>3
<1>6. ScanInv'
  BY <1>1, <1>3, <1>5 DEF ScanInv, Archived
<1>7. HistoryInv' /\ NoLoss' /\ ArchivedInOrder' /\ ViewInv'
  BY <1>3 DEF SafetyInv, HistoryInv, NoLoss, ArchivedInOrder, ViewInv, Archived
<1>8. MarkInv'
  BY <1>3 DEF SafetyInv, MarkInv, Sound, Archived
<1> QED BY <1>6, <1>7, <1>8 DEF SafetyInv

(* Marks stay sound when the archive only gains.                            *)
LEMMA SoundStays ==
    ASSUME UNCHANGED <<next, written>>,
           \A j \in Journals, i \in Index :
               (written[j][i] # 0 /\ Archived(j, i)) => Archived(j, i)',
           NEW m, Sound(m)
    PROVE  \A j \in Journals :
               /\ m[j] < next'[j]
               /\ \A i \in Index :
                     (i <= m[j] /\ written'[j][i] # 0) => Archived(j, i)'
<1> QED BY DEF Sound

(* A committed batch moves the scan on to the entry behind it.              *)
LEMMA CommitSafety ==
    ASSUME TypeOK, SafetyInv, CommitBatch
    PROVE  SafetyInv'
<1> USE DEF headVars, viewVars
<1>1. PICK m \in Left :
          /\ archive' = [archive EXCEPT ![cur] = Put(@, view[cur], {k \in Left : k <= m})]
          /\ highest' = m /\ pos' = m + 1
  BY DEF CommitBatch
<1>2. /\ pc = "scan" /\ pc' = "scan" /\ cur' = cur
      /\ UNCHANGED <<node, next, written, adopted, inflight, view, watermarks>>
  BY DEF CommitBatch
<1>3. cur \in Journals /\ next[cur] \in Nat
  BY <1>2 DEF TypeOK
<1> DEFINE S == {k \in Left : k <= m}
<1>4. Left \in SUBSET Index
  BY DEF Left, From, Held
<1>5. m \in S /\ S \in SUBSET Left /\ m \in Index
  BY <1>4 DEF Index
<1>6. \A k \in S, i \in Left : i < k => i \in S
  BY <1>4, <1>5 DEF Index
<1>7. archive' = [archive EXCEPT ![cur] = Put(@, view[cur], S)]
  BY <1>1
<1> HIDE DEF S
<1>8. /\ HistoryInv' /\ NoLoss' /\ ArchivedInOrder' /\ ViewInv'
      /\ \A j \in Journals, i \in Index :
            (written[j][i] # 0 /\ Archived(j, i)) => Archived(j, i)'
      /\ \A k \in S, i \in Index :
            (i <= k /\ written[cur][i] # 0) => archive'[cur][i] = written[cur][i]
  BY <1>2, <1>5, <1>6, <1>7, CopyStep
<1>9. m < next[cur]
  <2>1. view[cur][m] # 0
    BY DEF Left, From, Held
  <2> QED BY <1>3, <1>5, <2>1 DEF SafetyInv, HistoryInv
<1>10. ScanInv'
  <2>1. pos' <= next'[cur'] /\ highest' < pos'
    BY <1>1, <1>2, <1>3, <1>5, <1>9 DEF Index
  <2>2. \A i \in Index : i < pos' => i <= m
    BY <1>1, <1>5 DEF Index
  <2> QED BY <1>2, <1>5, <1>8, <2>1, <2>2 DEF ScanInv, Archived
<1>11. MarkInv'
  BY <1>2, <1>8, SoundStays DEF SafetyInv, MarkInv, Sound
<1> QED BY <1>8, <1>10, <1>11 DEF SafetyInv

(* A finished journal has all the view shows, and its mark says no more.    *)
LEMMA FinishSafety ==
    ASSUME TypeOK, SafetyInv, FinishJournal
    PROVE  SafetyInv'
<1> USE DEF headVars, viewVars
<1>1. /\ pc = "scan" /\ pc' # "scan"
      /\ archive' = [archive EXCEPT ![cur] = Put(@, view[cur], Left)]
      /\ watermarks' = [watermarks EXCEPT ![cur] = JournalMark(highest, Left)]
      /\ UNCHANGED <<node, next, written, adopted, inflight, view>>
  BY DEF FinishJournal, Advance
<1>2. cur \in Journals /\ next[cur] \in Nat /\ watermarks \in Reports /\ highest \in Mark
      /\ pos \in Nat
  BY <1>1 DEF TypeOK
<1>3. Left \in SUBSET Index
  BY DEF Left, From, Held
<1>4. /\ HistoryInv' /\ NoLoss' /\ ArchivedInOrder' /\ ViewInv'
      /\ \A j \in Journals, i \in Index :
            (written[j][i] # 0 /\ Archived(j, i)) => Archived(j, i)'
      /\ \A k \in Left, i \in Index :
            (i <= k /\ written[cur][i] # 0) => archive'[cur][i] = written[cur][i]
  BY <1>1, CopyStep
<1> DEFINE top == JournalMark(highest, Left)
<1>5. /\ top < next[cur]
      /\ \A i \in Index :
            (i <= top /\ written[cur][i] # 0) => archive'[cur][i] = written[cur][i]
  <2>1. CASE Left = {}
    <3>1. top = highest
      BY <2>1 DEF JournalMark
    <3>2. top < pos /\ pos <= next[cur]
      BY <1>1, <3>1 DEF SafetyInv, ScanInv
    <3>3. top \in Int
      BY <1>2, <3>1 DEF Mark, None, Index
    <3>4. \A i \in Index : i <= top => i < pos
      BY <1>2, <3>2, <3>3 DEF Index
    <3>5. \A i \in Index : (i < pos /\ written[cur][i] # 0) => Archived(cur, i)
      BY <1>1 DEF SafetyInv, ScanInv
    <3>6. top < next[cur]
      BY <1>2, <3>2, <3>3
    <3> HIDE DEF top
    <3> QED BY <1>2, <1>4, <3>4, <3>5, <3>6, <1>1 DEF Archived
  <2>2. CASE Left # {}
    <3>1. top \in Left
      BY <1>3, <2>2, MaxOfIndices DEF JournalMark
    <3>2. view[cur][top] # 0 /\ top \in Index
      BY <3>1 DEF Left, From, Held
    <3>3. top < next[cur]
      BY <1>2, <3>2 DEF SafetyInv, HistoryInv
    <3> QED BY <1>4, <3>1, <3>3
  <2> QED BY <2>1, <2>2
<1>6. ScanInv'
  BY <1>1 DEF ScanInv
<1>7. Sound(watermarks)'
  <2> HIDE DEF top
  <2>1. watermarks'[cur] = top
    BY <1>1, <1>2 DEF Reports, top
  <2>2. \A j \in Journals : j # cur => watermarks'[j] = watermarks[j]
    BY <1>1, <1>2 DEF Reports
  <2>3. Sound(watermarks)
    BY DEF SafetyInv, MarkInv
  <2> SUFFICES ASSUME NEW j \in Journals
               PROVE  /\ watermarks'[j] < next[j]
                      /\ \A i \in Index : (i <= watermarks'[j] /\ written[j][i] # 0)
                            => archive'[j][i] = written[j][i]
    BY <1>1 DEF Sound, Archived
  <2>4. CASE j = cur
    BY <1>5, <2>1, <2>4
  <2>5. CASE j # cur
    BY <1>1, <1>4, <2>2, <2>3, <2>5 DEF Sound, Archived
  <2> QED BY <2>4, <2>5
<1>8. MarkInv'
  BY <1>1, <1>4, <1>7, SoundStays DEF SafetyInv, MarkInv, Sound
<1> QED BY <1>4, <1>6, <1>8 DEF SafetyInv

(* Every step of the archiver keeps the invariant.                          *)
LEMMA ArchiverSafety ==
    ASSUME TypeOK, SafetyInv, ArchiverNext
    PROVE  SafetyInv'
<1> USE DEF headVars, viewVars, passVars
<1>1. CASE Start
  BY <1>1, CatchUpSafety DEF Start
<1>2. ASSUME NEW f \in BOOLEAN, BeginPass(f) PROVE SafetyInv'
  BY <1>2, CatchUpSafety DEF BeginPass
<1>3. CASE CopyFixed
  <2>1. /\ UNCHANGED <<node, next, written, archive, view, watermarks, adopted, inflight>>
        /\ pc' # "scan"
    BY <1>3 DEF CopyFixed
  <2> QED BY <2>1, IdleStep DEF SafetyInv, MarkInv
<1>4. CASE ReportPass
  <2>1. /\ UNCHANGED <<node, next, written, archive, view, adopted>>
        /\ pc' # "scan" /\ watermarks' = NoMark
    BY <1>4 DEF ReportPass, ForgetPass, EndTurn
  <2>2. inflight' \subseteq inflight \cup {watermarks}
    BY <1>4 DEF ReportPass, SendWatermark, Post
  <2>3. Sound(watermarks') /\ Sound(adopted') /\ \A m \in inflight' : Sound(m)
    BY <2>1, <2>2, NoMarkSound DEF SafetyInv, MarkInv
  <2> QED BY <2>1, <2>3, IdleStep
<1>5. CASE AbandonPass
  <2>1. /\ UNCHANGED <<node, next, written, archive, view, adopted, inflight>>
        /\ pc' # "scan" /\ watermarks' = NoMark
    BY <1>5 DEF AbandonPass, ForgetPass, EndTurn
  <2>2. Sound(watermarks') /\ Sound(adopted') /\ \A m \in inflight' : Sound(m)
    BY <2>1, NoMarkSound DEF SafetyInv, MarkInv
  <2> QED BY <2>1, <2>2, IdleStep
<1>6. CASE Crash
  <2>1. /\ UNCHANGED <<node, next, written, archive, adopted, inflight>>
        /\ pc' # "scan" /\ watermarks' = NoMark /\ view' = Empty
    BY <1>6 DEF Crash, Die, ForgetPass
  <2>2. \A j \in Journals, i \in Index : view'[j][i] = 0
    BY <2>1 DEF Empty
  <2>3. HistoryInv' /\ NoLoss' /\ ArchivedInOrder' /\ ViewInv' /\ ScanInv'
    BY <2>1, <2>2
    DEF SafetyInv, HistoryInv, NoLoss, ArchivedInOrder, ViewInv, ScanInv, Archived
  <2>4. Sound(NoMark) /\ Sound(adopted) /\ \A m \in inflight : Sound(m)
    BY NoMarkSound DEF SafetyInv, MarkInv
  <2>5. MarkInv'
    BY <2>1, <2>4 DEF MarkInv, Sound, Archived
  <2> QED BY <2>3, <2>5 DEF SafetyInv
<1> QED
  BY <1>1, <1>2, <1>3, <1>4, <1>5, <1>6, OpenSafety, CommitSafety, FinishSafety
  DEF ArchiverNext, ArchiverStep, OverflowPass, FailPass

(* The invariant holds in every reachable state.                            *)
LEMMA SafetyInductive == Spec => []SafetyInv
<1>1. ASSUME TypeOK, SafetyInv, [Next]_vars PROVE SafetyInv'
  <2>1. CASE UNCHANGED vars
    BY <1>1, <2>1
    DEF vars, headVars, archiverVars, viewVars, passVars, SafetyInv, HistoryInv,
        NoLoss, ArchivedInOrder, ViewInv, ScanInv, MarkInv, Sound, Archived
  <2>2. CASE Next
    BY <1>1, <2>2, HeadSafety, ArchiverSafety DEF Next
  <2> QED BY <1>1, <2>1, <2>2
<1> QED BY InitSafety, TypeCorrect, <1>1, PTL DEF Spec

(* Nothing the node ever wrote is lost: it is in the node's store or in the *)
(* archive, for any number of journals, any batch size, any crashes of the  *)
(* archiver, and any loss or reordering of reports.                         *)
THEOREM NothingLost == Spec => []NoLoss
<1>1. SafetyInv => NoLoss
  BY DEF SafetyInv
<1> QED BY <1>1, SafetyInductive, PTL

(* Whatever watermark the node holds or may still receive, all at or below  *)
(* it is durably archived.                                                  *)
THEOREM WatermarksCovered == Spec => []WatermarkCovered
<1>1. SafetyInv => WatermarkCovered
  BY DEF SafetyInv, MarkInv, Sound, WatermarkCovered, Covered
<1> QED BY <1>1, SafetyInductive, PTL

(* The archive has no hole below its tip, so its tip is a resume point.     *)
THEOREM ArchiveInOrder == Spec => []ArchivedInOrder
<1>1. SafetyInv => ArchivedInOrder
  BY DEF SafetyInv
<1> QED BY <1>1, SafetyInductive, PTL

===============================================================================
