------------------------------ MODULE PassProofs ------------------------------
(***************************************************************************)
(* Proofs about what a pass leaves behind: the snapshots in the archive are *)
(* backed by its journals, a complete pass is complete, and archive and     *)
(* node together are a store with retention.                                *)
(***************************************************************************)
EXTENDS ArchiverProofs

USE JournalsAssumption, HeadNodeAssumption, ArchiverAssumption

(* The journals the running pass is through with.                           *)
Done(j) == \/ pc \in {"fixed", "report"}
           \/ pc \in {"journal", "scan"} /\ j < cur

(* No row of a fixed family, on any side, tells of an entry that is yet to  *)
(* be written.                                                              *)
RowsInRange ==
    \A f \in Fixed, j \in Journals :
        snap[f][j] < next[j] /\ viewSnap[f][j] < next[j] /\ asnap[f][j] < next[j]

(* What the rows of the view tell of, the view shows or the archive has:    *)
(* they are of one moment.                                                  *)
ViewBacked ==
    \A f \in Fixed, j \in Journals, i \in Index :
        (i <= viewSnap[f][j] /\ written[j][i] # 0)
            => view[j][i] = written[j][i] \/ Archived(j, i)

JournalsCopied ==
    \A j \in Journals, i \in Index :
        (Done(j) /\ view[j][i] # 0) => archive[j][i] = view[j][i]

(* The rows come after the journals, on a full pass, one after the other.   *)
RowsCopied ==
    /\ pc = "fixed" => full /\ \A f \in Fixed : f < cur => Copied(f, viewSnap)
    /\ (pc = "report" /\ full) => \A f \in Fixed : Copied(f, viewSnap)

PassInv == /\ RowsInRange /\ ViewBacked /\ SnapshotBacked
           /\ JournalsCopied /\ RowsCopied
           /\ (pc \in {"down", "idle", "exited"} => cur = 1)

(* At the start there is nothing in the archive and nothing in view.        *)
LEMMA InitPass == Init => PassInv
<1> SUFFICES ASSUME Init PROVE PassInv
  OBVIOUS
<1>1. PICK lo, hi \in [Journals -> 0 .. MaxStart] :
          /\ next = hi
          /\ snap = [f \in Fixed |-> [j \in Journals |-> hi[j] - 1]]
  BY DEF Init, HeadInit
<1>2. /\ asnap = [f \in Fixed |-> NoMark] /\ viewSnap = asnap
      /\ pc = "down" /\ cur = 1
  BY DEF Init, ArchiverInit
<1>3. \A j \in Journals : hi[j] \in Nat /\ NoMark[j] = -1
  BY HeadNodeAssumption DEF NoMark, None, HeadNodeAssumption
<1>4. RowsInRange
  BY <1>1, <1>2, <1>3 DEF RowsInRange
<1>5. ViewBacked /\ SnapshotBacked
  BY <1>2, <1>3 DEF ViewBacked, SnapshotBacked, Index
<1>6. JournalsCopied /\ RowsCopied
  BY <1>2 DEF JournalsCopied, RowsCopied, Done
<1> QED BY <1>2, <1>4, <1>5, <1>6 DEF PassInv

(* No step of the node makes a row untrue: what it appends lies behind all  *)
(* that any row tells of.                                                   *)
LEMMA HeadPass ==
    ASSUME TypeOK, SafetyInv, PassInv, HeadNext, UNCHANGED archiverVars
    PROVE  PassInv'
<1> USE DEF archiverVars, passVars, viewVars
<1>1. ASSUME NEW a \in Journals, Append(a) PROVE PassInv'
  <2> DEFINE n == next[a]
  <2>1. n \in Index /\ next \in [Journals -> Nat] /\ written \in Families
        /\ snap \in Snapshots /\ viewSnap \in Snapshots /\ asnap \in Snapshots
    BY <1>1 DEF TypeOK, Append, Index
  <2>2. /\ next'[a] = n + 1 /\ \A j \in Journals : j # a => next'[j] = next[j]
        /\ \A j \in Journals, i \in Index :
              (j # a \/ i # n) => written'[j][i] = written[j][i]
        /\ UNCHANGED <<snap, viewSnap, asnap, archive, view, pc, cur, full>>
    BY <1>1, <2>1 DEF Append, Families
  <2>3. \A j \in Journals : next[j] <= next'[j] /\ next[j] \in Int /\ next'[j] \in Int
    BY <2>1, <2>2
  <2>4. \A f \in Fixed, j \in Journals :
            snap[f][j] \in Int /\ viewSnap[f][j] \in Int /\ asnap[f][j] \in Int
    BY <2>1 DEF Snapshots, Reports, Mark, None, Index
  <2>5. \A f \in Fixed, j \in Journals, i \in Index :
            (i <= viewSnap[f][j] \/ i <= asnap[f][j]) => written'[j][i] = written[j][i]
    BY <2>1, <2>2, <2>4 DEF PassInv, RowsInRange, Index
  <2> HIDE DEF n
  <2>6. RowsInRange'
    BY <2>2, <2>3, <2>4 DEF PassInv, RowsInRange
  <2>7. ViewBacked' /\ SnapshotBacked'
    BY <2>2, <2>5 DEF PassInv, ViewBacked, SnapshotBacked, Archived
  <2>8. JournalsCopied' /\ RowsCopied'
    BY <2>2 DEF PassInv, JournalsCopied, RowsCopied, Done, Copied
  <2> QED BY <2>2, <2>6, <2>7, <2>8 DEF PassInv
<1>2. ASSUME UNCHANGED <<next, written>>,
             \A f \in Fixed, j \in Journals : snap'[f][j] < next[j]
      PROVE  PassInv'
  <2>1. RowsInRange'
    BY <1>2 DEF PassInv, RowsInRange
  <2>2. ViewBacked' /\ SnapshotBacked' /\ JournalsCopied' /\ RowsCopied'
    BY <1>2 DEF PassInv, ViewBacked, SnapshotBacked, JournalsCopied, RowsCopied,
                Done, Copied, Archived
  <2> QED BY <2>1, <2>2 DEF PassInv
<1>3. ASSUME NEW f \in Fixed, Snapshot(f) PROVE PassInv'
  <2>1. \A j \in Journals : Tips[j] < next[j]
    BY DEF Tips, TypeOK
  <2>2. \A g \in Fixed : snap'[g] = IF g = f THEN Tips ELSE snap[g]
    BY <1>3 DEF Snapshot, TypeOK, Snapshots
  <2> QED BY <1>2, <1>3, <2>1, <2>2 DEF Snapshot, PassInv, RowsInRange
<1>4. ASSUME NEW f \in Fixed, Settle(f) PROVE PassInv'
  <2>1. \A j \in Journals : NoMark[j] < next[j]
    BY DEF NoMark, None, TypeOK
  <2>2. \A g \in Fixed : snap'[g] = IF g = f THEN NoMark ELSE snap[g]
    BY <1>4 DEF Settle, TypeOK, Snapshots
  <2> QED BY <1>2, <1>4, <2>1, <2>2 DEF Settle, PassInv, RowsInRange
<1>5. ASSUME UNCHANGED <<next, written, snap>> PROVE PassInv'
  BY <1>2, <1>5 DEF PassInv, RowsInRange
<1>6. ASSUME NEW j \in Journals, Trim(j) PROVE PassInv'
  BY <1>5, <1>6 DEF Trim, Delete
<1>7. ASSUME NEW m \in inflight, Adopt(m) \/ Lose(m) PROVE PassInv'
  BY <1>5, <1>7 DEF Adopt, Lose
<1>8. CASE Restart
  BY <1>5, <1>8 DEF Restart
<1> QED BY <1>1, <1>3, <1>4, <1>6, <1>7, <1>8 DEF HeadNext

(* A pass that is over makes no claim on its view.                          *)
LEMMA OverPass ==
    ASSUME PassInv, UNCHANGED <<next, written, archive, snap, asnap, view, viewSnap>>,
           pc' \in {"down", "idle", "exited"}, cur' = 1
    PROVE  PassInv'
<1>1. RowsInRange' /\ ViewBacked' /\ SnapshotBacked'
  BY DEF PassInv, RowsInRange, ViewBacked, SnapshotBacked, Archived
<1>2. JournalsCopied' /\ RowsCopied'
  BY DEF JournalsCopied, RowsCopied, Done
<1> QED BY <1>1, <1>2 DEF PassInv

(* A catch-up shows journals and rows of one moment, and nothing is lost.   *)
LEMMA CatchUpPass ==
    ASSUME TypeOK, SafetyInv, PassInv, CatchUp, UNCHANGED <<headVars, archive, asnap>>,
           pc' \in {"idle", "journal"}, cur' = 1
    PROVE  PassInv'
<1> USE DEF headVars
<1>1. view' = node /\ viewSnap' = snap
  BY DEF CatchUp
<1>2. RowsInRange' /\ SnapshotBacked'
  BY <1>1 DEF PassInv, RowsInRange, SnapshotBacked, Archived
<1>3. ViewBacked'
  BY <1>1 DEF SafetyInv, NoLoss, ViewBacked, Archived
<1>4. JournalsCopied' /\ RowsCopied'
  <2>1. \A j \in Journals : ~ Done(j)'
    BY DEF Done, Journals
  <2> QED BY <2>1 DEF JournalsCopied, RowsCopied
<1> QED BY <1>2, <1>3, <1>4 DEF PassInv

(* Entries that are copied stay copied, and make no row untrue.             *)
LEMMA CopyPass ==
    ASSUME TypeOK, SafetyInv, PassInv, pc = "scan",
           UNCHANGED <<next, written, snap, asnap, view, viewSnap, full>>,
           NEW S \in SUBSET Left,
           archive' = [archive EXCEPT ![cur] = Put(@, view[cur], S)]
    PROVE  /\ RowsInRange' /\ ViewBacked' /\ SnapshotBacked'
           /\ \A j \in Journals, i \in Index :
                 (view[j][i] # 0 /\ (archive[j][i] = view[j][i] \/ (j = cur /\ i \in S)))
                    => archive'[j][i] = view[j][i]
<1>1. cur \in Journals /\ archive \in Families
  BY DEF TypeOK
<1>2. /\ \A i \in Index :
            archive'[cur][i] = IF i \in S THEN view[cur][i] ELSE archive[cur][i]
      /\ \A j \in Journals : j # cur => archive'[j] = archive[j]
  BY <1>1 DEF Families, Put
<1>3. \A i \in S : i \in Index /\ view[cur][i] = written[cur][i]
  BY <1>1 DEF Left, From, Held, SafetyInv, HistoryInv
<1>4. \A j \in Journals, i \in Index : Archived(j, i) => Archived(j, i)'
  BY <1>2, <1>3 DEF Archived
<1>5. RowsInRange' /\ ViewBacked' /\ SnapshotBacked'
  BY <1>4 DEF PassInv, RowsInRange, ViewBacked, SnapshotBacked
<1>6. \A j \in Journals, i \in Index :
          (view[j][i] # 0 /\ (archive[j][i] = view[j][i] \/ (j = cur /\ i \in S)))
             => archive'[j][i] = view[j][i]
  BY <1>2
<1> QED BY <1>5, <1>6

(* A finished journal is a copied one, and so is every one before it.       *)
LEMMA FinishPass ==
    ASSUME TypeOK, SafetyInv, PassInv, FinishJournal
    PROVE  PassInv'
<1> USE DEF headVars, viewVars
<1>1. /\ pc = "scan" /\ cur \in Journals
      /\ archive' = [archive EXCEPT ![cur] = Put(@, view[cur], Left)]
      /\ UNCHANGED <<next, written, snap, asnap, view, viewSnap, full>>
  BY DEF FinishJournal, TypeOK
<1>2. /\ RowsInRange' /\ ViewBacked' /\ SnapshotBacked'
      /\ \A j \in Journals, i \in Index :
            (view[j][i] # 0 /\ (archive[j][i] = view[j][i] \/ (j = cur /\ i \in Left)))
               => archive'[j][i] = view[j][i]
  BY <1>1, CopyPass
<1>3. \A i \in Index : view[cur][i] # 0 => archive[cur][i] = view[cur][i] \/ i \in Left
  <2> TAKE i \in Index
  <2> HAVE view[cur][i] # 0
  <2>1. pos \in Int /\ written[cur][i] = view[cur][i]
    BY <1>1 DEF TypeOK, SafetyInv, HistoryInv
  <2>2. CASE i < pos
    BY <1>1, <2>1, <2>2 DEF SafetyInv, ScanInv, Archived
  <2>3. CASE i >= pos
    BY <2>3 DEF Left, From, Held
  <2> QED BY <2>1, <2>2, <2>3 DEF Index
<1>4. \A j \in Journals, i \in Index :
          (j <= cur /\ view[j][i] # 0) => archive'[j][i] = view[j][i]
  <2>1. \A j \in Journals : j <= cur => j < cur \/ j = cur
    BY <1>1 DEF Journals
  <2>2. \A j \in Journals, i \in Index :
            (j < cur /\ view[j][i] # 0) => archive[j][i] = view[j][i]
    BY <1>1 DEF PassInv, JournalsCopied, Done
  <2>3. \A i \in Index : view[cur][i] # 0 => archive'[cur][i] = view[cur][i]
    BY <1>1, <1>2, <1>3
  <2>4. \A j \in Journals, i \in Index :
            (j < cur /\ view[j][i] # 0) => archive'[j][i] = view[j][i]
    BY <1>2, <2>2
  <2> QED BY <2>1, <2>3, <2>4
<1>5. \/ pc' = "journal" /\ cur' = cur + 1
      \/ cur = NumJournals /\ full /\ pc' = "fixed" /\ cur' = 1
      \/ cur = NumJournals /\ (~full \/ Fixed = {}) /\ pc' = "report"
  <2>1. ~(NumFixed > 0) => Fixed = {}
    BY DEF Fixed, HeadNodeAssumption
  <2> QED BY <2>1 DEF FinishJournal, Advance
<1>6. \A j \in Journals : Done(j)' => j <= cur
  BY <1>1, <1>5 DEF Done, Journals
<1>7. JournalsCopied'
  BY <1>1, <1>4, <1>6 DEF JournalsCopied
<1>8. RowsCopied'
  BY <1>1, <1>5 DEF RowsCopied, Fixed
<1> QED BY <1>2, <1>5, <1>7, <1>8 DEF PassInv

(* A row that is copied is backed: the journals went before it.             *)
LEMMA RowPass ==
    ASSUME TypeOK, SafetyInv, PassInv, CopyFixed
    PROVE  PassInv'
<1> USE DEF headVars, viewVars
<1>1. /\ pc = "fixed" /\ cur \in Fixed /\ full
      /\ UNCHANGED <<next, written, snap, archive, view, viewSnap, full>>
      /\ \A f \in Fixed : asnap'[f] = IF f = cur /\ viewSnap[cur] # NoMark
                                      THEN viewSnap[cur] ELSE asnap[f]
      /\ \/ cur < NumFixed /\ cur' = cur + 1 /\ pc' = "fixed"
         \/ cur = NumFixed /\ pc' = "report"
  BY DEF CopyFixed, FixedRow, TypeOK, Snapshots, PassInv, RowsCopied
<1>2. RowsInRange' /\ ViewBacked'
  BY <1>1 DEF PassInv, RowsInRange, ViewBacked, Archived
<1>3. SnapshotBacked'
  <2> SUFFICES ASSUME NEW j \in Journals, NEW i \in Index,
                      i <= viewSnap[cur][j], written[j][i] # 0
               PROVE  Archived(j, i)
    BY <1>1 DEF PassInv, SnapshotBacked, Archived
  <2>1. view[j][i] = written[j][i] \/ Archived(j, i)
    BY <1>1 DEF PassInv, ViewBacked
  <2>2. view[j][i] # 0 => archive[j][i] = view[j][i]
    BY <1>1 DEF PassInv, JournalsCopied, Done
  <2> QED BY <2>1, <2>2 DEF Archived
<1>4. JournalsCopied'
  BY <1>1 DEF PassInv, JournalsCopied, Done
<1>5. RowsCopied'
  <2>1. \A f \in Fixed : f <= cur => f < cur \/ f = cur
    BY <1>1 DEF Fixed
  <2>2. \A f \in Fixed : f <= cur => Copied(f, viewSnap)'
    BY <1>1, <2>1 DEF PassInv, RowsCopied, Copied
  <2>3. \A f \in Fixed : (pc' = "report" \/ f < cur') => f <= cur
    BY <1>1 DEF Fixed
  <2> QED BY <1>1, <2>2, <2>3 DEF RowsCopied
<1> QED BY <1>1, <1>2, <1>3, <1>4, <1>5 DEF PassInv

(* Every step of the archiver keeps the invariant.                          *)
LEMMA ArchiverPass ==
    ASSUME TypeOK, SafetyInv, PassInv, ArchiverNext
    PROVE  PassInv'
<1> USE DEF headVars, viewVars, passVars
<1>1. CASE Start
  BY <1>1, CatchUpPass DEF Start, PassInv
<1>2. ASSUME NEW f \in BOOLEAN, BeginPass(f) PROVE PassInv'
  BY <1>2, CatchUpPass DEF BeginPass, PassInv
<1>3. CASE OpenJournal
  BY <1>3
  DEF OpenJournal, PassInv, RowsInRange, ViewBacked, SnapshotBacked, JournalsCopied,
      RowsCopied, Done, Archived
<1>4. CASE CommitBatch
  <2>1. PICK S \in SUBSET Left : archive' = [archive EXCEPT ![cur] = Put(@, view[cur], S)]
    BY <1>4, BatchLeft
  <2>2. /\ pc = "scan" /\ UNCHANGED <<pc, cur, next, written, snap, asnap, view, viewSnap, full>>
    BY <1>4 DEF CommitBatch
  <2>3. /\ RowsInRange' /\ ViewBacked' /\ SnapshotBacked'
        /\ \A j \in Journals, i \in Index :
              (view[j][i] # 0 /\ archive[j][i] = view[j][i]) => archive'[j][i] = view[j][i]
    BY <2>1, <2>2, CopyPass
  <2>4. JournalsCopied' /\ RowsCopied'
    BY <2>2, <2>3 DEF PassInv, JournalsCopied, RowsCopied, Done
  <2> QED BY <2>2, <2>3, <2>4 DEF PassInv
<1>5. CASE ReportPass
  BY <1>5, OverPass DEF ReportPass, ForgetPass, EndTurn
<1>6. CASE AbandonPass
  BY <1>6, OverPass DEF AbandonPass, ForgetPass, EndTurn
<1>7. CASE Crash
  <2>1. /\ pc' = "down" /\ cur' = 1 /\ view' = Empty
        /\ viewSnap' = [f \in Fixed |-> NoMark]
        /\ UNCHANGED <<next, written, archive, snap, asnap>>
    BY <1>7 DEF Crash, Die, ForgetPass
  <2>2. \A j \in Journals : NoMark[j] = -1 /\ NoMark[j] < next[j]
    BY DEF NoMark, None, TypeOK
  <2>3. RowsInRange' /\ ViewBacked' /\ SnapshotBacked'
    BY <2>1, <2>2 DEF PassInv, RowsInRange, ViewBacked, SnapshotBacked, Archived, Index
  <2>4. JournalsCopied' /\ RowsCopied'
    BY <2>1 DEF JournalsCopied, RowsCopied, Done
  <2> QED BY <2>1, <2>3, <2>4 DEF PassInv
<1> QED
  BY <1>1, <1>2, <1>3, <1>4, <1>5, <1>6, <1>7, FinishPass, RowPass
  DEF ArchiverNext, ArchiverStep, OverflowPass, FailPass

(* The invariant holds in every reachable state.                            *)
LEMMA PassInductive == Spec => []PassInv
<1>1. ASSUME TypeOK, SafetyInv, PassInv, [Next]_vars PROVE PassInv'
  <2>1. CASE UNCHANGED vars
    BY <1>1, <2>1
    DEF vars, headVars, archiverVars, viewVars, passVars, PassInv, RowsInRange,
        ViewBacked, SnapshotBacked, JournalsCopied, RowsCopied, Done, Copied, Archived
  <2>2. CASE Next
    BY <1>1, <2>2, HeadPass, ArchiverPass DEF Next
  <2> QED BY <1>1, <2>1, <2>2
<1> QED BY InitPass, TypeCorrect, SafetyInductive, <1>1, PTL DEF Spec

(* Whatever pass, crash or failure it ends on, the archive's rows of fixed  *)
(* families tell of no journal entry that the archive lacks.                *)
THEOREM SnapshotsBacked == Spec => []SnapshotBacked
<1>1. PassInv => SnapshotBacked
  BY DEF PassInv
<1> QED BY <1>1, PassInductive, PTL

(* A pass that is about to be reported has copied all that its one catch-up *)
(* showed, the rows of the fixed families too if it is a full one.          *)
THEOREM PassesComplete == Spec => []PassComplete
<1>1. PassInv => PassComplete
  BY DEF PassInv, PassComplete, JournalsCopied, RowsCopied, Done
<1> QED BY <1>1, PassInductive, PTL

-------------------------------------------------------------------------------
(* Archive and node together are a store with retention (Retention).        *)

(* What is saved and what is discarded of a journal, said without Min.      *)
Bounded ==
    \A j \in Journals :
        /\ Discarded[j] \in Nat /\ Saved[j] \in Nat
        /\ Discarded[j] <= Saved[j] /\ Saved[j] <= next[j]
        /\ \A i \in Index :
              /\ node[j][i] # 0 => Discarded[j] <= i
              /\ i \in Missing(j) => Saved[j] <= i
        /\ Discarded[j] = next[j] \/ (Discarded[j] \in Index /\ node[j][Discarded[j]] # 0)
        /\ Saved[j] = next[j] \/ Saved[j] \in Missing(j)

LEMMA RetentionBounds == TypeOK /\ SafetyInv => Bounded
<1> SUFFICES ASSUME TypeOK, SafetyInv, NEW j \in Journals
             PROVE  /\ Discarded[j] \in Nat /\ Saved[j] \in Nat
                    /\ Discarded[j] <= Saved[j] /\ Saved[j] <= next[j]
                    /\ \A i \in Index :
                          /\ node[j][i] # 0 => Discarded[j] <= i
                          /\ i \in Missing(j) => Saved[j] <= i
                    /\ \/ Discarded[j] = next[j]
                       \/ Discarded[j] \in Index /\ node[j][Discarded[j]] # 0
                    /\ Saved[j] = next[j] \/ Saved[j] \in Missing(j)
  BY DEF Bounded
<1>1. next[j] \in Nat
  BY DEF TypeOK
<1>2. /\ Discarded[j] = IF Kept(j) = None THEN next[j] ELSE Kept(j)
      /\ Saved[j] = IF Missing(j) = {} THEN next[j] ELSE Min(Missing(j))
  BY DEF Discarded, Saved
<1>3. \A i \in Index : (node[j][i] # 0 \/ i \in Missing(j)) => i < next[j]
  BY <1>1 DEF SafetyInv, HistoryInv, Missing
<1>4. /\ Discarded[j] \in Nat /\ Discarded[j] <= next[j]
      /\ \A i \in Index : node[j][i] # 0 => Discarded[j] <= i
      /\ \/ Discarded[j] = next[j]
         \/ Discarded[j] \in Index /\ node[j][Discarded[j]] # 0
  <2>1. /\ Kept(j) # None => Kept(j) \in Index /\ node[j][Kept(j)] # 0
        /\ \A i \in Index : node[j][i] # 0 => Kept(j) \in Index /\ Kept(j) <= i
    BY FloorOfFamily DEF Kept
  <2>2. \A i \in Index : i \in Nat /\ i # None
    BY DEF Index, None
  <2> QED BY <1>1, <1>2, <1>3, <2>1, <2>2
<1>5. /\ Saved[j] \in Nat /\ Saved[j] <= next[j]
      /\ \A i \in Missing(j) : Saved[j] <= i
      /\ Saved[j] = next[j] \/ Saved[j] \in Missing(j)
  <2>1. Missing(j) \subseteq Index
    BY DEF Missing
  <2>2. CASE Missing(j) = {}
    BY <1>1, <1>2, <2>2
  <2>3. CASE Missing(j) # {}
    <3>1. Saved[j] \in Missing(j) /\ \A i \in Missing(j) : Saved[j] <= i
      BY <1>2, <2>1, <2>3, MinOfIndices
    <3>2. Saved[j] \in Nat
      BY <2>1, <3>1 DEF Index
    <3> QED BY <1>1, <1>3, <2>1, <3>1, <3>2
  <2> QED BY <2>2, <2>3
<1>6. \A i \in Missing(j) : i \in Index /\ node[j][i] # 0
  BY DEF Missing, SafetyInv, NoLoss
<1> QED BY <1>4, <1>5, <1>6

(* At the start the one is the other: nothing that is left is archived.     *)
LEMMA RetentionInit == Init => Retained!Init
<1> SUFFICES ASSUME Init PROVE Retained!Init
  OBVIOUS
<1>1. Bounded
  BY InitType, InitSafety, RetentionBounds
<1>2. written = node /\ archive = Empty
  BY DEF Init, HeadInit, ArchiverInit
<1>3. Saved = Discarded
  <2>1. \A j \in Journals : Missing(j) = Held(node[j])
    BY <1>2 DEF Missing, Held, Archived, Empty
  <2>2. \A j \in Journals : Held(node[j]) = {} <=> Kept(j) = None
    BY FloorOfFamily DEF Kept, Held, Floor, None, Index
  <2>3. \A j \in Journals : Held(node[j]) # {} => Kept(j) = Min(Held(node[j]))
    BY DEF Kept, Floor
  <2>4. \A j \in Journals :
            (IF Missing(j) = {} THEN next[j] ELSE Min(Missing(j)))
               = (IF Kept(j) = None THEN next[j] ELSE Kept(j))
    BY <2>1, <2>2, <2>3
  <2> QED BY <2>4 DEF Saved, Discarded
<1>4. Discarded = [j \in Journals |-> Discarded[j]]
  BY DEF Discarded
<1>5. next \in [Journals -> Nat]
  BY InitType DEF TypeOK
<1>6. \A j \in Journals : Discarded[j] \in Nat /\ Discarded[j] <= next[j]
  <2> SUFFICES ASSUME NEW j \in Journals
               PROVE  Discarded[j] \in Nat /\ Discarded[j] <= next[j]
    OBVIOUS
  <2>1. Discarded[j] \in Nat /\ Discarded[j] <= Saved[j] /\ Saved[j] = Discarded[j]
    BY <1>1, <1>3 DEF Bounded
  <2>2. Saved[j] <= next[j]
    BY <1>1 DEF Bounded
  <2> QED BY <2>1, <2>2
<1>7. Discarded \in [Journals -> Nat]
  BY <1>4, <1>6
<1> QED BY <1>3, <1>5, <1>6, <1>7 DEF Retained!Init

(* An entry that is appended is neither saved nor discarded yet.            *)
LEMMA AppendRetained ==
    ASSUME TypeOK, SafetyInv, Bounded, Bounded', NEW a \in Journals, Append(a),
           UNCHANGED archive
    PROVE  Retained!Write(a)
<1> DEFINE n == next[a]
<1>1. /\ n \in Index /\ boot # 0 /\ next \in [Journals -> Nat]
      /\ node \in Families /\ written \in Families
  BY DEF TypeOK, Append, Index
<1>2. /\ next' = [next EXCEPT ![a] = @ + 1]
      /\ written'[a][n] = boot /\ node'[a][n] = boot /\ next'[a] = n + 1
      /\ \A j \in Journals, i \in Index : (j # a \/ i # n) =>
            written'[j][i] = written[j][i] /\ node'[j][i] = node[j][i]
      /\ \A j \in Journals : j # a => next'[j] = next[j]
  BY <1>1 DEF Append, Families
<1>3. \A i \in Index : (written[a][i] # 0 \/ node[a][i] # 0 \/ archive[a][i] # 0) => i < n
  BY DEF SafetyInv, HistoryInv
<1> HIDE DEF n
<1>4. n \in Missing(a)' /\ node'[a][n] # 0
  BY <1>1, <1>2, <1>3 DEF Missing, Archived, Index
<1>5. \A j \in Journals, i \in Index : (j # a \/ i # n) =>
          (i \in Missing(j)' <=> i \in Missing(j))
  BY <1>2 DEF Missing, Archived
<1>6. ASSUME NEW j \in Journals
      PROVE  Saved'[j] = Saved[j] /\ Discarded'[j] = Discarded[j]
  <2>1. /\ Saved[j] \in Nat /\ Saved'[j] \in Nat
        /\ Discarded[j] \in Nat /\ Discarded'[j] \in Nat
        /\ Saved[j] <= next[j] /\ Discarded[j] <= next[j]
    BY <1>1 DEF Bounded
  <2>2. /\ \A i \in Missing(j) : i \in Index /\ Saved[j] <= i
        /\ \A i \in Missing(j)' : i \in Index /\ Saved'[j] <= i
        /\ \A i \in Index : node[j][i] # 0 => Discarded[j] <= i
        /\ \A i \in Index : node'[j][i] # 0 => Discarded'[j] <= i
        /\ Saved[j] = next[j] \/ Saved[j] \in Missing(j)
        /\ Saved'[j] = next'[j] \/ Saved'[j] \in Missing(j)'
        /\ \/ Discarded[j] = next[j]
           \/ Discarded[j] \in Index /\ node[j][Discarded[j]] # 0
        /\ \/ Discarded'[j] = next'[j]
           \/ Discarded'[j] \in Index /\ node'[j][Discarded'[j]] # 0
    BY DEF Bounded, Missing
  <2>3. \A i \in Index : i \in Nat
    BY DEF Index
  <2>4. CASE j # a
    <3>1. Missing(j)' = Missing(j) /\ next'[j] = next[j]
      BY <1>2, <1>5, <2>4 DEF Missing
    <3>2. \A i \in Index : node'[j][i] = node[j][i]
      BY <1>2, <2>4
    <3>3. \A i \in Index : (node[j][i] # 0 \/ i \in Missing(j)) => i < next[j]
      BY DEF SafetyInv, HistoryInv, Missing
    <3>4. Saved'[j] = Saved[j]
      BY <2>1, <2>2, <2>3, <3>1, <3>3
    <3>5. Discarded'[j] = Discarded[j]
      BY <2>1, <2>2, <2>3, <3>1, <3>2, <3>3
    <3> QED BY <3>4, <3>5
  <2>5. CASE j = a
    <3>1. /\ Saved'[a] <= n /\ Discarded'[a] <= n
          /\ next[a] = n /\ next'[a] = n + 1
      BY <1>1, <1>2, <1>4, <2>2, <2>5 DEF n
    <3>2. \A i \in Missing(a) : i < n
      BY <1>3 DEF Missing
    <3>3. Saved'[a] = Saved[a]
      <4>1. Saved'[a] \in Missing(a)'
        BY <1>1, <2>1, <2>2, <2>5, <3>1
      <4>2. Saved'[a] = n \/ Saved'[a] \in Missing(a)
        BY <1>5, <2>2, <2>5, <4>1
      <4>3. Saved[a] = n \/ (Saved[a] \in Missing(a) /\ Saved[a] \in Missing(a)')
        BY <1>5, <2>2, <2>5, <3>1, <3>2, <1>1
      <4> QED BY <2>1, <2>2, <2>5, <3>1, <3>2, <4>2, <4>3
    <3>4. Discarded'[a] = Discarded[a]
      <4>1. Discarded'[a] \in Index /\ node'[a][Discarded'[a]] # 0
        BY <1>1, <2>1, <2>2, <2>5, <3>1
      <4>2. Discarded'[a] = n \/ node[a][Discarded'[a]] # 0
        BY <1>2, <4>1
      <4>3. Discarded[a] = n \/ (Discarded[a] \in Index /\ node[a][Discarded[a]] # 0
                                   /\ node'[a][Discarded[a]] # 0)
        BY <1>2, <2>2, <2>5, <3>1, <1>1
      <4>4. \A i \in Index : node[a][i] # 0 => i < n
        BY <1>3
      <4> QED BY <2>1, <2>2, <2>5, <3>1, <4>1, <4>2, <4>3, <4>4
    <3> QED BY <2>5, <3>3, <3>4
  <2> QED BY <2>4, <2>5
<1>7. Saved' = Saved /\ Discarded' = Discarded
  BY <1>6 DEF Saved, Discarded
<1> QED BY <1>2, <1>7 DEF Retained!Write

(* What goes from the node's store had been saved.                          *)
LEMMA TrimRetained ==
    ASSUME TypeOK, Bounded, Bounded', NEW t \in Journals, Trim(t), UNCHANGED archive
    PROVE  Retained!Discard(t) \/ UNCHANGED Retained!vars
<1>1. PICK n \in Index : Delete(t, n)
  BY DEF Trim
<1>2. /\ UNCHANGED <<next, written>>
      /\ \A j \in Journals : j # t => node'[j] = node[j]
      /\ \A i \in Index : node'[t][i] # 0 => node[t][i] # 0
  BY <1>1 DEF TypeOK, Families, Delete, DropUpTo
<1>3. \A j \in Journals : Missing(j)' = Missing(j)
  BY <1>2 DEF Missing, Archived
<1>4. Saved' = Saved
  BY <1>2, <1>3 DEF Saved
<1>5. \A j \in Journals : j # t => Discarded'[j] = Discarded[j]
  BY <1>2 DEF Discarded, Kept
<1>6. Discarded[t] <= Discarded'[t]
  <2>1. next[t] \in Nat /\ Discarded[t] <= next[t]
    BY DEF Bounded, TypeOK
  <2>2. \/ Discarded'[t] = next[t]
        \/ Discarded'[t] \in Index /\ node'[t][Discarded'[t]] # 0
    BY <1>2 DEF Bounded
  <2> QED BY <1>2, <2>1, <2>2 DEF Bounded
<1>7. Discarded'[t] \in Nat /\ Discarded[t] \in Nat /\ Discarded'[t] <= Saved[t] /\ Saved[t] \in Nat
  BY <1>4 DEF Bounded
<1>8. Discarded' = [Discarded EXCEPT ![t] = Discarded'[t]]
  BY <1>5 DEF Discarded
<1>9. CASE Discarded'[t] = Discarded[t]
  <2>1. Discarded' = Discarded
    BY <1>5, <1>9 DEF Discarded
  <2> QED BY <1>2, <1>4, <2>1 DEF Retained!vars
<1>10. CASE Discarded'[t] # Discarded[t]
  <2>1. Discarded'[t] \in Discarded[t] + 1 .. Saved[t]
    BY <1>6, <1>7, <1>10
  <2> QED BY <1>2, <1>4, <1>8, <2>1 DEF Retained!Discard
<1> QED BY <1>9, <1>10

(* A step that changes no journal but the archive's copy of one saves more  *)
(* of that one, or no more than before.                                     *)
LEMMA CopyRetained ==
    ASSUME TypeOK, Bounded, Bounded', NEW c \in Journals,
           UNCHANGED <<node, next, written>>,
           \A j \in Journals : j # c => archive'[j] = archive[j],
           \A i \in Index : (written[c][i] # 0 /\ Archived(c, i)) => Archived(c, i)'
    PROVE  Retained!Save(c) \/ UNCHANGED Retained!vars
<1>1. Discarded' = Discarded
  BY DEF Discarded, Kept
<1>2. \A j \in Journals : j # c => Saved'[j] = Saved[j]
  <2>1. \A j \in Journals : j # c => Missing(j)' = Missing(j)
    BY DEF Missing, Archived
  <2> QED BY <2>1 DEF Saved
<1>3. \A i \in Missing(c)' : i \in Missing(c)
  BY DEF Missing
<1>4. /\ Saved[c] \in Nat /\ Saved'[c] \in Nat /\ Saved'[c] <= next[c]
      /\ Saved[c] <= Saved'[c]
  <2>1. Saved'[c] = next[c] \/ Saved'[c] \in Missing(c)
    BY <1>3 DEF Bounded
  <2>2. \A i \in Missing(c) : i \in Index
    BY DEF Missing
  <2> QED BY <2>1, <2>2 DEF Bounded
<1>5. Saved' = [Saved EXCEPT ![c] = Saved'[c]]
  BY <1>2 DEF Saved
<1>6. CASE Saved'[c] = Saved[c]
  <2>1. Saved' = Saved
    BY <1>2, <1>6 DEF Saved
  <2> QED BY <1>1, <2>1 DEF Retained!vars
<1>7. CASE Saved'[c] # Saved[c]
  <2>1. Saved'[c] \in Saved[c] + 1 .. next[c] /\ next[c] \in Nat
    BY <1>4, <1>7 DEF TypeOK
  <2> QED BY <1>1, <1>5, <2>1 DEF Retained!Save
<1> QED BY <1>6, <1>7

(* Every other step leaves what is written, saved and discarded as it is.   *)
LEMMA StutterRetained ==
    ASSUME UNCHANGED <<node, next, written, archive>>
    PROVE  UNCHANGED Retained!vars
<1>1. \A j \in Journals : Missing(j)' = Missing(j) /\ Kept(j)' = Kept(j)
  BY DEF Missing, Archived, Kept
<1>2. Saved' = Saved /\ Discarded' = Discarded
  BY <1>1 DEF Saved, Discarded
<1> QED BY <1>2 DEF Retained!vars

(* Archive and node implement a store that discards only what was saved,    *)
(* step by step: an append writes, a committed batch saves, a deletion      *)
(* discards, and all else - reports, restarts, failures, crashes - stutters. *)
THEOREM RetentionImplemented == Spec => RetentionSpec
<1>1. TypeOK /\ SafetyInv => Bounded
  BY RetentionBounds
<1>2. ASSUME TypeOK, SafetyInv, Bounded, Bounded', [Next]_vars
      PROVE  [Retained!Next]_(Retained!vars)
  <2> USE DEF headVars, archiverVars, viewVars, passVars
  <2>1. ASSUME UNCHANGED <<node, next, written, archive>>
        PROVE  [Retained!Next]_(Retained!vars)
    BY <2>1, StutterRetained
  <2>2. CASE UNCHANGED vars
    BY <2>1, <2>2 DEF vars
  <2>3. ASSUME HeadNext, UNCHANGED archiverVars
        PROVE  [Retained!Next]_(Retained!vars)
    <3>1. ASSUME NEW j \in Journals, Append(j) PROVE [Retained!Next]_(Retained!vars)
      BY <1>2, <2>3, <3>1, AppendRetained DEF Retained!Next
    <3>2. ASSUME NEW j \in Journals, Trim(j) PROVE [Retained!Next]_(Retained!vars)
      BY <1>2, <2>3, <3>2, TrimRetained DEF Retained!Next
    <3>3. ASSUME NEW f \in Fixed, Snapshot(f) \/ Settle(f)
          PROVE  [Retained!Next]_(Retained!vars)
      BY <2>1, <2>3, <3>3 DEF Snapshot, Settle
    <3>4. ASSUME NEW m \in inflight, Adopt(m) \/ Lose(m)
          PROVE  [Retained!Next]_(Retained!vars)
      BY <2>1, <2>3, <3>4 DEF Adopt, Lose
    <3>5. CASE Restart
      BY <2>1, <2>3, <3>5 DEF Restart
    <3> QED BY <2>3, <3>1, <3>2, <3>3, <3>4, <3>5 DEF HeadNext
  <2>4. ASSUME NEW S \in SUBSET Left, pc = "scan", UNCHANGED headVars,
               archive' = [archive EXCEPT ![cur] = Put(@, view[cur], S)]
        PROVE  [Retained!Next]_(Retained!vars)
    <3>1. PICK c \in Journals : c = cur
      BY <1>2, <2>4 DEF TypeOK
    <3>2. archive \in Families
      BY <1>2 DEF TypeOK
    <3>3. \A j \in Journals : j # c => archive'[j] = archive[j]
      BY <2>4, <3>1, <3>2 DEF Families
    <3>4. \A i \in Index :
              archive'[c][i] = IF i \in S THEN view[c][i] ELSE archive[c][i]
      BY <2>4, <3>1, <3>2 DEF Families, Put
    <3>5. \A i \in S : view[c][i] = written[c][i]
      BY <1>2, <2>4, <3>1 DEF SafetyInv, HistoryInv, Left, From, Held
    <3>6. \A i \in Index : (written[c][i] # 0 /\ Archived(c, i)) => Archived(c, i)'
      BY <2>4, <3>4, <3>5 DEF Archived
    <3>7. Retained!Save(c) \/ UNCHANGED Retained!vars
      BY <1>2, <2>4, <3>3, <3>6, CopyRetained
    <3> QED BY <3>7 DEF Retained!Next
  <2>5. CASE CommitBatch
    <3>1. PICK S \in SUBSET Left : archive' = [archive EXCEPT ![cur] = Put(@, view[cur], S)]
      BY <2>5, BatchLeft
    <3> QED BY <2>4, <2>5, <3>1 DEF CommitBatch
  <2>6. CASE FinishJournal
    BY <2>4, <2>6 DEF FinishJournal
  <2>7. ASSUME AbandonPass PROVE [Retained!Next]_(Retained!vars)
    BY <2>1, <2>7 DEF AbandonPass
  <2>8. CASE Start \/ OpenJournal \/ CopyFixed
    BY <2>1, <2>8 DEF Start, OpenJournal, CopyFixed
  <2>9. ASSUME NEW f \in BOOLEAN, BeginPass(f) PROVE [Retained!Next]_(Retained!vars)
    BY <2>1, <2>9 DEF BeginPass
  <2>10. CASE ReportPass
    BY <2>1, <2>10 DEF ReportPass
  <2>11. CASE Crash
    BY <2>1, <2>11 DEF Crash, Die
  <2> QED
    BY <1>2, <2>2, <2>3, <2>5, <2>6, <2>7, <2>8, <2>9, <2>10, <2>11
    DEF Next, ArchiverNext, ArchiverStep, OverflowPass, FailPass
<1> QED
  BY <1>1, <1>2, RetentionInit, TypeCorrect, SafetyInductive, PTL
  DEF Spec, RetentionSpec, Retained!Spec
===============================================================================
