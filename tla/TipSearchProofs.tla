----------------------------- MODULE TipSearchProofs -----------------------------
(***************************************************************************)
(* Proofs about hztop's block search (TipSearch): for every height of the   *)
(* chain, cap on the stride, period and number of failing requests.         *)
(***************************************************************************)
EXTENDS TipSearch, TLAPS

USE TipSearchAssumption

(* The search's arithmetic.                                                 *)
LEMMA Halving ==
    ASSUME NEW n \in Nat
    PROVE  /\ n \div 2 \in Nat
           /\ 2 * (n \div 2) <= n /\ n <= 2 * (n \div 2) + 1
           /\ n > 1 => n \div 2 >= 1 /\ n \div 2 < n
<1>1. /\ n \div 2 \in Int
      /\ 2 * (n \div 2) <= n /\ n <= 2 * (n \div 2) + 1
  OBVIOUS
<1> DEFINE h == n \div 2
<1>2. h \in Int /\ 2 * h <= n /\ n <= 2 * h + 1
  BY <1>1
<1> HIDE DEF h
<1>3. h \in Nat /\ (n > 1 => h >= 1 /\ h < n)
  BY <1>2
<1> QED BY <1>1, <1>3 DEF h

LEMMA MidBetween ==
    ASSUME lo \in Nat, hi \in Nat, hi - lo > 1
    PROVE  Mid \in Nat /\ lo < Mid /\ Mid < hi
<1> DEFINE h == (hi - lo) \div 2
<1>1. hi - lo \in Nat
  OBVIOUS
<1>2. h \in Nat /\ h >= 1 /\ h < hi - lo
  BY <1>1, Halving
<1>3. Mid = lo + h
  BY DEF Mid
<1> HIDE DEF h
<1> QED BY <1>2, <1>3

LEMMA TickInRange ==
    ASSUME tick \in 0 .. HardEvery - 1
    PROVE  (tick + 1) % HardEvery \in 0 .. HardEvery - 1
OBVIOUS

-------------------------------------------------------------------------------
(* While a search runs, its history holds the frontier between low and      *)
(* high, and from the first block that passed on, lo is within high.        *)
ReachInv ==
    /\ Searching => low <= frontier[goal] /\ frontier[goal] <= high /\ began <= fails
    /\ pc \in {"gallop", "bisect"} => lo <= high
    /\ pc = "bisect" => lo < hi
    /\ pc = "fetch" => goal = "tip"

(* While the chain is not lost, that block is still there.                  *)
ThereInv == (losses = 0 /\ pc \in {"gallop", "bisect", "fetch"}) => lo <= frontier[goal]

(* If none of its requests failed, the bound of a search lies beyond the    *)
(* nearest the frontier has been.                                           *)
ExactInv == (fails = began /\ pc = "bisect") => low < hi

TipInv == TypeOK /\ NothingInvented /\ ReachInv /\ ThereInv /\ ExactInv

ShownType == [tip : 0 .. MaxBlock, confirmed : BOOLEAN, hard : 0 .. MaxBlock]

LEMMA InitTip == Init => TipInv
<1> SUFFICES ASSUME Init PROVE TipInv
  OBVIOUS
<1>1. TypeOK
  BY DEF Init, TypeOK, Goals, None, Blocks
<1>2. NothingInvented
  BY <1>1 DEF Init, TypeOK, NothingInvented, Goals, None
<1>3. ReachInv /\ ThereInv /\ ExactInv
  BY <1>1 DEF Init, ReachInv, ThereInv, ExactInv, Searching
<1> QED BY <1>1, <1>2, <1>3 DEF TipInv

(* The head goes on under a search, and the history with it.                *)
LEMMA WatchTip ==
    ASSUME TipInv, Watch,
           frontier' \in [Goals -> 0 .. MaxBlock], losses' \in 0 .. MaxLosses,
           losses' = 0 => losses = 0 /\ \A g \in Goals : frontier[g] <= frontier'[g]
    PROVE  TipInv'
<1>1. /\ frontier \in [Goals -> 0 .. MaxBlock] /\ goal \in Goals /\ "hard" \in Goals
      /\ "tip" \in Goals /\ known \in [Goals -> 0 .. MaxBlock] /\ lo \in Nat
      /\ low \in 0 .. MaxBlock /\ high \in 0 .. MaxBlock /\ hi \in Nat
      /\ began \in Nat /\ fails \in Nat
      /\ shown.hard \in Nat /\ shown.tip \in Nat
  BY DEF TipInv, TypeOK, Goals, Blocks
<1>2. /\ UNCHANGED <<began, fails, pc, goal, lo, step, hi, known, shown, tick>>
      /\ frontier'[goal] \in 0 .. MaxBlock
  BY <1>1 DEF Watch, searchVars, appVars
<1>3. /\ low' \in 0 .. MaxBlock /\ low' <= low
      /\ high' \in 0 .. MaxBlock /\ high <= high'
      /\ Searching => low' <= frontier'[goal] /\ frontier'[goal] <= high'
  <2>1. CASE Searching
    BY <1>1, <1>2, <2>1 DEF Watch, TipInv, ReachInv
  <2>2. CASE ~Searching
    BY <1>1, <2>2 DEF Watch
  <2> QED BY <2>1, <2>2
<1>4. TypeOK'
  BY <1>2, <1>3 DEF TipInv, TypeOK
<1>5. NothingInvented'
  BY <1>1, <1>2 DEF TipInv, NothingInvented
<1>6. ReachInv'
  BY <1>1, <1>2, <1>3 DEF TipInv, ReachInv, Searching
<1>7. ThereInv' /\ ExactInv'
  BY <1>1, <1>2, <1>3 DEF TipInv, ThereInv, ExactInv
<1> QED BY <1>4, <1>5, <1>6, <1>7 DEF TipInv

LEMMA HeadTip ==
    ASSUME TipInv, Produce \/ Confirm \/ LoseChain
    PROVE  TipInv'
<1>1. frontier \in [Goals -> 0 .. MaxBlock] /\ losses \in 0 .. MaxLosses
  BY DEF TipInv, TypeOK
<1>2. CASE Produce \/ Confirm
  <2>1. PICK g \in Goals : /\ frontier[g] < MaxBlock
                           /\ frontier' = [frontier EXCEPT ![g] = @ + 1]
    BY <1>1, <1>2 DEF Produce, Confirm, Goals
  <2>2. /\ frontier' \in [Goals -> 0 .. MaxBlock]
        /\ \A h \in Goals : frontier[h] <= frontier'[h]
    BY <1>1, <2>1
  <2>3. Watch /\ losses' = losses
    BY <1>2 DEF Produce, Confirm
  <2> QED BY <1>1, <2>2, <2>3, WatchTip
<1>3. CASE LoseChain
  <2>1. PICK n \in 0 .. frontier["tip"] - 1 :
            frontier' = [g \in Goals |-> IF frontier[g] < n THEN frontier[g] ELSE n]
    BY <1>3 DEF LoseChain
  <2>2. n \in 0 .. MaxBlock
    BY <1>1, <2>1 DEF Goals
  <2>3. frontier' \in [Goals -> 0 .. MaxBlock]
    BY <1>1, <2>1, <2>2
  <2>4. Watch /\ losses' \in 0 .. MaxLosses /\ losses' # 0
    BY <1>1, <1>3 DEF LoseChain
  <2> QED BY <2>3, <2>4, WatchTip
<1> QED BY <1>2, <1>3

(* A request is answered, or it is not.                                     *)
LEMMA Answers ==
    ASSUME TipInv, NEW n \in Nat
    PROVE  /\ Passes(n) => fails' = fails /\ n <= frontier[goal]
           /\ FailsToPass(n) => /\ fails' \in 0 .. MaxFails /\ fails <= fails'
                                /\ fails' = fails => frontier[goal] < n
<1>1. fails \in 0 .. MaxFails /\ frontier[goal] \in Nat
  BY DEF TipInv, TypeOK
<1> QED BY <1>1 DEF Passes, FailsToPass, Qualifies

(* A search begins.                                                         *)
LEMMA SearchTip ==
    ASSUME TipInv, NEW g \in Goals, Search(g), UNCHANGED <<frontier, losses, known, tick>>,
           fails' \in 0 .. MaxFails, shown' \in ShownType, NothingInvented'
    PROVE  TipInv'
<1>1. frontier[g] \in 0 .. MaxBlock /\ known[g] \in 0 .. MaxBlock
  BY DEF TipInv, TypeOK
<1>2. Hint(g) \in Blocks \cup {1}
  BY <1>1 DEF Hint, None, Blocks
<1>3. /\ pc' = "probe" /\ goal' = g /\ lo' = Hint(g) /\ step' = 1 /\ hi' = 2
      /\ low' = frontier[g] /\ high' = frontier[g] /\ began' = fails'
  BY DEF Search
<1>4. TypeOK'
  BY <1>1, <1>2, <1>3 DEF TipInv, TypeOK, ShownType
<1>5. ReachInv' /\ ThereInv' /\ ExactInv'
  BY <1>1, <1>3 DEF ReachInv, ThereInv, ExactInv, Searching
<1> QED BY <1>4, <1>5 DEF TipInv

(* A poll ends: what it leaves behind is only what it knows and shows.      *)
LEMMA SleepTip ==
    ASSUME TipInv, Sleep, UNCHANGED <<frontier, losses>>,
           fails' \in 0 .. MaxFails,
           known' \in [Goals -> 0 .. MaxBlock],
           shown' \in ShownType,
           tick' \in 0 .. HardEvery - 1,
           NothingInvented'
    PROVE  TipInv'
<1>1. /\ pc' = "sleep" /\ goal' = "tip" /\ lo' = 1 /\ step' = 1 /\ hi' = 2
      /\ low' = 0 /\ high' = 0 /\ began' = 0
  BY DEF Sleep, SearchOver
<1>2. TypeOK'
  BY <1>1 DEF TipInv, TypeOK, ShownType, Goals
<1>3. ReachInv' /\ ThereInv' /\ ExactInv'
  BY <1>1 DEF ReachInv, ThereInv, ExactInv, Searching
<1> QED BY <1>2, <1>3 DEF TipInv

LEMMA BeginTip ==
    ASSUME TipInv, BeginPoll
    PROVE  TipInv'
<1>1. /\ Search("tip") /\ UNCHANGED <<frontier, losses, known, tick>>
      /\ shown' = shown /\ fails' = fails
  BY DEF BeginPoll, headVars, appVars
<1>2. NothingInvented'
  BY <1>1 DEF TipInv, NothingInvented
<1> QED BY <1>1, <1>2, SearchTip DEF TipInv, TypeOK, Goals, ShownType

(* The requests of a search.                                                *)
LEMMA RequestTip ==
    ASSUME TipInv,
           \/ ProbeHit \/ GallopHit \/ GallopMiss \/ BisectHit \/ BisectMiss
           \/ ProbeMiss /\ lo > 1
    PROVE  TipInv'
<1>1. /\ lo \in Nat /\ lo >= 1 /\ step \in Nat /\ step >= 1 /\ step <= StepCap
      /\ hi \in Nat /\ hi >= 2 /\ hi <= MaxBlock + StepCap + 1
      /\ frontier[goal] \in Nat /\ frontier[goal] <= MaxBlock
      /\ low \in Nat /\ high \in Nat /\ high <= MaxBlock
      /\ began \in Nat /\ fails \in Nat /\ goal \in Goals
      /\ (lo <= MaxBlock \/ lo = 1)
  BY DEF TipInv, TypeOK, Blocks
<1>2. /\ UNCHANGED <<frontier, losses, known, shown, tick, goal, low, high, began>>
      /\ Searching
  BY <1>1 DEF ProbeHit, ProbeMiss, Lowest, GallopHit, GallopMiss, BisectHit, BisectMiss,
              headVars, history, appVars, Searching
<1>3. low <= frontier[goal] /\ frontier[goal] <= high /\ began <= fails
  BY <1>2 DEF TipInv, ReachInv
<1>4. NothingInvented'
  BY <1>2 DEF TipInv, NothingInvented
<1>5. ASSUME fails' \in 0 .. MaxFails, fails <= fails',
             pc' \in {"probe", "gallop", "bisect"},
             lo' \in Nat, lo' >= 1, lo' <= MaxBlock \/ lo' = 1,
             step' \in 1 .. StepCap, hi' \in 2 .. MaxBlock + StepCap + 1,
             pc' # "probe" => lo' <= high,
             (pc' # "probe" /\ losses = 0) => lo' <= frontier[goal],
             pc' = "bisect" => lo' < hi',
             (fails' = began /\ pc' = "bisect") => low < hi'
      PROVE  TipInv'
  <2>1. TypeOK'
    BY <1>1, <1>2, <1>5 DEF TipInv, TypeOK, Blocks
  <2>2. ReachInv'
    BY <1>1, <1>2, <1>3, <1>5 DEF ReachInv, Searching
  <2>3. ThereInv' /\ ExactInv'
    BY <1>1, <1>2, <1>5 DEF ThereInv, ExactInv
  <2> QED BY <1>4, <2>1, <2>2, <2>3 DEF TipInv
<1>6. CASE ProbeHit
  <2>1. /\ pc' = "gallop" /\ UNCHANGED <<lo, step, hi>>
        /\ fails' = fails /\ lo <= frontier[goal]
    BY <1>1, <1>6, Answers DEF ProbeHit
  <2>2. lo <= high
    BY <1>1, <1>3, <2>1
  <2> QED BY <1>1, <1>5, <2>1, <2>2 DEF TipInv, TypeOK
<1>7. CASE ProbeMiss /\ lo > 1
  <2>1. /\ pc' = "probe" /\ lo' = lo \div 2 /\ UNCHANGED <<step, hi>>
        /\ fails' \in 0 .. MaxFails /\ fails <= fails'
    BY <1>1, <1>7, Answers DEF ProbeMiss, Lowest
  <2>2. lo' \in Nat /\ lo' >= 1 /\ lo' < lo
    BY <1>1, <1>7, <2>1, Halving
  <2> QED BY <1>1, <1>5, <2>1, <2>2
<1>8. CASE GallopHit
  <2>1. /\ pc' = "gallop" /\ lo' = lo + step /\ step' = Stride(step) /\ UNCHANGED hi
        /\ fails' = fails /\ lo + step <= frontier[goal]
    BY <1>1, <1>8, Answers DEF GallopHit
  <2>2. Stride(step) \in 1 .. StepCap
    BY <1>1 DEF Stride
  <2>3. lo + step <= high
    BY <1>1, <1>3, <2>1
  <2> QED BY <1>1, <1>5, <2>1, <2>2, <2>3 DEF TipInv, TypeOK
<1>9. CASE GallopMiss
  <2>1. /\ pc = "gallop" /\ pc' = "bisect" /\ hi' = lo + step /\ lo' = lo /\ step' = 1
        /\ fails' \in 0 .. MaxFails /\ fails <= fails'
        /\ fails' = fails => frontier[goal] < lo + step
    BY <1>1, <1>9, Answers DEF GallopMiss
  <2>2. lo <= high /\ (losses = 0 => lo <= frontier[goal])
    BY <2>1 DEF TipInv, ReachInv, ThereInv
  <2>3. /\ hi' \in 2 .. MaxBlock + StepCap + 1 /\ lo' < hi'
        /\ fails' = began => low < hi'
    BY <1>1, <1>3, <2>1, <2>2
  <2> QED BY <1>1, <1>5, <2>1, <2>2, <2>3
<1>10. CASE BisectHit \/ BisectMiss
  <2>1. /\ pc = "bisect" /\ pc' = "bisect" /\ hi - lo > 1 /\ UNCHANGED step
        /\ \/ Passes(Mid) /\ lo' = Mid /\ UNCHANGED hi
           \/ FailsToPass(Mid) /\ hi' = Mid /\ UNCHANGED lo
    BY <1>10 DEF BisectHit, BisectMiss
  <2>2. Mid \in Nat /\ lo < Mid /\ Mid < hi
    BY <1>1, <2>1, MidBetween
  <2>3. /\ lo <= high /\ (losses = 0 => lo <= frontier[goal])
        /\ (fails = began => low < hi) /\ fails \in 0 .. MaxFails
    BY <2>1 DEF TipInv, TypeOK, ReachInv, ThereInv, ExactInv
  <2>4. \/ /\ fails' = fails /\ lo' = Mid /\ hi' = hi /\ Mid <= frontier[goal]
        \/ /\ fails' \in 0 .. MaxFails /\ fails <= fails' /\ hi' = Mid /\ lo' = lo
           /\ fails' = fails => frontier[goal] < Mid
    BY <2>1, <2>2, Answers
  <2> HIDE DEF Mid
  <2>5. /\ lo' \in Nat /\ lo' >= 1 /\ lo' <= high /\ lo' < hi'
        /\ losses = 0 => lo' <= frontier[goal]
        /\ hi' \in 2 .. MaxBlock + StepCap + 1
        /\ fails' \in 0 .. MaxFails /\ fails <= fails'
        /\ fails' = began => low < hi'
    BY <1>1, <1>3, <2>2, <2>3, <2>4
  <2> QED BY <1>1, <1>5, <2>1, <2>5
<1> QED BY <1>6, <1>7, <1>8, <1>9, <1>10

(* A search that found nothing, below the lowest block.                     *)
LEMMA NothingTip ==
    ASSUME TipInv, ProbeMiss, lo <= 1
    PROVE  TipInv'
<1>1. NothingFound /\ UNCHANGED <<frontier, losses>> /\ fails' \in 0 .. MaxFails
  BY Answers DEF ProbeMiss, Lowest, headVars, TipInv, TypeOK, Blocks
<1>2. /\ known' \in [Goals -> 0 .. MaxBlock] /\ shown' \in ShownType
      /\ tick' \in 0 .. HardEvery - 1
      /\ \A g \in Goals : known'[g] = known[g] \/ known'[g] = 0
      /\ shown'.tip = shown.tip /\ shown'.confirmed = shown.confirmed
      /\ shown'.hard = shown.hard \/ shown'.hard = 0
  <2>1. CASE UNCHANGED appVars
    BY <2>1 DEF appVars, TipInv, TypeOK, ShownType
  <2>2. CASE /\ known' = [known EXCEPT !["hard"] = None]
             /\ shown' = [shown EXCEPT !.hard = None]
             /\ NextTick
    <3>1. /\ tick \in 0 .. HardEvery - 1 /\ 0 \in 0 .. MaxBlock
          /\ known \in [Goals -> 0 .. MaxBlock] /\ shown \in ShownType
      BY DEF TipInv, TypeOK, ShownType
    <3>2. /\ known' \in [Goals -> 0 .. MaxBlock]
          /\ \A g \in Goals : known'[g] = known[g] \/ known'[g] = 0
      BY <2>2, <3>1 DEF None
    <3>3. /\ shown' \in ShownType
          /\ shown'.hard = 0 /\ shown'.tip = shown.tip /\ shown'.confirmed = shown.confirmed
      BY <2>2, <3>1 DEF None, ShownType
    <3>4. tick' \in 0 .. HardEvery - 1
      BY <2>2, <3>1, TickInRange DEF NextTick
    <3> QED BY <3>2, <3>3, <3>4
  <2> QED BY <1>1, <2>1, <2>2 DEF NothingFound
<1>3. NothingInvented'
  <2>1. frontier \in [Goals -> 0 .. MaxBlock] /\ "hard" \in Goals
    BY DEF TipInv, TypeOK, Goals
  <2> QED BY <1>1, <1>2, <2>1 DEF TipInv, NothingInvented
<1> QED BY <1>1, <1>2, <1>3, SleepTip DEF NothingFound

(* What a search found was there while it ran.                              *)
LEMMA FoundTip ==
    ASSUME TipInv, TipFound \/ HardFound
    PROVE  TipInv'
<1>1. /\ lo \in 0 .. MaxBlock /\ goal \in Goals
      /\ losses = 0 => lo <= frontier[goal]
      /\ known \in [Goals -> 0 .. MaxBlock] /\ frontier \in [Goals -> 0 .. MaxBlock]
      /\ shown \in ShownType
      /\ fails \in 0 .. MaxFails /\ NothingInvented
  <2>1. pc = "bisect"
    BY DEF TipFound, HardFound, Narrowed
  <2>2. lo \in Nat /\ lo <= high /\ high \in 0 .. MaxBlock
    BY <2>1 DEF TipInv, TypeOK, ReachInv, Blocks
  <2> QED BY <2>1, <2>2 DEF TipInv, TypeOK, ThereInv, ShownType
<1>2. known' = [known EXCEPT ![goal] = lo] /\ UNCHANGED <<frontier, losses>>
  BY DEF TipFound, HardFound, headVars
<1>3. /\ known' \in [Goals -> 0 .. MaxBlock]
      /\ losses = 0 => \A g \in Goals : known'[g] <= frontier[g]
  BY <1>1, <1>2 DEF NothingInvented
<1>4. CASE TipFound
  <2>1. /\ pc' = "fetch" /\ goal = "tip" /\ step' = 1 /\ hi' = 2
        /\ low' = 0 /\ high' = 0 /\ began' = 0
        /\ UNCHANGED <<fails, goal, lo, shown, tick>>
    BY <1>4 DEF TipFound, SearchOver
  <2>2. TypeOK' /\ NothingInvented'
    BY <1>1, <1>2, <1>3, <2>1 DEF TipInv, TypeOK, NothingInvented
  <2>3. ReachInv' /\ ThereInv' /\ ExactInv'
    BY <1>1, <1>2, <2>1 DEF ReachInv, ThereInv, ExactInv, Searching
  <2> QED BY <2>2, <2>3 DEF TipInv
<1>5. CASE HardFound
  <2>1. /\ Sleep /\ goal = "hard" /\ shown' = [shown EXCEPT !.hard = lo] /\ NextTick
        /\ fails' = fails
    BY <1>5 DEF HardFound
  <2>2. tick' \in 0 .. HardEvery - 1
    BY <2>1, TickInRange DEF NextTick, TipInv, TypeOK
  <2>3. /\ shown' \in ShownType
        /\ shown'.hard = lo /\ shown'.tip = shown.tip /\ shown'.confirmed = shown.confirmed
    BY <1>1, <2>1 DEF ShownType
  <2>4. NothingInvented'
    BY <1>1, <1>2, <1>3, <2>1, <2>3 DEF NothingInvented
  <2> QED BY <1>1, <1>2, <1>3, <2>1, <2>2, <2>3, <2>4, SleepTip
<1> QED BY <1>4, <1>5

(* What is shown of the tip is what its details said.                       *)
LEMMA ShowTip ==
    ASSUME TipInv, Show
    PROVE  TipInv'
<1>1. /\ lo \in Nat /\ frontier \in [Goals -> 0 .. MaxBlock] /\ "hard" \in Goals
      /\ "tip" \in Goals /\ goal = "tip"
      /\ known \in [Goals -> 0 .. MaxBlock] /\ tick \in 0 .. HardEvery - 1
      /\ shown \in ShownType
      /\ NothingInvented /\ UNCHANGED <<frontier, losses, known>>
  BY DEF TipInv, TypeOK, ReachInv, Blocks, Goals, Show, headVars, ShownType
<1>2. /\ fails' \in 0 .. MaxFails
      /\ \/ shown' = ParseBlock(lo) /\ lo <= frontier["tip"]
         \/ shown' = shown
  BY <1>1, Answers DEF Show, TipInv, TypeOK
<1>3. /\ shown' \in ShownType
      /\ losses = 0 => /\ shown'.hard <= frontier["hard"] /\ shown'.tip <= frontier["tip"]
                       /\ shown'.confirmed => shown'.tip <= frontier["hard"]
  <2> DEFINE c == lo <= frontier["hard"]
  <2>1. c \in BOOLEAN
    OBVIOUS
  <2>2. ParseBlock(lo) = [tip |-> lo, confirmed |-> c, hard |-> shown.hard]
    BY DEF ParseBlock
  <2>3. c => lo <= frontier["hard"]
    OBVIOUS
  <2>4. losses = 0 => /\ shown.hard <= frontier["hard"] /\ shown.tip <= frontier["tip"]
                      /\ shown.confirmed => shown.tip <= frontier["hard"]
    BY <1>1 DEF NothingInvented
  <2>5. lo <= frontier["tip"] => lo \in 0 .. MaxBlock
    BY <1>1
  <2> HIDE DEF c
  <2> QED BY <1>1, <1>2, <2>1, <2>2, <2>3, <2>4, <2>5 DEF ShownType
<1>4. NothingInvented'
  BY <1>1, <1>3 DEF NothingInvented
<1>5. CASE tick = 0
  <2>1. Search("hard") /\ tick' = tick
    BY <1>5 DEF Show
  <2> QED BY <1>1, <1>2, <1>3, <1>4, <2>1, SearchTip
<1>6. CASE tick # 0
  <2>1. NextTick /\ Sleep
    BY <1>6 DEF Show
  <2>2. tick' \in 0 .. HardEvery - 1
    BY <1>1, <2>1, TickInRange DEF NextTick
  <2> QED BY <1>1, <1>2, <1>3, <1>4, <2>1, <2>2, SleepTip
<1> QED BY <1>5, <1>6

LEMMA TipStep == TipInv /\ [Next]_vars => TipInv'
<1> SUFFICES ASSUME TipInv, [Next]_vars PROVE TipInv'
  OBVIOUS
<1>1. CASE UNCHANGED vars
  BY <1>1 DEF vars, headVars, searchVars, history, appVars, TipInv, TypeOK, NothingInvented,
              ReachInv, ThereInv, ExactInv, Searching
<1>2. CASE Produce \/ Confirm \/ LoseChain
  BY <1>2, HeadTip
<1>3. CASE ProbeMiss
  <2>1. lo \in Nat
    BY DEF TipInv, TypeOK, Blocks
  <2> QED BY <1>3, <2>1, RequestTip, NothingTip
<1>4. CASE Poll /\ ~ ProbeMiss
  BY <1>4, BeginTip, RequestTip, FoundTip, ShowTip DEF Poll
<1> QED BY <1>1, <1>2, <1>3, <1>4 DEF Next

LEMMA TipInductive == Spec => []TipInv
<1> QED BY InitTip, TipStep, PTL DEF Spec

(* The model is well typed in every reachable state: among others, no       *)
(* request asks for a block below 1, and the stride stays within its cap.   *)
THEOREM SearchTypeCorrect == Spec => []TypeOK
<1>1. TipInv => TypeOK
  BY DEF TipInv
<1> QED BY <1>1, TipInductive, PTL

(* While the head keeps its chain the dashboard never knows or shows a      *)
(* block that is not there, however many requests fail.                     *)
THEOREM NothingIsInvented == Spec => []NothingInvented
<1>1. TipInv => NothingInvented
  BY DEF TipInv
<1> QED BY <1>1, TipInductive, PTL

(* The steps that end a search: the last probe, below which no block is,    *)
(* or the one that finds the interval narrowed to its lower end.            *)
LEMMA EndsWith ==
    ASSUME TipInv, Next, Ends
    PROVE  \/ /\ pc = "probe" /\ lo <= 1 /\ fails' \in Nat /\ fails <= fails'
              /\ fails' = fails => frontier[goal] < lo
           \/ Narrowed /\ fails' = fails
<1>1. lo \in Nat
  BY DEF TipInv, TypeOK, Blocks
<1>2. CASE Produce \/ Confirm \/ LoseChain
  BY <1>2 DEF Produce, Confirm, LoseChain, Watch, searchVars, Ends
<1>3. CASE BeginPoll \/ ProbeHit \/ GallopHit \/ GallopMiss \/ BisectHit \/ BisectMiss \/ Show
  BY <1>3 DEF BeginPoll, ProbeHit, GallopHit, GallopMiss, BisectHit, BisectMiss, Show, Ends
<1>4. CASE ProbeMiss
  BY <1>1, <1>4, Answers DEF ProbeMiss, Lowest, Ends
<1>5. CASE TipFound \/ HardFound
  BY <1>5 DEF TipFound, HardFound
<1> QED BY <1>2, <1>3, <1>4, <1>5 DEF Next, Poll

(* Every search, whatever the chain does under it: its answer is never      *)
(* beyond the farthest the frontier has been since it began, and never      *)
(* below the nearest unless one of its own requests failed.                 *)
THEOREM SearchIsExact == Spec => SearchExact
<1>1. TipInv /\ [Next]_vars
          => [Ends => /\ Answer <= high
                      /\ fails' = began => low <= Answer]_vars
  <2> SUFFICES ASSUME TipInv, Next, Ends
               PROVE  Answer <= high /\ (fails' = began => low <= Answer)
    OBVIOUS
  <2>1. /\ lo \in Nat /\ hi \in Nat /\ low \in Nat /\ high \in Nat /\ fails \in Nat
        /\ began \in Nat /\ frontier[goal] \in Nat
    BY DEF TipInv, TypeOK, Blocks
  <2>2. CASE Narrowed /\ fails' = fails
    <3>1. pc = "bisect" /\ hi - lo <= 1
      BY <2>2 DEF Narrowed
    <3>2. lo <= high /\ lo < hi /\ (fails = began => low < hi) /\ Answer = lo
      BY <3>1 DEF TipInv, ReachInv, ExactInv, Answer
    <3> QED BY <2>1, <2>2, <3>1, <3>2
  <2>3. CASE /\ pc = "probe" /\ lo <= 1 /\ fails' \in Nat /\ fails <= fails'
             /\ fails' = fails => frontier[goal] < lo
    <3>1. low <= frontier[goal] /\ began <= fails /\ Answer = 0
      BY <2>3 DEF TipInv, ReachInv, Searching, Answer, None
    <3>2. fails' = began => low = 0
      BY <2>1, <2>3, <3>1
    <3> QED BY <2>1, <3>1, <3>2
  <2> QED BY <2>2, <2>3, EndsWith
<1> QED BY <1>1, TipInductive, PTL DEF Spec, SearchExact
==================================================================================
