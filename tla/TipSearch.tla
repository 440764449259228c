------------------------------- MODULE TipSearch -------------------------------
(***************************************************************************)
(* hztop's block poller (hztop/src/poll.rs, head_block_loop): it looks for  *)
(* the newest block, and at every HardEvery-th poll for the newest hard-    *)
(* confirmed one, by a search of single HTTP requests (find_last) against a *)
(* chain that grows while it searches, and that a head may come back        *)
(* without the end of.  One step of the model is one request.               *)
(***************************************************************************)
EXTENDS Integers

CONSTANTS
    MaxBlock,    \* bound: the highest block number
    StepCap,     \* the longest stride of the search (4096)
    HardEvery,   \* polls from one search for the hard tip to the next (5)
    MaxFails,    \* bound: requests that fail
    MaxLosses    \* bound: times the head loses the end of its chain

ASSUME TipSearchAssumption ==
    /\ MaxBlock \in Nat
    /\ StepCap \in Nat \ {0}
    /\ HardEvery \in Nat \ {0}
    /\ MaxFails \in Nat
    /\ MaxLosses \in Nat

VARIABLES
    frontier,  \* frontier["tip"], frontier["hard"]: the head's newest block, and
               \* its newest hard-confirmed block; 0 if there is none
    losses,    \* times the head lost the end of its chain
    fails,     \* requests that failed so far
    pc,        \* "sleep", or the loop of the search, or "fetch"
    goal,      \* which frontier is being searched for
    lo, step, hi,  \* its locals; 1, 1 and 2 while they hold nothing
    low, high, \* history: the least and the greatest the frontier has been
               \* since the search began; 0 between searches
    began,     \* history: fails when the search began; 0 between searches
    known,     \* last_tip and last_hard; 0 for None
    shown,     \* latest_block and hard_tip, as the dashboard shows them
    tick       \* polls since the last search for the hard tip

headVars   == <<frontier, losses>>
searchVars == <<pc, goal, lo, step, hi>>
history    == <<low, high, began>>
appVars    == <<known, shown, tick>>
vars       == <<headVars, fails, searchVars, history, appVars>>

Goals == {"tip", "hard"}
None  == 0
Blocks == 1 .. MaxBlock

Init ==
    /\ frontier \in [Goals -> 0 .. MaxBlock]
    /\ frontier["hard"] <= frontier["tip"]
    /\ losses = 0 /\ fails = 0
    /\ pc = "sleep" /\ goal = "tip"
    /\ lo = 1 /\ step = 1 /\ hi = 2
    /\ low = 0 /\ high = 0 /\ began = 0
    /\ known = [g \in Goals |-> None]
    /\ shown = [tip |-> None, confirmed |-> FALSE, hard |-> None]
    /\ tick = 0

-------------------------------------------------------------------------------
(* The head.  Blocks are appended, and hard confirmations reach a prefix; a *)
(* head that is restored, or that lost power, comes back with a shorter     *)
(* chain.  The history follows the frontier that is being searched for.     *)
Searching == pc \in {"probe", "gallop", "bisect"}

Watch ==
    /\ low'  = IF Searching /\ frontier'[goal] < low  THEN frontier'[goal] ELSE low
    /\ high' = IF Searching /\ frontier'[goal] > high THEN frontier'[goal] ELSE high
    /\ UNCHANGED <<began, fails, searchVars, appVars>>

Produce ==
    /\ frontier["tip"] < MaxBlock
    /\ frontier' = [frontier EXCEPT !["tip"] = @ + 1]
    /\ UNCHANGED losses
    /\ Watch

Confirm ==
    /\ frontier["hard"] < frontier["tip"]
    /\ frontier' = [frontier EXCEPT !["hard"] = @ + 1]
    /\ UNCHANGED losses
    /\ Watch

LoseChain ==
    /\ losses < MaxLosses /\ losses' = losses + 1
    /\ \E n \in 0 .. frontier["tip"] - 1 :
          frontier' = [g \in Goals |-> IF frontier[g] < n THEN frontier[g] ELSE n]
    /\ Watch

-------------------------------------------------------------------------------
(* One request for block n: passes(n) is true, or it is false because the   *)
(* block does not qualify, or because the request failed.                   *)
Qualifies(n) == n <= frontier[goal]
FailAsHit(n) ==    \* slip: a request that failed counts as a pass
    \/ Qualifies(n) /\ UNCHANGED fails
    \/ fails < MaxFails /\ fails' = fails + 1
Passes(n)    == Qualifies(n) /\ UNCHANGED fails
FailsToPass(n) ==
    \/ ~Qualifies(n) /\ UNCHANGED fails
    \/ Qualifies(n) /\ fails < MaxFails /\ fails' = fails + 1

Hint(g) == IF known[g] = None THEN 1 ELSE known[g]

Search(g) ==
    /\ pc' = "probe" /\ goal' = g
    /\ lo' = Hint(g)
    /\ step' = 1 /\ hi' = 2
    /\ low' = frontier[g] /\ high' = frontier[g] /\ began' = fails'

SearchOver == step' = 1 /\ hi' = 2 /\ low' = 0 /\ high' = 0 /\ began' = 0

(* The poller sleeps until its next poll.                                   *)
Sleep == pc' = "sleep" /\ goal' = "tip" /\ lo' = 1 /\ SearchOver

BeginPoll ==
    /\ pc = "sleep"
    /\ UNCHANGED <<headVars, fails, appVars>>
    /\ Search("tip")

(* The poll is over; the hard tip is due again after HardEvery of them.     *)
NextTick == tick' = (tick + 1) % HardEvery

(* A search for the tip that finds nothing ends the poll as it is; one for  *)
(* the hard tip is published.                                               *)
NothingFound ==
    /\ \/ goal = "tip" /\ UNCHANGED appVars
       \/ /\ goal = "hard"
          /\ known' = [known EXCEPT !["hard"] = None]
          /\ shown' = [shown EXCEPT !.hard = None]
          /\ NextTick
    /\ Sleep

(* From the hint down, halving, to a block that passes.                     *)
ProbeHit ==
    /\ pc = "probe" /\ Passes(lo)
    /\ pc' = "gallop"
    /\ UNCHANGED <<headVars, goal, lo, step, hi, history, appVars>>

GiveUp      == TRUE       \* slip: a hint that fails ends the search
LowestIsTwo == lo <= 2    \* slip: block 1 is never asked for
Lowest      == lo <= 1

ProbeMiss ==
    /\ pc = "probe" /\ FailsToPass(lo)
    /\ \/ Lowest /\ NothingFound
       \/ /\ ~Lowest
          /\ lo' = lo \div 2
          /\ UNCHANGED <<pc, goal, step, hi, history, appVars>>
    /\ UNCHANGED headVars

(* From there up, with doubling strides, to one that does not.              *)
StrideFree(s) == 2 * s    \* slip: no cap
Stride(s)     == IF 2 * s <= StepCap THEN 2 * s ELSE StepCap

GallopHit ==
    /\ pc = "gallop" /\ Passes(lo + step)
    /\ lo' = lo + step
    /\ step' = Stride(step)
    /\ UNCHANGED <<headVars, pc, goal, hi, history, appVars>>

GallopMiss ==
    /\ pc = "gallop" /\ FailsToPass(lo + step)
    /\ hi' = lo + step
    /\ pc' = "bisect"
    /\ step' = 1
    /\ UNCHANGED <<headVars, goal, lo, history, appVars>>

MidThird == lo + (hi - lo) \div 3    \* slip: reaches lo itself
Mid      == lo + (hi - lo) \div 2

BisectHit ==
    /\ pc = "bisect" /\ hi - lo > 1 /\ Passes(Mid)
    /\ lo' = Mid
    /\ UNCHANGED <<headVars, pc, goal, step, hi, history, appVars>>

BisectMiss ==
    /\ pc = "bisect" /\ hi - lo > 1 /\ FailsToPass(Mid)
    /\ hi' = Mid
    /\ UNCHANGED <<headVars, pc, goal, lo, step, history, appVars>>

(* The search has its answer, lo.                                           *)
Narrowed == pc = "bisect" /\ hi - lo <= 1

TipFound ==
    /\ Narrowed /\ goal = "tip"
    /\ known' = [known EXCEPT !["tip"] = lo]
    /\ pc' = "fetch"
    /\ SearchOver
    /\ UNCHANGED <<headVars, fails, goal, lo, shown, tick>>

HardFound ==
    /\ Narrowed /\ goal = "hard"
    /\ known' = [known EXCEPT !["hard"] = lo]
    /\ shown' = [shown EXCEPT !.hard = lo]
    /\ NextTick
    /\ Sleep
    /\ UNCHANGED <<headVars, fails>>

(* What the details of block n say, as it is shown, beside the hard tip.    *)
ParseBlock(n) ==
    [tip |-> n, confirmed |-> n <= frontier["hard"], hard |-> shown.hard]

(* The tip's details are asked for once more and shown; if that fails, the  *)
(* ones shown before stay.                                                  *)
Show ==
    /\ pc = "fetch"
    /\ \/ /\ Passes(lo)
          /\ shown' = ParseBlock(lo)
       \/ FailsToPass(lo) /\ UNCHANGED shown
    /\ IF tick = 0 THEN Search("hard") /\ UNCHANGED tick
       ELSE NextTick /\ Sleep
    /\ UNCHANGED <<headVars, known>>

Poll == \/ BeginPoll
        \/ ProbeHit \/ ProbeMiss
        \/ GallopHit \/ GallopMiss
        \/ BisectHit \/ BisectMiss
        \/ TipFound \/ HardFound
        \/ Show

Next == Produce \/ Confirm \/ LoseChain \/ Poll

Spec == Init /\ [][Next]_vars

(* The poller task keeps running: every request is answered, refused or     *)
(* times out after 3 s (poll.rs:16).                                        *)
FairSpec == Spec /\ WF_vars(Poll)

-------------------------------------------------------------------------------
(* Type invariant.                                                          *)
TypeOK ==
    /\ frontier \in [Goals -> 0 .. MaxBlock]
    /\ losses \in 0 .. MaxLosses
    /\ fails \in 0 .. MaxFails
    /\ pc \in {"sleep", "probe", "gallop", "bisect", "fetch"}
    /\ goal \in Goals
    /\ lo \in Blocks \cup {1}
    /\ step \in 1 .. StepCap
    /\ hi \in 2 .. MaxBlock + StepCap + 1
    /\ low \in 0 .. MaxBlock /\ high \in 0 .. MaxBlock
    /\ began \in 0 .. MaxFails
    /\ known \in [Goals -> 0 .. MaxBlock]
    /\ shown \in [tip : 0 .. MaxBlock, confirmed : BOOLEAN, hard : 0 .. MaxBlock]
    /\ tick \in 0 .. HardEvery - 1

(* While the head keeps its chain, nothing is believed or shown that is not *)
(* there, whatever requests fail and however the chain grows under the      *)
(* search.                                                                  *)
NothingInvented ==
    losses = 0 =>
    /\ \A g \in Goals : known[g] <= frontier[g]
    /\ shown.tip <= frontier["tip"] /\ shown.hard <= frontier["hard"]
    /\ shown.confirmed => shown.tip <= frontier["hard"]

(* A search never answers beyond the farthest the frontier has been while   *)
(* it ran, and, if none of its own requests failed, never below the nearest *)
(* (nothing is below block 1): with a chain that stays as it is the answer  *)
(* is the frontier, also from a hint that the chain no longer reaches       *)
(* (poll.rs:141-144).                                                       *)
Ends   == \/ pc = "probe" /\ pc' = "sleep"
          \/ pc = "bisect" /\ pc' # "bisect"
Answer == IF pc = "probe" THEN None ELSE lo

SearchExact ==
    [][Ends => /\ Answer <= high
               /\ fails' = began => low <= Answer]_vars

(* Every poll comes to an end, whatever grows, is lost or fails under it:   *)
(* the poller sleeps again and again.                                       *)
PollEnds == []<>(pc = "sleep")

(* Once the chain pauses and requests succeed, the dashboard comes to show  *)
(* the true tip with its true status, and the true hard tip, also after the *)
(* chain was lost; only from an empty one does it keep what it showed       *)
(* (poll.rs:109-111).                                                       *)
Converges ==
    <>[](frontier["tip"] # 0 =>
            /\ shown.tip = frontier["tip"] /\ shown.hard = frontier["hard"]
            /\ shown.confirmed <=> shown.tip <= frontier["hard"])
===============================================================================
