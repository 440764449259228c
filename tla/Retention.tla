------------------------------ MODULE Retention ------------------------------
(***************************************************************************)
(* What archiving is for, said without archiver, reports or passes: streams *)
(* that are written, saved and discarded in order, the node discarding no   *)
(* more of a stream than has been saved of it.                              *)
(***************************************************************************)
EXTENDS Integers

CONSTANT Lanes    \* the streams

VARIABLES
    written,      \* written[l]: entries 0 .. written[l]-1 of l were written
    saved,        \* saved[l]: all of them below saved[l] are saved
    discarded     \* discarded[l]: those below discarded[l] are discarded

vars == <<written, saved, discarded>>

(* Before the first save nothing that is left has been saved.               *)
Init ==
    /\ written \in [Lanes -> Nat]
    /\ discarded \in [Lanes -> Nat]
    /\ \A l \in Lanes : discarded[l] <= written[l]
    /\ saved = discarded

Write(l) ==
    /\ written' = [written EXCEPT ![l] = @ + 1]
    /\ UNCHANGED <<saved, discarded>>

Save(l) ==
    /\ \E n \in saved[l] + 1 .. written[l] : saved' = [saved EXCEPT ![l] = n]
    /\ UNCHANGED <<written, discarded>>

Discard(l) ==
    /\ \E n \in discarded[l] + 1 .. saved[l] :
          discarded' = [discarded EXCEPT ![l] = n]
    /\ UNCHANGED <<written, saved>>

Next == \E l \in Lanes : Write(l) \/ Save(l) \/ Discard(l)

Spec == Init /\ [][Next]_vars
==============================================================================
