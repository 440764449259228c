------------------------------- MODULE Journals -------------------------------
(***************************************************************************)
(* A journal is an append stream keyed by a fixed-width big-endian index    *)
(* (hydrozoa-store/src/journal.rs).  It is modelled as a total function on  *)
(* Index: 0 where the journal holds no entry, otherwise the generation of   *)
(* the arrival stamp the entry carries, which is all that distinguishes two *)
(* entries written at one index.                                            *)
(***************************************************************************)
EXTENDS Integers, FiniteSetsExt

CONSTANTS
    NumJournals,  \* how many journal families the store holds
    MaxIndex,     \* bound: the highest index the model writes
    KeyLimit      \* KeyLimit[j]: the highest index the key width of j can hold

(* The journals, numbered in the order Cf sorts them, which is the order a  *)
(* pass visits them in.                                                     *)
Journals == 1 .. NumJournals
Index    == 0 .. MaxIndex

(* Option<u64>::None, below every index.                                    *)
None == -1
Mark == Index \cup {None}

ASSUME JournalsAssumption ==
    /\ NumJournals \in Nat \ {0}
    /\ MaxIndex \in Nat
    /\ KeyLimit \in [Journals -> Nat]

(* The indices a family holds an entry at.                                  *)
Held(f) == {i \in Index : f[i] # 0}

(* The last and the first index of a family, None if it is empty: one seek  *)
(* to the end, one to the start.                                            *)
Tip(f)   == IF Held(f) = {} THEN None ELSE Max(Held(f))
Floor(f) == IF Held(f) = {} THEN None ELSE Min(Held(f))

(* What a scan from index i onwards yields.                                 *)
FromAfter(f, i) == {k \in Held(f) : k > i}    \* slip: the start is left out
From(f, i) == {k \in Held(f) : k >= i}

(* The family f after the entries of g at the indices S are put into it.    *)
Put(f, g, S) == [i \in Index |-> IF i \in S THEN g[i] ELSE f[i]]

(* encode_key refuses an index its key width cannot hold.                   *)
Encodable(j, i) == i <= KeyLimit[j]
===============================================================================
