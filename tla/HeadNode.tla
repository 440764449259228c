------------------------------- MODULE HeadNode -------------------------------
(***************************************************************************)
(* The hydrozoa node and the RocksDB store it writes: the environment of    *)
(* everything in this repository.  The node is not in the repository; it is *)
(* modelled from what the readers rely on and their tests pin.  It appends  *)
(* to journals, rewrites its fixed families in place, takes archive         *)
(* watermarks over its admin API, and deletes journal prefixes a watermark  *)
(* covers.                                                                  *)
(***************************************************************************)
EXTENDS Journals

CONSTANTS
    NumFixed,     \* how many separately committed rows of fixed families
    MaxStart,     \* bound: entries the store may hold when the archiver comes
    MaxBoots,     \* bound: node boots
    MaxInflight   \* bound: reports under way at once

Fixed == 1 .. NumFixed

ASSUME HeadNodeAssumption ==
    /\ NumFixed \in Nat
    /\ MaxStart \in Nat
    /\ MaxBoots \in Nat \ {0}
    /\ MaxInflight \in Nat

VARIABLES
    node,      \* node[j]: the journal in the store, as a secondary can read it
    next,      \* next[j]: the index the next append gets
    boot,      \* the generation the node stamps entries with
    snap,      \* snap[f]: the journal tips row f of a fixed family was last
               \* written at; NoMark when there is no such row
    adopted,   \* adopted[j]: the retention floor the node took from a report
    inflight,  \* the reports posted and neither answered nor lost
    written    \* history: written[j][i], the generation last written at i

headVars == <<node, next, boot, snap, adopted, inflight, written>>

(* A mark per journal; None for a journal the report does not name.    *)
Reports == [Journals -> Mark]
NoMark  == [j \in Journals |-> None]

Empty == [j \in Journals |-> [i \in Index |-> 0]]
Tips  == [j \in Journals |-> next[j] - 1]

(* The store may have been in use and trimmed before the archiver first     *)
(* opens it: journal j then holds lo[j] .. hi[j] - 1.                       *)
HeadInit ==
    \E lo, hi \in [Journals -> 0 .. MaxStart] :
        /\ \A j \in Journals : /\ lo[j] <= hi[j]
                               /\ hi[j] <= MaxIndex + 1
                               /\ hi[j] <= KeyLimit[j] + 1
        /\ node = [j \in Journals |-> [i \in Index |->
                      IF lo[j] <= i /\ i < hi[j] THEN 1 ELSE 0]]
        /\ next = hi
        /\ boot = 1
        /\ snap = [f \in Fixed |-> [j \in Journals |-> hi[j] - 1]]
        /\ adopted = NoMark
        /\ inflight = {}
        /\ written = node

(* The next entry of journal j, stamped with this boot's generation.        *)
Append(j) ==
    /\ next[j] <= MaxIndex
    /\ Encodable(j, next[j])
    /\ node' = [node EXCEPT ![j][next[j]] = boot]
    /\ written' = [written EXCEPT ![j][next[j]] = boot]
    /\ next' = [next EXCEPT ![j] = @ + 1]
    /\ UNCHANGED <<boot, snap, adopted, inflight>>

(* Row f of a fixed family is rewritten in place to agree with the journals *)
(* as they are now.                                                         *)
Snapshot(f) ==
    /\ snap' = [snap EXCEPT ![f] = Tips]
    /\ UNCHANGED <<node, next, boot, adopted, inflight, written>>

(* Row f is deleted: what it told of is settled.                            *)
Settle(f) ==
    /\ snap' = [snap EXCEPT ![f] = NoMark]
    /\ UNCHANGED <<node, next, boot, adopted, inflight, written>>

(* The node process stops and comes back.  Its store is whole: what it      *)
(* wrote is in the operating system's hands.  The floor it had adopted is   *)
(* in memory only, as far as this repository can tell.                      *)
Restart ==
    /\ boot < MaxBoots
    /\ boot' = boot + 1
    /\ adopted' = NoMark
    /\ UNCHANGED <<node, next, snap, inflight, written>>

(* The node handles a report: it takes over the watermarks it names.        *)
Adopt(m) ==
    /\ m \in inflight
    /\ inflight' = inflight \ {m}
    /\ adopted' = [j \in Journals |-> IF m[j] = None THEN adopted[j] ELSE m[j]]
    /\ UNCHANGED <<node, next, boot, snap, written>>

(* A report never arrives, or the node refuses it.                          *)
Lose(m) ==
    /\ m \in inflight
    /\ inflight' = inflight \ {m}
    /\ UNCHANGED <<node, next, boot, snap, adopted, written>>

DropUpTo(f, n) == [i \in Index |-> IF i <= n THEN 0 ELSE f[i]]

(* A prefix of journal j up to n goes.  The node may keep more than the     *)
(* watermark allows it to delete: consensus may still need it.              *)
Delete(j, n) ==
    /\ node[j] # DropUpTo(node[j], n)
    /\ node' = [node EXCEPT ![j] = DropUpTo(@, n)]
    /\ UNCHANGED <<next, boot, snap, adopted, inflight, written>>

Trim(j)      == \E n \in Index : n <= adopted[j] /\ Delete(j, n)

(* A node that retains by another rule than the watermark: configured       *)
(* without an archiver, or by an operator's hand.                           *)
RogueTrim(j) == \E n \in Index : Delete(j, n)

HeadNext ==
    \/ \E j \in Journals : Append(j) \/ Trim(j)
    \/ \E f \in Fixed : Snapshot(f) \/ Settle(f)
    \/ \E m \in inflight : Adopt(m) \/ Lose(m)
    \/ Restart
===============================================================================
