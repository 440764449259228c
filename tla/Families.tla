------------------------------- MODULE Families -------------------------------
(***************************************************************************)
(* The column families of a store and what their names say                  *)
(* (hydrozoa-store/src/cf.rs).  A name is read off the disk, parsed, and    *)
(* written out again whenever the family is looked up, in the node's store  *)
(* or in the archive: nothing else ties the two to each other.              *)
(***************************************************************************)
EXTENDS Integers

CONSTANT Half    \* 2^31, half of what a u32 can hold

ASSUME FamiliesAssumption == Half \in Nat \ {0}

U32 == 0 .. (2 * Half - 1)

-------------------------------------------------------------------------------
(* Head and coil peers have numbers of their own, and are one integer on    *)
(* disk: the number shifted left, whose highest bit is lost, and the lowest *)
(* bit for the kind.                                                        *)
PeerId      == [kind : {"head", "coil"}, number : U32]
HeadPeer(n) == [kind |-> "head", number |-> n]

ToWireInt(p) ==
    2 * (IF p.number < Half THEN p.number ELSE p.number - Half)
      + (IF p.kind = "head" THEN 1 ELSE 0)

NumberOnly(i)  == HeadPeer(i \div 2)    \* slip: the kind is lost
FromWireInt(i) ==
    [kind |-> IF i % 2 = 1 THEN "head" ELSE "coil", number |-> i \div 2]

(* The numbers that come off a disk: one shift to the right.                *)
Readable(p) == p.number < Half

-------------------------------------------------------------------------------
(* The kinds of families.  Only the satellites have an author.              *)
Spines     == {"Block", "Stack"}
Satellites == {"Request", "SoftAck", "HardAck", "HubHardAck"}
Plain      ==
    {"BlockResult", "SoftConfirmation", "HardConfirmation", "RequestHighWater",
     "CoilStampMark", "L2CommandNumber", "UnsignedStack", "DepositMap",
     "Treasury", "EvacuationMap", "RequestBlockIndex", "DepositDecisionIndex",
     "WithdrawalEffectIndex", "BlockStackIndex", "EffectStackIndex", "Meta"}
FIXED      == Spines \cup Plain

NoOne   == [kind |-> "none", number |-> 0]
Unknown == [kind |-> "unknown", author |-> NoOne]

Cf ==
    [kind : FIXED, author : {NoOne}]
      \cup [kind : Satellites \ {"HardAck"}, author : {HeadPeer(n) : n \in U32}]
      \cup [kind : {"HardAck"}, author : PeerId]

IsJournal(cf) == cf.kind \in Spines \cup Satellites

(* In bytes; 0 stands for None.                                             *)
KeyWidth(cf) ==
    IF cf.kind = "Request" THEN 8 ELSE IF IsJournal(cf) THEN 4 ELSE 0

-------------------------------------------------------------------------------
(* A family's name: the part before the colon, and the number behind it, in *)
(* the one form in which the node writes it.  Names this build does not     *)
(* know, of either form, stand behind "Bogus"; RocksDB adds a family of its *)
(* own to every store.                                                      *)
NoNumber  == -1
DiskNames == [prefix : FIXED \cup Satellites \cup {"Bogus", "default"},
              number : U32 \cup {NoNumber}]
Default   == [prefix |-> "default", number |-> NoNumber]

Name(cf) ==
    [prefix |-> cf.kind,
     number |-> IF cf.kind \in FIXED THEN NoNumber
                ELSE IF cf.kind = "HardAck" THEN ToWireInt(cf.author)
                ELSE cf.author.number]

Parse(name) ==
    IF name.prefix \in FIXED /\ name.number = NoNumber
    THEN [kind |-> name.prefix, author |-> NoOne]
    ELSE IF name.prefix \in Satellites /\ name.number # NoNumber
    THEN [kind |-> name.prefix,
          author |-> IF name.prefix = "HardAck" THEN FromWireInt(name.number)
                     ELSE HeadPeer(name.number)]
    ELSE Unknown

(* What a reader finds in a store, as it is opened: the families it knows,  *)
(* and those it reports.  RocksDB's own is neither.                         *)
KnownFamilies(names)   == {Parse(n) : n \in names \ {Default}} \ {Unknown}
UnknownFamilies(names) == {n \in names \ {Default} : Parse(n) = Unknown}

(* The two halves of a full pass: the journals, resumed at a key, and the   *)
(* families that are copied whole.                                          *)
JournalFamilies(names) == {cf \in KnownFamilies(names) : IsJournal(cf)}
WholeFamilies(names)   == {cf \in KnownFamilies(names) : ~ IsJournal(cf)}
===============================================================================
