------------------------------ MODULE StoreProofs ------------------------------
(***************************************************************************)
(* Proofs about the library hydrozoa-store: what the names of families keep *)
(* apart, that byte order is numeric order and what is written is what is   *)
(* read, for numbers of every width, and what the identity stamp keeps      *)
(* apart, for any number of stores, archives and archivers.                 *)
(***************************************************************************)
EXTENDS Encoding, ArchiveIdentity, TLAPS, SequenceTheorems

(* The names of families.                                                   *)

(* A peer's integer, once read, is written as it was: the archive's own row *)
(* of the identity is the node's (cf.rs:21-36, archive.rs:109-112).         *)
LEMMA WireIntReadBack ==
    \A i \in U32 : /\ FromWireInt(i) \in PeerId
                   /\ Readable(FromWireInt(i))
                   /\ ToWireInt(FromWireInt(i)) = i
<1> SUFFICES ASSUME NEW i \in U32
             PROVE  /\ FromWireInt(i) \in PeerId
                    /\ Readable(FromWireInt(i))
                    /\ ToWireInt(FromWireInt(i)) = i
  OBVIOUS
<1>1. i \in Nat /\ i < 2 * Half /\ Half \in Nat
  BY FamiliesAssumption DEF U32, FamiliesAssumption
<1>2. /\ i \div 2 \in Nat /\ i \div 2 < Half
      /\ i % 2 \in {0, 1} /\ i = 2 * (i \div 2) + (i % 2)
  BY <1>1
<1>3. i \div 2 \in U32
  BY <1>1, <1>2 DEF U32
<1>4. FromWireInt(i).number = i \div 2
  BY DEF FromWireInt
<1>5. FromWireInt(i).kind = (IF i % 2 = 1 THEN "head" ELSE "coil")
  BY DEF FromWireInt
<1>6. FromWireInt(i) \in PeerId
  BY <1>3 DEF FromWireInt, PeerId
<1>7. ToWireInt(FromWireInt(i)) = i
  <2>1. (IF FromWireInt(i).kind = "head" THEN 1 ELSE 0) = i % 2
    BY <1>2, <1>5
  <2>2. ToWireInt(FromWireInt(i)) = 2 * (i \div 2) + (i % 2)
    BY <1>2, <1>4, <2>1 DEF ToWireInt
  <2> QED BY <1>2, <2>2
<1> QED BY <1>2, <1>4, <1>6, <1>7 DEF Readable

(* A peer is read as the one that was written, as long as the shift loses   *)
(* no bit: head and coil peers of one number never share a family           *)
(* (cf.rs:226-236).  Above 2^31 the shift does: hence Readable.             *)
THEOREM PeersApart ==
    \A p, q \in PeerId :
        Readable(p) /\ Readable(q) /\ ToWireInt(p) = ToWireInt(q) => p = q
<1> SUFFICES ASSUME NEW p \in PeerId, NEW q \in PeerId,
                    Readable(p), Readable(q), ToWireInt(p) = ToWireInt(q)
             PROVE  p = q
  OBVIOUS
<1>1. /\ p.number \in Nat /\ q.number \in Nat
      /\ p.kind \in {"head", "coil"} /\ q.kind \in {"head", "coil"}
      /\ p = [kind |-> p.kind, number |-> p.number]
      /\ q = [kind |-> q.kind, number |-> q.number]
  BY DEF PeerId, U32
<1> DEFINE Bit(x) == IF x.kind = "head" THEN 1 ELSE 0
<1>2. /\ ToWireInt(p) = 2 * p.number + Bit(p)
      /\ ToWireInt(q) = 2 * q.number + Bit(q)
  BY DEF ToWireInt, Readable
<1>3. Bit(p) \in {0, 1} /\ Bit(q) \in {0, 1}
  OBVIOUS
<1>4. p.number = q.number /\ Bit(p) = Bit(q)
  <2>1. \A a, b \in Nat, x, y \in {0, 1} : 2 * a + x = 2 * b + y => a = b /\ x = y
    OBVIOUS
  <2>2. 2 * p.number + Bit(p) = 2 * q.number + Bit(q)
    BY <1>2
  <2> HIDE DEF Bit
  <2> QED BY <1>1, <1>3, <2>1, <2>2
<1>5. p.kind = q.kind
  BY <1>1, <1>4
<1> QED BY <1>1, <1>4, <1>5

(* A family that is known is looked up under the very name it has on disk,  *)
(* in the node's store and in the archive (lib.rs:271-275, cf.rs:110-152).  *)
THEOREM NamesReadBack ==
    \A n \in DiskNames :
        Parse(n) # Unknown => Parse(n) \in Cf /\ Name(Parse(n)) = n
<1> SUFFICES ASSUME NEW n \in DiskNames, Parse(n) # Unknown
             PROVE  Parse(n) \in Cf /\ Name(Parse(n)) = n
  OBVIOUS
<1> DEFINE p == n.prefix
           k == n.number
<1>1. n = [prefix |-> p, number |-> k] /\ k \in U32 \cup {NoNumber}
  BY DEF DiskNames
<1>2. CASE p \in FIXED /\ k = NoNumber
  <2>1. Parse(n) = [kind |-> p, author |-> NoOne]
    BY <1>2 DEF Parse
  <2>2. Parse(n) \in Cf
    BY <1>2, <2>1 DEF Cf
  <2>3. Name(Parse(n)) = [prefix |-> p, number |-> NoNumber]
    BY <1>2, <2>1 DEF Name
  <2> QED BY <1>1, <1>2, <2>2, <2>3
<1>3. CASE p \in Satellites /\ k # NoNumber
  <2>1. p \notin FIXED
    BY <1>3 DEF Satellites, FIXED, Spines, Plain
  <2>2. k \in U32
    BY <1>1, <1>3
  <2>3. CASE p = "HardAck"
    <3>1. Parse(n) = [kind |-> p, author |-> FromWireInt(k)]
      BY <1>3, <2>1, <2>3 DEF Parse
    <3>2. Parse(n) \in Cf
      BY <2>2, <2>3, <3>1, WireIntReadBack DEF Cf
    <3>3. Name(Parse(n)) = [prefix |-> p, number |-> ToWireInt(FromWireInt(k))]
      BY <2>1, <2>3, <3>1 DEF Name
    <3> QED BY <1>1, <2>2, <3>2, <3>3, WireIntReadBack
  <2>4. CASE p # "HardAck"
    <3>1. Parse(n) = [kind |-> p, author |-> HeadPeer(k)]
      BY <1>3, <2>1, <2>4 DEF Parse
    <3>2. Parse(n) \in Cf
      BY <1>3, <2>2, <2>4, <3>1 DEF Cf
    <3>3. Name(Parse(n)) = [prefix |-> p, number |-> k]
      BY <2>1, <2>4, <3>1 DEF Name, HeadPeer
    <3> QED BY <1>1, <3>2, <3>3
  <2> QED BY <2>3, <2>4
<1>4. (p \in FIXED /\ k = NoNumber) \/ (p \in Satellites /\ k # NoNumber)
  BY DEF Parse
<1> QED BY <1>2, <1>3, <1>4

(* Two names of one store never become one family: no journal is copied     *)
(* over another.                                                            *)
THEOREM FamiliesApart ==
    \A n, m \in DiskNames :
        Parse(n) # Unknown /\ Parse(n) = Parse(m) => n = m
<1> SUFFICES ASSUME NEW n \in DiskNames, NEW m \in DiskNames,
                    Parse(n) # Unknown, Parse(n) = Parse(m)
             PROVE  n = m
  OBVIOUS
<1>1. Name(Parse(n)) = n /\ Name(Parse(m)) = m
  BY NamesReadBack
<1> QED BY <1>1

(* A full pass leaves no known family out and copies none twice: a family   *)
(* is a journal, which has a key to resume from, or it is copied whole.     *)
(* What is not known is reported, but for RocksDB's own family              *)
(* (lib.rs:80-90, pass.rs:70-80).                                           *)
THEOREM PassCoversStore ==
    ASSUME NEW names \in SUBSET DiskNames
    PROVE  /\ \A n \in names \ {Default} : \/ n \in UnknownFamilies(names)
                                           \/ Parse(n) \in JournalFamilies(names)
                                           \/ Parse(n) \in WholeFamilies(names)
           /\ Default \notin UnknownFamilies(names)
           /\ JournalFamilies(names) \cap WholeFamilies(names) = {}
           /\ \A cf \in JournalFamilies(names) : KeyWidth(cf) \in {4, 8}
           /\ \A cf \in WholeFamilies(names) : KeyWidth(cf) = 0 /\ cf.kind \in FIXED
<1>1. /\ \A n \in names \ {Default} : \/ n \in UnknownFamilies(names)
                                      \/ Parse(n) \in JournalFamilies(names)
                                      \/ Parse(n) \in WholeFamilies(names)
      /\ Default \notin UnknownFamilies(names)
  BY DEF UnknownFamilies, KnownFamilies, JournalFamilies, WholeFamilies
<1>2. JournalFamilies(names) \cap WholeFamilies(names) = {}
  BY DEF JournalFamilies, WholeFamilies
<1>3. \A cf \in JournalFamilies(names) : KeyWidth(cf) \in {4, 8}
  BY DEF JournalFamilies, KeyWidth
<1>4. ASSUME NEW cf \in WholeFamilies(names)
      PROVE  KeyWidth(cf) = 0 /\ cf.kind \in FIXED
  <2>1. PICK n \in names : cf = Parse(n) /\ Parse(n) # Unknown
    BY DEF WholeFamilies, KnownFamilies
  <2>2. ~ IsJournal(cf)
    BY DEF WholeFamilies
  <2>3. cf.kind \in FIXED \cup Satellites
    BY <2>1 DEF Parse
  <2>4. cf.kind # "Request"
    BY <2>2 DEF IsJournal, Satellites
  <2> QED BY <2>2, <2>3, <2>4 DEF KeyWidth, IsJournal
<1> QED BY <1>1, <1>2, <1>3, <1>4

-------------------------------------------------------------------------------
(* Keys, stamps and scans.                                                  *)

LEMMA TwoTo32Natural == TwoTo32 \in Nat /\ TwoTo32 > 0
BY SMT DEF TwoTo32

LEMMA TwoTo32Factors == TwoTo32 = 16777216 * 256
BY SMT DEF TwoTo32

LEMMA HighDigit ==
    ASSUME NEW n \in Nat, n < TwoTo32
    PROVE  n \div 16777216 \in 0 .. 255
BY TwoTo32Natural, TwoTo32Factors, SMT

(* Four digits of base 256.                                                 *)
LEMMA Digits ==
    ASSUME NEW n \in 0 .. TwoTo32 - 1
    PROVE  /\ n \div 16777216 \in Byte
           /\ (n \div 65536) % 256 \in Byte
           /\ (n \div 256) % 256 \in Byte
           /\ n % 256 \in Byte
           /\ n = 16777216 * (n \div 16777216) + 65536 * ((n \div 65536) % 256)
                    + 256 * ((n \div 256) % 256) + (n % 256)
<1>1. n \in Nat /\ n < TwoTo32
  BY TwoTo32Natural, SMT
<1>2. n \div 16777216 \in 0 .. 255
  BY <1>1, HighDigit
<1>3. n = 256 * (n \div 256) + (n % 256) /\ n % 256 \in 0 .. 255
  BY <1>1, SMT
<1>4. n \div 65536 = (n \div 256) \div 256 /\ n \div 16777216 = (n \div 65536) \div 256
  BY <1>1, SMT
<1> QED BY <1>1, <1>2, <1>3, <1>4, SMT DEF Byte

LEMMA BigEndian4Bytes ==
    ASSUME NEW n \in 0 .. TwoTo32 - 1
    PROVE  /\ BigEndian4(n) \in Bytes
           /\ Len(BigEndian4(n)) = 4
           /\ Read4(BigEndian4(n)) = n
<1>1. BigEndian4(n) \in Bytes /\ Len(BigEndian4(n)) = 4
  BY Digits DEF BigEndian4, Bytes
<1>2. Read4(BigEndian4(n)) = n
  BY Digits DEF BigEndian4, Read4
<1> QED BY <1>1, <1>2

(* Lexicographic order of four bytes.                                       *)
LEMMA Less4 ==
    ASSUME NEW a \in Bytes, NEW b \in Bytes, Len(a) = 4, Len(b) = 4
    PROVE  Less(a, b) <=>
             \/ a[1] < b[1]
             \/ a[1] = b[1] /\ a[2] < b[2]
             \/ a[1] = b[1] /\ a[2] = b[2] /\ a[3] < b[3]
             \/ a[1] = b[1] /\ a[2] = b[2] /\ a[3] = b[3] /\ a[4] < b[4]
<1> DEFINE At(k) == a[k] < b[k] /\ \A l \in 1 .. k - 1 : a[l] = b[l]
<1>1. Less(a, b) <=> \E k \in 1 .. 4 : At(k)
  BY DEF Less
<1>2. 1 .. 4 = {1, 2, 3, 4}
  OBVIOUS
<1>3. At(1) <=> a[1] < b[1]
  OBVIOUS
<1>4. At(2) <=> a[1] = b[1] /\ a[2] < b[2]
  <2>1. 1 .. 2 - 1 = {1}
    OBVIOUS
  <2> QED BY <2>1
<1>5. At(3) <=> a[1] = b[1] /\ a[2] = b[2] /\ a[3] < b[3]
  <2>1. 1 .. 3 - 1 = {1, 2}
    OBVIOUS
  <2> QED BY <2>1
<1>6. At(4) <=> a[1] = b[1] /\ a[2] = b[2] /\ a[3] = b[3] /\ a[4] < b[4]
  <2>1. 1 .. 4 - 1 = {1, 2, 3}
    OBVIOUS
  <2> QED BY <2>1
<1> HIDE DEF At
<1> QED BY <1>1, <1>2, <1>3, <1>4, <1>5, <1>6

LEMMA Order4 ==
    ASSUME NEW m \in 0 .. TwoTo32 - 1, NEW n \in 0 .. TwoTo32 - 1
    PROVE  Less(BigEndian4(m), BigEndian4(n)) <=> m < n
<1>1. /\ BigEndian4(m) \in Bytes /\ Len(BigEndian4(m)) = 4
      /\ BigEndian4(n) \in Bytes /\ Len(BigEndian4(n)) = 4
  BY BigEndian4Bytes
<1> DEFINE m1 == m \div 16777216
           m2 == (m \div 65536) % 256
           m3 == (m \div 256) % 256
           m4 == m % 256
           n1 == n \div 16777216
           n2 == (n \div 65536) % 256
           n3 == (n \div 256) % 256
           n4 == n % 256
<1>2. Less(BigEndian4(m), BigEndian4(n)) <=>
             \/ m1 < n1
             \/ m1 = n1 /\ m2 < n2
             \/ m1 = n1 /\ m2 = n2 /\ m3 < n3
             \/ m1 = n1 /\ m2 = n2 /\ m3 = n3 /\ m4 < n4
  <2>1. BigEndian4(m) = <<m1, m2, m3, m4>> /\ BigEndian4(n) = <<n1, n2, n3, n4>>
    BY DEF BigEndian4
  <2> HIDE DEF m1, m2, m3, m4, n1, n2, n3, n4
  <2>2. /\ BigEndian4(m)[1] = m1 /\ BigEndian4(m)[2] = m2
        /\ BigEndian4(m)[3] = m3 /\ BigEndian4(m)[4] = m4
        /\ BigEndian4(n)[1] = n1 /\ BigEndian4(n)[2] = n2
        /\ BigEndian4(n)[3] = n3 /\ BigEndian4(n)[4] = n4
    BY <2>1
  <2> QED BY <1>1, <2>2, Less4
<1>3. /\ m1 \in 0 .. 255 /\ m2 \in 0 .. 255 /\ m3 \in 0 .. 255 /\ m4 \in 0 .. 255
      /\ n1 \in 0 .. 255 /\ n2 \in 0 .. 255 /\ n3 \in 0 .. 255 /\ n4 \in 0 .. 255
      /\ m = 16777216 * m1 + 65536 * m2 + 256 * m3 + m4
      /\ n = 16777216 * n1 + 65536 * n2 + 256 * n3 + n4
  BY Digits DEF Byte
<1> HIDE DEF m1, m2, m3, m4, n1, n2, n3, n4
<1> QED BY <1>2, <1>3

(* Strings that are put together of two parts are compared by the first,    *)
(* and by the second only where the first are equal.                        *)
LEMMA LessConcat ==
    ASSUME NEW a \in Bytes, NEW b \in Bytes, NEW c \in Bytes, NEW d \in Bytes,
           Len(a) = Len(b), Len(c) = Len(d)
    PROVE  Less(a \o c, b \o d) <=> Less(a, b) \/ (a = b /\ Less(c, d))
<1> DEFINE x == a \o c
           y == b \o d
           N == Len(a)
           M == Len(c)
<1>1. /\ N \in Nat /\ M \in Nat
      /\ Len(x) = N + M
      /\ \A i \in 1 .. N + M : x[i] = IF i <= N THEN a[i] ELSE c[i - N]
      /\ \A i \in 1 .. N + M : y[i] = IF i <= N THEN b[i] ELSE d[i - N]
  <2>1. N \in Nat /\ M \in Nat
    BY LenProperties DEF Bytes
  <2>2. /\ Len(x) = N + M
        /\ \A i \in 1 .. N + M : x[i] = IF i <= N THEN a[i] ELSE c[i - N]
    BY ConcatProperties DEF Bytes
  <2>3. \A i \in 1 .. Len(b) + Len(d) : y[i] = IF i <= Len(b) THEN b[i] ELSE d[i - Len(b)]
    BY ConcatProperties DEF Bytes
  <2> QED BY <2>1, <2>2, <2>3
<1>2. \A i \in 1 .. N : x[i] = a[i] /\ y[i] = b[i]
  BY <1>1
<1>3. \A i \in 1 .. M : x[N + i] = c[i] /\ y[N + i] = d[i]
  BY <1>1
<1>4. a = b <=> \A i \in 1 .. N : a[i] = b[i]
  BY SeqEqual DEF Bytes
<1> HIDE DEF x, y, M
<1>5. ASSUME Less(x, y) PROVE Less(a, b) \/ (a = b /\ Less(c, d))
  <2>1. PICK k \in 1 .. N + M : x[k] < y[k] /\ \A l \in 1 .. k - 1 : x[l] = y[l]
    BY <1>1, <1>5 DEF Less
  <2>2. CASE k <= N
    <3>1. k \in 1 .. N /\ a[k] < b[k] /\ \A l \in 1 .. k - 1 : a[l] = b[l]
      BY <1>1, <1>2, <2>1, <2>2
    <3> QED BY <3>1 DEF Less
  <2>3. CASE k > N
    <3>1. \A i \in 1 .. N : a[i] = b[i]
      BY <1>1, <1>2, <2>1, <2>3
    <3>2. k - N \in 1 .. M /\ c[k - N] < d[k - N]
      BY <1>1, <1>3, <2>1, <2>3
    <3>3. \A l \in 1 .. (k - N) - 1 : c[l] = d[l]
      <4> TAKE l \in 1 .. (k - N) - 1
      <4>1. N + l \in 1 .. k - 1 /\ l \in 1 .. M
        BY <1>1, <2>1, <2>3
      <4> QED BY <1>3, <2>1, <4>1
    <3>4. Less(c, d)
      BY <3>2, <3>3 DEF Less, M
    <3> QED BY <1>4, <3>1, <3>4
  <2> QED BY <1>1, <2>1, <2>2, <2>3
<1>6. ASSUME Less(a, b) PROVE Less(x, y)
  <2>1. PICK k \in 1 .. N : a[k] < b[k] /\ \A l \in 1 .. k - 1 : a[l] = b[l]
    BY <1>6 DEF Less
  <2>2. k \in 1 .. Len(x) /\ x[k] < y[k] /\ \A l \in 1 .. k - 1 : x[l] = y[l]
    BY <1>1, <1>2, <2>1
  <2> QED BY <2>2 DEF Less
<1>7. ASSUME a = b, Less(c, d) PROVE Less(x, y)
  <2>1. PICK k \in 1 .. M : c[k] < d[k] /\ \A l \in 1 .. k - 1 : c[l] = d[l]
    BY <1>7 DEF Less, M
  <2>2. N + k \in 1 .. Len(x) /\ x[N + k] < y[N + k]
    BY <1>1, <1>3, <2>1
  <2>3. \A l \in 1 .. (N + k) - 1 : x[l] = y[l]
    <3> TAKE l \in 1 .. (N + k) - 1
    <3>1. CASE l <= N
      BY <1>1, <1>2, <1>7, <3>1
    <3>2. CASE l > N
      <4>1. l - N \in 1 .. k - 1 /\ l - N \in 1 .. M /\ l = N + (l - N)
        BY <1>1, <2>1, <3>2
      <4> QED BY <1>3, <2>1, <4>1
    <3> QED BY <1>1, <3>1, <3>2
  <2> QED BY <2>2, <2>3 DEF Less
<1> QED BY <1>5, <1>6, <1>7 DEF x, y

(* Both parts can be cut out again.                                         *)
LEMMA Parts ==
    ASSUME NEW a \in Bytes, NEW b \in Bytes
    PROVE  /\ a \o b \in Bytes
           /\ Len(a \o b) = Len(a) + Len(b)
           /\ SubSeq(a \o b, 1, Len(a)) = a
           /\ SubSeq(a \o b, Len(a) + 1, Len(a) + Len(b)) = b
<1> DEFINE c == a \o b
           x == SubSeq(c, 1, Len(a))
           y == SubSeq(c, Len(a) + 1, Len(a) + Len(b))
<1>1. Len(a) \in Nat /\ Len(b) \in Nat
  BY LenProperties DEF Bytes
<1>2. /\ c \in Seq(Byte) /\ Len(c) = Len(a) + Len(b)
      /\ \A i \in 1 .. Len(a) + Len(b) : c[i] = IF i <= Len(a) THEN a[i] ELSE b[i - Len(a)]
  BY ConcatProperties DEF Bytes
<1> HIDE DEF c
<1>3. \A i \in 1 .. Len(c) : c[i] \in Byte
  BY <1>2, ElementOfSeq
<1>4. x = a
  <2>1. /\ x \in Seq(Byte) /\ Len(x) = Len(a)
        /\ \A i \in 1 .. Len(a) : x[i] = c[i]
    <3>1. \A i \in 1 .. Len(a) : c[i] \in Byte
      BY <1>1, <1>2, <1>3
    <3>2. /\ x \in Seq(Byte) /\ Len(x) = IF 1 <= Len(a) THEN Len(a) - 1 + 1 ELSE 0
          /\ \A i \in 1 .. Len(a) - 1 + 1 : x[i] = c[1 + i - 1]
      BY <1>1, <3>1, SubSeqProperties
    <3> HIDE DEF x
    <3> QED BY <1>1, <3>2
  <2> HIDE DEF x
  <2>2. \A i \in 1 .. Len(x) : x[i] = a[i]
    BY <1>1, <1>2, <2>1
  <2> QED BY <2>1, <2>2, SeqEqual DEF Bytes
<1>5. y = b
  <2>1. /\ y \in Seq(Byte) /\ Len(y) = Len(b)
        /\ \A i \in 1 .. Len(b) : y[i] = c[Len(a) + i]
    <3> DEFINE m == Len(a) + 1
               n == Len(a) + Len(b)
    <3>1. m \in Int /\ n \in Int /\ \A i \in m .. n : c[i] \in Byte
      BY <1>1, <1>2, <1>3
    <3>2. /\ y \in Seq(Byte) /\ Len(y) = IF m <= n THEN n - m + 1 ELSE 0
          /\ \A i \in 1 .. n - m + 1 : y[i] = c[m + i - 1]
      <4> HIDE DEF m, n
      <4> QED BY <3>1, SubSeqProperties DEF m, n
    <3> HIDE DEF y
    <3> QED BY <1>1, <3>2
  <2> HIDE DEF y
  <2>2. \A i \in 1 .. Len(y) : y[i] = b[i]
    BY <1>1, <1>2, <2>1
  <2> QED BY <2>1, <2>2, SeqEqual DEF Bytes
<1> QED BY <1>2, <1>4, <1>5 DEF Bytes, c

(* An index of eight bytes and its two halves.                              *)
LEMMA Multiples ==
    ASSUME NEW t \in Nat \ {0}, NEW a \in Nat, NEW b \in Nat, a < b
    PROVE  t * a + t <= t * b
<1>1. PICK d \in Nat : b = a + 1 + d
  <2>1. b - a - 1 \in Nat /\ b = a + 1 + (b - a - 1)
    OBVIOUS
  <2> QED BY <2>1
<1>2. t * b = t * a + t + t * d
  BY <1>1
<1>3. t * d \in Nat /\ t * a \in Nat
  OBVIOUS
<1> QED BY <1>2, <1>3

LEMMA Halves ==
    ASSUME NEW n \in Nat, Fits8(n)
    PROVE  /\ n \div TwoTo32 \in 0 .. TwoTo32 - 1
           /\ n % TwoTo32 \in 0 .. TwoTo32 - 1
           /\ n = TwoTo32 * (n \div TwoTo32) + (n % TwoTo32)
<1> DEFINE t == TwoTo32
           h == n \div t
           l == n % t
<1>1. t \in Nat /\ t > 0
  BY TwoTo32Natural
<1>2. n < t * t
  <2>1. t * t \in Nat
    BY <1>1
  <2> QED BY <2>1 DEF Fits8
<1> HIDE DEF t
<1>3. h \in Nat /\ l \in 0 .. t - 1 /\ n = t * h + l
  BY <1>1
<1> HIDE DEF h, l
<1>4. h < t
  <2> SUFFICES ASSUME t <= h PROVE FALSE
    BY <1>1, <1>3
  <2>1. t * t <= t * h
    <3>1. CASE t = h
      <4>1. t * t \in Nat
        BY <1>1
      <4> QED BY <3>1, <4>1
    <3>2. CASE t < h
      <4>1. t * t + t <= t * h
        BY <1>1, <1>3, <3>2, Multiples
      <4>2. t * t \in Nat /\ t * h \in Nat
        BY <1>1, <1>3
      <4> QED BY <1>1, <4>1, <4>2
    <3> QED BY <1>1, <1>3, <3>1, <3>2
  <2>2. t * t \in Nat /\ t * h \in Nat
    BY <1>1, <1>3
  <2> QED BY <1>2, <1>3, <2>1, <2>2
<1>5. h \in 0 .. t - 1
  BY <1>1, <1>3, <1>4
<1> QED BY <1>3, <1>5 DEF h, l, t

LEMMA BigEndian8Bytes ==
    ASSUME NEW n \in Nat, Fits8(n)
    PROVE  /\ BigEndian8(n) \in Bytes
           /\ Len(BigEndian8(n)) = 8
           /\ Read8(BigEndian8(n)) = n
<1> DEFINE a == BigEndian4(n \div TwoTo32)
           b == BigEndian4(n % TwoTo32)
<1>1. /\ n \div TwoTo32 \in 0 .. TwoTo32 - 1
      /\ n % TwoTo32 \in 0 .. TwoTo32 - 1
      /\ n = TwoTo32 * (n \div TwoTo32) + (n % TwoTo32)
  BY Halves
<1>2. /\ a \in Bytes /\ Len(a) = 4 /\ Read4(a) = n \div TwoTo32
      /\ b \in Bytes /\ Len(b) = 4 /\ Read4(b) = n % TwoTo32
  BY <1>1, BigEndian4Bytes
<1>3. BigEndian8(n) = a \o b
  BY DEF BigEndian8
<1> HIDE DEF a, b
<1>4. /\ a \o b \in Bytes /\ Len(a \o b) = 8
      /\ SubSeq(a \o b, 1, 4) = a /\ SubSeq(a \o b, 5, 8) = b
  <2>1. /\ a \o b \in Bytes /\ Len(a \o b) = Len(a) + Len(b)
        /\ SubSeq(a \o b, 1, Len(a)) = a
        /\ SubSeq(a \o b, Len(a) + 1, Len(a) + Len(b)) = b
    BY <1>2, Parts, Zenon
  <2>2. Len(a) + 1 = 5 /\ Len(a) + Len(b) = 8
    BY <1>2
  <2> QED BY <1>2, <2>1, <2>2
<1>7. Read8(a \o b) = TwoTo32 * Read4(a) + Read4(b)
  BY <1>4 DEF Read8
<1> QED BY <1>1, <1>2, <1>3, <1>4, <1>7

LEMMA Order8 ==
    ASSUME NEW m \in Nat, NEW n \in Nat, Fits8(m), Fits8(n)
    PROVE  Less(BigEndian8(m), BigEndian8(n)) <=> m < n
<1> DEFINE t  == TwoTo32
           mh == m \div t
           ml == m % t
           nh == n \div t
           nl == n % t
<1>1. /\ t \in Nat \ {0}
      /\ mh \in 0 .. t - 1 /\ ml \in 0 .. t - 1 /\ m = t * mh + ml
      /\ nh \in 0 .. t - 1 /\ nl \in 0 .. t - 1 /\ n = t * nh + nl
  BY Halves, TwoTo32Natural
<1>2. Less(BigEndian8(m), BigEndian8(n)) <=> mh < nh \/ (mh = nh /\ ml < nl)
  <2>1. \A k \in 0 .. t - 1 : BigEndian4(k) \in Bytes /\ Len(BigEndian4(k)) = 4
    BY BigEndian4Bytes
  <2>2. Less(BigEndian8(m), BigEndian8(n)) <=>
           \/ Less(BigEndian4(mh), BigEndian4(nh))
           \/ BigEndian4(mh) = BigEndian4(nh) /\ Less(BigEndian4(ml), BigEndian4(nl))
    BY <1>1, <2>1, LessConcat DEF BigEndian8
  <2>3. BigEndian4(mh) = BigEndian4(nh) <=> mh = nh
    BY <1>1, BigEndian4Bytes
  <2>4. Less(BigEndian4(mh), BigEndian4(nh)) <=> mh < nh
    BY <1>1, Order4
  <2>5. Less(BigEndian4(ml), BigEndian4(nl)) <=> ml < nl
    BY <1>1, Order4
  <2> QED BY <2>2, <2>3, <2>4, <2>5
<1> HIDE DEF t, mh, ml, nh, nl
<1>3. mh < nh => m < n
  <2> SUFFICES ASSUME mh < nh PROVE m < n
    OBVIOUS
  <2>1. t * mh + t <= t * nh
    BY <1>1, Multiples
  <2>2. t * mh \in Nat /\ t * nh \in Nat
    BY <1>1
  <2> QED BY <1>1, <2>1, <2>2
<1>4. nh < mh => n < m
  <2> SUFFICES ASSUME nh < mh PROVE n < m
    OBVIOUS
  <2>1. t * nh + t <= t * mh
    BY <1>1, Multiples
  <2>2. t * mh \in Nat /\ t * nh \in Nat
    BY <1>1
  <2> QED BY <1>1, <2>1, <2>2
<1>5. mh = nh => (m < n <=> ml < nl)
  <2>1. t * mh \in Nat
    BY <1>1
  <2> QED BY <1>1, <2>1
<1> QED BY <1>1, <1>2, <1>3, <1>4, <1>5

LEMMA JournalKey ==
    ASSUME NEW cf, IsJournal(cf), NEW i \in Indices(cf)
    PROVE  \/ KeyWidth(cf) = 8 /\ EncodeKey(cf, i) = Ok(BigEndian8(i))
           \/ KeyWidth(cf) = 4 /\ EncodeKey(cf, i) = Ok(BigEndian4(i))
<1>1. KeyWidth(cf) = 8 \/ KeyWidth(cf) = 4
  BY DEF KeyWidth
<1> QED BY <1>1 DEF EncodeKey, Indices

(* A journal's keys sort as its indices do, for every pair the width of the *)
(* keys can hold, so that the last key of a family is its highest index     *)
(* (journal.rs:79-82, lib.rs:142-172).                                      *)
THEOREM KeysSortByIndex ==
    ASSUME NEW cf, IsJournal(cf), NEW i \in Indices(cf), NEW k \in Indices(cf)
    PROVE  Less(Key(cf, i), Key(cf, k)) <=> i < k
<1>1. CASE KeyWidth(cf) = 8
  <2>1. Key(cf, i) = BigEndian8(i) /\ Key(cf, k) = BigEndian8(k)
    BY <1>1, JournalKey DEF Key, Ok
  <2>2. i \in Nat /\ k \in Nat /\ Fits8(i) /\ Fits8(k)
    BY <1>1 DEF Indices
  <2> QED BY <2>1, <2>2, Order8
<1>2. CASE KeyWidth(cf) # 8
  <2>1. Key(cf, i) = BigEndian4(i) /\ Key(cf, k) = BigEndian4(k)
    BY <1>2, JournalKey DEF Key, Ok
  <2>2. i \in 0 .. TwoTo32 - 1 /\ k \in 0 .. TwoTo32 - 1
    BY <1>2 DEF Indices, Fits4
  <2> QED BY <2>1, <2>2, Order4
<1> QED BY <1>1, <1>2

(* An index is either refused or read back as it was, never truncated; the  *)
(* refusal is what stops a journal at the end of its keys                   *)
(* (journal.rs:83-109).                                                     *)
THEOREM KeysReadBack ==
    ASSUME NEW cf, IsJournal(cf), NEW i \in Nat, Fits8(i)
    PROVE  /\ EncodeKey(cf, i).error <=> i \notin Indices(cf)
           /\ i \in Indices(cf) => DecodeKey(cf, Key(cf, i)) = Ok(i)
<1>1. KeyWidth(cf) = 8 \/ KeyWidth(cf) = 4
  BY DEF KeyWidth
<1>2. CASE i \in Indices(cf) /\ KeyWidth(cf) = 8
  <2>1. EncodeKey(cf, i) = Ok(BigEndian8(i))
    BY <1>2, JournalKey
  <2>2. ~ EncodeKey(cf, i).error /\ Key(cf, i) = BigEndian8(i)
    BY <2>1 DEF Ok, Key
  <2>3. Len(BigEndian8(i)) = 8 /\ Read8(BigEndian8(i)) = i
    BY BigEndian8Bytes
  <2>4. DecodeKey(cf, BigEndian8(i)) = Ok(i)
    BY <1>2, <2>3 DEF DecodeKey
  <2> QED BY <1>2, <2>2, <2>4
<1>3. CASE i \in Indices(cf) /\ KeyWidth(cf) = 4
  <2>1. EncodeKey(cf, i) = Ok(BigEndian4(i))
    BY <1>3, JournalKey
  <2>2. ~ EncodeKey(cf, i).error /\ Key(cf, i) = BigEndian4(i)
    BY <2>1 DEF Ok, Key
  <2>3. Len(BigEndian4(i)) = 4 /\ Read4(BigEndian4(i)) = i
    BY <1>3, BigEndian4Bytes DEF Indices, Fits4
  <2>4. DecodeKey(cf, BigEndian4(i)) = Ok(i)
    BY <1>3, <2>3 DEF DecodeKey
  <2> QED BY <1>3, <2>2, <2>4
<1>4. CASE i \notin Indices(cf)
  <2>1. KeyWidth(cf) = 4 /\ ~ Fits4(i)
    BY <1>1, <1>4 DEF Indices
  <2>2. EncodeKey(cf, i) = Error
    BY <2>1 DEF EncodeKey
  <2> QED BY <1>4, <2>2 DEF Error
<1> QED BY <1>1, <1>2, <1>3, <1>4

(* A scan of the bytes from a key on is a scan of the indices from that     *)
(* index on: what Journals' From says of a family (lib.rs:192-219).         *)
THEOREM ScanIsNumeric ==
    ASSUME NEW cf, IsJournal(cf), NEW held \in SUBSET Indices(cf), NEW from \in Indices(cf)
    PROVE  Scan(cf, {Key(cf, i) : i \in held}, from)
             = {Key(cf, i) : i \in {k \in held : k >= from}}
<1>1. \A i \in held : ~ Less(Key(cf, i), Key(cf, from)) <=> i >= from
  <2> TAKE i \in held
  <2>1. i \in Nat /\ from \in Nat
    BY DEF Indices
  <2> QED BY <2>1, KeysSortByIndex
<1>2. Scan(cf, {Key(cf, i) : i \in held}, from)
        = {b \in {Key(cf, i) : i \in held} : ~ Less(b, Key(cf, from))}
  BY DEF Scan, Key
<1> HIDE DEF Key
<1> QED BY <1>1, <1>2

(* Stamps sort by their bytes as by generation and time, so that entries of *)
(* all journals can be merged on the raw prefix (journal.rs:13-17).         *)
THEOREM StampsSortByBytes ==
    ASSUME NEW s \in ArrivalStamp, NEW t \in ArrivalStamp
    PROVE  Less(ToBytes(s), ToBytes(t)) <=> Before(s, t)
<1>1. /\ s.generation \in 0 .. TwoTo32 - 1 /\ t.generation \in 0 .. TwoTo32 - 1
      /\ s.nanos \in Nat /\ Fits8(s.nanos) /\ t.nanos \in Nat /\ Fits8(t.nanos)
  BY DEF ArrivalStamp, Fits4
<1> DEFINE a == BigEndian4(s.generation)
           b == BigEndian4(t.generation)
           c == BigEndian8(s.nanos)
           d == BigEndian8(t.nanos)
<1>2. /\ a \in Bytes /\ Len(a) = 4 /\ Read4(a) = s.generation
      /\ b \in Bytes /\ Len(b) = 4 /\ Read4(b) = t.generation
      /\ c \in Bytes /\ Len(c) = 8 /\ d \in Bytes /\ Len(d) = 8
  BY <1>1, BigEndian4Bytes, BigEndian8Bytes
<1>3. Less(a, b) <=> s.generation < t.generation
  BY <1>1, Order4
<1>4. Less(c, d) <=> s.nanos < t.nanos
  BY <1>1, Order8
<1>5. ToBytes(s) = a \o c /\ ToBytes(t) = b \o d
  BY DEF ToBytes
<1>6. a = b <=> s.generation = t.generation
  BY <1>2
<1> HIDE DEF a, b, c, d
<1>7. Less(a \o c, b \o d) <=> Less(a, b) \/ (a = b /\ Less(c, d))
  BY <1>2, LessConcat
<1> QED BY <1>3, <1>4, <1>5, <1>6, <1>7 DEF Before

(* A value is read as the stamp and the payload it was framed with, an      *)
(* empty payload included; what is too short for a stamp is refused         *)
(* (journal.rs:31-41, 68-77, 111-115).                                      *)
THEOREM FramesReadBack ==
    ASSUME NEW s \in ArrivalStamp, NEW payload \in Bytes
    PROVE  Unframe(Framed(s, payload)) = Ok([stamp |-> s, payload |-> payload])
<1>1. /\ s.generation \in 0 .. TwoTo32 - 1
      /\ s.nanos \in Nat /\ Fits8(s.nanos)
      /\ s = [generation |-> s.generation, nanos |-> s.nanos]
  BY DEF ArrivalStamp, Fits4
<1> DEFINE g == BigEndian4(s.generation)
           m == BigEndian8(s.nanos)
           f == ToBytes(s) \o payload
<1>2. /\ g \in Bytes /\ Len(g) = 4 /\ Read4(g) = s.generation
      /\ m \in Bytes /\ Len(m) = 8 /\ Read8(m) = s.nanos
  BY <1>1, BigEndian4Bytes, BigEndian8Bytes
<1>3. ToBytes(s) = g \o m
  BY DEF ToBytes
<1> HIDE DEF g, m
<1>4. /\ g \o m \in Bytes /\ Len(g \o m) = 12
      /\ SubSeq(g \o m, 5, 12) = m
  <2>1. /\ g \o m \in Bytes /\ Len(g \o m) = Len(g) + Len(m)
        /\ SubSeq(g \o m, Len(g) + 1, Len(g) + Len(m)) = m
    BY <1>2, Parts, Zenon
  <2>2. Len(g) + 1 = 5 /\ Len(g) + Len(m) = 12
    BY <1>2
  <2> QED BY <2>1, <2>2
<1>5. Len(payload) \in Nat
  BY LenProperties DEF Bytes
<1>6. f = g \o (m \o payload) /\ m \o payload \in Bytes
  <2>1. m \o payload \in Bytes
    BY <1>2, Parts, Zenon
  <2>2. (g \o m) \o payload = g \o (m \o payload)
    <3>1. g \in Seq(Byte) /\ m \in Seq(Byte) /\ payload \in Seq(Byte)
      BY <1>2 DEF Bytes
    <3> HIDE DEF f
    <3> QED BY <3>1, ConcatAssociative
  <2> QED BY <1>3, <2>1, <2>2
<1>7. Len(f) = 12 + Len(payload) /\ SubSeq(f, 13, 12 + Len(payload)) = payload
  <2> DEFINE p == g \o m
  <2>1. p \in Bytes /\ Len(p) = 12 /\ f = p \o payload
    BY <1>3, <1>4
  <2> HIDE DEF f, p
  <2>2. /\ Len(p \o payload) = Len(p) + Len(payload)
        /\ SubSeq(p \o payload, Len(p) + 1, Len(p) + Len(payload)) = payload
    BY <2>1, Parts, Zenon
  <2>3. Len(p) + 1 = 13 /\ Len(p) + Len(payload) = 12 + Len(payload)
    BY <2>1
  <2> QED BY <2>1, <2>2, <2>3
<1>8. SubSeq(f, 1, 4) = g
  <2> HIDE DEF f
  <2>1. SubSeq(g \o (m \o payload), 1, Len(g)) = g
    BY <1>2, <1>6, Parts, Zenon
  <2> QED BY <1>2, <1>6, <2>1
<1>9. SubSeq(f, 5, 12) = m
  <2>1. 5 \in 1 .. Len(g \o m) /\ 12 \in 1 .. Len(g \o m)
    BY <1>4
  <2>2. SubSeq((g \o m) \o payload, 5, 12) = SubSeq(g \o m, 5, 12)
    BY <1>4, <2>1, SubSeqOfConcat1, Zenon DEF Bytes
  <2> QED BY <1>3, <1>4, <2>2
<1>10. Framed(s, payload) = f
  BY DEF Framed
<1> HIDE DEF f
<1>11. FromBytes(f) = Ok(s)
  <2>1. ~ (Len(f) < 12)
    BY <1>5, <1>7
  <2>2. FromBytes(f) = Ok([generation |-> Read4(g), nanos |-> Read8(m)])
    BY <1>8, <1>9, <2>1 DEF FromBytes, STAMP_WIDTH
  <2> QED BY <1>1, <1>2, <2>2
<1>12. FromBytes(f).error = FALSE /\ FromBytes(f).value = s
  BY <1>11 DEF Ok
<1>13. SubSeq(f, STAMP_WIDTH + 1, Len(f)) = payload
  <2>1. STAMP_WIDTH + 1 = 13
    BY DEF STAMP_WIDTH
  <2> QED BY <1>7, <2>1
<1> QED BY <1>10, <1>12, <1>13 DEF Unframe

-------------------------------------------------------------------------------
(* The identity stamp.                                                      *)

USE FamiliesAssumption, ArchiveIdentityAssumption

(* A peer that a disk can hold is read as it was written.                   *)
LEMMA PeerReadBack ==
    ASSUME NEW p \in PeerId, Readable(p)
    PROVE  ToWireInt(p) \in U32 /\ FromWireInt(ToWireInt(p)) = p
<1>1. ToWireInt(p) \in U32
  <2>1. /\ p.number \in Nat /\ p.number < Half
        /\ ToWireInt(p) = 2 * p.number + (IF p.kind = "head" THEN 1 ELSE 0)
    BY DEF PeerId, U32, Readable, ToWireInt
  <2> QED BY <2>1 DEF U32
<1> DEFINE q == FromWireInt(ToWireInt(p))
<1>2. q \in PeerId /\ Readable(q) /\ ToWireInt(q) = ToWireInt(p)
  BY <1>1, WireIntReadBack
<1>3. q = p
  BY <1>2, PeersApart
<1> QED BY <1>1, <1>3

(* So is the identity in a full stamp, and no two have one stamp.           *)
LEMMA StampReadBack ==
    ASSUME NEW id \in Identity, NEW m, m.stamp = Stamp(id)
    PROVE  IdentityOf(m) = id
<1>1. id.peer \in PeerId /\ Readable(id.peer) /\ id = [head |-> id.head, peer |-> id.peer]
  BY DEF Identity
<1>2. FromWireInt(ToWireInt(id.peer)) = id.peer
  BY <1>1, PeerReadBack
<1> QED BY <1>1, <1>2 DEF IdentityOf, Stamp

LEMMA StampWhole ==
    ASSUME NEW id
    PROVE  Stamp(id) # Unstamped /\ Stamp(id) # Partial
<1>1. Stamp(id).stamped = 4 /\ Unstamped.stamped = 0 /\ Partial.stamped = 1
  BY DEF Stamp, Unstamped, Partial
<1> QED BY <1>1

(* A store's stamp is its owner's; a store that is being archived is of the *)
(* supported schema.                                                        *)
StoreInv ==
    /\ \A p \in Stores : store[p].stamp \in {Unstamped, Partial, Stamp(store[p].owner)}
    /\ \A k \in Archivers :
          pc[k] # "off" => /\ store[src[k]].version = Supported
                           /\ store[src[k]].stamp # Partial

(* An archive holds nothing until it is stamped, and then what its stamp    *)
(* names.                                                                   *)
ArchiveInv ==
    \A a \in Archives :
        \/ archive[a].version = 0 /\ archive[a].stamp = Unstamped /\ archive[a].holds = {}
        \/ /\ archive[a].version = Supported
           /\ \E id \in Identity :
                 /\ archive[a].stamp = Stamp(id)
                 /\ \A e \in archive[a].holds : e.owner = id /\ e.version = Supported

(* An archive is open to one archiver, which has compared the stamps before *)
(* it copies.                                                               *)
OpenInv ==
    /\ \A j, k \in Archivers :
          (j # k /\ pc[j] \in {"open", "running"} /\ pc[k] \in {"open", "running"})
             => dst[j] # dst[k]
    /\ \A k \in Archivers :
          pc[k] = "running" => /\ archive[dst[k]].version = Supported
                               /\ archive[dst[k]].stamp = Stamp(store[src[k]].owner)
                               /\ store[src[k]].stamp = Stamp(store[src[k]].owner)

IdentityInv == TypeOK /\ StoreInv /\ ArchiveInv /\ OpenInv

LEMMA InitIdentity == Init => IdentityInv
<1> SUFFICES ASSUME Init PROVE IdentityInv
  OBVIOUS
<1>1. \A id \in Identity, v \in Versions :
          /\ Formatted(id, v) \in [owner : Identity, version : Versions, stamp : Stamps]
          /\ Formatted(id, v).stamp \in {Unstamped, Stamp(id)}
          /\ Formatted(id, v).owner = id
  BY DEF Formatted, Stamps
<1>2. Supported \in Versions /\ 0 \in Versions
  BY DEF Versions
<1>3. \A p \in Stores :
          /\ store[p] \in [owner : Identity, version : Versions, stamp : Stamps]
          /\ store[p].stamp \in {Unstamped, Partial, Stamp(store[p].owner)}
  BY <1>1, <1>2 DEF Init, Stamps
<1>4. store \in [Stores -> [owner : Identity, version : Versions, stamp : Stamps]]
  BY <1>3 DEF Init
<1>5. /\ archive = [a \in Archives |-> [version |-> 0, stamp |-> Unstamped, holds |-> {}]]
      /\ pc = [k \in Archivers |-> "off"]
      /\ src \in [Archivers -> Stores] /\ dst \in [Archivers -> Archives]
      /\ formats = 0
  BY DEF Init
<1>6. TypeOK
  BY <1>2, <1>4, <1>5 DEF TypeOK, Stamps
<1>7. StoreInv /\ ArchiveInv /\ OpenInv
  BY <1>3, <1>5 DEF StoreInv, ArchiveInv, OpenInv
<1> QED BY <1>6, <1>7 DEF IdentityInv

(* A store that no archiver has open may become any other.                  *)
LEMMA FormatIdentity ==
    ASSUME IdentityInv, NEW p \in Stores, NEW id \in Identity, NEW v \in Versions,
           Format(p, id, v)
    PROVE  IdentityInv'
<1>1. /\ Formatted(id, v) \in [owner : Identity, version : Versions, stamp : Stamps]
      /\ Formatted(id, v).stamp \in {Unstamped, Stamp(id)}
      /\ Formatted(id, v).owner = id
  BY DEF Formatted, Stamps
<1>2. /\ store'[p] = Formatted(id, v) /\ \A q \in Stores : q # p => store'[q] = store[q]
      /\ \A k \in Archivers : src[k] = p => pc[k] = "off"
      /\ UNCHANGED <<archive, pc, src, dst>>
      /\ store' \in [Stores -> [owner : Identity, version : Versions, stamp : Stamps]]
      /\ formats' \in 0 .. MaxFormats
  BY <1>1 DEF IdentityInv, TypeOK, Format
<1>3. \A k \in Archivers : src[k] \in Stores /\ (pc[k] # "off" => store'[src[k]] = store[src[k]])
  BY <1>2 DEF IdentityInv, TypeOK
<1>4. TypeOK'
  BY <1>2 DEF IdentityInv, TypeOK
<1>5. StoreInv'
  BY <1>1, <1>2, <1>3 DEF IdentityInv, StoreInv
<1>6. ArchiveInv' /\ OpenInv'
  BY <1>2, <1>3 DEF IdentityInv, ArchiveInv, OpenInv
<1> QED BY <1>4, <1>5, <1>6 DEF IdentityInv

(* A step that only moves an archiver on, or off.                           *)
LEMMA MoveIdentity ==
    ASSUME IdentityInv, NEW k \in Archivers, NEW c \in {"off", "read", "open"},
           pc' = [pc EXCEPT ![k] = c], UNCHANGED <<store, archive, formats>>,
           src' \in [Archivers -> Stores], dst' \in [Archivers -> Archives],
           \A j \in Archivers : j # k => src'[j] = src[j] /\ dst'[j] = dst[j],
           c # "off" => /\ store[src'[k]].version = Supported
                        /\ store[src'[k]].stamp # Partial,
           c = "open" => \A j \in Archivers \ {k} :
                            pc[j] \in {"open", "running"} => dst[j] # dst'[k]
    PROVE  IdentityInv'
<1>1. pc'[k] = c /\ \A j \in Archivers : j # k => pc'[j] = pc[j]
  BY DEF IdentityInv, TypeOK
<1>2. TypeOK'
  BY DEF IdentityInv, TypeOK
<1>3. StoreInv'
  BY <1>1 DEF IdentityInv, StoreInv
<1>4. ArchiveInv'
  BY DEF IdentityInv, ArchiveInv
<1>5. OpenInv'
  BY <1>1 DEF IdentityInv, OpenInv
<1> QED BY <1>2, <1>3, <1>4, <1>5 DEF IdentityInv

(* The archive of an archiver that goes on is stamped as its store is: it   *)
(* was, or it held nothing.                                                 *)
LEMMA StampIdentity ==
    ASSUME IdentityInv, NEW k \in Archivers, StampOrCheck(k)
    PROVE  /\ IdentityInv'
           /\ \A a \in Archives : archive[a].version # 0 => archive'[a].stamp = archive[a].stamp
<1> DEFINE m == store[src[k]]
           d == dst[k]
           id == m.owner
<1>1. /\ d \in Archives /\ src[k] \in Stores /\ id \in Identity
      /\ m \in [owner : Identity, version : Versions, stamp : Stamps]
      /\ archive[d] \in [version : Versions, stamp : Stamps,
                         holds : SUBSET [owner : Identity, version : Versions]]
  BY DEF IdentityInv, TypeOK
<1>2. pc[k] = "open" /\ m.stamp # Unstamped
  BY DEF StampOrCheck
<1>3. m.version = Supported /\ m.stamp = Stamp(id)
  BY <1>1, <1>2 DEF IdentityInv, StoreInv
<1>4. IdentityOf(m) = id
  BY <1>1, <1>3, StampReadBack
<1>5. /\ pc'[k] = "running" /\ \A j \in Archivers : j # k => pc'[j] = pc[j]
      /\ pc' \in [Archivers -> {"off", "read", "open", "running"}]
      /\ UNCHANGED <<store, src, dst, formats>>
  BY DEF StampOrCheck, IdentityInv, TypeOK
<1>6. \A j \in Archivers : (j # k /\ pc[j] \in {"open", "running"}) => dst[j] # d
  BY <1>2 DEF IdentityInv, OpenInv
<1>7. ASSUME /\ \A a \in Archives : a # d => archive'[a] = archive[a]
             /\ archive'[d].version = Supported /\ archive'[d].stamp = Stamp(id)
             /\ archive'[d].holds = archive[d].holds
             /\ archive' \in [Archives -> [version : Versions, stamp : Stamps,
                                 holds : SUBSET [owner : Identity, version : Versions]]],
             \A e \in archive[d].holds : e.owner = id /\ e.version = Supported
      PROVE  IdentityInv'
  <2> HIDE DEF m, d, id
  <2>1. TypeOK'
    BY <1>5, <1>7 DEF IdentityInv, TypeOK
  <2>2. StoreInv'
    BY <1>1, <1>2, <1>3, <1>5 DEF IdentityInv, StoreInv, m
  <2>3. ArchiveInv'
    BY <1>1, <1>7 DEF IdentityInv, ArchiveInv
  <2>4. OpenInv'
    <3>1. \A j, i \in Archivers :
              (j # i /\ pc'[j] \in {"open", "running"} /\ pc'[i] \in {"open", "running"})
                 => dst'[j] # dst'[i]
      BY <1>2, <1>5 DEF IdentityInv, OpenInv
    <3>2. \A j \in Archivers :
              pc'[j] = "running" => /\ archive'[dst[j]].version = Supported
                                    /\ archive'[dst[j]].stamp = Stamp(store[src[j]].owner)
                                    /\ store[src[j]].stamp = Stamp(store[src[j]].owner)
      <4> SUFFICES ASSUME NEW j \in Archivers, pc'[j] = "running"
                   PROVE  /\ archive'[dst[j]].version = Supported
                          /\ archive'[dst[j]].stamp = Stamp(store[src[j]].owner)
                          /\ store[src[j]].stamp = Stamp(store[src[j]].owner)
        OBVIOUS
      <4>1. CASE j = k
        BY <1>3, <1>7, <4>1 DEF m, d, id
      <4>2. CASE j # k
        <5>1. pc[j] = "running" /\ dst[j] \in Archives /\ dst[j] # d
          BY <1>5, <1>6, <4>2 DEF IdentityInv, TypeOK
        <5> QED BY <1>7, <5>1 DEF IdentityInv, OpenInv
      <4> QED BY <4>1, <4>2
    <3> QED BY <1>5, <3>1, <3>2 DEF OpenInv
  <2> QED BY <2>1, <2>2, <2>3, <2>4 DEF IdentityInv
<1>8. CASE archive[d].version = 0 \/ archive[d].stamp = Unstamped
  <2>1. archive[d].version = 0 /\ archive[d].stamp = Unstamped /\ archive[d].holds = {}
    BY <1>1, <1>8, StampWhole DEF IdentityInv, ArchiveInv
  <2>2. archive' = [archive EXCEPT ![d] = [version |-> m.version,
                                           stamp |-> Written(IdentityOf(m)),
                                           holds |-> archive[d].holds]]
    BY <1>8, <2>1 DEF StampOrCheck
  <2>3. Written(IdentityOf(m)) = Stamp(id) /\ Stamp(id) \in Stamps /\ Supported \in Versions
    BY <1>1, <1>4 DEF Written, Stamps, Versions
  <2>4. archive' = [archive EXCEPT ![d] = [version |-> Supported, stamp |-> Stamp(id),
                                           holds |-> {}]]
    BY <1>3, <2>1, <2>2, <2>3
  <2> HIDE DEF m, d, id
  <2>5. /\ \A a \in Archives : a # d => archive'[a] = archive[a]
        /\ archive'[d] = [version |-> Supported, stamp |-> Stamp(id), holds |-> {}]
        /\ archive' \in [Archives -> [version : Versions, stamp : Stamps,
                            holds : SUBSET [owner : Identity, version : Versions]]]
    BY <1>1, <2>3, <2>4 DEF IdentityInv, TypeOK
  <2> QED BY <1>7, <2>1, <2>5
<1>9. CASE archive[d].version # 0 /\ archive[d].stamp # Unstamped
  <2>1. SameIdentity(IdentityOf(archive[d]), IdentityOf(m)) /\ UNCHANGED archive
    BY <1>9 DEF StampOrCheck
  <2>2. PICK i \in Identity :
            /\ archive[d].version = Supported /\ archive[d].stamp = Stamp(i)
            /\ \A e \in archive[d].holds : e.owner = i /\ e.version = Supported
    BY <1>1, <1>9 DEF IdentityInv, ArchiveInv
  <2>3. i = id
    BY <1>4, <2>1, <2>2, StampReadBack DEF SameIdentity
  <2> HIDE DEF m, d, id
  <2> QED BY <1>7, <2>1, <2>2, <2>3 DEF IdentityInv, TypeOK
<1> QED BY <1>8, <1>9

(* What is copied is of the owner that the stamp names, and the rows of     *)
(* Meta that are copied are the stamp.                                      *)
LEMMA CopyIdentity ==
    ASSUME IdentityInv, NEW k \in Archivers, CopyJournals(k) \/ CopyMeta(k)
    PROVE  /\ IdentityInv'
           /\ \A a \in Archives : archive'[a].stamp = archive[a].stamp
<1> DEFINE m == store[src[k]]
           d == dst[k]
           id == m.owner
<1>1. /\ d \in Archives /\ src[k] \in Stores /\ id \in Identity /\ pc[k] = "running"
      /\ archive[d] \in [version : Versions, stamp : Stamps,
                         holds : SUBSET [owner : Identity, version : Versions]]
      /\ archive[d].version = Supported /\ archive[d].stamp = Stamp(id)
      /\ m.version = Supported /\ m.stamp = Stamp(id)
      /\ Supported \in Versions
      /\ UNCHANGED <<store, pc, src, dst, formats>>
  BY DEF IdentityInv, TypeOK, OpenInv, StoreInv, CopyJournals, CopyMeta, Versions
<1>2. \A e \in archive[d].holds : e.owner = id /\ e.version = Supported
  <2>1. PICK i \in Identity :
            /\ archive[d].stamp = Stamp(i)
            /\ \A e \in archive[d].holds : e.owner = i /\ e.version = Supported
    <3>1. archive[d].stamp # Unstamped
      BY <1>1, StampWhole
    <3> HIDE DEF m, d, id
    <3> QED BY <1>1, <3>1 DEF IdentityInv, ArchiveInv
  <2>2. IdentityOf(archive[d]) = id
    <3>1. id \in Identity /\ archive[d].stamp = Stamp(id)
      BY <1>1
    <3> HIDE DEF m, d, id
    <3> QED BY <3>1, StampReadBack
  <2>3. IdentityOf(archive[d]) = i
    BY <2>1, StampReadBack
  <2> QED BY <2>1, <2>2, <2>3
<1> DEFINE T   == [version : Versions, stamp : Stamps,
                   holds : SUBSET [owner : Identity, version : Versions]]
           new == [owner |-> id, version |-> Supported]
<1>3. /\ new \in [owner : Identity, version : Versions]
      /\ new.owner = id /\ new.version = Supported
      /\ archive \in [Archives -> T]
  BY <1>1 DEF IdentityInv, TypeOK
<1>4. \E h \in SUBSET [owner : Identity, version : Versions] :
          /\ archive' = [archive EXCEPT ![d] =
                            [version |-> Supported, stamp |-> Stamp(id), holds |-> h]]
          /\ \A e \in h : e.owner = id /\ e.version = Supported
  <2>1. CASE CopyJournals(k)
    <3>1. archive' = [archive EXCEPT ![d] = [archive[d] EXCEPT !.holds = @ \cup {new}]]
      BY <1>1, <2>1 DEF CopyJournals
    <3> HIDE DEF m, d, id, new
    <3>2. [archive[d] EXCEPT !.holds = @ \cup {new}]
             = [version |-> Supported, stamp |-> Stamp(id),
                holds |-> archive[d].holds \cup {new}]
      BY <1>1
    <3>3. /\ archive[d].holds \cup {new} \in SUBSET [owner : Identity, version : Versions]
          /\ \A e \in archive[d].holds \cup {new} : e.owner = id /\ e.version = Supported
      BY <1>1, <1>2, <1>3
    <3> QED BY <3>1, <3>2, <3>3
  <2>2. CASE CopyMeta(k)
    <3>1. archive' = [archive EXCEPT ![d] = [version |-> m.version, stamp |-> m.stamp,
                                             holds |-> archive[d].holds]]
      BY <2>2 DEF CopyMeta
    <3>2. archive' = [archive EXCEPT ![d] = [version |-> Supported, stamp |-> Stamp(id),
                                             holds |-> archive[d].holds]]
      BY <1>1, <3>1
    <3>3. archive[d].holds \in SUBSET [owner : Identity, version : Versions]
      BY <1>1
    <3> QED BY <1>2, <3>2, <3>3
  <2> QED BY <2>1, <2>2
<1>5. PICK h \in SUBSET [owner : Identity, version : Versions] :
          /\ archive' = [archive EXCEPT ![d] =
                            [version |-> Supported, stamp |-> Stamp(id), holds |-> h]]
          /\ \A e \in h : e.owner = id /\ e.version = Supported
  BY <1>4
<1> HIDE DEF m, d, id, new
<1>6. /\ \A a \in Archives : a # d => archive'[a] = archive[a]
      /\ archive'[d] = [version |-> Supported, stamp |-> Stamp(id), holds |-> h]
  BY <1>1, <1>3, <1>5
<1>7. archive' \in [Archives -> T]
  <2>1. Stamp(id) \in Stamps
    BY <1>1 DEF Stamps
  <2> QED BY <1>1, <1>3, <1>5, <2>1
<1>8. TypeOK' /\ StoreInv'
  BY <1>1, <1>7 DEF IdentityInv, TypeOK, StoreInv
<1>9. ArchiveInv'
  BY <1>1, <1>5, <1>6 DEF IdentityInv, ArchiveInv
<1>10. \A a \in Archives : /\ archive'[a].stamp = archive[a].stamp
                           /\ archive[a].version = Supported => archive'[a].version = Supported
  BY <1>1, <1>6
<1>11. OpenInv'
  BY <1>1, <1>10 DEF IdentityInv, OpenInv, TypeOK
<1> QED BY <1>8, <1>9, <1>10, <1>11 DEF IdentityInv

(* Every step keeps the invariant, and every stamp.                         *)
LEMMA IdentityStep ==
    ASSUME IdentityInv, [Next]_vars
    PROVE  /\ IdentityInv'
           /\ \A a \in Archives : archive[a].version # 0 => archive'[a].stamp = archive[a].stamp
<1>1. CASE UNCHANGED vars
  BY <1>1 DEF vars, IdentityInv, TypeOK, StoreInv, ArchiveInv, OpenInv
<1>2. ASSUME NEW p \in Stores, NEW id \in Identity, NEW v \in Versions, Format(p, id, v)
      PROVE  IdentityInv' /\ UNCHANGED archive
  BY <1>2, FormatIdentity DEF Format
<1>3. ASSUME NEW k \in Archivers, NEW p \in Stores, NEW a \in Archives, Start(k, p, a)
      PROVE  IdentityInv' /\ UNCHANGED archive
  <2>1. src'[k] = p /\ dst'[k] = a
        /\ src' \in [Archivers -> Stores] /\ dst' \in [Archivers -> Archives]
        /\ \A j \in Archivers : j # k => src'[j] = src[j] /\ dst'[j] = dst[j]
    BY <1>3 DEF Start, IdentityInv, TypeOK
  <2>2. store[p].version = Supported /\ store[p].stamp # Partial
    BY <1>3 DEF Start, Accepts, Assembles
  <2> QED BY <1>3, <2>1, <2>2, MoveIdentity DEF Start
<1>4. ASSUME NEW k \in Archivers, OpenArchive(k) PROVE IdentityInv' /\ UNCHANGED archive
  <2>1. src \in [Archivers -> Stores] /\ dst \in [Archivers -> Archives]
    BY DEF IdentityInv, TypeOK
  <2>2. store[src[k]].version = Supported /\ store[src[k]].stamp # Partial
    BY <1>4 DEF OpenArchive, IdentityInv, StoreInv
  <2> QED BY <1>4, <2>1, <2>2, MoveIdentity DEF OpenArchive
<1>5. ASSUME NEW k \in Archivers, Stop(k) PROVE IdentityInv' /\ UNCHANGED archive
  <2>1. src \in [Archivers -> Stores] /\ dst \in [Archivers -> Archives]
    BY DEF IdentityInv, TypeOK
  <2> QED BY <1>5, <2>1, MoveIdentity DEF Stop
<1> QED
  BY <1>1, <1>2, <1>3, <1>4, <1>5, StampIdentity, CopyIdentity DEF Next

LEMMA IdentityInductive == Spec => []IdentityInv
<1> QED BY InitIdentity, IdentityStep, PTL DEF Spec

(* The model is well typed in every reachable state.                        *)
THEOREM IdentityTypeCorrect == Spec => []TypeOK
<1>1. IdentityInv => TypeOK
  BY DEF IdentityInv
<1> QED BY <1>1, IdentityInductive, PTL

(* An archive never mixes two heads, configurations or peers.               *)
THEOREM OwnersApart == Spec => []OneOwner
<1>1. IdentityInv => OneOwner
  BY DEF IdentityInv, ArchiveInv, OneOwner
<1> QED BY <1>1, IdentityInductive, PTL

(* A stamp is never replaced.                                               *)
THEOREM StampsKept == Spec => StampKept
<1>1. IdentityInv /\ [Next]_vars =>
          [\A a \in Archives :
              archive[a].version # 0 => archive'[a].stamp = archive[a].stamp]_vars
  BY IdentityStep
<1> QED BY <1>1, IdentityInductive, PTL DEF Spec, StampKept

(* Nothing of another schema version is ever archived.                      *)
THEOREM SchemaKnown == Spec => []NeverMisread
<1>1. IdentityInv => NeverMisread
  BY DEF IdentityInv, ArchiveInv, NeverMisread
<1> QED BY <1>1, IdentityInductive, PTL
================================================================================
