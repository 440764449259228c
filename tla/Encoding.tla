------------------------------- MODULE Encoding -------------------------------
(***************************************************************************)
(* How indices and arrival stamps become bytes (hydrozoa-store/src/         *)
(* journal.rs).  RocksDB knows byte order only: that a scan from a key is a *)
(* scan from an index, which Journals takes for granted, rests on this.     *)
(***************************************************************************)
EXTENDS Families, Sequences

Byte  == 0 .. 255
Bytes == Seq(Byte)

TwoTo32 == 65536 * 65536

(* Lexicographic order, of byte strings of one length.                      *)
Less(a, b) ==
    \E k \in 1 .. Len(a) : a[k] < b[k] /\ \A l \in 1 .. k - 1 : a[l] = b[l]

(* Big-endian, u32::to_be_bytes and u64::to_be_bytes, and back.             *)
BigEndian4(n) ==
    <<n \div 16777216, (n \div 65536) % 256, (n \div 256) % 256, n % 256>>
BigEndian8(n) == BigEndian4(n \div TwoTo32) \o BigEndian4(n % TwoTo32)

Read4(b) == 16777216 * b[1] + 65536 * b[2] + 256 * b[3] + b[4]
Read8(b) == TwoTo32 * Read4(SubSeq(b, 1, 4)) + Read4(SubSeq(b, 5, 8))

Fits4(n) == n \in 0 .. TwoTo32 - 1
Fits8(n) == n \in 0 .. TwoTo32 * TwoTo32 - 1

-------------------------------------------------------------------------------
(* Keys.  A family without a key, an index past its width and a key of      *)
(* another length are errors.                                               *)
Indices(cf) == {n \in Nat : IF KeyWidth(cf) = 8 THEN Fits8(n) ELSE Fits4(n)}

Error == [error |-> TRUE]
Ok(v) == [error |-> FALSE, value |-> v]

EncodeKey(cf, index) ==
    CASE KeyWidth(cf) = 8                  -> Ok(BigEndian8(index))
      [] KeyWidth(cf) = 4 /\ Fits4(index)  -> Ok(BigEndian4(index))
      [] OTHER                             -> Error

Key(cf, index) == EncodeKey(cf, index).value

DecodeKey(cf, bytes) ==
    CASE KeyWidth(cf) # 0 /\ Len(bytes) # KeyWidth(cf) -> Error
      [] KeyWidth(cf) = 8 /\ Len(bytes) = 8            -> Ok(Read8(bytes))
      [] KeyWidth(cf) = 4 /\ Len(bytes) = 4            -> Ok(Read4(bytes))
      [] OTHER                                         -> Error

-------------------------------------------------------------------------------
(* Arrival stamps: a generation and nanoseconds, compared in that order.    *)
STAMP_WIDTH  == 12
ArrivalStamp == [generation : {n \in Nat : Fits4(n)}, nanos : {n \in Nat : Fits8(n)}]

Before(s, t) ==
    \/ s.generation < t.generation
    \/ s.generation = t.generation /\ s.nanos < t.nanos

ToBytes(s) == BigEndian4(s.generation) \o BigEndian8(s.nanos)

FromBytes(b) ==
    IF Len(b) < STAMP_WIDTH THEN Error
    ELSE Ok([generation |-> Read4(SubSeq(b, 1, 4)),
             nanos      |-> Read8(SubSeq(b, 5, 12))])

(* A journal's value: the stamp and the payload behind it.                  *)
Framed(s, payload) == ToBytes(s) \o payload

Unframe(b) ==
    IF FromBytes(b).error THEN Error
    ELSE Ok([stamp   |-> FromBytes(b).value,
             payload |-> SubSeq(b, STAMP_WIDTH + 1, Len(b))])

-------------------------------------------------------------------------------
(* scan: the iterator is set to the first key that is not before that of    *)
(* the index, in byte order, and goes on to the end.                        *)
Scan(cf, keys, from) ==
    {k \in keys : ~ Less(k, Key(cf, from))}
===============================================================================
