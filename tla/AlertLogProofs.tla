----------------------------- MODULE AlertLogProofs -----------------------------
(***************************************************************************)
(* Proofs about hztop's alert history (AlertLog): for every number of       *)
(* sessions and of conditions, every cap on the log and every length of     *)
(* the run.  Logs are reasoned about by position: what the properties say   *)
(* with searches through a log is said here of its entries.                 *)
(***************************************************************************)
EXTENDS AlertLog, TLAPS, FiniteSetTheorems, SequenceTheorems

USE AlertLogAssumption

-------------------------------------------------------------------------------
(* The searches of the properties find what there is to be found.           *)

LEMMA MaxIs ==
    ASSUME NEW I \in SUBSET Nat, NEW i \in I, \A j \in I : j <= i
    PROVE  Max(I) = i
<1>1. \A x \in I : (\A y \in I : x >= y) => x = i
  OBVIOUS
<1> QED BY <1>1 DEF Max

LEMMA LastOfIs ==
    ASSUME NEW l \in Seq(Event), NEW k
    PROVE  /\ \A i \in 1 .. Len(l) :
                 (l[i].key = k /\ \A j \in 1 .. Len(l) : l[j].key = k => j <= i)
                    => LastOf(l, k) = i
           /\ (\A i \in 1 .. Len(l) : l[i].key # k) => LastOf(l, k) = 0
<1> DEFINE I == {i \in 1 .. Len(l) : l[i].key = k}
<1>1. LastOf(l, k) = IF I # {} THEN Max(I) ELSE 0
  BY DEF LastOf, SelectLastInSeq
<1>2. \A i \in I : (\A j \in I : j <= i) => Max(I) = i
  BY MaxIs
<1>3. /\ \A i \in 1 .. Len(l) : i \in I <=> l[i].key = k
      /\ \A i \in I : i \in 1 .. Len(l)
  OBVIOUS
<1> HIDE DEF I
<1> QED BY <1>1, <1>2, <1>3

LEMMA ActiveForIs ==
    ASSUME NEW l \in Seq(Event), NEW k
    PROVE  /\ \A i \in 1 .. Len(l) :
                 (/\ l[i].key = k /\ ~ l[i].cleared
                  /\ \A j \in 1 .. Len(l) : l[j].key = k => j <= i)
                    => ActiveFor(l, k) = i
           /\ (\A i \in 1 .. Len(l) : l[i].key # k) => ActiveFor(l, k) = 0
<1> DEFINE I == {i \in 1 .. Len(l) : ~ l[i].cleared /\ l[i].key = k}
<1>1. ActiveFor(l, k) = IF I # {} THEN Max(I) ELSE 0
  BY DEF ActiveFor, SelectLastInSeq
<1>2. \A i \in I : (\A j \in I : j <= i) => Max(I) = i
  BY MaxIs
<1>3. /\ \A i \in 1 .. Len(l) : i \in I <=> l[i].key = k /\ ~ l[i].cleared
      /\ \A i \in I : i \in 1 .. Len(l)
  OBVIOUS
<1> HIDE DEF I
<1> QED BY <1>1, <1>2, <1>3

-------------------------------------------------------------------------------
(* The properties of a log, by position.                                    *)

(* The newest of the first n events that is about k is a raise, or there is *)
(* none, and the log is full.                                               *)
RaisedLast(l, n, k) ==
    \/ \E h \in 1 .. n : /\ l[h].key = k /\ ~ l[h].cleared
                         /\ \A j \in h + 1 .. n : l[j].key # k
    \/ (\A h \in 1 .. n : l[h].key # k) /\ Len(l) >= Cap

ActiveIn(l, K) == \A k \in K : RaisedLast(l, Len(l), k)

PairedIn(l) ==
    \A i \in 1 .. Len(l) : l[i].cleared => RaisedLast(l, i - 1, l[i].key)

(* All of an old log but its oldest d events leads a new one.               *)
ExtendedBy(old, new) ==
    \E d \in 0 .. Len(old) :
        /\ Len(old) - d <= Len(new)
        /\ \A i \in 1 .. Len(old) - d : new[i] = old[d + i]
        /\ d > 0 => Len(new) >= Cap

LEMMA LogIsSeq ==
    \A l : l \in Log <=> l \in Seq(Event) /\ Len(l) <= Cap
<1>1. ASSUME NEW l \in Log PROVE l \in Seq(Event) /\ Len(l) <= Cap
  <2>1. PICK m \in 0 .. Cap : l \in [1 .. m -> Event]
    BY DEF Log, SeqOf
  <2> QED BY <2>1
<1>2. ASSUME NEW l \in Seq(Event), Len(l) <= Cap PROVE l \in Log
  <2>1. Len(l) \in 0 .. Cap /\ l \in [1 .. Len(l) -> Event]
    BY <1>2, LenProperties
  <2> QED BY <2>1 DEF Log, SeqOf
<1> QED BY <1>1, <1>2

LEMMA PrefixOfLog ==
    ASSUME NEW l \in Seq(Event), NEW n \in 0 .. Len(l)
    PROVE  /\ SubSeq(l, 1, n) \in Seq(Event) /\ Len(SubSeq(l, 1, n)) = n
           /\ \A i \in 1 .. n : SubSeq(l, 1, n)[i] = l[i]
<1>1. Len(l) \in Nat /\ \A i \in 1 .. n : l[i] \in Event
  OBVIOUS
<1>2. /\ SubSeq(l, 1, n) \in Seq(Event)
      /\ Len(SubSeq(l, 1, n)) = IF 1 <= n THEN n - 1 + 1 ELSE 0
      /\ \A i \in 1 .. n - 1 + 1 : SubSeq(l, 1, n)[i] = l[1 + i - 1]
  BY <1>1, SubSeqProperties
<1> QED BY <1>1, <1>2

LEMMA ActiveMeans ==
    ASSUME NEW l \in Log, NEW K, ActiveIn(l, K), NEW k \in K
    PROVE  LET i == ActiveFor(l, k)
           IN  i = LastOf(l, k) /\ (i = 0 => Len(l) = Cap)
<1>1. l \in Seq(Event) /\ Len(l) <= Cap /\ Len(l) \in Nat
  BY LogIsSeq
<1>2. CASE \A h \in 1 .. Len(l) : l[h].key # k
  <2>1. ActiveFor(l, k) = 0 /\ LastOf(l, k) = 0
    BY <1>1, <1>2, ActiveForIs, LastOfIs
  <2>2. Len(l) >= Cap
    BY <1>2 DEF ActiveIn, RaisedLast
  <2> QED BY <1>1, <2>1, <2>2
<1>3. CASE \E h \in 1 .. Len(l) : /\ l[h].key = k /\ ~ l[h].cleared
                                  /\ \A j \in h + 1 .. Len(l) : l[j].key # k
  <2>1. PICK h \in 1 .. Len(l) : /\ l[h].key = k /\ ~ l[h].cleared
                                 /\ \A j \in h + 1 .. Len(l) : l[j].key # k
    BY <1>3
  <2>2. \A j \in 1 .. Len(l) : l[j].key = k => j <= h
    BY <1>1, <2>1
  <2>3. ActiveFor(l, k) = h
    BY <1>1, <2>1, <2>2, ActiveForIs
  <2>4. LastOf(l, k) = h
    BY <1>1, <2>1, <2>2, LastOfIs
  <2> QED BY <2>3, <2>4
<1> QED BY <1>2, <1>3 DEF ActiveIn, RaisedLast

LEMMA PairedMeans ==
    ASSUME NEW l \in Log, PairedIn(l)
    PROVE  Paired(l)
<1>1. l \in Seq(Event) /\ Len(l) <= Cap /\ Len(l) \in Nat /\ DOMAIN l = 1 .. Len(l)
  BY LogIsSeq
<1> SUFFICES ASSUME NEW i \in 1 .. Len(l), l[i].cleared
             PROVE  LET j == RaiseBefore(l, i)
                    IN  j = LastOf(SubSeq(l, 1, i - 1), l[i].key) /\ (j = 0 => Len(l) = Cap)
  BY <1>1 DEF Paired
<1> DEFINE k == l[i].key
           s == SubSeq(l, 1, i - 1)
<1>2. /\ s \in Seq(Event) /\ Len(s) = i - 1
      /\ \A h \in 1 .. i - 1 : s[h] = l[h]
  <2>1. i - 1 \in 0 .. Len(l)
    BY <1>1
  <2> QED BY <1>1, <2>1, PrefixOfLog
<1>3. RaiseBefore(l, i) = ActiveFor(s, k)
  BY DEF RaiseBefore
<1>4. RaisedLast(l, i - 1, k)
  BY DEF PairedIn
<1> HIDE DEF k, s
<1>5. CASE \A h \in 1 .. i - 1 : l[h].key # k
  <2>1. \A h \in 1 .. Len(s) : s[h].key # k
    BY <1>2, <1>5
  <2>2. ActiveFor(s, k) = 0
    BY <1>2, <2>1, ActiveForIs
  <2>3. LastOf(s, k) = 0
    BY <1>2, <2>1, LastOfIs
  <2>4. Len(l) = Cap
    <3>1. Len(l) >= Cap
      BY <1>4, <1>5 DEF RaisedLast
    <3>2. Len(l) <= Cap /\ Len(l) \in Nat
      BY <1>1
    <3> QED BY <3>1, <3>2
  <2>5. RaiseBefore(l, i) = LastOf(s, k)
    BY <1>3, <2>2, <2>3
  <2> QED BY <2>4, <2>5 DEF k, s
<1>6. CASE \E h \in 1 .. i - 1 : /\ l[h].key = k /\ ~ l[h].cleared
                                 /\ \A j \in h + 1 .. i - 1 : l[j].key # k
  <2>1. PICK h \in 1 .. i - 1 : /\ l[h].key = k /\ ~ l[h].cleared
                                /\ \A j \in h + 1 .. i - 1 : l[j].key # k
    BY <1>6
  <2>2. /\ h \in 1 .. Len(s) /\ s[h].key = k /\ ~ s[h].cleared
        /\ \A j \in 1 .. Len(s) : s[j].key = k => j <= h
    BY <1>2, <2>1
  <2>3. ActiveFor(s, k) = h
    BY <1>2, <2>2, ActiveForIs
  <2>4. LastOf(s, k) = h
    BY <1>2, <2>2, LastOfIs
  <2>5. h # 0
    OBVIOUS
  <2> QED BY <1>3, <2>3, <2>4, <2>5 DEF k, s
<1> QED BY <1>4, <1>5, <1>6 DEF RaisedLast

LEMMA ExtendedMeans ==
    ASSUME NEW old \in Log, NEW new \in Log, ExtendedBy(old, new)
    PROVE  Extends(old, new)
<1>1. /\ old \in Seq(Event) /\ new \in Seq(Event)
      /\ Len(old) \in Nat /\ Len(new) \in Nat /\ Len(new) <= Cap
  BY LogIsSeq
<1>2. PICK d \in 0 .. Len(old) :
          /\ Len(old) - d <= Len(new)
          /\ \A i \in 1 .. Len(old) - d : new[i] = old[d + i]
          /\ d > 0 => Len(new) >= Cap
  BY DEF ExtendedBy
<1> DEFINE s == SubSeq(old, d + 1, Len(old))
           n == Len(old) - d
<1>3. /\ s \in Seq(Event) /\ Len(s) = n /\ n \in Nat
      /\ \A i \in 1 .. n : s[i] = old[d + i]
  <2>1. \A i \in d + 1 .. Len(old) : old[i] \in Event
    BY <1>1
  <2>2. /\ s \in Seq(Event)
        /\ Len(s) = IF d + 1 <= Len(old) THEN Len(old) - (d + 1) + 1 ELSE 0
        /\ \A i \in 1 .. Len(old) - (d + 1) + 1 : s[i] = old[(d + 1) + i - 1]
    <3> HIDE DEF s
    <3> QED BY <1>1, <2>1, SubSeqProperties DEF s
  <2> HIDE DEF s
  <2> QED BY <1>1, <2>2
<1>4. SubSeq(s, 1, n) = SubSeq(new, 1, n)
  <2>1. \A i \in 1 .. n : s[i] \in Event /\ new[i] \in Event /\ s[i] = new[i]
    BY <1>1, <1>2, <1>3
  <2>2. n \in 0 .. Len(s) /\ n \in 0 .. Len(new)
    BY <1>1, <1>2, <1>3
  <2> HIDE DEF s, n
  <2>3. /\ SubSeq(s, 1, n) \in Seq(Event) /\ SubSeq(new, 1, n) \in Seq(Event)
        /\ Len(SubSeq(s, 1, n)) = n /\ Len(SubSeq(new, 1, n)) = n
        /\ \A i \in 1 .. n : SubSeq(s, 1, n)[i] = s[i] /\ SubSeq(new, 1, n)[i] = new[i]
    BY <1>1, <1>3, <2>2, PrefixOfLog
  <2> QED BY <2>1, <2>3, SeqEqual
<1>5. IsPrefix(s, new)
  BY <1>2, <1>3, <1>4 DEF IsPrefix
<1> QED BY <1>1, <1>2, <1>5 DEF Extends

-------------------------------------------------------------------------------
(* What is logged of a set of conditions: an event for each.                *)
EventFor(e, S, b) ==
    /\ e \in Seq(Event)
    /\ \A i \in 1 .. Len(e) : e[i].key \in S /\ e[i].cleared = b
    /\ \A i, j \in 1 .. Len(e) : i # j => e[i].key # e[j].key
    /\ \A k \in S : \E i \in 1 .. Len(e) : e[i].key = k

LEMMA LoggedEvents ==
    ASSUME NEW S \in SUBSET Keys, NEW b \in BOOLEAN, NEW e \in Logged(S, b)
    PROVE  EventFor(e, S, b)
<1>1. PICK q \in SetToSeqs(S) : e = [i \in DOMAIN q |-> [key |-> q[i], cleared |-> b]]
  BY DEF Logged
<1> DEFINE n == Cardinality(S)
<1>2. IsFiniteSet(S) /\ n \in Nat
  BY FS_Subset, FS_CardinalityType
<1>3. q \in [1 .. n -> S] /\ \A i, j \in 1 .. n : i # j => q[i] # q[j]
  BY DEF SetToSeqs
<1> HIDE DEF n
<1>4. e = [i \in 1 .. n |-> [key |-> q[i], cleared |-> b]]
  BY <1>1, <1>3
<1>5. e \in [1 .. n -> Event]
  BY <1>3, <1>4 DEF Event
<1>6. e \in Seq(Event) /\ Len(e) = n
  BY <1>2, <1>5
<1>7. \A i \in 1 .. n : e[i].key = q[i] /\ e[i].cleared = b
  BY <1>4
<1>8. \A k \in S : \E i \in 1 .. n : q[i] = k
  <2>1. q \in Injection(1 .. n, S)
    BY <1>3 DEF Injection, IsInjective
  <2>2. Cardinality(1 .. n) = n
    BY <1>2, FS_Interval
  <2>3. q \in Surjection(1 .. n, S)
    BY <1>2, <2>1, <2>2, FS_Injection DEF n
  <2> QED BY <2>3 DEF Surjection
<1> QED BY <1>3, <1>6, <1>7, <1>8 DEF EventFor

-------------------------------------------------------------------------------
(* How a log changes: events are appended to it, and it is cut to Cap.      *)

LEMMA RaisedLastGrows ==
    ASSUME NEW l \in Seq(Event), NEW q \in Seq(Event), Len(l) <= Len(q),
           \A i \in 1 .. Len(l) : q[i] = l[i],
           NEW n \in 0 .. Len(l), NEW m \in n .. Len(q), NEW k,
           RaisedLast(l, n, k),
           \A j \in n + 1 .. m : q[j].key # k
    PROVE  RaisedLast(q, m, k)
<1>1. Len(l) \in Nat /\ Len(q) \in Nat
  OBVIOUS
<1>2. \A h \in 1 .. n : q[h] = l[h]
  BY <1>1
<1>3. CASE \E h \in 1 .. n : /\ l[h].key = k /\ ~ l[h].cleared
                             /\ \A j \in h + 1 .. n : l[j].key # k
  <2>1. PICK h \in 1 .. n : /\ l[h].key = k /\ ~ l[h].cleared
                            /\ \A j \in h + 1 .. n : l[j].key # k
    BY <1>3
  <2>2. h \in 1 .. m /\ q[h] = l[h]
    BY <1>1, <1>2
  <2>3. \A j \in h + 1 .. m : q[j].key # k
    <3> TAKE j \in h + 1 .. m
    <3>1. CASE j <= n
      <4>1. j \in h + 1 .. n /\ j \in 1 .. n
        BY <1>1, <3>1
      <4> QED BY <1>2, <2>1, <4>1
    <3>2. CASE j > n
      <4>1. j \in n + 1 .. m
        BY <1>1, <3>2
      <4> QED BY <4>1
    <3> QED BY <1>1, <3>1, <3>2
  <2> QED BY <2>1, <2>2, <2>3 DEF RaisedLast
<1>4. CASE (\A h \in 1 .. n : l[h].key # k) /\ Len(l) >= Cap
  <2>1. \A h \in 1 .. m : q[h].key # k
    <3> TAKE h \in 1 .. m
    <3>1. h \in 1 .. n \/ h \in n + 1 .. m
      BY <1>1
    <3> QED BY <1>2, <1>4, <3>1
  <2>2. Len(q) >= Cap
    BY <1>1, <1>4
  <2> QED BY <2>1, <2>2 DEF RaisedLast
<1> QED BY <1>3, <1>4 DEF RaisedLast

(* Raises of conditions that were not active.                               *)
LEMMA RaisesAppended ==
    ASSUME NEW l \in Seq(Event), NEW e, NEW K, NEW S,
           S \cap K = {}, ActiveIn(l, K), PairedIn(l), EventFor(e, S, FALSE)
    PROVE  ActiveIn(l \o e, K \cup S) /\ PairedIn(l \o e)
<1> DEFINE q == l \o e
           n == Len(l)
<1>0. /\ e \in Seq(Event)
      /\ \A i \in 1 .. Len(e) : e[i].key \in S /\ ~ e[i].cleared
      /\ \A i, j \in 1 .. Len(e) : i # j => e[i].key # e[j].key
      /\ \A k \in S : \E i \in 1 .. Len(e) : e[i].key = k
  BY DEF EventFor
<1>1. /\ q \in Seq(Event) /\ n \in Nat /\ Len(e) \in Nat /\ Len(q) = n + Len(e)
      /\ \A i \in 1 .. n : q[i] = l[i]
      /\ \A i \in 1 .. Len(e) : q[n + i] = e[i]
  BY <1>0, ConcatProperties
<1> HIDE DEF q
<1>2. \A j \in n + 1 .. Len(q) : j - n \in 1 .. Len(e) /\ q[j] = e[j - n]
  <2> TAKE j \in n + 1 .. Len(q)
  <2>1. j - n \in 1 .. Len(e) /\ j = n + (j - n)
    BY <1>1
  <2> QED BY <1>1, <2>1
<1>3. ASSUME NEW k \in K PROVE RaisedLast(q, Len(q), k)
  <2>1. RaisedLast(l, n, k)
    BY DEF ActiveIn
  <2>2. \A j \in n + 1 .. Len(q) : q[j].key # k
    BY <1>0, <1>2
  <2>3. n \in 0 .. Len(l) /\ Len(q) \in n .. Len(q) /\ Len(l) <= Len(q)
    BY <1>1
  <2> QED BY <1>1, <2>1, <2>2, <2>3, RaisedLastGrows
<1>4. ASSUME NEW k \in S PROVE RaisedLast(q, Len(q), k)
  <2>1. PICK p \in 1 .. Len(e) : e[p].key = k
    BY <1>0
  <2>2. n + p \in 1 .. Len(q) /\ q[n + p].key = k /\ ~ q[n + p].cleared
    BY <1>0, <1>1, <2>1
  <2>3. ASSUME NEW j \in n + p + 1 .. Len(q) PROVE q[j].key # k
    <3>1. j \in n + 1 .. Len(q) /\ j - n # p
      BY <1>1
    <3>2. j - n \in 1 .. Len(e) /\ q[j] = e[j - n]
      BY <1>2, <3>1
    <3>3. e[j - n].key # e[p].key
      BY <1>0, <3>1, <3>2
    <3> QED BY <2>1, <3>2, <3>3
  <2> QED BY <2>2, <2>3 DEF RaisedLast
<1>5. ASSUME NEW i \in 1 .. Len(q), q[i].cleared PROVE RaisedLast(q, i - 1, q[i].key)
  <2>1. i <= n
    <3> SUFFICES ASSUME i > n PROVE FALSE
      BY <1>1
    <3>1. i \in n + 1 .. Len(q)
      BY <1>1
    <3> QED BY <1>0, <1>2, <1>5, <3>1
  <2>2. i \in 1 .. n /\ i - 1 \in 0 .. Len(l) /\ i - 1 \in i - 1 .. Len(q) /\ Len(l) <= Len(q)
    BY <1>1, <2>1
  <2>3. q[i] = l[i]
    BY <1>1, <2>2
  <2>4. RaisedLast(l, i - 1, q[i].key)
    BY <1>5, <2>2, <2>3 DEF PairedIn
  <2>5. \A j \in (i - 1) + 1 .. i - 1 : q[j].key # q[i].key
    BY <2>2
  <2> QED BY <1>1, <2>2, <2>4, <2>5, RaisedLastGrows
<1> QED BY <1>3, <1>4, <1>5 DEF ActiveIn, PairedIn, q

(* Clears of conditions that were active.                                   *)
LEMMA ClearsAppended ==
    ASSUME NEW l \in Seq(Event), NEW e, NEW K, NEW S,
           S \subseteq K, ActiveIn(l, K), PairedIn(l), EventFor(e, S, TRUE)
    PROVE  ActiveIn(l \o e, K \ S) /\ PairedIn(l \o e)
<1> DEFINE q == l \o e
           n == Len(l)
<1>0. /\ e \in Seq(Event)
      /\ \A i \in 1 .. Len(e) : e[i].key \in S
      /\ \A i, j \in 1 .. Len(e) : i # j => e[i].key # e[j].key
  BY DEF EventFor
<1>1. /\ q \in Seq(Event) /\ n \in Nat /\ Len(e) \in Nat /\ Len(q) = n + Len(e)
      /\ \A i \in 1 .. n : q[i] = l[i]
      /\ \A i \in 1 .. Len(e) : q[n + i] = e[i]
  BY <1>0, ConcatProperties
<1> HIDE DEF q
<1>2. \A j \in n + 1 .. Len(q) : j - n \in 1 .. Len(e) /\ q[j] = e[j - n]
  <2> TAKE j \in n + 1 .. Len(q)
  <2>1. j - n \in 1 .. Len(e) /\ j = n + (j - n)
    BY <1>1
  <2> QED BY <1>1, <2>1
<1>3. ASSUME NEW k \in K \ S PROVE RaisedLast(q, Len(q), k)
  <2>1. RaisedLast(l, n, k)
    BY DEF ActiveIn
  <2>2. \A j \in n + 1 .. Len(q) : q[j].key # k
    BY <1>0, <1>2
  <2>3. n \in 0 .. Len(l) /\ Len(q) \in n .. Len(q) /\ Len(l) <= Len(q)
    BY <1>1
  <2> QED BY <1>1, <2>1, <2>2, <2>3, RaisedLastGrows
<1>4. ASSUME NEW i \in 1 .. Len(q), q[i].cleared PROVE RaisedLast(q, i - 1, q[i].key)
  <2>1. Len(l) <= Len(q) /\ i - 1 \in i - 1 .. Len(q)
    BY <1>1
  <2>2. CASE i <= n
    <3>1. i \in 1 .. n /\ i - 1 \in 0 .. Len(l)
      BY <1>1, <2>2
    <3>2. q[i] = l[i]
      BY <1>1, <3>1
    <3>3. RaisedLast(l, i - 1, q[i].key)
      BY <1>4, <3>1, <3>2 DEF PairedIn
    <3>4. \A j \in (i - 1) + 1 .. i - 1 : q[j].key # q[i].key
      BY <3>1
    <3> QED BY <1>1, <2>1, <3>1, <3>3, <3>4, RaisedLastGrows
  <2>3. CASE i > n
    <3>1. i \in n + 1 .. Len(q) /\ n \in 0 .. Len(l) /\ i - 1 \in n .. Len(q)
      BY <1>1, <2>3
    <3>2. q[i].key \in K
      BY <1>0, <1>2, <3>1
    <3>3. RaisedLast(l, n, q[i].key)
      BY <3>2 DEF ActiveIn
    <3>4. ASSUME NEW j \in n + 1 .. i - 1 PROVE q[j].key # q[i].key
      <4>1. j \in n + 1 .. Len(q) /\ j - n # i - n
        BY <1>1, <3>1
      <4> QED BY <1>0, <1>2, <3>1, <4>1
    <3> QED BY <1>1, <2>1, <3>1, <3>3, <3>4, RaisedLastGrows
  <2> QED BY <1>1, <2>2, <2>3
<1> QED BY <1>3, <1>4 DEF ActiveIn, PairedIn, q

LEMMA ExtendedAppended ==
    ASSUME NEW old \in Seq(Event), NEW l \in Seq(Event), NEW e \in Seq(Event),
           ExtendedBy(old, l)
    PROVE  ExtendedBy(old, l \o e)
<1> DEFINE q == l \o e
<1>1. /\ Len(l) \in Nat /\ Len(q) \in Nat /\ Len(l) <= Len(q) /\ Len(old) \in Nat
      /\ \A i \in 1 .. Len(l) : q[i] = l[i]
  BY ConcatProperties
<1>2. PICK d \in 0 .. Len(old) :
          /\ Len(old) - d <= Len(l)
          /\ \A i \in 1 .. Len(old) - d : l[i] = old[d + i]
          /\ d > 0 => Len(l) >= Cap
  BY DEF ExtendedBy
<1> HIDE DEF q
<1>3. /\ Len(old) - d <= Len(q)
      /\ \A i \in 1 .. Len(old) - d : q[i] = old[d + i]
      /\ d > 0 => Len(q) >= Cap
  BY <1>1, <1>2
<1> QED BY <1>3 DEF ExtendedBy, q

(* The newest Cap events of a log: its oldest t are gone.                   *)
LEMMA NewestCuts ==
    ASSUME NEW q \in Seq(Event), NEW m, m = Newest(q)
    PROVE  \E t \in 0 .. Len(q) :
               /\ m \in Seq(Event)
               /\ Len(m) = Len(q) - t /\ Len(m) <= Cap
               /\ (t > 0 \/ Len(q) >= Cap) => Len(m) = Cap
               /\ \A i \in 1 .. Len(m) : m[i] = q[t + i]
<1>1. Len(q) \in Nat
  OBVIOUS
<1>2. CASE Len(q) <= Cap
  <2>1. m = q
    BY <1>2 DEF Newest
  <2>2. 0 \in 0 .. Len(q) /\ Len(m) = Len(q) - 0 /\ Len(m) <= Cap
    BY <1>1, <1>2, <2>1
  <2>3. (0 > 0 \/ Len(q) >= Cap) => Len(m) = Cap
    BY <1>1, <1>2, <2>1
  <2>4. \A i \in 1 .. Len(m) : m[i] = q[0 + i]
    BY <2>1
  <2> QED BY <2>1, <2>2, <2>3, <2>4
<1>3. CASE Len(q) > Cap
  <2> DEFINE t == Len(q) - Cap
  <2>1. m = SubSeq(q, t + 1, Len(q))
    BY <1>1, <1>3 DEF Newest
  <2>2. t \in 0 .. Len(q) /\ t > 0 /\ t + 1 <= Len(q) /\ t + Cap = Len(q)
    BY <1>1, <1>3
  <2>3. \A i \in t + 1 .. Len(q) : q[i] \in Event
    BY <1>1, <2>2
  <2>4. /\ m \in Seq(Event)
        /\ Len(m) = IF t + 1 <= Len(q) THEN Len(q) - (t + 1) + 1 ELSE 0
        /\ \A i \in 1 .. Len(q) - (t + 1) + 1 : m[i] = q[(t + 1) + i - 1]
    <3>1. t + 1 \in Int /\ Len(q) \in Int
      BY <1>1, <2>2
    <3> HIDE DEF t
    <3> QED BY <2>1, <2>3, <3>1, SubSeqProperties
  <2> HIDE DEF t
  <2>5. Len(m) = Cap /\ Len(m) = Len(q) - t /\ \A i \in 1 .. Len(m) : m[i] = q[t + i]
    <3>1. t \in Nat /\ Len(q) - (t + 1) + 1 = Cap /\ Len(q) - t = Cap
      BY <1>1, <2>2
    <3>2. Len(m) = Cap
      BY <2>2, <2>4, <3>1
    <3>3. \A i \in 1 .. Cap : m[i] = q[(t + 1) + i - 1] /\ (t + 1) + i - 1 = t + i
      BY <2>4, <3>1
    <3> QED BY <3>1, <3>2, <3>3
  <2>6. /\ m \in Seq(Event)
        /\ Len(m) = Len(q) - t /\ Len(m) <= Cap
        /\ (t > 0 \/ Len(q) >= Cap) => Len(m) = Cap
        /\ \A i \in 1 .. Len(m) : m[i] = q[t + i]
    BY <2>4, <2>5
  <2> QED BY <2>2, <2>6
<1>4. Len(q) <= Cap \/ Len(q) > Cap
  BY <1>1
<1> QED BY <1>2, <1>3, <1>4, Zenon

LEMMA RaisedLastCut ==
    ASSUME NEW q \in Seq(Event), NEW m \in Seq(Event), NEW t \in 0 .. Len(q),
           Len(m) = Len(q) - t,
           (t > 0 \/ Len(q) >= Cap) => Len(m) = Cap,
           \A i \in 1 .. Len(m) : m[i] = q[t + i],
           NEW n \in t .. Len(q), NEW k, RaisedLast(q, n, k)
    PROVE  RaisedLast(m, n - t, k)
<1>1. Len(q) \in Nat /\ Len(m) \in Nat
  OBVIOUS
<1>2. \A i \in 1 .. n - t : m[i] = q[t + i] /\ t + i \in 1 .. n
  BY <1>1
<1>3. CASE \E h \in 1 .. n : /\ q[h].key = k /\ ~ q[h].cleared
                             /\ \A j \in h + 1 .. n : q[j].key # k
  <2>1. PICK h \in 1 .. n : /\ q[h].key = k /\ ~ q[h].cleared
                            /\ \A j \in h + 1 .. n : q[j].key # k
    BY <1>3
  <2>2. CASE h > t
    <3>1. h - t \in 1 .. n - t /\ t + (h - t) = h
      BY <1>1, <2>2
    <3>2. m[h - t] = q[h]
      BY <1>2, <3>1
    <3>3. ASSUME NEW j \in (h - t) + 1 .. n - t PROVE m[j].key # k
      <4>1. j \in 1 .. n - t /\ t + j \in h + 1 .. n
        BY <1>1, <3>1
      <4> QED BY <1>2, <2>1, <4>1
    <3> QED BY <2>1, <3>1, <3>2, <3>3 DEF RaisedLast
  <2>3. CASE h <= t
    <3>1. ASSUME NEW j \in 1 .. n - t PROVE m[j].key # k
      <4>1. t + j \in h + 1 .. n
        BY <1>1, <2>3
      <4> QED BY <1>2, <2>1, <4>1
    <3>2. Len(m) >= Cap
      BY <1>1, <2>3
    <3> QED BY <3>1, <3>2 DEF RaisedLast
  <2> QED BY <1>1, <2>2, <2>3
<1>4. CASE (\A h \in 1 .. n : q[h].key # k) /\ Len(q) >= Cap
  <2>1. \A h \in 1 .. n - t : m[h].key # k
    BY <1>2, <1>4
  <2>2. Len(m) >= Cap
    BY <1>1, <1>4
  <2> QED BY <2>1, <2>2 DEF RaisedLast
<1> QED BY <1>3, <1>4 DEF RaisedLast

(* Cutting a log spoils nothing.                                            *)
LEMMA NewestKeeps ==
    ASSUME NEW q \in Seq(Event)
    PROVE  /\ Newest(q) \in Log
           /\ PairedIn(q) => PairedIn(Newest(q))
           /\ \A K : ActiveIn(q, K) => ActiveIn(Newest(q), K)
           /\ \A old \in Seq(Event) : ExtendedBy(old, q) => ExtendedBy(old, Newest(q))
<1> DEFINE m == Newest(q)
<1>1. PICK t \in 0 .. Len(q) :
          /\ m \in Seq(Event)
          /\ Len(m) = Len(q) - t /\ Len(m) <= Cap
          /\ (t > 0 \/ Len(q) >= Cap) => Len(m) = Cap
          /\ \A i \in 1 .. Len(m) : m[i] = q[t + i]
  BY NewestCuts
<1>2. m \in Log
  BY <1>1, LogIsSeq
<1> HIDE DEF m
<1>3. Len(q) \in Nat /\ Len(m) \in Nat
  BY <1>1
<1>4. ASSUME PairedIn(q), NEW i \in 1 .. Len(m), m[i].cleared
      PROVE  RaisedLast(m, i - 1, m[i].key)
  <2>1. t + i \in 1 .. Len(q) /\ t + i - 1 \in t .. Len(q) /\ (t + i - 1) - t = i - 1
    BY <1>1, <1>3
  <2>2. m[i] = q[t + i]
    BY <1>1
  <2>3. RaisedLast(q, t + i - 1, m[i].key)
    BY <1>4, <2>1, <2>2 DEF PairedIn
  <2>4. RaisedLast(m, (t + i - 1) - t, m[i].key)
    BY <1>1, <2>1, <2>3, RaisedLastCut
  <2> QED BY <2>1, <2>4
<1>5. ASSUME NEW K, ActiveIn(q, K), NEW k \in K
      PROVE  RaisedLast(m, Len(m), k)
  <2>1. Len(q) \in t .. Len(q) /\ Len(m) = Len(q) - t
    BY <1>1, <1>3
  <2>2. RaisedLast(q, Len(q), k)
    BY <1>5 DEF ActiveIn
  <2>3. RaisedLast(m, Len(q) - t, k)
    BY <1>1, <2>1, <2>2, RaisedLastCut
  <2> QED BY <2>1, <2>3
<1>6. ASSUME NEW old \in Seq(Event), ExtendedBy(old, q)
      PROVE  ExtendedBy(old, m)
  <2>1. PICK d \in 0 .. Len(old) :
            /\ Len(old) - d <= Len(q)
            /\ \A i \in 1 .. Len(old) - d : q[i] = old[d + i]
            /\ d > 0 => Len(q) >= Cap
    BY <1>6 DEF ExtendedBy
  <2>2. Len(old) \in Nat
    OBVIOUS
  <2>3. CASE d + t <= Len(old)
    <3>1. d + t \in 0 .. Len(old) /\ Len(old) - (d + t) <= Len(m)
      BY <1>1, <1>3, <2>1, <2>2, <2>3
    <3>2. ASSUME NEW i \in 1 .. Len(old) - (d + t) PROVE m[i] = old[(d + t) + i]
      <4>1. i \in 1 .. Len(m) /\ t + i \in 1 .. Len(old) - d /\ d + (t + i) = (d + t) + i
        BY <1>3, <2>2, <3>1
      <4> QED BY <1>1, <2>1, <4>1
    <3>3. d + t > 0 => Len(m) >= Cap
      BY <1>1, <1>3, <2>1
    <3> QED BY <3>1, <3>2, <3>3 DEF ExtendedBy
  <2>4. CASE d + t > Len(old)
    <3>1. /\ Len(old) \in 0 .. Len(old) /\ Len(old) - Len(old) <= Len(m)
          /\ \A i \in 1 .. Len(old) - Len(old) : m[i] = old[Len(old) + i]
          /\ Len(m) >= Cap
      BY <1>1, <1>3, <2>2, <2>4
    <3> QED BY <3>1 DEF ExtendedBy
  <2> QED BY <2>2, <2>3, <2>4
<1> QED BY <1>2, <1>4, <1>5, <1>6 DEF ActiveIn, PairedIn, m

-------------------------------------------------------------------------------
(* The sessions.                                                            *)

Terminal(c) == c \notin {"off", "json"}

(* Every log, on disk or on display, is paired; a terminal session's log    *)
(* agrees with its alerts, and extends what is on disk unless another       *)
(* session has written that since.                                          *)
LogInv ==
    /\ \A s \in Sessions : log[s] \in Seq(Event) /\ PairedIn(log[s])
    /\ file = Whole(file.log) /\ PairedIn(file.log)
    /\ \A s \in Sessions : pc[s] = "off" => alerts[s] = {}
    /\ \A s \in Sessions : Terminal(pc[s]) => ActiveIn(log[s], alerts[s])
    /\ \A s \in Sessions :
          (Terminal(pc[s]) /\ ~ stale[s]) => ExtendedBy(file.log, log[s])

(* What is about to be renamed is the whole log.                            *)
Files == {Torn} \cup {Whole(l) : l \in Log}

TmpInv ==
    /\ tmp \in [Sessions -> Files]
    /\ \A s \in Sessions : pc[s] = "rename" => tmp[s] = Whole(log[s])

AlertInv == TypeOK /\ log \in [Sessions -> Log] /\ LogInv /\ TmpInv

LEMMA EmptyLog == <<>> \in Log /\ PairedIn(<<>>)
<1>1. <<>> \in Seq(Event) /\ Len(<<>>) = 0
  OBVIOUS
<1>2. \A i \in 1 .. Len(<<>>) : FALSE
  BY <1>1
<1>3. <<>> \in Log
  <2>1. Len(<<>>) <= Cap
    BY <1>1
  <2> QED BY <1>1, <2>1, LogIsSeq, Zenon
<1> QED BY <1>2, <1>3 DEF PairedIn

LEMMA WholeLog ==
    ASSUME NEW l
    PROVE  /\ Whole(l).whole = TRUE /\ Whole(l).log = l
           /\ Whole(l) = Whole(Whole(l).log)
<1> QED BY DEF Whole

LEMMA FileType ==
    ASSUME NEW w \in Files
    PROVE  w.whole \in BOOLEAN /\ w.log \in Log
<1>1. CASE w = Torn
  BY <1>1, EmptyLog DEF Torn
<1>2. CASE \E l \in Log : w = Whole(l)
  BY <1>2, WholeLog
<1> QED BY <1>1, <1>2 DEF Files

LEMMA ExtendedByItself ==
    ASSUME NEW l \in Seq(Event)
    PROVE  ExtendedBy(l, l)
<1>1. /\ 0 \in 0 .. Len(l) /\ Len(l) - 0 <= Len(l)
      /\ \A i \in 1 .. Len(l) - 0 : l[i] = l[0 + i]
      /\ 0 > 0 => Len(l) >= Cap
  OBVIOUS
<1> QED BY <1>1 DEF ExtendedBy

LEMMA InitAlert == Init => AlertInv
<1> SUFFICES ASSUME Init PROVE AlertInv
  OBVIOUS
<1>1. /\ pc = [s \in Sessions |-> "off"] /\ leaving = [s \in Sessions |-> FALSE]
      /\ alerts = [s \in Sessions |-> {}] /\ log = [s \in Sessions |-> <<>>]
      /\ tmp = [s \in Sessions |-> Torn]
      /\ file = Whole(<<>>) /\ stale = [s \in Sessions |-> FALSE] /\ ticks = 0
  BY DEF Init
<1>2. /\ file.whole = TRUE /\ file.log = <<>> /\ file = Whole(file.log)
  BY <1>1, WholeLog
<1>3. TypeOK /\ log \in [Sessions -> Log]
  <2>1. leaving \in [Sessions -> BOOLEAN] /\ stale \in [Sessions -> BOOLEAN]
    BY <1>1, Zenon
  <2>2. /\ pc \in [Sessions -> {"off", "on", "save", "rename", "json"}]
        /\ alerts \in [Sessions -> SUBSET Keys] /\ ticks \in 0 .. MaxTicks
        /\ log \in [Sessions -> Log] /\ \A s \in Sessions : log[s] \in Log
    BY <1>1, EmptyLog
  <2>3. file.whole \in BOOLEAN /\ file.log \in Log
    BY <1>2, EmptyLog
  <2>4. \A s \in Sessions : tmp[s].whole \in BOOLEAN /\ tmp[s].log \in Log
    <3>1. \A s \in Sessions : tmp[s] \in Files
      BY <1>1 DEF Files
    <3> QED BY <3>1, FileType
  <2> QED BY <2>1, <2>2, <2>3, <2>4 DEF TypeOK
<1>4. LogInv
  BY <1>1, <1>2, EmptyLog, LogIsSeq DEF LogInv, Terminal
<1>5. TmpInv
  BY <1>1 DEF TmpInv, Files
<1> QED BY <1>3, <1>4, <1>5 DEF AlertInv

(* A step of one session, and perhaps of the file: what it must bring for   *)
(* the invariant to hold of it.                                             *)
LEMMA SessionStep ==
    ASSUME AlertInv, NEW s \in Sessions,
           NEW c \in {"off", "on", "save", "rename", "json"}, NEW l \in Log,
           NEW A \in SUBSET Keys, NEW f \in Log, NEW w \in Files,
           pc' = [pc EXCEPT ![s] = c], alerts' = [alerts EXCEPT ![s] = A],
           log' = [log EXCEPT ![s] = l], tmp' = [tmp EXCEPT ![s] = w], file' = Whole(f),
           leaving' \in [Sessions -> BOOLEAN], stale' \in [Sessions -> BOOLEAN],
           ticks' \in 0 .. MaxTicks,
           PairedIn(l), PairedIn(f),
           c = "off" => A = {},
           c = "rename" => w = Whole(l),
           Terminal(c) => ActiveIn(l, A),
           (Terminal(c) /\ ~ stale'[s]) => ExtendedBy(f, l),
           \A t \in Sessions :
               (t # s /\ Terminal(pc[t]) /\ ~ stale'[t]) => ~ stale[t] /\ f = file.log
    PROVE  AlertInv'
<1>1. /\ pc \in [Sessions -> {"off", "on", "save", "rename", "json"}]
      /\ alerts \in [Sessions -> SUBSET Keys] /\ log \in [Sessions -> Log]
      /\ tmp \in [Sessions -> Files]
  BY DEF AlertInv, TypeOK, TmpInv
<1>2. /\ pc'[s] = c /\ alerts'[s] = A /\ log'[s] = l /\ tmp'[s] = w
      /\ \A t \in Sessions : t # s => /\ pc'[t] = pc[t] /\ alerts'[t] = alerts[t]
                                      /\ log'[t] = log[t] /\ tmp'[t] = tmp[t]
      /\ tmp' \in [Sessions -> Files]
      /\ pc' \in [Sessions -> {"off", "on", "save", "rename", "json"}]
      /\ alerts' \in [Sessions -> SUBSET Keys] /\ log' \in [Sessions -> Log]
  BY <1>1
<1>3. file'.whole = TRUE /\ file'.log = f /\ file' = Whole(file'.log)
  BY WholeLog
<1>4. TypeOK'
  <2>1. \A t \in Sessions : tmp'[t].whole \in BOOLEAN /\ tmp'[t].log \in Log
    BY <1>2, FileType
  <2> QED BY <1>2, <1>3, <2>1 DEF TypeOK
<1>5. ASSUME NEW t \in Sessions
      PROVE  /\ log'[t] \in Seq(Event) /\ PairedIn(log'[t])
             /\ pc'[t] = "off" => alerts'[t] = {}
             /\ Terminal(pc'[t]) => ActiveIn(log'[t], alerts'[t])
             /\ (Terminal(pc'[t]) /\ ~ stale'[t]) => ExtendedBy(f, log'[t])
  <2>1. CASE t = s
    BY <1>2, <2>1, LogIsSeq
  <2>2. CASE t # s
    <3>1. /\ log[t] \in Seq(Event) /\ PairedIn(log[t])
          /\ pc[t] = "off" => alerts[t] = {}
          /\ Terminal(pc[t]) => ActiveIn(log[t], alerts[t])
          /\ (Terminal(pc[t]) /\ ~ stale[t]) => ExtendedBy(file.log, log[t])
      BY DEF AlertInv, LogInv
    <3> QED BY <1>2, <2>2, <3>1
  <2> QED BY <2>1, <2>2
<1>6. LogInv'
  BY <1>3, <1>5 DEF LogInv
<1>7. TmpInv'
  <2>1. \A t \in Sessions : pc[t] = "rename" => tmp[t] = Whole(log[t])
    BY DEF AlertInv, TmpInv
  <2> QED BY <1>2, <2>1 DEF TmpInv
<1> QED BY <1>2, <1>4, <1>6, <1>7 DEF AlertInv

(* What the invariant says of one session, and of the file.                 *)
LEMMA AlertFacts ==
    ASSUME AlertInv, NEW s \in Sessions
    PROVE  /\ pc[s] \in {"off", "on", "save", "rename", "json"} /\ leaving[s] \in BOOLEAN
           /\ alerts[s] \in SUBSET Keys /\ log[s] \in Log /\ log[s] \in Seq(Event)
           /\ file = Whole(file.log) /\ file.log \in Log /\ file.log \in Seq(Event)
           /\ PairedIn(log[s]) /\ PairedIn(file.log)
           /\ pc[s] = "off" => alerts[s] = {}
           /\ Terminal(pc[s]) => ActiveIn(log[s], alerts[s])
           /\ (Terminal(pc[s]) /\ ~ stale[s]) => ExtendedBy(file.log, log[s])
           /\ leaving \in [Sessions -> BOOLEAN] /\ stale \in [Sessions -> BOOLEAN]
           /\ ticks \in 0 .. MaxTicks
           /\ pc = [pc EXCEPT ![s] = pc[s]] /\ alerts = [alerts EXCEPT ![s] = alerts[s]]
           /\ log = [log EXCEPT ![s] = log[s]] /\ tmp = [tmp EXCEPT ![s] = tmp[s]]
           /\ tmp[s] \in Files /\ Torn \in Files /\ Whole(log[s]) \in Files
           /\ pc[s] = "rename" => tmp[s] = Whole(log[s])
<1>1. TypeOK /\ log \in [Sessions -> Log] /\ LogInv /\ TmpInv
  BY DEF AlertInv
<1>2. /\ pc \in [Sessions -> {"off", "on", "save", "rename", "json"}]
      /\ alerts \in [Sessions -> SUBSET Keys] /\ log \in [Sessions -> Log]
      /\ leaving \in [Sessions -> BOOLEAN] /\ stale \in [Sessions -> BOOLEAN]
      /\ ticks \in 0 .. MaxTicks /\ file.log \in Log
  BY <1>1 DEF TypeOK
<1>3. /\ pc = [pc EXCEPT ![s] = pc[s]] /\ alerts = [alerts EXCEPT ![s] = alerts[s]]
      /\ log = [log EXCEPT ![s] = log[s]]
  BY <1>2
<1>4. /\ tmp = [tmp EXCEPT ![s] = tmp[s]]
      /\ tmp[s] \in Files /\ Torn \in Files /\ Whole(log[s]) \in Files
      /\ pc[s] = "rename" => tmp[s] = Whole(log[s])
  BY <1>1, <1>2 DEF TmpInv, Files
<1>5. leaving[s] \in BOOLEAN
  BY <1>2, Zenon
<1> QED BY <1>1, <1>2, <1>3, <1>4, <1>5, LogIsSeq DEF LogInv

(* A process reads the file, or nothing.                                    *)
LEMMA LoadIs ==
    ASSUME NEW l \in Log, NEW read \in BOOLEAN
    PROVE  Load(Whole(l), read) = IF read THEN l ELSE <<>>
<1>1. Len(l) <= Cap
  BY LogIsSeq
<1> QED BY <1>1, WholeLog DEF Load, Newest

LEMMA StartAlert ==
    ASSUME AlertInv, NEW s \in Sessions, NEW S \in SUBSET Keys, Launch(s) \/ OneShot(s, S)
    PROVE  AlertInv'
<1>1. \E c \in {"on", "json"} :
          /\ Begin(s, c)
          /\ \/ c = "on" /\ alerts' = alerts
             \/ c = "json" /\ alerts' = [alerts EXCEPT ![s] = S]
  BY DEF Launch, OneShot
<1>2. PICK c \in {"on", "json"} :
          /\ Begin(s, c)
          /\ \/ c = "on" /\ alerts' = alerts
             \/ c = "json" /\ alerts' = [alerts EXCEPT ![s] = S]
  BY <1>1
<1>3. PICK read \in BOOLEAN :
          log' = [log EXCEPT ![s] = Load(file, read)] /\ stale' = [stale EXCEPT ![s] = ~read]
  BY <1>2 DEF Begin
<1>4. pc[s] = "off" /\ pc' = [pc EXCEPT ![s] = c] /\ UNCHANGED <<leaving, tmp, file, ticks>>
  BY <1>2 DEF Begin
<1> DEFINE l == IF read THEN file.log ELSE <<>>
<1>5. log' = [log EXCEPT ![s] = l] /\ l \in Log /\ PairedIn(l)
  BY <1>3, AlertFacts, LoadIs, EmptyLog
<1>6. PICK A \in SUBSET Keys : alerts' = [alerts EXCEPT ![s] = A] /\ (c = "on" => A = {})
  BY <1>2, <1>4, AlertFacts
<1>7. stale' \in [Sessions -> BOOLEAN] /\ (~ stale'[s] => read)
  BY <1>3, AlertFacts, Zenon
<1>8. \A t \in Sessions : t # s => stale'[t] = stale[t]
  BY <1>3, AlertFacts
<1>9. ~ stale'[s] => ExtendedBy(file.log, l)
  BY <1>7, AlertFacts, ExtendedByItself
<1> HIDE DEF l
<1>10. Terminal(c) => ActiveIn(l, A)
  BY <1>6 DEF Terminal, ActiveIn
<1>11. /\ c \in {"off", "on", "save", "rename", "json"} /\ c # "off" /\ c # "rename"
       /\ file' = Whole(file.log) /\ file.log \in Log /\ PairedIn(file.log)
       /\ tmp' = [tmp EXCEPT ![s] = tmp[s]] /\ tmp[s] \in Files
       /\ leaving' \in [Sessions -> BOOLEAN] /\ ticks' \in 0 .. MaxTicks
  BY <1>4, AlertFacts
<1>12. \A t \in Sessions :
           (t # s /\ Terminal(pc[t]) /\ ~ stale'[t]) => ~ stale[t] /\ file.log = file.log
  BY <1>8, Zenon
<1>13. /\ pc' = [pc EXCEPT ![s] = c] /\ alerts' = [alerts EXCEPT ![s] = A]
       /\ c = "off" => A = {}
       /\ c = "rename" => tmp[s] = Whole(l)
       /\ Terminal(c) => ActiveIn(l, A)
       /\ (Terminal(c) /\ ~ stale'[s]) => ExtendedBy(file.log, l)
  BY <1>4, <1>6, <1>9, <1>10, <1>11
<1> QED BY <1>5, <1>7, <1>11, <1>12, <1>13, SessionStep

(* A tick logs what has changed.                                            *)
LEMMA RefreshAlert ==
    ASSUME AlertInv, NEW s \in Sessions, NEW fresh \in SUBSET Keys, Refresh(s, fresh)
    PROVE  AlertInv'
<1> DEFINE old == alerts[s]
           l   == log[s]
<1>1. PICK raises \in Logged(Raised(old, fresh), FALSE),
           clears \in Logged(Cleared(old, fresh), TRUE) :
          log' = [log EXCEPT ![s] = Newest(l \o raises \o clears)]
  BY DEF Refresh
<1>2. /\ pc[s] = "on" /\ ticks' \in 0 .. MaxTicks
      /\ alerts' = [alerts EXCEPT ![s] = fresh] /\ pc' = [pc EXCEPT ![s] = "save"]
      /\ UNCHANGED <<leaving, tmp, file, stale>>
  BY AlertFacts DEF Refresh
<1>3. /\ l \in Seq(Event) /\ old \in SUBSET Keys
      /\ PairedIn(l) /\ ActiveIn(l, old)
      /\ ~ stale[s] => ExtendedBy(file.log, l)
  BY <1>2, AlertFacts DEF Terminal
<1> HIDE DEF old, l
<1>4. EventFor(raises, fresh \ old, FALSE) /\ raises \in Seq(Event)
  <2>1. fresh \ old \in SUBSET Keys /\ raises \in Logged(fresh \ old, FALSE)
    BY DEF Raised
  <2>2. EventFor(raises, fresh \ old, FALSE)
    BY <2>1, LoggedEvents, Zenon
  <2> QED BY <2>2 DEF EventFor
<1>5. EventFor(clears, old \ fresh, TRUE) /\ clears \in Seq(Event)
  <2>1. old \ fresh \in SUBSET Keys /\ clears \in Logged(old \ fresh, TRUE)
    BY <1>3 DEF Cleared
  <2>2. EventFor(clears, old \ fresh, TRUE)
    BY <2>1, LoggedEvents, Zenon
  <2> QED BY <2>2 DEF EventFor
<1> DEFINE lr == l \o raises
           q  == lr \o clears
<1>6. lr \in Seq(Event) /\ ActiveIn(lr, old \cup (fresh \ old)) /\ PairedIn(lr)
  <2>1. (fresh \ old) \cap old = {}
    OBVIOUS
  <2> QED BY <1>3, <1>4, <2>1, RaisesAppended, ConcatProperties
<1>7. ~ stale[s] => ExtendedBy(file.log, lr)
  BY <1>3, <1>4, AlertFacts, ExtendedAppended
<1> HIDE DEF lr
<1>8. q \in Seq(Event) /\ ActiveIn(q, fresh) /\ PairedIn(q)
  <2>1. /\ old \ fresh \subseteq old \cup (fresh \ old)
        /\ (old \cup (fresh \ old)) \ (old \ fresh) = fresh
    OBVIOUS
  <2>2. ActiveIn(q, (old \cup (fresh \ old)) \ (old \ fresh)) /\ PairedIn(q)
    BY <1>5, <1>6, <2>1, ClearsAppended
  <2> QED BY <1>5, <1>6, <2>1, <2>2, ConcatProperties
<1>9. ~ stale[s] => ExtendedBy(file.log, q)
  BY <1>5, <1>6, <1>7, AlertFacts, ExtendedAppended
<1> HIDE DEF q
<1>10. /\ Newest(q) \in Log /\ PairedIn(Newest(q)) /\ ActiveIn(Newest(q), fresh)
       /\ ~ stale[s] => ExtendedBy(file.log, Newest(q))
  BY <1>8, <1>9, AlertFacts, NewestKeeps
<1>11. log' = [log EXCEPT ![s] = Newest(q)]
  BY <1>1 DEF q, lr
<1>12. /\ tmp' = [tmp EXCEPT ![s] = tmp[s]] /\ tmp[s] \in Files
       /\ file' = Whole(file.log) /\ file.log \in Log /\ PairedIn(file.log)
       /\ leaving' \in [Sessions -> BOOLEAN] /\ stale' \in [Sessions -> BOOLEAN]
       /\ stale' = stale
  BY <1>2, AlertFacts
<1>13. /\ "save" \in {"off", "on", "save", "rename", "json"}
       /\ "save" = "off" => fresh = {}
       /\ "save" = "rename" => tmp[s] = Whole(Newest(q))
       /\ Terminal("save") => ActiveIn(Newest(q), fresh)
       /\ (Terminal("save") /\ ~ stale'[s]) => ExtendedBy(file.log, Newest(q))
       /\ \A t \in Sessions :
             (t # s /\ Terminal(pc[t]) /\ ~ stale'[t]) => ~ stale[t] /\ file.log = file.log
  BY <1>10, <1>12
<1> QED BY <1>2, <1>10, <1>11, <1>12, <1>13, SessionStep

(* The operator quits.                                                      *)
LEMMA QuitAlert ==
    ASSUME AlertInv, NEW s \in Sessions, Quit(s)
    PROVE  AlertInv'
<1>1. /\ Terminal(pc[s]) /\ pc' = [pc EXCEPT ![s] = "save"]
      /\ leaving' = [leaving EXCEPT ![s] = TRUE]
      /\ UNCHANGED <<alerts, log, tmp, file, stale, ticks>>
  BY DEF Quit, Terminal
<1>2. leaving' \in [Sessions -> BOOLEAN]
  BY <1>1, AlertFacts, Zenon
<1>3. Terminal("save") /\ "save" # "off" /\ "save" # "rename"
  BY DEF Terminal
<1>4. /\ pc' = [pc EXCEPT ![s] = "save"]
      /\ log' = [log EXCEPT ![s] = log[s]] /\ alerts' = [alerts EXCEPT ![s] = alerts[s]]
      /\ tmp' = [tmp EXCEPT ![s] = tmp[s]] /\ tmp[s] \in Files
      /\ file' = Whole(file.log) /\ file.log \in Log /\ PairedIn(file.log)
      /\ stale' \in [Sessions -> BOOLEAN] /\ stale' = stale /\ ticks' \in 0 .. MaxTicks
  BY <1>1, AlertFacts
<1>5. /\ log[s] \in Log /\ alerts[s] \in SUBSET Keys /\ PairedIn(log[s])
      /\ ActiveIn(log[s], alerts[s]) /\ (~ stale[s] => ExtendedBy(file.log, log[s]))
  BY <1>1, AlertFacts
<1>6. /\ "save" \in {"off", "on", "save", "rename", "json"}
      /\ "save" = "off" => alerts[s] = {}
      /\ "save" = "rename" => tmp[s] = Whole(log[s])
      /\ Terminal("save") => ActiveIn(log[s], alerts[s])
      /\ (Terminal("save") /\ ~ stale'[s]) => ExtendedBy(file.log, log[s])
      /\ \A t \in Sessions :
            (t # s /\ Terminal(pc[t]) /\ ~ stale'[t]) => ~ stale[t] /\ file.log = file.log
  BY <1>3, <1>4, <1>5
<1> QED BY <1>2, <1>4, <1>5, <1>6, SessionStep

(* Back to the loop, or gone.                                               *)
LEMMA AfterSaveIs ==
    ASSUME AlertInv, NEW s \in Sessions, AfterSave(s) \/ Gone(s)
    PROVE  /\ leaving' \in [Sessions -> BOOLEAN]
           /\ \/ /\ pc' = [pc EXCEPT ![s] = "off"] /\ alerts' = [alerts EXCEPT ![s] = {}]
                 /\ log' = [log EXCEPT ![s] = <<>>]
              \/ /\ AfterSave(s)
                 /\ pc' = [pc EXCEPT ![s] = "on"] /\ alerts' = [alerts EXCEPT ![s] = alerts[s]]
                 /\ log' = [log EXCEPT ![s] = log[s]]
<1>1. \/ Gone(s)
      \/ AfterSave(s) /\ pc' = [pc EXCEPT ![s] = "on"] /\ UNCHANGED <<leaving, alerts, log>>
  BY DEF AfterSave
<1>2. leaving' \in [Sessions -> BOOLEAN]
  <2>1. leaving' = leaving \/ leaving' = [leaving EXCEPT ![s] = FALSE]
    BY <1>1 DEF Gone
  <2> QED BY <2>1, AlertFacts, Zenon
<1> QED BY <1>1, <1>2, AlertFacts DEF Gone

(* A session that gives up a save, or is killed; the file stays.            *)
LEMMA GoneAlert ==
    ASSUME AlertInv, NEW s \in Sessions,
           \/ AfterSave(s) /\ pc[s] \in {"save", "rename"}
           \/ Gone(s),
           tmp' = [tmp EXCEPT ![s] = Torn], UNCHANGED <<file, stale, ticks>>
    PROVE  AlertInv'
<1>1. "off" # "rename" /\ "on" # "rename" /\ "on" # "off"
  OBVIOUS
<1>2. CASE /\ pc' = [pc EXCEPT ![s] = "off"] /\ alerts' = [alerts EXCEPT ![s] = {}]
           /\ log' = [log EXCEPT ![s] = <<>>]
  <2>1. ~ Terminal("off")
    BY DEF Terminal
  <2> QED BY <1>1, <1>2, <2>1, AfterSaveIs, AlertFacts, EmptyLog, SessionStep
<1>3. CASE /\ pc[s] \in {"save", "rename"}
           /\ pc' = [pc EXCEPT ![s] = "on"] /\ alerts' = [alerts EXCEPT ![s] = alerts[s]]
           /\ log' = [log EXCEPT ![s] = log[s]]
  <2>1. Terminal(pc[s]) /\ Terminal("on")
    BY <1>3 DEF Terminal
  <2> QED BY <1>1, <1>3, <2>1, AfterSaveIs, AlertFacts, SessionStep
<1> QED BY <1>2, <1>3, AfterSaveIs DEF Gone

(* The temporary file is written, or not.                                   *)
LEMMA WriteAlert ==
    ASSUME AlertInv, NEW s \in Sessions, WriteLog(s)
    PROVE  AlertInv'
<1>1. /\ pc[s] = "save" /\ UNCHANGED <<file, stale, ticks>>
      /\ \/ /\ tmp' = [tmp EXCEPT ![s] = Whole(log[s])]
            /\ pc' = [pc EXCEPT ![s] = "rename"] /\ UNCHANGED <<leaving, alerts, log>>
         \/ tmp' = [tmp EXCEPT ![s] = Torn] /\ AfterSave(s)
  BY DEF WriteLog, MayRename
<1>2. CASE /\ tmp' = [tmp EXCEPT ![s] = Whole(log[s])]
           /\ pc' = [pc EXCEPT ![s] = "rename"] /\ UNCHANGED <<leaving, alerts, log>>
  <2>1. Terminal(pc[s]) /\ Terminal("rename") /\ "rename" # "off"
    BY <1>1 DEF Terminal
  <2> QED BY <1>1, <1>2, <2>1, AlertFacts, SessionStep
<1>3. CASE tmp' = [tmp EXCEPT ![s] = Torn] /\ AfterSave(s)
  BY <1>1, <1>3, GoneAlert
<1> QED BY <1>1, <1>2, <1>3

(* A save is done: the file is the session's log.                           *)
LEMMA RenameAlert ==
    ASSUME AlertInv, NEW s \in Sessions, Rename(s)
    PROVE  AlertInv'
<1>1. /\ Terminal(pc[s]) /\ file' = Whole(log[s]) /\ AfterSave(s) /\ UNCHANGED ticks
      /\ stale' = [t \in Sessions |-> t # s /\ pc[t] # "off"]
      /\ tmp' = [tmp EXCEPT ![s] = Torn]
  BY AlertFacts DEF Rename, Terminal
<1>2. stale' \in [Sessions -> BOOLEAN]
  BY <1>1, Zenon
<1>3. \A t \in Sessions : (t # s /\ Terminal(pc[t])) => stale'[t]
  BY <1>1 DEF Terminal
<1>4. ExtendedBy(log[s], log[s])
  BY AlertFacts, ExtendedByItself
<1>5. /\ ~ Terminal("off") /\ Terminal("on") /\ "on" # "off"
      /\ "off" # "rename" /\ "on" # "rename"
  BY DEF Terminal
<1>6. CASE /\ pc' = [pc EXCEPT ![s] = "off"] /\ alerts' = [alerts EXCEPT ![s] = {}]
           /\ log' = [log EXCEPT ![s] = <<>>]
  BY <1>1, <1>2, <1>3, <1>5, <1>6, AfterSaveIs, AlertFacts, EmptyLog, SessionStep
<1>7. CASE /\ pc' = [pc EXCEPT ![s] = "on"] /\ alerts' = [alerts EXCEPT ![s] = alerts[s]]
           /\ log' = [log EXCEPT ![s] = log[s]]
  BY <1>1, <1>2, <1>3, <1>4, <1>5, <1>7, AfterSaveIs, AlertFacts, SessionStep
<1> QED BY <1>1, <1>6, <1>7, AfterSaveIs

LEMMA AlertStep == AlertInv /\ [Next]_vars => AlertInv'
<1> SUFFICES ASSUME AlertInv, [Next]_vars PROVE AlertInv'
  OBVIOUS
<1>1. CASE UNCHANGED vars
  BY <1>1 DEF vars, AlertInv, TypeOK, LogInv, TmpInv
<1>2. ASSUME NEW s \in Sessions,
             \/ Launch(s) \/ Quit(s) \/ Kill(s)
             \/ \E S \in SUBSET Keys : Refresh(s, S) \/ OneShot(s, S)
             \/ WriteLog(s) \/ Rename(s) \/ FailRename(s)
      PROVE  AlertInv'
  <2>1. ASSUME NEW S \in SUBSET Keys, Launch(s) \/ Refresh(s, S) \/ OneShot(s, S)
        PROVE  AlertInv'
    BY <2>1, StartAlert, RefreshAlert
  <2>2. {} \in SUBSET Keys
    OBVIOUS
  <2>3. CASE Kill(s) \/ FailRename(s)
    BY <2>3, GoneAlert DEF Kill, FailRename
  <2> QED BY <1>2, <2>1, <2>2, <2>3, QuitAlert, WriteAlert, RenameAlert
<1> QED BY <1>1, <1>2 DEF Next

LEMMA AlertInductive == Spec => []AlertInv
<1> QED BY InitAlert, AlertStep, PTL DEF Spec

(* The model is well typed in every reachable state; no log is ever longer  *)
(* than its cap.                                                            *)
THEOREM AlertTypeCorrect == Spec => []TypeOK
<1>1. AlertInv => TypeOK
  BY DEF AlertInv
<1> QED BY <1>1, AlertInductive, PTL

(* The raise an active alert is timed from is the newest thing said of it.  *)
THEOREM ActivesAreRaised == Spec => []ActiveRaised
<1>1. AlertInv => ActiveRaised
  <2> SUFFICES ASSUME AlertInv, NEW s \in Sessions, pc[s] \notin {"off", "json"},
                      NEW k \in alerts[s]
               PROVE  LET i == ActiveFor(log[s], k)
                      IN  i = LastOf(log[s], k) /\ (i = 0 => Len(log[s]) = Cap)
    BY DEF ActiveRaised
  <2>1. log[s] \in Log /\ ActiveIn(log[s], alerts[s])
    BY AlertFacts DEF Terminal
  <2> QED BY <2>1, ActiveMeans
<1> QED BY <1>1, AlertInductive, PTL

(* A clear is paired with the raise it ends, in every log of every session  *)
(* and in the file they share.                                              *)
THEOREM ClearsArePaired == Spec => []ClearsPaired
<1>1. AlertInv => ClearsPaired
  <2> SUFFICES ASSUME AlertInv PROVE ClearsPaired
    OBVIOUS
  <2>1. file.log \in Log /\ PairedIn(file.log)
    BY DEF AlertInv, TypeOK, LogInv
  <2>2. \A s \in Sessions : log[s] \in Log /\ PairedIn(log[s])
    BY DEF AlertInv, TypeOK, LogInv
  <2> QED BY <2>1, <2>2, PairedMeans DEF ClearsPaired
<1> QED BY <1>1, AlertInductive, PTL

(* The file is never cut short, whoever is killed while writing it.         *)
THEOREM FileStaysWhole == Spec => []FileWhole
<1>1. AlertInv => FileWhole
  BY WholeLog DEF AlertInv, LogInv, FileWhole
<1> QED BY <1>1, AlertInductive, PTL

(* A save that overwrites what no other session has written since drops     *)
(* only what the cap pushes out.                                            *)
THEOREM HistoryIsKept == Spec => HistoryKept
<1>1. ASSUME AlertInv, [Next]_vars, NEW s \in Sessions,
             pc[s] = "rename", file' # file, ~ stale[s], ~ stale'[s]
      PROVE  Extends(file.log, file'.log)
  <2>1. PICK t \in Sessions : Rename(t)
    BY <1>1 DEF Next, vars, Launch, OneShot, Begin, Quit, Kill, Refresh, WriteLog, FailRename
  <2>2. s = t
    BY <1>1, <2>1 DEF Rename
  <2>3. file'.log = log[s]
    BY <1>1, <2>1, <2>2, AlertFacts, WholeLog DEF Rename
  <2>4. ExtendedBy(file.log, log[s]) /\ file.log \in Log /\ log[s] \in Log
    BY <1>1, AlertFacts DEF Terminal
  <2> QED BY <2>3, <2>4, ExtendedMeans
<1>2. AlertInv /\ [Next]_vars =>
          [\A s \in Sessions :
              (pc[s] = "rename" /\ file' # file /\ ~stale[s] /\ ~stale'[s])
                  => Extends(file.log, file'.log)]_vars
  BY <1>1
<1> QED BY <1>2, AlertInductive, PTL DEF Spec, HistoryKept
===============================================================================
