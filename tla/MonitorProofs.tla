------------------------------ MODULE MonitorProofs ------------------------------
(***************************************************************************)
(* Proofs about hztop's view of its heads (Monitor): for any number of      *)
(* heads, each polled by a task of its own, and any number of changes and   *)
(* failed requests.                                                         *)
(***************************************************************************)
EXTENDS Monitor, TLAPS

USE MonitorAssumption

(* The records of the type invariant.                                       *)
HeadType == [up : BOOLEAN, boot : 1 .. MaxChanges + 1, ready : Phases, rejected : Count,
             stalled : BOOLEAN, room : Rooms,
             tip : 1 .. MaxChanges + 1, due : 0 .. MaxChanges + 1]
GotType  == [stats : AnyStats, ready : Phases \cup {None}, version : 0 .. MaxChanges + 1]
AppType  == [reachable : {"unknown", "yes", "no"}, ready : Phases \cup {None},
             version : 0 .. MaxChanges + 1, stats : AnyStats, rejecting : BOOLEAN,
             max : Rooms, tip : 0 .. MaxChanges + 1]
Tips     == 0 .. MaxChanges + 1
Places   == {"stats", "ready", "version", "publish"}
Kinds    == {"unreachable", "status", "hard-confirm", "headroom", "backpressure", "fallback"}

-------------------------------------------------------------------------------
(* The invariant.                                                           *)

(* Samples that are none count no boot; a head has booted at least once.    *)
Sample(t) == IF t.some THEN t.boot >= 1 ELSE t.boot = 0

(* Of one head: the head s after c changes, the answers g, the state a that *)
(* is published, and the histories.  A readiness that is held anywhere was  *)
(* the head's since the last round that failed; stats that are held, and a  *)
(* head that is called reachable, have been answered for.                   *)
Fine(s, c, g, a, an, ph, co) ==
    /\ s.boot <= c + 1 /\ s.rejected <= c /\ s.tip <= c + 1
    /\ s.ready \in ph
    /\ g.ready \in ph \cup {None}
    /\ a.ready \in ph \cup {None}
    /\ Sample(g.stats) /\ Sample(a.stats)
    /\ co = a.stats
    /\ g.stats.some => an # {}
    /\ a.reachable = "yes" => an # {}

FineHeads ==
    \A h \in Heads : Fine(srv[h], changes, got[h], app[h], answered[h], phases[h], counted[h])

(* A JSON is complete once every head is known to be up or down.            *)
JsonInv ==
    complete => /\ mode \in {"compute", "print", "exited"}
                /\ \A h \in Heads : app[h].reachable # "unknown"
                /\ mode \in {"print", "exited"} =>
                      \A h \in Heads : answered[h] # {} \/ "unreachable" \in alerts[h]

MonitorInv == TypeOK /\ FineHeads /\ JsonInv

LEMMA TypeIs ==
    TypeOK <=>
    /\ srv \in [Heads -> HeadType] /\ changes \in Count /\ pc \in [Heads -> Places]
    /\ got \in [Heads -> GotType] /\ app \in [Heads -> AppType]
    /\ alerts \in [Heads -> SUBSET Kinds] /\ held \in [Heads -> Tips]
    /\ mode \in Modes \cup {"compute", "print", "exited"} /\ complete \in BOOLEAN
    /\ answered \in [Heads -> SUBSET Rooms] /\ phases \in [Heads -> SUBSET Phases]
    /\ counted \in [Heads -> AnyStats]
<1> QED BY Zenon DEF TypeOK, HeadType, GotType, AppType, Places, Kinds, Tips

LEMMA NextTypeIs ==
    TypeOK' <=>
    /\ srv' \in [Heads -> HeadType] /\ changes' \in Count /\ pc' \in [Heads -> Places]
    /\ got' \in [Heads -> GotType] /\ app' \in [Heads -> AppType]
    /\ alerts' \in [Heads -> SUBSET Kinds] /\ held' \in [Heads -> Tips]
    /\ mode' \in Modes \cup {"compute", "print", "exited"} /\ complete' \in BOOLEAN
    /\ answered' \in [Heads -> SUBSET Rooms] /\ phases' \in [Heads -> SUBSET Phases]
    /\ counted' \in [Heads -> AnyStats]
<1> QED BY Zenon DEF TypeOK, HeadType, GotType, AppType, Places, Kinds, Tips

(* No answer.                                                               *)
LEMMA NothingIs ==
    /\ NoStats \in AnyStats /\ Sample(NoStats) /\ ~ NoStats.some
    /\ Nothing \in GotType /\ Nothing.stats = NoStats /\ Nothing.ready = None
<1>1. 0 \in 0 .. MaxChanges + 1 /\ 0 \in Count /\ 0 \in Rooms
  BY DEF Count, Rooms
<1>2. NoStats \in AnyStats
  BY <1>1, Zenon DEF NoStats, AnyStats
<1>3. ~ NoStats.some /\ NoStats.boot = 0
  BY DEF NoStats
<1>4. Nothing.stats = NoStats /\ Nothing.ready = None
  BY DEF Nothing
<1>5. Nothing \in GotType
  BY <1>1, <1>2, Zenon DEF Nothing, GotType
<1> QED BY <1>2, <1>3, <1>4, <1>5 DEF Sample

LEMMA InitMonitor == Init => MonitorInv
<1> SUFFICES ASSUME Init PROVE MonitorInv
  OBVIOUS
<1>1. /\ srv \in [Heads -> InitialHead] /\ changes = 0
      /\ pc = [h \in Heads |-> "stats"] /\ got = [h \in Heads |-> Nothing]
      /\ held = [h \in Heads |-> 0]
      /\ app = [h \in Heads |-> NewHead] /\ alerts = [h \in Heads |-> {}]
      /\ mode \in Modes /\ complete = FALSE
      /\ answered = [h \in Heads |-> {}] /\ phases = [h \in Heads |-> {srv[h].ready}]
      /\ counted = [h \in Heads |-> NoStats]
  BY DEF Init, SpawnAll
<1>2. ASSUME NEW s \in InitialHead
      PROVE  /\ s \in HeadType /\ s.ready \in Phases
             /\ s.boot <= 0 + 1 /\ s.rejected <= 0 /\ s.tip <= 0 + 1
  <2>1. 1 \in 1 .. MaxChanges + 1 /\ 0 \in 0 .. MaxChanges + 1 /\ 0 \in Count
    BY DEF Count
  <2>2. s \in HeadType
    BY <2>1, Zenon DEF InitialHead, HeadType, Phases
  <2>3. s.boot = 1 /\ s.rejected = 0 /\ s.tip = 1
    BY DEF InitialHead
  <2> QED BY <2>2, <2>3 DEF HeadType
<1>3. /\ NewHead \in AppType /\ NewHead.reachable = "unknown" /\ NewHead.ready = None
      /\ NewHead.stats = NoStats
  <2>1. 0 \in 0 .. MaxChanges + 1 /\ 0 \in Rooms
    BY DEF Rooms
  <2>2. NewHead \in AppType
    BY <2>1, NothingIs, Zenon DEF NewHead, AppType
  <2> QED BY <2>2 DEF NewHead
<1>4. TypeOK
  <2>1. srv \in [Heads -> HeadType] /\ phases \in [Heads -> SUBSET Phases]
    BY <1>1, <1>2
  <2>2. pc \in [Heads -> Places] /\ got \in [Heads -> GotType] /\ app \in [Heads -> AppType]
    BY <1>1, <1>3, NothingIs DEF Places
  <2>3. /\ alerts \in [Heads -> SUBSET Kinds] /\ answered \in [Heads -> SUBSET Rooms]
        /\ counted \in [Heads -> AnyStats] /\ changes \in Count
        /\ held \in [Heads -> Tips]
        /\ mode \in Modes \cup {"compute", "print", "exited"}
    BY <1>1, NothingIs DEF Count, Tips
  <2>4. complete \in BOOLEAN
    BY <1>1
  <2> QED BY <2>1, <2>2, <2>3, <2>4, TypeIs
<1>5. ASSUME NEW h \in Heads
      PROVE  Fine(srv[h], changes, got[h], app[h], answered[h], phases[h], counted[h])
  <2>1. /\ got[h] = Nothing /\ app[h] = NewHead /\ phases[h] = {srv[h].ready}
        /\ counted[h] = NoStats /\ srv[h] \in InitialHead /\ changes = 0
    BY <1>1
  <2> QED BY <1>2, <1>3, <2>1, NothingIs DEF Fine
<1>6. JsonInv
  BY <1>1 DEF JsonInv
<1> QED BY <1>4, <1>5, <1>6 DEF MonitorInv, FineHeads

-------------------------------------------------------------------------------
(* What the invariant says of one head.                                     *)
LEMMA HeadFacts ==
    ASSUME MonitorInv, NEW h \in Heads
    PROVE  /\ srv[h] \in HeadType /\ got[h] \in GotType /\ app[h] \in AppType
           /\ answered[h] \in SUBSET Rooms /\ phases[h] \in SUBSET Phases
           /\ counted[h] \in AnyStats /\ pc[h] \in Places
           /\ changes \in Nat /\ changes <= MaxChanges /\ held \in [Heads -> Tips]
           /\ Fine(srv[h], changes, got[h], app[h], answered[h], phases[h], counted[h])
           /\ srv = [srv EXCEPT ![h] = srv[h]] /\ got = [got EXCEPT ![h] = got[h]]
           /\ app = [app EXCEPT ![h] = app[h]] /\ pc = [pc EXCEPT ![h] = pc[h]]
           /\ answered = [answered EXCEPT ![h] = answered[h]]
           /\ phases = [phases EXCEPT ![h] = phases[h]]
           /\ counted = [counted EXCEPT ![h] = counted[h]]
<1>1. TypeOK /\ FineHeads
  BY DEF MonitorInv
<1>2. /\ srv \in [Heads -> HeadType] /\ changes \in Count /\ pc \in [Heads -> Places]
      /\ got \in [Heads -> GotType] /\ app \in [Heads -> AppType]
      /\ answered \in [Heads -> SUBSET Rooms] /\ phases \in [Heads -> SUBSET Phases]
      /\ counted \in [Heads -> AnyStats] /\ held \in [Heads -> Tips]
  BY <1>1, TypeIs
<1>3. Fine(srv[h], changes, got[h], app[h], answered[h], phases[h], counted[h])
  BY <1>1 DEF FineHeads
<1>4. changes \in Nat /\ changes <= MaxChanges
  BY <1>2 DEF Count
<1>5. /\ srv = [srv EXCEPT ![h] = srv[h]] /\ got = [got EXCEPT ![h] = got[h]]
      /\ app = [app EXCEPT ![h] = app[h]] /\ pc = [pc EXCEPT ![h] = pc[h]]
      /\ answered = [answered EXCEPT ![h] = answered[h]]
      /\ phases = [phases EXCEPT ![h] = phases[h]]
      /\ counted = [counted EXCEPT ![h] = counted[h]]
  BY <1>2
<1> QED BY <1>2, <1>3, <1>4, <1>5

(* A step of one head or of its poller brings these.                        *)
Moves(h, s, g, a, p, an, ph, co) ==
    /\ srv' = [srv EXCEPT ![h] = s] /\ got' = [got EXCEPT ![h] = g]
    /\ app' = [app EXCEPT ![h] = a] /\ pc' = [pc EXCEPT ![h] = p]
    /\ answered' = [answered EXCEPT ![h] = an] /\ phases' = [phases EXCEPT ![h] = ph]
    /\ counted' = [counted EXCEPT ![h] = co]
    /\ alerts' = alerts /\ mode' = mode /\ complete' = complete
    /\ held' \in [Heads -> Tips]
    /\ changes' \in Nat /\ changes <= changes' /\ changes' <= MaxChanges

LEMMA HeadStep ==
    ASSUME MonitorInv, NEW h \in Heads,
           NEW s \in HeadType, NEW g \in GotType, NEW a \in AppType, NEW p \in Places,
           NEW an \in SUBSET Rooms, NEW ph \in SUBSET Phases, NEW co \in AnyStats,
           Moves(h, s, g, a, p, an, ph, co),
           Fine(s, changes', g, a, an, ph, co),
           a.reachable = "unknown" => app[h].reachable = "unknown",
           answered[h] \subseteq an
    PROVE  MonitorInv'
<1>0. /\ srv' = [srv EXCEPT ![h] = s] /\ got' = [got EXCEPT ![h] = g]
      /\ app' = [app EXCEPT ![h] = a] /\ pc' = [pc EXCEPT ![h] = p]
      /\ answered' = [answered EXCEPT ![h] = an] /\ phases' = [phases EXCEPT ![h] = ph]
      /\ counted' = [counted EXCEPT ![h] = co]
      /\ alerts' = alerts /\ mode' = mode /\ complete' = complete
      /\ held' \in [Heads -> Tips]
      /\ changes' \in Nat /\ changes <= changes' /\ changes' <= MaxChanges
  BY DEF Moves
<1>1. /\ srv \in [Heads -> HeadType] /\ changes \in Count /\ pc \in [Heads -> Places]
      /\ got \in [Heads -> GotType] /\ app \in [Heads -> AppType]
      /\ alerts \in [Heads -> SUBSET Kinds]
      /\ mode \in Modes \cup {"compute", "print", "exited"} /\ complete \in BOOLEAN
      /\ answered \in [Heads -> SUBSET Rooms] /\ phases \in [Heads -> SUBSET Phases]
      /\ counted \in [Heads -> AnyStats]
  BY TypeIs, Zenon DEF MonitorInv
<1>2. TypeOK'
  <2>1. changes' \in Count
    BY <1>0 DEF Count
  <2>2. /\ srv' \in [Heads -> HeadType] /\ pc' \in [Heads -> Places]
        /\ got' \in [Heads -> GotType] /\ app' \in [Heads -> AppType]
        /\ answered' \in [Heads -> SUBSET Rooms] /\ phases' \in [Heads -> SUBSET Phases]
        /\ counted' \in [Heads -> AnyStats]
    BY <1>0, <1>1
  <2>3. /\ alerts' \in [Heads -> SUBSET Kinds]
        /\ mode' \in Modes \cup {"compute", "print", "exited"} /\ complete' \in BOOLEAN
        /\ held' \in [Heads -> Tips]
    BY <1>0, <1>1, Zenon
  <2> QED BY <2>1, <2>2, <2>3, NextTypeIs
<1>3. /\ srv'[h] = s /\ got'[h] = g /\ app'[h] = a
      /\ answered'[h] = an /\ phases'[h] = ph /\ counted'[h] = co
      /\ \A j \in Heads : j # h =>
            /\ srv'[j] = srv[j] /\ got'[j] = got[j] /\ app'[j] = app[j]
            /\ answered'[j] = answered[j] /\ phases'[j] = phases[j] /\ counted'[j] = counted[j]
  BY <1>0, <1>1
<1>4. FineHeads'
  <2> SUFFICES ASSUME NEW j \in Heads
               PROVE  Fine(srv'[j], changes', got'[j], app'[j], answered'[j], phases'[j],
                           counted'[j])
    BY DEF FineHeads
  <2>1. CASE j = h
    BY <1>3, <2>1
  <2>2. CASE j # h
    <3>1. Fine(srv[j], changes, got[j], app[j], answered[j], phases[j], counted[j])
      BY DEF MonitorInv, FineHeads
    <3>2. /\ srv[j].boot \in Nat /\ srv[j].rejected \in Nat /\ srv[j].tip \in Nat
          /\ changes \in Nat
      BY <1>1 DEF HeadType, Count
    <3>3. Fine(srv[j], changes', got[j], app[j], answered[j], phases[j], counted[j])
      BY <1>0, <3>1, <3>2 DEF Fine
    <3> QED BY <1>3, <2>2, <3>3
  <2> QED BY <2>1, <2>2
<1>5. JsonInv'
  <2>1. /\ \A j \in Heads : app'[j].reachable = "unknown" => app[j].reachable = "unknown"
        /\ \A j \in Heads : answered[j] \subseteq answered'[j]
    BY <1>3
  <2> QED BY <1>0, <2>1 DEF MonitorInv, JsonInv
<1> QED BY <1>2, <1>4, <1>5 DEF MonitorInv

-------------------------------------------------------------------------------
(* The heads.                                                               *)

LEMMA ChangeMonitor ==
    ASSUME MonitorInv, NEW h \in Heads, NEW new \in HeadType, Change(h, new),
           new.boot <= changes + 2, new.rejected <= changes + 1, new.tip <= changes + 2
    PROVE  MonitorInv'
<1>1. /\ changes < MaxChanges /\ changes' = changes + 1
      /\ srv' = [srv EXCEPT ![h] = new]
      /\ phases' = [phases EXCEPT ![h] = phases[h] \cup {new.ready}]
      /\ UNCHANGED <<pc, got, held, app, alerts, mode, complete, answered, counted>>
  BY DEF Change
<1>2. /\ changes' \in Nat /\ changes <= changes' /\ changes' <= MaxChanges
      /\ new.boot <= changes' + 1 /\ new.rejected <= changes' /\ new.tip <= changes' + 1
  <2>1. changes \in Nat /\ changes < MaxChanges /\ changes' = changes + 1
    BY <1>1, HeadFacts
  <2>2. new.boot \in Nat /\ new.rejected \in Nat /\ new.tip \in Nat
    BY DEF HeadType, Count
  <2> QED BY <2>1, <2>2
<1>3. phases[h] \cup {new.ready} \in SUBSET Phases /\ new.ready \in phases[h] \cup {new.ready}
  BY HeadFacts DEF HeadType
<1>4. Fine(new, changes', got[h], app[h], answered[h], phases[h] \cup {new.ready}, counted[h])
  BY <1>2, <1>3, HeadFacts DEF Fine
<1>5. /\ got' = [got EXCEPT ![h] = got[h]] /\ app' = [app EXCEPT ![h] = app[h]]
      /\ pc' = [pc EXCEPT ![h] = pc[h]] /\ answered' = [answered EXCEPT ![h] = answered[h]]
      /\ counted' = [counted EXCEPT ![h] = counted[h]]
      /\ held' \in [Heads -> Tips]
  BY <1>1, HeadFacts
<1>6. /\ got[h] \in GotType /\ app[h] \in AppType /\ pc[h] \in Places
      /\ answered[h] \in SUBSET Rooms /\ counted[h] \in AnyStats
      /\ answered[h] \subseteq answered[h]
      /\ (app[h].reachable = "unknown" => app[h].reachable = "unknown")
  BY HeadFacts
<1>7. Moves(h, new, got[h], app[h], pc[h], answered[h], phases[h] \cup {new.ready}, counted[h])
  BY <1>1, <1>2, <1>5 DEF Moves
<1> QED BY <1>3, <1>4, <1>6, <1>7, HeadStep

(* All that a head does is such a change.                                   *)
ServerStep(h) ==
    \/ GoDown(h) \/ ComeBack(h) \/ Reboot(h)
    \/ Advance(h) \/ Reject(h) \/ Fill(h) \/ Drain(h) \/ Stall(h)
    \/ Produce(h) \/ Age(h)

LEMMA ServerMonitor ==
    ASSUME MonitorInv, NEW h \in Heads, ServerStep(h)
    PROVE  MonitorInv'
<1> DEFINE s == srv[h]
<1>1. /\ s \in HeadType /\ s.boot <= changes + 1 /\ s.rejected <= changes
      /\ s.tip <= changes + 1 /\ changes \in Nat
  BY HeadFacts DEF Fine
<1>2. /\ s.boot \in 1 .. MaxChanges + 1 /\ s.rejected \in Nat
      /\ s.tip \in 1 .. MaxChanges + 1 /\ s.due \in 0 .. MaxChanges + 1
  BY <1>1 DEF HeadType, Count
<1>3. s.boot <= changes + 2 /\ s.rejected <= changes + 1 /\ s.tip <= changes + 2
  <2> HIDE DEF s
  <2> QED BY <1>1, <1>2
<1>4. 0 \in Rooms /\ 1 \in Rooms /\ 0 \in Count /\ 0 <= changes + 1
      /\ "initializing" \in Phases /\ "active" \in Phases /\ "finalized" \in Phases
  BY <1>1 DEF Rooms, Count, Phases
<1>5. CASE \E b \in BOOLEAN : Change(h, [s EXCEPT !.up = b])
  <2>1. PICK b \in BOOLEAN : Change(h, [s EXCEPT !.up = b])
    BY <1>5
  <2>2. /\ [s EXCEPT !.up = b] \in HeadType /\ [s EXCEPT !.up = b].boot = s.boot
        /\ [s EXCEPT !.up = b].rejected = s.rejected /\ [s EXCEPT !.up = b].tip = s.tip
    BY <1>1, Zenon DEF HeadType
  <2> QED BY <1>3, <2>1, <2>2, ChangeMonitor
<1>6. CASE \E r \in Phases : Change(h, [s EXCEPT !.ready = r])
  <2>1. PICK r \in Phases : Change(h, [s EXCEPT !.ready = r])
    BY <1>6
  <2>2. /\ [s EXCEPT !.ready = r] \in HeadType /\ [s EXCEPT !.ready = r].boot = s.boot
        /\ [s EXCEPT !.ready = r].rejected = s.rejected /\ [s EXCEPT !.ready = r].tip = s.tip
    BY <1>1, Zenon DEF HeadType
  <2> QED BY <1>3, <2>1, <2>2, ChangeMonitor
<1>7. CASE \E n \in Rooms : Change(h, [s EXCEPT !.room = n])
  <2>1. PICK n \in Rooms : Change(h, [s EXCEPT !.room = n])
    BY <1>7
  <2>2. /\ [s EXCEPT !.room = n] \in HeadType /\ [s EXCEPT !.room = n].boot = s.boot
        /\ [s EXCEPT !.room = n].rejected = s.rejected /\ [s EXCEPT !.room = n].tip = s.tip
    BY <1>1, Zenon DEF HeadType
  <2> QED BY <1>3, <2>1, <2>2, ChangeMonitor
<1>8. CASE Stall(h)
  <2>1. Change(h, [s EXCEPT !.stalled = ~@])
    BY <1>8 DEF Stall
  <2>2. /\ [s EXCEPT !.stalled = ~@] \in HeadType /\ [s EXCEPT !.stalled = ~@].boot = s.boot
        /\ [s EXCEPT !.stalled = ~@].rejected = s.rejected /\ [s EXCEPT !.stalled = ~@].tip = s.tip
    BY <1>1, Zenon DEF HeadType
  <2> QED BY <1>3, <2>1, <2>2, ChangeMonitor
<1>9. CASE Produce(h)
  <2> DEFINE new == [s EXCEPT !.tip = @ + 1]
  <2>1. Change(h, new) /\ changes < MaxChanges
    BY <1>9 DEF Produce, Change
  <2>2. s.tip + 1 \in 1 .. MaxChanges + 1 /\ s.tip + 1 <= changes + 2
    <3> HIDE DEF s
    <3> QED BY <1>1, <1>2, <2>1
  <2>3. /\ new \in HeadType /\ new.boot = s.boot /\ new.rejected = s.rejected
        /\ new.tip = s.tip + 1
    BY <1>1, <2>2, Zenon DEF HeadType
  <2> HIDE DEF new
  <2> QED BY <1>3, <2>1, <2>2, <2>3, ChangeMonitor
<1>10. CASE Age(h)
  <2> DEFINE new == [s EXCEPT !.due = @ + 1]
  <2>1. Change(h, new) /\ s.due < s.tip
    BY <1>10 DEF Age
  <2>2. s.due + 1 \in 0 .. MaxChanges + 1
    <3> HIDE DEF s
    <3> QED BY <1>2, <2>1
  <2>3. /\ new \in HeadType /\ new.boot = s.boot /\ new.rejected = s.rejected
        /\ new.tip = s.tip
    BY <1>1, <2>2, Zenon DEF HeadType
  <2> HIDE DEF new
  <2> QED BY <1>3, <2>1, <2>3, ChangeMonitor
<1>11. CASE Reboot(h)
  <2> DEFINE new == [s EXCEPT !.up = TRUE, !.boot = @ + 1, !.ready = "initializing",
                              !.rejected = 0, !.stalled = FALSE, !.room = 1]
  <2>1. Change(h, new) /\ changes < MaxChanges
    BY <1>11 DEF Reboot, Change
  <2>2. s.boot + 1 \in 1 .. MaxChanges + 1 /\ s.boot + 1 <= changes + 2
    <3> HIDE DEF s
    <3> QED BY <1>1, <1>2, <2>1
  <2>3. new \in HeadType
    BY <1>1, <1>4, <2>2, Zenon DEF HeadType
  <2>4. new.boot = s.boot + 1 /\ new.rejected = 0 /\ new.tip = s.tip
    BY <1>1, Zenon DEF HeadType
  <2> HIDE DEF new
  <2> QED BY <1>3, <1>4, <2>1, <2>2, <2>3, <2>4, ChangeMonitor
<1>12. CASE Reject(h)
  <2> DEFINE new == [s EXCEPT !.rejected = @ + 1, !.room = 0]
  <2>1. Change(h, new) /\ changes < MaxChanges
    BY <1>12 DEF Reject, Change
  <2>2. s.rejected + 1 \in Count /\ s.rejected + 1 <= changes + 1
    <3> HIDE DEF s
    <3> QED BY <1>1, <1>2, <2>1 DEF Count
  <2>3. new \in HeadType
    BY <1>1, <1>4, <2>2, Zenon DEF HeadType
  <2>4. new.rejected = s.rejected + 1 /\ new.boot = s.boot /\ new.tip = s.tip
    BY <1>1, Zenon DEF HeadType
  <2> HIDE DEF new
  <2> QED BY <1>3, <2>1, <2>2, <2>3, <2>4, ChangeMonitor
<1>13. GoDown(h) \/ ComeBack(h) => \E b \in BOOLEAN : Change(h, [s EXCEPT !.up = b])
  BY DEF GoDown, ComeBack
<1>14. Advance(h) => \E r \in Phases : Change(h, [s EXCEPT !.ready = r])
  BY <1>4 DEF Advance
<1>15. Fill(h) \/ Drain(h) => \E n \in Rooms : Change(h, [s EXCEPT !.room = n])
  BY <1>4 DEF Fill, Drain
<1> HIDE DEF s
<1> QED
  BY <1>5, <1>6, <1>7, <1>8, <1>9, <1>10, <1>11, <1>12, <1>13, <1>14, <1>15
  DEF ServerStep

-------------------------------------------------------------------------------
(* The stats poller.                                                        *)

LEMMA FailsIs ==
    ASSUME MonitorInv, NEW h \in Heads, Fails(h) \/ UNCHANGED changes
    PROVE  changes' \in Nat /\ changes <= changes' /\ changes' <= MaxChanges
<1>1. changes \in Nat /\ changes <= MaxChanges
  BY HeadFacts
<1> QED BY <1>1 DEF Fails

(* More changes may have been.                                              *)
LEMMA FineLater ==
    ASSUME NEW s \in HeadType, NEW c \in Nat, NEW d \in Nat, c <= d,
           NEW g, NEW a, NEW an, NEW ph, NEW co,
           Fine(s, c, g, a, an, ph, co)
    PROVE  Fine(s, d, g, a, an, ph, co)
<1>1. s.boot \in Nat /\ s.rejected \in Nat /\ s.tip \in Nat
  BY DEF HeadType, Count
<1> QED BY <1>1 DEF Fine

(* A request of the poller changes what it holds, and perhaps what the head *)
(* has answered.                                                            *)
LEMMA PollMonitor ==
    ASSUME MonitorInv, NEW h \in Heads, NEW g \in GotType, NEW p \in Places,
           NEW an \in SUBSET Rooms,
           got' = [got EXCEPT ![h] = g], pc' = [pc EXCEPT ![h] = p],
           answered' = [answered EXCEPT ![h] = an], answered[h] \subseteq an,
           UNCHANGED <<srv, held, app, alerts, mode, complete, phases, counted>>,
           Fails(h) \/ UNCHANGED changes,
           g.ready \in phases[h] \cup {None}, Sample(g.stats),
           g.stats.some => an # {}
    PROVE  MonitorInv'
<1>1. changes' \in Nat /\ changes <= changes' /\ changes' <= MaxChanges
  BY FailsIs
<1>2. Fine(srv[h], changes', got[h], app[h], answered[h], phases[h], counted[h])
  BY <1>1, HeadFacts, FineLater
<1>3. Fine(srv[h], changes', g, app[h], an, phases[h], counted[h])
  BY <1>2 DEF Fine
<1>4. /\ srv' = [srv EXCEPT ![h] = srv[h]] /\ app' = [app EXCEPT ![h] = app[h]]
      /\ phases' = [phases EXCEPT ![h] = phases[h]]
      /\ counted' = [counted EXCEPT ![h] = counted[h]]
  BY HeadFacts
<1>5. /\ srv[h] \in HeadType /\ app[h] \in AppType /\ phases[h] \in SUBSET Phases
      /\ counted[h] \in AnyStats
      /\ (app[h].reachable = "unknown" => app[h].reachable = "unknown")
  BY HeadFacts
<1>6. Moves(h, srv[h], g, app[h], p, an, phases[h], counted[h])
  BY <1>1, <1>4, HeadFacts DEF Moves
<1> QED BY <1>3, <1>5, <1>6, HeadStep

LEMMA GetStatsMonitor ==
    ASSUME MonitorInv, NEW h \in Heads, GetStats(h)
    PROVE  MonitorInv'
<1>1. /\ pc' = [pc EXCEPT ![h] = "ready"] /\ "ready" \in Places
      /\ UNCHANGED <<srv, held, app, alerts, mode, complete, phases, counted>>
  BY DEF GetStats, Places
<1>2. CASE /\ UNCHANGED changes
           /\ got' = [got EXCEPT ![h] = [Nothing EXCEPT !.stats = Stats(h)]]
           /\ answered' = [answered EXCEPT ![h] = @ \cup {srv[h].room}]
  <2> DEFINE g  == [Nothing EXCEPT !.stats = Stats(h)]
             an == answered[h] \cup {srv[h].room}
  <2>1. srv[h] \in HeadType /\ answered[h] \in SUBSET Rooms
    BY HeadFacts
  <2>2. /\ srv[h].boot \in 1 .. MaxChanges + 1 /\ srv[h].rejected \in Count
        /\ srv[h].stalled \in BOOLEAN /\ srv[h].room \in Rooms
    BY <2>1, Zenon DEF HeadType
  <2>3. srv[h].boot \in 0 .. MaxChanges + 1 /\ srv[h].boot >= 1
    BY <2>2
  <2>4. Stats(h) \in AnyStats
    BY <2>2, <2>3, Zenon DEF Stats, AnyStats
  <2>5. Stats(h).some = TRUE /\ Stats(h).boot = srv[h].boot
    BY DEF Stats
  <2>6. Sample(Stats(h))
    BY <2>3, <2>5 DEF Sample
  <2>7. g \in GotType /\ g.stats = Stats(h) /\ g.ready = None
    BY <2>4, NothingIs, Zenon DEF GotType
  <2>8. an \in SUBSET Rooms /\ an # {} /\ answered[h] \subseteq an
    BY <2>1, <2>2
  <2> HIDE DEF g
  <2>9. got' = [got EXCEPT ![h] = g] /\ answered' = [answered EXCEPT ![h] = an]
    BY <1>2 DEF g
  <2> HIDE DEF an
  <2>10. /\ g.ready \in phases[h] \cup {None} /\ Sample(g.stats)
         /\ (g.stats.some => an # {})
         /\ Fails(h) \/ UNCHANGED changes
    BY <1>2, <2>6, <2>7, <2>8
  <2> QED BY <1>1, <2>7, <2>8, <2>9, <2>10, PollMonitor
<1>3. CASE Fails(h) /\ got' = [got EXCEPT ![h] = Nothing] /\ UNCHANGED answered
  <2>1. answered' = [answered EXCEPT ![h] = answered[h]] /\ answered[h] \in SUBSET Rooms
    BY <1>3, HeadFacts
  <2> QED BY <1>1, <1>3, <2>1, NothingIs, PollMonitor
<1> QED BY <1>2, <1>3 DEF GetStats

LEMMA GetReadyMonitor ==
    ASSUME MonitorInv, NEW h \in Heads, GetReady(h)
    PROVE  MonitorInv'
<1>1. /\ got[h] \in GotType /\ srv[h] \in HeadType /\ app[h] \in AppType
      /\ got[h].ready \in phases[h] \cup {None} /\ srv[h].ready \in phases[h]
      /\ Sample(got[h].stats) /\ (got[h].stats.some => answered[h] # {})
      /\ answered[h] \in SUBSET Rooms /\ answered' = [answered EXCEPT ![h] = answered[h]]
  BY HeadFacts DEF Fine, GetReady, historyVars
<1>2. PICK p \in Places : pc' = [pc EXCEPT ![h] = p]
  BY DEF GetReady, Places
<1>3. /\ UNCHANGED <<srv, held, app, alerts, mode, complete, phases, counted>>
      /\ Fails(h) \/ UNCHANGED changes
  BY DEF GetReady, historyVars
<1>4. CASE got' = [got EXCEPT ![h].ready = srv[h].ready]
  <2> DEFINE g == [got[h] EXCEPT !.ready = srv[h].ready]
  <2>1. got' = [got EXCEPT ![h] = g]
    BY <1>4
  <2>2. srv[h].ready \in Phases
    BY <1>1 DEF HeadType
  <2>3. g \in GotType /\ g.ready = srv[h].ready /\ g.stats = got[h].stats
    BY <1>1, <2>2, Zenon DEF GotType
  <2> HIDE DEF g
  <2> QED BY <1>1, <1>2, <1>3, <2>1, <2>3, PollMonitor
<1>5. CASE UNCHANGED got
  <2>1. got' = [got EXCEPT ![h] = got[h]]
    BY <1>5, HeadFacts
  <2> QED BY <1>1, <1>2, <1>3, <2>1, PollMonitor
<1> QED BY <1>4, <1>5 DEF GetReady

LEMMA GetVersionMonitor ==
    ASSUME MonitorInv, NEW h \in Heads, GetVersion(h)
    PROVE  MonitorInv'
<1>1. /\ got[h] \in GotType /\ srv[h] \in HeadType
      /\ got[h].ready \in phases[h] \cup {None}
      /\ Sample(got[h].stats) /\ (got[h].stats.some => answered[h] # {})
      /\ answered[h] \in SUBSET Rooms /\ answered' = [answered EXCEPT ![h] = answered[h]]
  BY HeadFacts DEF Fine, GetVersion, historyVars
<1>2. /\ pc' = [pc EXCEPT ![h] = "publish"] /\ "publish" \in Places
      /\ UNCHANGED <<srv, held, app, alerts, mode, complete, phases, counted>>
      /\ Fails(h) \/ UNCHANGED changes
  BY DEF GetVersion, historyVars, Places
<1>3. CASE got' = [got EXCEPT ![h].version = srv[h].boot]
  <2> DEFINE g == [got[h] EXCEPT !.version = srv[h].boot]
  <2>1. got' = [got EXCEPT ![h] = g]
    BY <1>3
  <2>2. srv[h].boot \in 0 .. MaxChanges + 1
    BY <1>1 DEF HeadType
  <2>3. g \in GotType /\ g.ready = got[h].ready /\ g.stats = got[h].stats
    BY <1>1, <2>2, Zenon DEF GotType
  <2> HIDE DEF g
  <2> QED BY <1>1, <1>2, <2>1, <2>3, PollMonitor
<1>4. CASE UNCHANGED got
  <2>1. got' = [got EXCEPT ![h] = got[h]]
    BY <1>4, HeadFacts
  <2> QED BY <1>1, <1>2, <2>1, PollMonitor
<1> QED BY <1>3, <1>4 DEF GetVersion

(* What a round that is published makes of the state a: a record again, of  *)
(* which the answers g decide these.                                        *)
Published(g, a) ==
    [a EXCEPT !.reachable = Reachable(g, a),
              !.ready = Ready(g, a),
              !.version = IF g.version # 0 THEN g.version ELSE @,
              !.stats = LatestStats(g, a),
              !.max = Headroom(g, a),
              !.rejecting = @ \/ Grew(g, a)]

LEMMA PublishedIs ==
    ASSUME NEW g \in GotType, NEW a \in AppType
    PROVE  /\ Published(g, a) \in AppType
           /\ Published(g, a).reachable = Reachable(g, a)
           /\ Published(g, a).ready = Ready(g, a)
           /\ Published(g, a).stats = LatestStats(g, a)
           /\ Published(g, a).rejecting = (a.rejecting \/ Grew(g, a))
<1>1. /\ g.stats \in AnyStats /\ g.ready \in Phases \cup {None}
      /\ g.version \in 0 .. MaxChanges + 1
      /\ a.stats \in AnyStats /\ a.ready \in Phases \cup {None}
      /\ a.version \in 0 .. MaxChanges + 1 /\ a.max \in Rooms
      /\ a.reachable \in {"unknown", "yes", "no"}
  BY DEF GotType, AppType
<1>2. a.rejecting \in BOOLEAN
  BY Zenon DEF AppType
<1>3. Reachable(g, a) \in {"unknown", "yes", "no"}
  BY DEF Reachable
<1>4. Ready(g, a) \in Phases \cup {None}
  BY <1>1 DEF Ready
<1>5. (IF g.version # 0 THEN g.version ELSE a.version) \in 0 .. MaxChanges + 1
  BY <1>1
<1>6. LatestStats(g, a) \in AnyStats
  BY <1>1 DEF LatestStats
<1>7. Headroom(g, a) \in Rooms
  BY <1>1 DEF Headroom, AnyStats
<1>8. (a.rejecting \/ Grew(g, a)) \in BOOLEAN
  BY <1>2, Zenon
<1> QED BY <1>3, <1>4, <1>5, <1>6, <1>7, <1>8, Zenon DEF Published, AppType

LEMMA PublishMonitor ==
    ASSUME MonitorInv, NEW h \in Heads, Publish(h)
    PROVE  MonitorInv'
<1> DEFINE g  == got[h]
           a  == app[h]
           b  == Published(g, a)
           ph == IF g.stats.some THEN phases[h] ELSE {srv[h].ready} \cup ({g.ready} \ {None})
           co == IF g.stats.some THEN g.stats ELSE counted[h]
<1>1. /\ srv[h] \in HeadType /\ g \in GotType /\ a \in AppType
      /\ answered[h] \in SUBSET Rooms /\ phases[h] \in SUBSET Phases
      /\ counted[h] \in AnyStats
      /\ changes \in Nat /\ changes <= MaxChanges
      /\ Fine(srv[h], changes, g, a, answered[h], phases[h], counted[h])
  BY HeadFacts
<1>2. /\ b \in AppType /\ b.reachable = Reachable(g, a) /\ b.ready = Ready(g, a)
      /\ b.stats = LatestStats(g, a)
  BY <1>1, PublishedIs
<1>3. /\ app' = [app EXCEPT ![h] = b] /\ pc' = [pc EXCEPT ![h] = "stats"]
      /\ got' = [got EXCEPT ![h] = Nothing]
  BY Zenon DEF Publish, Published
<1>4. /\ UNCHANGED <<srv, changes, held, alerts, mode, complete, answered>>
      /\ phases' = (IF g.stats.some THEN phases
                    ELSE [phases EXCEPT ![h] = {srv[h].ready} \cup ({g.ready} \ {None})])
      /\ counted' = (IF g.stats.some THEN [counted EXCEPT ![h] = g.stats] ELSE counted)
  BY Zenon DEF Publish, headVars
<1>5. ph \in SUBSET Phases /\ co \in AnyStats
  BY <1>1 DEF HeadType, GotType
<1>6. /\ srv' = [srv EXCEPT ![h] = srv[h]]
      /\ answered' = [answered EXCEPT ![h] = answered[h]]
      /\ phases' = [phases EXCEPT ![h] = ph] /\ counted' = [counted EXCEPT ![h] = co]
  BY <1>4, HeadFacts
<1>7. Fine(srv[h], changes', Nothing, b, answered[h], ph, co)
  <2>1. /\ srv[h].boot <= changes' + 1 /\ srv[h].rejected <= changes'
        /\ srv[h].tip <= changes' + 1 /\ srv[h].ready \in ph
    BY <1>1, <1>4 DEF Fine
  <2>2. b.ready \in ph \cup {None}
    BY <1>1, <1>2 DEF Fine, Ready, Reachable
  <2>3. Sample(b.stats) /\ co = b.stats
    BY <1>1, <1>2 DEF Fine, LatestStats
  <2>4. b.reachable = "yes" => answered[h] # {}
    BY <1>1, <1>2 DEF Fine, Reachable
  <2> HIDE DEF b, ph, co
  <2> QED BY <2>1, <2>2, <2>3, <2>4, NothingIs DEF Fine
<1>8. b.reachable = "unknown" => a.reachable = "unknown"
  BY <1>2 DEF Reachable
<1> HIDE DEF b, ph, co
<1>9. /\ changes' \in Nat /\ changes <= changes' /\ changes' <= MaxChanges
      /\ held' \in [Heads -> Tips]
  BY <1>1, <1>4, HeadFacts
<1>10. Moves(h, srv[h], Nothing, b, "stats", answered[h], ph, co)
  BY <1>3, <1>4, <1>6, <1>9 DEF Moves
<1>11. "stats" \in Places /\ Nothing \in GotType /\ answered[h] \subseteq answered[h]
  BY NothingIs DEF Places
<1> QED BY <1>1, <1>2, <1>5, <1>7, <1>8, <1>10, <1>11, HeadStep

(* A change of the published state that alerts know of and the stats poller *)
(* does not.                                                                *)
LEMMA ShowMonitor ==
    ASSUME MonitorInv, NEW h \in Heads, NEW b \in AppType,
           app' = [app EXCEPT ![h] = b],
           b.reachable = app[h].reachable, b.ready = app[h].ready, b.stats = app[h].stats,
           held' \in [Heads -> Tips],
           UNCHANGED <<headVars, pc, got, alerts, mode, complete, historyVars>>
    PROVE  MonitorInv'
<1>1. /\ srv[h] \in HeadType /\ got[h] \in GotType /\ pc[h] \in Places
      /\ answered[h] \in SUBSET Rooms /\ phases[h] \in SUBSET Phases
      /\ counted[h] \in AnyStats
      /\ changes \in Nat /\ changes <= MaxChanges
      /\ Fine(srv[h], changes, got[h], app[h], answered[h], phases[h], counted[h])
  BY HeadFacts
<1>2. /\ srv' = srv /\ changes' = changes /\ pc' = pc /\ got' = got /\ alerts' = alerts
      /\ mode' = mode /\ complete' = complete /\ answered' = answered /\ phases' = phases
      /\ counted' = counted
  BY DEF headVars, historyVars
<1>3. Fine(srv[h], changes', got[h], b, answered[h], phases[h], counted[h])
  BY <1>1, <1>2 DEF Fine
<1>4. Moves(h, srv[h], got[h], b, pc[h], answered[h], phases[h], counted[h])
  BY <1>1, <1>2, HeadFacts DEF Moves
<1> QED BY <1>1, <1>3, <1>4, HeadStep

LEMMA TipMonitor ==
    ASSUME MonitorInv, NEW h \in Heads, PublishTip(h) \/ Elapse(h)
    PROVE  MonitorInv'
<1>1. /\ app[h] \in AppType /\ app \in [Heads -> AppType]
      /\ held \in [Heads -> Tips] /\ held[h] \in 0 .. MaxChanges + 1
  BY HeadFacts, TypeIs, Zenon DEF MonitorInv, Tips
<1>2. /\ UNCHANGED <<headVars, pc, got, alerts, mode, complete, historyVars>>
      /\ held' \in [Heads -> Tips]
  BY <1>1 DEF PublishTip, Elapse, Tips
<1>3. CASE PublishTip(h)
  <2> DEFINE b == [app[h] EXCEPT !.tip = held[h]]
  <2>1. app' = [app EXCEPT ![h] = b]
    BY <1>3 DEF PublishTip
  <2>2. /\ b \in AppType /\ b.reachable = app[h].reachable /\ b.ready = app[h].ready
        /\ b.stats = app[h].stats
    BY <1>1, Zenon DEF AppType
  <2> HIDE DEF b
  <2> QED BY <1>2, <2>1, <2>2, ShowMonitor
<1>4. CASE Elapse(h)
  <2> DEFINE b == [app[h] EXCEPT !.rejecting = FALSE]
  <2>1. app' = [app EXCEPT ![h] = b]
    BY <1>4 DEF Elapse
  <2>2. /\ b \in AppType /\ b.reachable = app[h].reachable /\ b.ready = app[h].ready
        /\ b.stats = app[h].stats
    BY <1>1, Zenon DEF AppType
  <2> HIDE DEF b
  <2> QED BY <1>2, <2>1, <2>2, ShowMonitor
<1> QED BY <1>3, <1>4

(* The tip that the block poller holds is of no account to the rest.        *)
LEMMA FetchMonitor ==
    ASSUME MonitorInv, NEW h \in Heads, FetchTip(h)
    PROVE  MonitorInv'
<1>1. srv[h].tip \in Tips
  <2>1. srv[h].tip \in 1 .. MaxChanges + 1
    BY HeadFacts DEF HeadType
  <2> QED BY <2>1 DEF Tips
<1>2. held' \in [Heads -> Tips]
  BY <1>1, HeadFacts DEF FetchTip
<1>3. UNCHANGED <<headVars, pc, got, alerts, mode, complete, historyVars>>
  BY DEF FetchTip
<1>4. app' = [app EXCEPT ![h] = app[h]] /\ app[h] \in AppType
  BY HeadFacts DEF FetchTip
<1> QED BY <1>2, <1>3, <1>4, ShowMonitor

-------------------------------------------------------------------------------
(* What is shown.                                                           *)

(* The alerts are of the kinds there are; a head that is known to be up or  *)
(* down has answered, or its alert says that it did not.                    *)
LEMMA ComputeIs ==
    ASSUME NEW a \in AppType, NEW due
    PROVE  /\ Compute(a, due) \in SUBSET Kinds
           /\ a.reachable = "no" => "unreachable" \in Compute(a, due)
<1>1. a.reachable \in {"unknown", "yes", "no"}
  BY DEF AppType
<1>2. CASE a.reachable = "unknown"
  BY <1>2 DEF Compute
<1>3. CASE a.reachable = "no"
  BY <1>3 DEF Compute, Kinds
<1>4. CASE a.reachable = "yes"
  <2>1. Compute(a, due) \subseteq {"status", "hard-confirm", "headroom", "backpressure", "fallback"}
    BY <1>4, Zenon DEF Compute
  <2> QED BY <1>4, <2>1 DEF Kinds
<1> QED BY <1>1, <1>2, <1>3, <1>4

(* The steps of the reader leave the heads and their pollers alone.         *)
LEMMA ReaderMonitor ==
    ASSUME MonitorInv, Tick \/ Awaited \/ ComputeJson \/ PrintJson
    PROVE  MonitorInv'
<1>1. /\ srv' = srv /\ changes' = changes /\ pc' = pc /\ got' = got /\ app' = app
      /\ answered' = answered /\ phases' = phases /\ counted' = counted /\ held' = held
  BY DEF Tick, Awaited, ComputeJson, PrintJson, headVars, historyVars
<1>2. /\ srv \in [Heads -> HeadType] /\ changes \in Count /\ pc \in [Heads -> Places]
      /\ got \in [Heads -> GotType] /\ app \in [Heads -> AppType]
      /\ alerts \in [Heads -> SUBSET Kinds]
      /\ mode \in Modes \cup {"compute", "print", "exited"} /\ complete \in BOOLEAN
      /\ answered \in [Heads -> SUBSET Rooms] /\ phases \in [Heads -> SUBSET Phases]
      /\ counted \in [Heads -> AnyStats] /\ held \in [Heads -> Tips]
  BY TypeIs, Zenon DEF MonitorInv
<1>3. FineHeads'
  BY <1>1 DEF MonitorInv, FineHeads
<1>4. \A h \in Heads : Compute(app[h], srv[h].due) \in SUBSET Kinds
  BY <1>2, ComputeIs
<1>5. alerts' \in [Heads -> SUBSET Kinds]
  BY <1>2, <1>4 DEF Tick, Awaited, ComputeJson, PrintJson, Computed
<1>6. mode' \in Modes \cup {"compute", "print", "exited"}
  BY <1>2 DEF Tick, Awaited, ComputeJson, PrintJson
<1>7. complete' \in BOOLEAN
  BY <1>2, Zenon DEF Tick, Awaited, ComputeJson, PrintJson, AllProbed
<1>8. TypeOK'
  BY <1>1, <1>2, <1>5, <1>6, <1>7, NextTypeIs, Zenon
<1>9. JsonInv'
  <2>1. CASE Tick
    <3>1. mode = "terminal" /\ complete' = complete /\ mode' = mode
      BY <2>1 DEF Tick
    <3> QED BY <3>1 DEF MonitorInv, JsonInv
  <2>2. CASE Awaited
    <3>1. mode' = "compute"
      BY <2>2 DEF Awaited
    <3>2. complete' \in {AllProbed, FALSE}
      BY <2>2, Zenon DEF Awaited
    <3>3. complete' => AllProbed
      BY <3>2, Zenon
    <3> QED BY <1>1, <3>1, <3>3 DEF JsonInv, AllProbed
  <2>3. CASE ComputeJson
    <3>1. /\ mode' = "print" /\ complete' = complete
          /\ alerts' = [h \in Heads |-> Compute(app[h], srv[h].due)]
      BY <2>3 DEF ComputeJson, Computed
    <3>2. ASSUME complete, NEW h \in Heads
          PROVE  app[h].reachable # "unknown"
                 /\ (answered'[h] # {} \/ "unreachable" \in alerts'[h])
      <4>1. app[h].reachable # "unknown" /\ app[h] \in AppType
        BY <1>2, <3>2 DEF MonitorInv, JsonInv
      <4>2. app[h].reachable \in {"yes", "no"}
        BY <4>1 DEF AppType
      <4>3. app[h].reachable = "yes" => answered[h] # {}
        BY DEF MonitorInv, FineHeads, Fine
      <4>4. app[h].reachable = "no" => "unreachable" \in alerts'[h]
        BY <3>1, <4>1, ComputeIs
      <4> QED BY <1>1, <4>1, <4>2, <4>3, <4>4
    <3> QED BY <1>1, <3>1, <3>2 DEF JsonInv
  <2>4. CASE PrintJson
    <3>1. mode = "print" /\ mode' = "exited" /\ complete' = complete /\ alerts' = alerts
      BY <2>4 DEF PrintJson
    <3> QED BY <1>1, <3>1 DEF MonitorInv, JsonInv
  <2> QED BY <2>1, <2>2, <2>3, <2>4
<1> QED BY <1>3, <1>8, <1>9 DEF MonitorInv

-------------------------------------------------------------------------------
(* The invariant holds.                                                     *)
LEMMA MonitorStep == MonitorInv /\ [Next]_vars => MonitorInv'
<1> SUFFICES ASSUME MonitorInv, [Next]_vars PROVE MonitorInv'
  OBVIOUS
<1>1. CASE \E h \in Heads : ServerStep(h)
  BY <1>1, ServerMonitor
<1>2. CASE \E h \in Heads : StatsRound(h)
  BY <1>2, GetStatsMonitor, GetReadyMonitor, GetVersionMonitor, PublishMonitor DEF StatsRound
<1>3. CASE \E h \in Heads : PublishTip(h) \/ Elapse(h)
  BY <1>3, TipMonitor
<1>4. CASE \E h \in Heads : FetchTip(h)
  BY <1>4, FetchMonitor
<1>5. CASE Tick \/ Awaited \/ ComputeJson \/ PrintJson
  BY <1>5, ReaderMonitor
<1>6. CASE UNCHANGED vars
  <2>1. /\ srv' = srv /\ changes' = changes /\ pc' = pc /\ got' = got /\ app' = app
        /\ alerts' = alerts /\ mode' = mode /\ complete' = complete
        /\ answered' = answered /\ phases' = phases /\ counted' = counted
        /\ held' = held
    BY <1>6 DEF vars, headVars, historyVars
  <2>2. TypeOK'
    BY <2>1, TypeIs, NextTypeIs, Zenon DEF MonitorInv
  <2>3. FineHeads' /\ JsonInv'
    BY <2>1 DEF MonitorInv, FineHeads, JsonInv
  <2> QED BY <2>2, <2>3 DEF MonitorInv
<1> QED BY <1>1, <1>2, <1>3, <1>4, <1>5, <1>6 DEF Next, ServerStep

LEMMA MonitorInductive == Spec => []MonitorInv
<1> QED BY InitMonitor, MonitorStep, PTL DEF Spec

(* Every variable keeps its type.                                           *)
THEOREM MonitorTypeCorrect == Spec => []TypeOK
<1>1. MonitorInv => TypeOK
  BY DEF MonitorInv
<1> QED BY <1>1, MonitorInductive, PTL

(* A readiness that is shown was the head's since it was last found         *)
(* unreachable, with however many other heads and failed requests between.  *)
THEOREM ReadyForgotten == Spec => []ReadySurvivesNoOutage
<1>1. MonitorInv => ReadySurvivesNoOutage
  BY DEF MonitorInv, FineHeads, Fine, ReadySurvivesNoOutage
<1> QED BY <1>1, MonitorInductive, PTL

(* A JSON that says it is complete is silent about no head that never       *)
(* answered.                                                                *)
THEOREM CompleteProbed == Spec => []CompleteIsProbed
<1>1. MonitorInv => CompleteIsProbed
  BY DEF MonitorInv, JsonInv, CompleteIsProbed
<1> QED BY <1>1, MonitorInductive, PTL

(* Of two rounds that got through to one run of a head, the second notices  *)
(* what the head rejected in between, whatever failed there.                *)
THEOREM RejectionsAreNoticed == Spec => RejectionsNoticed
<1> DEFINE Noticed(h) ==
              (/\ counted'[h] # counted[h]
               /\ counted'[h].boot = counted[h].boot
               /\ counted'[h].rejected > counted[h].rejected)
                  => app'[h].rejecting
<1>1. ASSUME MonitorInv, [Next]_vars, NEW h \in Heads, counted'[h] # counted[h],
             counted'[h].boot = counted[h].boot,
             counted'[h].rejected > counted[h].rejected
      PROVE  app'[h].rejecting
  <2>1. PICK j \in Heads : Publish(j)
    <3>1. counted' # counted
      BY <1>1
    <3> QED
      BY <1>1, <3>1
      DEF Next, vars, headVars, historyVars, GoDown, ComeBack, Reboot, Advance, Reject, Fill,
          Drain, Stall, Produce, Age, Change, StatsRound, GetStats, GetReady, GetVersion, FetchTip,
          PublishTip, Elapse, Tick, Awaited, ComputeJson, PrintJson
  <2>2. /\ counted \in [Heads -> AnyStats] /\ app \in [Heads -> AppType]
        /\ got[j] \in GotType /\ app[j] \in AppType
        /\ Fine(srv[j], changes, got[j], app[j], answered[j], phases[j], counted[j])
    BY <1>1, <2>1, HeadFacts, TypeIs, Zenon DEF MonitorInv
  <2>3. /\ counted' = (IF got[j].stats.some THEN [counted EXCEPT ![j] = got[j].stats]
                       ELSE counted)
        /\ app' = [app EXCEPT ![j] = Published(got[j], app[j])]
    BY <2>1, Zenon DEF Publish, Published
  <2>4. h = j /\ got[j].stats.some /\ counted'[h] = got[j].stats
    BY <1>1, <2>2, <2>3
  <2>5. counted[h] = app[j].stats /\ Sample(got[j].stats) /\ Sample(app[j].stats)
    BY <2>2, <2>4 DEF Fine
  <2>6. app[j].stats.some
    BY <1>1, <2>4, <2>5 DEF Sample
  <2>7. Grew(got[j], app[j])
    BY <1>1, <2>4, <2>5, <2>6 DEF Grew
  <2>8. Published(got[j], app[j]).rejecting
    BY <2>2, <2>7, PublishedIs
  <2> QED BY <2>2, <2>3, <2>4, <2>8
<1>2. MonitorInv /\ [Next]_vars => [\A h \in Heads : Noticed(h)]_vars
  BY <1>1
<1> QED BY <1>2, MonitorInductive, PTL DEF Spec, RejectionsNoticed
==================================================================================
