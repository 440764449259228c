--------------------------------- MODULE Monitor ---------------------------------
(***************************************************************************)
(* hztop's view of its heads: the stats poller (head_stats_loop in          *)
(* hztop/src/poll.rs), which asks for stats, readiness and version one      *)
(* after the other and publishes them under the lock, the alerts computed   *)
(* from what is published (alerts.rs), and the two ways they come out: the  *)
(* terminal's tick and the one-shot JSON (main.rs).  The block poller is    *)
(* reduced to the tip it fetches and publishes; TipSearch has the rest.     *)
(***************************************************************************)
EXTENDS Naturals

CONSTANTS
    Heads,
    MaxChanges    \* bound: changes of the heads and failed requests together

ASSUME MonitorAssumption == MaxChanges \in Nat

VARIABLES
    srv,      \* srv[h]: the head itself
    changes,  \* changes and failed requests so far
    pc,       \* pc[h]: the request the stats poller of h is at, or "publish"
    got,      \* got[h]: its locals, the answers of this round
    held,     \* held[h]: the tip the block poller of h has fetched, 0 if none
    app,      \* app[h]: HeadState, as far as alerts are computed from it
    alerts,   \* alerts[h]: the alerts of h as last computed, by kind
    mode,     \* "terminal", or or a JSON reader's "json", "compute", "print", "exited"
    complete, \* the flag printed with it
    answered, \* history: the rooms h has answered stats requests with
    phases,   \* history: readiness of h since the last round that failed
    counted   \* history: boot and rejections of the last stats published

headVars    == <<srv, changes>>
historyVars == <<answered, phases, counted>>
vars        == <<headVars, pc, got, held, app, alerts, mode, complete, historyVars>>

None   == "none"
Phases == {"initializing", "active", "finalized"}

(* The head: reachable or not, what it would answer, how often it was       *)
(* started, the room its sequencer has left, none or all, its newest block, *)
(* and the last block whose fallback deadline is near by now.               *)
Rooms == {0, 1}
InitialHead == [up : BOOLEAN, boot : {1}, ready : {"initializing", "active"},
                rejected : {0}, stalled : {FALSE}, room : Rooms, tip : {1}, due : {0}]

(* No answer, or one: rejectedBackpressure, whether hard confirmation has   *)
(* stalled for longer than the thresholds, and sequencerHeadroom.           *)
NoStats  == [some |-> FALSE, boot |-> 0, rejected |-> 0, stalled |-> FALSE, room |-> 0]
Stats(h) == [some |-> TRUE, boot |-> srv[h].boot, rejected |-> srv[h].rejected,
             stalled |-> srv[h].stalled, room |-> srv[h].room]

Nothing == [stats |-> NoStats, ready |-> None, version |-> 0]

(* HeadState::new: unknown, not down, and no block.                         *)
NewHead == [reachable |-> "unknown", ready |-> None, version |-> 0,
            stats |-> NoStats, rejecting |-> FALSE, max |-> 0,
            tip |-> 0]

(* hztop draws a terminal, or prints JSON; two pollers for each head.       *)
Modes == {"terminal", "json"}
SpawnAll ==
    /\ pc = [h \in Heads |-> "stats"]
    /\ got = [h \in Heads |-> Nothing]
    /\ held = [h \in Heads |-> 0]

Init ==
    /\ srv \in [Heads -> InitialHead]
    /\ changes = 0
    /\ SpawnAll
    /\ app = [h \in Heads |-> NewHead]
    /\ alerts = [h \in Heads |-> {}]
    /\ mode \in Modes /\ complete = FALSE
    /\ answered = [h \in Heads |-> {}]
    /\ phases = [h \in Heads |-> {srv[h].ready}]
    /\ counted = [h \in Heads |-> NoStats]

-------------------------------------------------------------------------------
(* The heads.                                                               *)
Change(h, new) ==
    /\ changes < MaxChanges /\ changes' = changes + 1
    /\ srv' = [srv EXCEPT ![h] = new]
    /\ phases' = [phases EXCEPT ![h] = @ \cup {new.ready}]
    /\ UNCHANGED <<pc, got, held, app, alerts, mode, complete, answered, counted>>

GoDown(h) == srv[h].up /\ Change(h, [srv[h] EXCEPT !.up = FALSE])

(* It was cut off, or it was restarted and counts from nothing.             *)
ComeBack(h) == ~srv[h].up /\ Change(h, [srv[h] EXCEPT !.up = TRUE])
Reboot(h) ==
    ~srv[h].up /\ Change(h, [srv[h] EXCEPT !.up = TRUE, !.boot = @ + 1,
                                           !.ready = "initializing",
                                           !.rejected = 0, !.stalled = FALSE,
                                           !.room = 1])

Advance(h) ==
    \/ srv[h].ready = "initializing" /\ Change(h, [srv[h] EXCEPT !.ready = "active"])
    \/ srv[h].ready = "active" /\ Change(h, [srv[h] EXCEPT !.ready = "finalized"])

(* Requests are turned away for want of room; blocks make room again.       *)
Reject(h) == srv[h].up /\ Change(h, [srv[h] EXCEPT !.rejected = @ + 1, !.room = 0])
Fill(h)   == srv[h].room = 1 /\ Change(h, [srv[h] EXCEPT !.room = 0])
Drain(h)  == srv[h].room = 0 /\ Change(h, [srv[h] EXCEPT !.room = 1])
Stall(h)  == Change(h, [srv[h] EXCEPT !.stalled = ~@])

(* A block is made, with a deadline still far; a deadline comes near.       *)
Produce(h) == Change(h, [srv[h] EXCEPT !.tip = @ + 1])
Age(h)     == srv[h].due < srv[h].tip /\ Change(h, [srv[h] EXCEPT !.due = @ + 1])

-------------------------------------------------------------------------------
(* The stats poller.  A request is answered, or fails: by itself, or        *)
(* because the head is down.                                                *)
Fails(h) ==
    \/ ~srv[h].up /\ UNCHANGED changes
    \/ srv[h].up /\ changes < MaxChanges /\ changes' = changes + 1

GetStats(h) ==
    /\ pc[h] = "stats" /\ mode # "exited"
    /\ \/ /\ srv[h].up /\ UNCHANGED changes
          /\ got' = [got EXCEPT ![h] = [Nothing EXCEPT !.stats = Stats(h)]]
          /\ answered' = [answered EXCEPT ![h] = @ \cup {srv[h].room}]
       \/ /\ Fails(h)
          /\ got' = [got EXCEPT ![h] = Nothing]
          /\ UNCHANGED answered
    /\ pc' = [pc EXCEPT ![h] = "ready"]
    /\ UNCHANGED <<srv, held, app, alerts, mode, complete, phases, counted>>

(* Whether the version is wanted is looked up now, not at the end.          *)
GetReady(h) ==
    /\ pc[h] = "ready" /\ mode # "exited"
    /\ \/ /\ srv[h].up /\ UNCHANGED changes
          /\ got' = [got EXCEPT ![h].ready = srv[h].ready]
       \/ Fails(h) /\ UNCHANGED got
    /\ pc' = [pc EXCEPT ![h] = IF app[h].version = 0 THEN "version" ELSE "publish"]
    /\ UNCHANGED <<srv, held, app, alerts, mode, complete, historyVars>>

GetVersion(h) ==
    /\ pc[h] = "version" /\ mode # "exited"
    /\ \/ /\ srv[h].up /\ UNCHANGED changes
          /\ got' = [got EXCEPT ![h].version = srv[h].boot]
       \/ Fails(h) /\ UNCHANGED got
    /\ pc' = [pc EXCEPT ![h] = "publish"]
    /\ UNCHANGED <<srv, held, app, alerts, mode, complete, historyVars>>

(* What is published of the answers g over the state a.  A round without    *)
(* stats leaves the stats of before, and makes the head unreachable.        *)
StillReachable(g, a) == IF g.stats.some THEN "yes" ELSE a.reachable    \* slip
Reachable(g, a)      == IF g.stats.some THEN "yes" ELSE "no"

KeptReady(g, a) == IF g.ready # None THEN g.ready ELSE a.ready    \* slip: outlives a failure
Ready(g, a) ==
    IF g.ready # None THEN g.ready
    ELSE IF Reachable(g, a) = "no" THEN None ELSE a.ready

StatsOfRound(g, a) == g.stats    \* slip: forgotten when a round fails
SummedStats(g, a)  ==    \* slip: a total is added up
    IF g.stats.some THEN [g.stats EXCEPT !.rejected = @ + a.stats.rejected] ELSE a.stats
LatestStats(g, a)  == IF g.stats.some THEN g.stats ELSE a.stats

(* The rejections grew between two samples, however far apart.              *)
Grew(g, a) == g.stats.some /\ a.stats.some /\ g.stats.rejected > a.stats.rejected

(* The most room ever seen stands for the capacity, over restarts too.      *)
Headroom(g, a) == IF g.stats.some /\ g.stats.room > a.max THEN g.stats.room ELSE a.max

Publish(h) ==
    LET g == got[h]
        a == app[h]
    IN  /\ pc[h] = "publish" /\ mode # "exited"
        /\ app' = [app EXCEPT ![h] =
               [a EXCEPT !.reachable = Reachable(g, a),
                         !.ready = Ready(g, a),
                         !.version = IF g.version # 0 THEN g.version ELSE @,
                         !.stats = LatestStats(g, a),
                         !.max = Headroom(g, a),
                         !.rejecting = @ \/ Grew(g, a)]]
        /\ pc' = [pc EXCEPT ![h] = "stats"]
        /\ got' = [got EXCEPT ![h] = Nothing]
        /\ phases' = IF g.stats.some THEN phases
                     ELSE [phases EXCEPT ![h] = {srv[h].ready} \cup ({g.ready} \ {None})]
        /\ counted' = IF g.stats.some THEN [counted EXCEPT ![h] = g.stats] ELSE counted
        /\ UNCHANGED <<headVars, held, alerts, mode, complete, answered>>

(* The block poller asks for the tip and then publishes it; when it finds   *)
(* none, or its request fails, the one of before stays.                     *)
FetchTip(h) ==
    /\ held[h] = 0 /\ srv[h].up /\ mode # "exited"
    /\ held' = [held EXCEPT ![h] = srv[h].tip]
    /\ UNCHANGED <<headVars, pc, got, app, alerts, mode, complete, historyVars>>

PublishTip(h) ==
    /\ held[h] # 0 /\ mode # "exited"
    /\ app' = [app EXCEPT ![h].tip = held[h]]
    /\ held' = [held EXCEPT ![h] = 0]
    /\ UNCHANGED <<headVars, pc, got, alerts, mode, complete, historyVars>>

(* A minute has gone by since backpressure was seen.                        *)
Elapse(h) ==
    /\ app[h].rejecting /\ mode # "exited"
    /\ app' = [app EXCEPT ![h].rejecting = FALSE]
    /\ UNCHANGED <<headVars, pc, got, held, alerts, mode, complete, historyVars>>

-------------------------------------------------------------------------------
(* compute: the alerts of a head of which a is published, when the blocks   *)
(* up to due are near their deadlines; one alone when it is unreachable.    *)
Compute(a, due) ==
    CASE a.reachable = "unknown" -> {}
      [] a.reachable = "no"      -> {"unreachable"}
      [] a.reachable = "yes"     ->
            {k \in {"status", "hard-confirm", "headroom", "backpressure", "fallback"} :
                \/ k = "status"       /\ a.ready \notin {"active", None}
                \/ k = "hard-confirm" /\ a.stats.stalled
                \/ k = "headroom"     /\ a.stats.room < a.max
                \/ k = "backpressure" /\ a.rejecting
                \/ k = "fallback"     /\ a.tip \in 1 .. due}

Computed == [h \in Heads |-> Compute(app[h], srv[h].due)]

Tick ==
    /\ mode = "terminal"
    /\ alerts' = Computed
    /\ UNCHANGED <<headVars, pc, got, held, app, mode, complete, historyVars>>

NoneDown  == \A h \in Heads : app[h].reachable # "no"    \* slip: unknown taken for up
AllProbed == \A h \in Heads : app[h].reachable # "unknown"

(* print_json waits until every head has been probed, or for the deadline,  *)
(* which may pass after its last look.                                      *)
Awaited ==
    /\ mode = "json"
    /\ complete' \in {AllProbed, FALSE}
    /\ mode' = "compute"
    /\ UNCHANGED <<headVars, pc, got, held, app, alerts, historyVars>>

(* The alerts are computed under a second lock, and printed under a third   *)
(* with the state that the pollers have published by then.                  *)
ComputeJson ==
    /\ mode = "compute" /\ mode' = "print"
    /\ alerts' = Computed
    /\ UNCHANGED <<headVars, pc, got, held, app, complete, historyVars>>

PrintJson ==
    /\ mode = "print" /\ mode' = "exited"
    /\ UNCHANGED <<headVars, pc, got, held, app, alerts, complete, historyVars>>

StatsRound(h) == GetStats(h) \/ GetReady(h) \/ GetVersion(h) \/ Publish(h)

Next ==
    \/ \E h \in Heads :
          \/ GoDown(h) \/ ComeBack(h) \/ Reboot(h)
          \/ Advance(h) \/ Reject(h) \/ Fill(h) \/ Drain(h) \/ Stall(h)
          \/ Produce(h) \/ Age(h)
          \/ StatsRound(h) \/ FetchTip(h) \/ PublishTip(h) \/ Elapse(h)
    \/ Tick
    \/ Awaited \/ ComputeJson \/ PrintJson

Spec == Init /\ [][Next]_vars

(* The pollers' tasks run on, each by itself, the terminal keeps ticking,   *)
(* and minutes go by.                                                       *)
FairSpec ==
    /\ Spec
    /\ \A h \in Heads : /\ WF_vars(StatsRound(h))
                        /\ WF_vars(FetchTip(h) \/ PublishTip(h))
                        /\ WF_vars(Elapse(h))
    /\ WF_vars(Tick)

-------------------------------------------------------------------------------
Count == 0 .. MaxChanges
AnyStats == [some : BOOLEAN, boot : 0 .. MaxChanges + 1, rejected : Count,
             stalled : BOOLEAN, room : Rooms]

(* Type invariant.                                                          *)
TypeOK ==
    /\ srv \in [Heads -> [up : BOOLEAN, boot : 1 .. MaxChanges + 1, ready : Phases,
                          rejected : Count, stalled : BOOLEAN, room : Rooms,
                          tip : 1 .. MaxChanges + 1, due : 0 .. MaxChanges + 1]]
    /\ changes \in Count
    /\ pc \in [Heads -> {"stats", "ready", "version", "publish"}]
    /\ got \in [Heads -> [stats : AnyStats, ready : Phases \cup {None},
                          version : 0 .. MaxChanges + 1]]
    /\ held \in [Heads -> 0 .. MaxChanges + 1]
    /\ app \in [Heads -> [reachable : {"unknown", "yes", "no"},
                          ready : Phases \cup {None}, version : 0 .. MaxChanges + 1,
                          stats : AnyStats, rejecting : BOOLEAN, max : Rooms,
                          tip : 0 .. MaxChanges + 1]]
    /\ alerts \in [Heads -> SUBSET {"unreachable", "status", "hard-confirm",
                                    "headroom", "backpressure", "fallback"}]
    /\ mode \in Modes \cup {"compute", "print", "exited"} /\ complete \in BOOLEAN
    /\ answered \in [Heads -> SUBSET Rooms]
    /\ phases \in [Heads -> SUBSET Phases]
    /\ counted \in [Heads -> AnyStats]

(* A readiness on display was the head's at some time since the last round  *)
(* that found it unreachable: none outlives an outage (poll.rs:87-91).      *)
ReadySurvivesNoOutage ==
    \A h \in Heads : app[h].ready # None => app[h].ready \in phases[h]

(* Every rejection between two rounds that got through to one run of a head *)
(* is noticed by the second, whatever rounds failed in between              *)
(* (poll.rs:78-83).                                                         *)
RejectionsNoticed ==
    [][\A h \in Heads :
           (/\ counted'[h] # counted[h]
            /\ counted'[h].boot = counted[h].boot
            /\ counted'[h].rejected > counted[h].rejected)
               => app'[h].rejecting]_vars

(* A JSON that calls itself complete is silent about no head that never     *)
(* answered (main.rs:65-71).                                                *)
CompleteIsProbed ==
    (mode = "exited" /\ complete) =>
        \A h \in Heads : answered[h] # {} \/ "unreachable" \in alerts[h]

(* Once the heads come to rest, the terminal comes to show exactly what is  *)
(* wrong with each, whatever the order in which its two pollers and the     *)
(* tick got there.  An unreachable head shows nothing else.  Room is short  *)
(* against the most that was ever answered, before a restart of the head or *)
(* an outage too (alerts.rs:78-99): a head that was found full and has had  *)
(* no room since is not known to be short of any.                           *)
Wrong(h) ==
    IF ~srv[h].up THEN {"unreachable"}
    ELSE {k \in {"status", "hard-confirm", "headroom", "fallback"} :
             \/ k = "status"       /\ srv[h].ready # "active"
             \/ k = "hard-confirm" /\ srv[h].stalled
             \/ k = "headroom"     /\ \E n \in answered[h] : srv[h].room < n
             \/ k = "fallback"     /\ srv[h].tip <= srv[h].due}

AlertsSettle ==
    mode = "terminal" => <>[](\A h \in Heads : alerts[h] = Wrong(h))
==================================================================================
