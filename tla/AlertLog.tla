-------------------------------- MODULE AlertLog --------------------------------
(***************************************************************************)
(* hztop's alert history: alerts raised and cleared in each session's log   *)
(* (refresh_alerts in hztop/src/main.rs), the state file the sessions of a  *)
(* machine share (persist.rs), and the one-shot JSON reader (print_json).   *)
(* What is wrong with the heads, the argument of alerts::compute, changes   *)
(* under a session as it pleases.                                           *)
(***************************************************************************)
EXTENDS Naturals, SequencesExt

CONSTANTS
    Keys,      \* the conditions an alert can name (Alert::key)
    Sessions,  \* the terminals hztop may run in, one after another or at once
    Cap,       \* ALERT_LOG_CAP
    MaxTicks   \* bound: ticks that find a change

ASSUME AlertLogAssumption ==
    /\ IsFiniteSet(Keys)
    /\ Cap \in Nat \ {0}
    /\ MaxTicks \in Nat

VARIABLES
    pc,       \* pc[s]: "off", "on", the two stages of a save, or "json"
    leaving,  \* leaving[s]: the save is the one at exit
    alerts,   \* alerts[s]: App::alerts, by key
    log,      \* log[s]: App::alert_log, oldest first
    tmp,      \* tmp[s]: the temporary file of the save that s is in
    file,     \* state.json
    stale,    \* history: stale[s]: the file holds what s has neither read nor written
    ticks     \* ticks so far that found a change

vars == <<pc, leaving, alerts, log, tmp, file, stale, ticks>>

Event == [key : Keys, cleared : BOOLEAN]

(* A file holds a log, or is cut short; no file is as good as an empty log. *)
Whole(l) == [whole |-> TRUE, log |-> l]
Torn     == [whole |-> FALSE, log |-> <<>>]

(* The newest Cap events of a log.                                          *)
NewestAndOne(l) ==    \* slip: one too many
    IF Len(l) <= Cap + 1 THEN l ELSE SubSeq(l, Len(l) - Cap, Len(l))
OldestOf(l) ==        \* slip: drops from the wrong end
    IF Len(l) <= Cap THEN l ELSE SubSeq(l, 1, Cap)
Newest(l) ==
    IF Len(l) <= Cap THEN l ELSE SubSeq(l, Len(l) - Cap + 1, Len(l))

Init ==
    /\ pc = [s \in Sessions |-> "off"]
    /\ leaving = [s \in Sessions |-> FALSE]
    /\ alerts = [s \in Sessions |-> {}]
    /\ log = [s \in Sessions |-> <<>>]
    /\ tmp = [s \in Sessions |-> Torn]
    /\ file = Whole(<<>>)
    /\ stale = [s \in Sessions |-> FALSE]
    /\ ticks = 0

-------------------------------------------------------------------------------
(* load: a file that cannot be read, or does not parse, is as good as none; *)
(* the next save writes over it.                                            *)
LoadNothing(f, read) == <<>>    \* slip: the saved log is not taken over
Load(f, read) == IF read /\ f.whole THEN Newest(f.log) ELSE <<>>

(* A process starts, with the saved log if it can read it.                  *)
Begin(s, stage) ==
    /\ pc[s] = "off"
    /\ pc' = [pc EXCEPT ![s] = stage]
    /\ \E read \in BOOLEAN :
          /\ log' = [log EXCEPT ![s] = Load(file, read)]
          /\ stale' = [stale EXCEPT ![s] = ~read]
    /\ UNCHANGED <<leaving, tmp, file, ticks>>

(* A terminal session starts, with no alerts.                               *)
Launch(s) ==
    /\ Begin(s, "on")
    /\ UNCHANGED alerts

(* What a tick logs: the alerts that are in one set and not in the other.   *)
Raised(old, fresh)    == fresh \ old
NotActive(old, fresh) == Keys \ fresh    \* slip: whatever is not active clears
Cleared(old, fresh)   == old \ fresh

(* The events of the keys S, in an order that no property looks at.         *)
Logged(S, cleared) ==
    {[i \in DOMAIN q |-> [key |-> q[i], cleared |-> cleared]] : q \in SetToSeqs(S)}

(* A tick of the terminal loop: the alerts are computed afresh, the changes *)
(* logged, raises first, and the log saved if there are any.                *)
Refresh(s, fresh) ==
    /\ pc[s] = "on"
    /\ fresh # alerts[s]
    /\ ticks < MaxTicks /\ ticks' = ticks + 1
    /\ \E raises \in Logged(Raised(alerts[s], fresh), FALSE),
          clears \in Logged(Cleared(alerts[s], fresh), TRUE) :
          log' = [log EXCEPT ![s] = Newest(@ \o raises \o clears)]
    /\ alerts' = [alerts EXCEPT ![s] = fresh]
    /\ pc' = [pc EXCEPT ![s] = "save"]
    /\ UNCHANGED <<leaving, tmp, file, stale>>

(* The operator quits: the log is saved once more.                          *)
Quit(s) ==
    /\ pc[s] = "on"
    /\ pc' = [pc EXCEPT ![s] = "save"]
    /\ leaving' = [leaving EXCEPT ![s] = TRUE]
    /\ UNCHANGED <<alerts, log, tmp, file, stale, ticks>>

-------------------------------------------------------------------------------
(* save: the log is written to a temporary file of the process's own, and   *)
(* that is renamed.  The write may fail half-way, and so may the rename:    *)
(* the save is then given up without a word, and what it leaves of the      *)
(* temporary file is opened anew by the next.                               *)
RenameAnyway(ok) == TRUE    \* slip: the write's result is not looked at
MayRename(ok)    == ok

(* The session is gone, and its state with it.                              *)
Gone(s) ==
    /\ pc' = [pc EXCEPT ![s] = "off"]
    /\ leaving' = [leaving EXCEPT ![s] = FALSE]
    /\ alerts' = [alerts EXCEPT ![s] = {}]
    /\ log' = [log EXCEPT ![s] = <<>>]

(* Back to the loop, or out of it.                                          *)
AfterSave(s) ==
    IF leaving[s] THEN Gone(s)
    ELSE /\ pc' = [pc EXCEPT ![s] = "on"]
         /\ UNCHANGED <<leaving, alerts, log>>

WriteLog(s) ==
    /\ pc[s] = "save"
    /\ \E ok \in BOOLEAN :
          /\ tmp' = [tmp EXCEPT ![s] = IF ok THEN Whole(log[s]) ELSE Torn]
          /\ IF MayRename(ok)
             THEN pc' = [pc EXCEPT ![s] = "rename"] /\ UNCHANGED <<leaving, alerts, log>>
             ELSE AfterSave(s)
    /\ UNCHANGED <<file, stale, ticks>>

Rename(s) ==
    /\ pc[s] = "rename"
    /\ file' = tmp[s]
    /\ tmp' = [tmp EXCEPT ![s] = Torn]
    /\ stale' = [t \in Sessions |-> t # s /\ pc[t] # "off"]
    /\ AfterSave(s)
    /\ UNCHANGED ticks

FailRename(s) ==
    /\ pc[s] = "rename"
    /\ tmp' = [tmp EXCEPT ![s] = Torn]
    /\ AfterSave(s)
    /\ UNCHANGED <<file, stale, ticks>>

(* The process is killed, whatever it is at.                                *)
Kill(s) ==
    /\ pc[s] # "off"
    /\ Gone(s)
    /\ tmp' = [tmp EXCEPT ![s] = Torn]
    /\ UNCHANGED <<file, stale, ticks>>

-------------------------------------------------------------------------------
(* The JSON reader: it computes the alerts and prints them, each with the   *)
(* time since its newest raise in the saved log, and saves nothing.         *)
OneShot(s, found) ==
    /\ Begin(s, "json")
    /\ alerts' = [alerts EXCEPT ![s] = found]

Next ==
    \E s \in Sessions :
        \/ Launch(s) \/ Quit(s) \/ Kill(s)
        \/ \E S \in SUBSET Keys : Refresh(s, S) \/ OneShot(s, S)
        \/ WriteLog(s) \/ Rename(s) \/ FailRename(s)

Spec == Init /\ [][Next]_vars

-------------------------------------------------------------------------------
Log == SeqOf(Event, Cap)

(* Type invariant; no log ever exceeds its cap, in memory or on disk.       *)
TypeOK ==
    /\ pc \in [Sessions -> {"off", "on", "save", "rename", "json"}]
    /\ leaving \in [Sessions -> BOOLEAN]
    /\ alerts \in [Sessions -> SUBSET Keys]
    /\ \A s \in Sessions : log[s] \in Log
    /\ \A s \in Sessions : tmp[s].whole \in BOOLEAN /\ tmp[s].log \in Log
    /\ file.whole \in BOOLEAN /\ file.log \in Log
    /\ stale \in [Sessions -> BOOLEAN]
    /\ ticks \in 0 .. MaxTicks

(* The raise that the time of an active alert is counted from, and the one  *)
(* that a clear is paired with: the newest, the nearest; 0 if there is none.*)
ActiveFor(l, k)   == SelectLastInSeq(l, LAMBDA e : ~e.cleared /\ e.key = k)
RaiseBefore(l, i) == ActiveFor(SubSeq(l, 1, i - 1), l[i].key)

(* The newest event of a condition in a log, 0 if there is none.            *)
LastOf(l, k) == SelectLastInSeq(l, LAMBDA e : e.key = k)

(* In a terminal session the log agrees with the alerts shown: the raise    *)
(* that one is timed from is the newest thing said of it, and is missing    *)
(* only when the cap has pushed it out (ui.rs:258-266).                     *)
ActiveRaised ==
    \A s \in Sessions : pc[s] \notin {"off", "json"} =>
        \A k \in alerts[s] :
            LET i == ActiveFor(log[s], k)
            IN  i = LastOf(log[s], k) /\ (i = 0 => Len(log[s]) = Cap)

(* Whatever sessions wrote a log in turn, on disk and on display: the raise *)
(* a clear is paired with, for how long the alert lasted, is the newest     *)
(* event of the condition before it, with no other clear in between, and is *)
(* missing only when the cap has pushed it out (ui.rs:647-660).             *)
Paired(l) ==
    \A i \in DOMAIN l : l[i].cleared =>
        LET j == RaiseBefore(l, i)
        IN  j = LastOf(SubSeq(l, 1, i - 1), l[i].key) /\ (j = 0 => Len(l) = Cap)

ClearsPaired == Paired(file.log) /\ \A s \in Sessions : Paired(log[s])

(* "A crash mid-write leaves the previous file rather than a truncated one" *)
(* (persist.rs:47-48), and so does a write that fails.                      *)
FileWhole == file.whole

(* A session that overwrites what nobody else has written since it read it  *)
(* drops nothing from the history but what the cap pushes out, across       *)
(* kills, failed saves and restarts (persist.rs:45-49).                     *)
Extends(old, new) ==
    \E d \in 0 .. Len(old) :
        /\ IsPrefix(SubSeq(old, d + 1, Len(old)), new)
        /\ d > 0 => Len(new) = Cap

HistoryKept ==
    [][\A s \in Sessions :
           (pc[s] = "rename" /\ file' # file /\ ~stale[s] /\ ~stale'[s])
               => Extends(file.log, file'.log)]_vars

(* snapshot.rs:3-5: the JSON reader tells "the same state the terminal      *)
(* draws": the raise an active alert is timed from is not one that was      *)
(* cleared since.                                                           *)
JsonTimesActive ==
    \A s \in Sessions : pc[s] = "json" =>
        \A k \in alerts[s] :
            ActiveFor(log[s], k) # 0 => ActiveFor(log[s], k) = LastOf(log[s], k)
=================================================================================
