# Verification of hydrozoa-tools

TLA+ models of the programs in this repository, model-checked with TLC; their
safety is proved with TLAPS. The repository holds three crates beside a
running *hydrozoa* node, which itself lives elsewhere:

- **hydrozoa-store** reads the node's RocksDB as a secondary instance;
- **hydrozoa-archiver** copies the node's journals and other column families
  into an archive, and reports to the node how far the archive durably reaches,
  so that the node may delete;
- **hztop** polls heads over HTTP and shows a dashboard, or prints it as JSON.

Paths below are relative to the repository. `P:n` is line n of P;
`pass.rs`, `archive.rs`, `watermark.rs` and, in the first part, `main.rs` are
those of `hydrozoa-archiver/src`.

## Inventory

### The node and its store (external)

State: per *journal* (Block, Stack, `Request:p`, `SoftAck:p`, ...) entries keyed
by a big-endian index, each framed with an arrival stamp; 18 fixed families
rewritten in place; a retention floor. Operations: append, rewrite, restart,
take a watermark over `POST /api/admin/archive/watermark`, delete a prefix of a
journal. The node does not fsync (archive.rs:154). Nothing of it is in the
repository: modules describe it only as far as its readers rely on it and the
`secondary_semantics` tests pin it.

### hydrozoa-store

State: the secondary's view, which moves only at `catch_up`, and the list of
families read at `open`. Operations: `open`, `catch_up`, `tip`, `floor`, `scan`,
`scan_raw`, `get`, `meta`; pure conversions of keys, stamps, family names and
requests. Hard: the view is stale between catch-ups while the node appends and
deletes; a `u32` key runs out. Correct if: a scan from *i* yields every entry
from *i* on that the view holds, in index order; tip and floor are the ends.

### hydrozoa-archiver

State: the archive (fsynced), and per process the view, `last_full`, and the
locals of the pass under way (`PassReport`). No state file: the archive's own
tip is the resume point. Operations: a pass (`pass::run`: one catch-up, every
journal in turn in batches of 1024, on a full pass every fixed family), the
report of its watermarks, the loop around it, `--once`, `--dry-run`, the
identity stamp that ties an archive to one head, configuration and peer.
Interaction: reads the node's files; posts watermarks; the node deletes below
them. Hard: crashes and failures between any two batches; reports lost, late,
overtaken; the node trimming under the scan; power loss, after which the
unsynced node and the fsynced archive disagree. Correct if: nothing the node
deletes is lost, no report runs ahead of what is durable, the archive has no
silent hole, snapshots are backed by journals, everything is archived in the
end and the node gets its space back.

### hztop

State (`App`, shared under a mutex): per head `reachable`, `ready`, `stats`,
`latest_block`, `hard_tip`; the alerts, the alert log; on disk `state.json`.
Operations: `head_stats_loop`, `head_block_loop` (an exponential search by HTTP
requests), `alerts::compute`, `refresh_alerts` (every 250 ms), `persist::load`
and `save`, `print_json`, drawing and keys. Hard: the chain grows, or is lost,
while it is searched, and requests fail; sessions share one state file, are
killed, and may fail to read or to write it; the log is capped; the JSON reader
looks, computes and prints under three locks and does not wait for every poller. Correct if: the
search invents nothing, ends and converges; the log pairs raises with clears;
the file is always whole; what is printed is what is so.

## Modules

| module | models | role |
|---|---|---|
| `Journals` | `journal.rs`, `HeadStore::{tip, floor, scan}`, `put_raw` | a journal as a function on indices, shared by both stores |
| `HeadNode` | the node (external) | its store, deletions, boots, and the watermark reports under way |
| `Archiver` | `main.rs`, `pass.rs`, `archive.rs`, `HeadStore` as used | the archiver, composed with `HeadNode` |
| `ArchiverProps` | | type invariant, safety, liveness, refinement of `Retention` |
| `Retention` | | abstract specification: write, save, discard in order |
| `PowerLoss` | power loss of the machine, and an archive put in a lost store's place (external) | `Archiver` with a disk that lags behind the node, and the boot counter |
| `MCArchiver`, `MCPowerLoss` | | instances for TLC |
| `ArchiverProofs`, `PassProofs`, `GapProofs`, `PowerProofs` | | theorems about `Archiver` and `PowerLoss`, each on the one before it |
| `Families` | `cf.rs`, and the lists `open` and `pass::run` make of it | names, kinds, authors and key widths of families |
| `Encoding` | `journal.rs`: keys, stamps, frames; `scan` in byte order | what `Journals` takes for granted of the bytes |
| `ArchiveIdentity` | `meta.rs`, `archive.rs`: `open`, `stamp_or_check`, `identity`, `write_identity`; `main.rs`: the version check | several archivers, stores and archives, reduced to whose they are; peers are those of `Families` |
| `StoreProofs` | | theorems about `Families`, `Encoding` and `ArchiveIdentity` |
| `TipSearch` | `hztop/src/poll.rs`: `head_block_loop`, `find_last` | the block search, one step per request |
| `AlertLog`, `MCAlertLog` | `hztop/src/main.rs`: `refresh_alerts`, `print_json`; `persist.rs`; `ui.rs`: what the history pane pairs | alert logs of several sessions on one state file |
| `Monitor` | `poll.rs`: `head_stats_loop`; `alerts.rs`: `compute`; `main.rs`: `print_json` | what hztop believes of its heads, and says of them |
| `TipSearchProofs`, `AlertLogProofs`, `MonitorProofs` | | theorems about the module each is named for |

A definition marked *slip* in a comment is no part of a specification. It is
the definition after it with a plausible mistake, kept to show that the
property it is paired with in `PROJECT.json` would notice.

### Journals, HeadNode, Archiver

A journal is a total function from `Index` to a *generation*: 0 for no entry,
otherwise the generation part of the arrival stamp. Two entries at one index
are told apart by nothing else. `written` is a history variable: what the node
last wrote at each index. Journals are visited in the order of `Cf`; `cur` is
the one the pass is at. The index of the model is bounded by `MaxIndex`, the
key width by `KeyLimit[j]`, which may lie below it.

`HeadNode`: `Append`, `Snapshot` (a row of a fixed family agrees with the
journal tips of the moment it is written: `snap`), `Settle` (the row is
deleted), `Restart` (a boot: next generation, the
adopted floor is forgotten), `Adopt` and `Lose` for a posted report, `Trim`.
Reports are a set, so they may be handled in any order; one that is handled
twice is the same report posted by two passes. The node takes the watermarks a
report names as they are, also when a later report was handled before: that is
the weakest reading, a node that never goes back allows less. `RogueTrim`
deletes without regard to watermarks.

`Archiver`, one step per effect another process or a crash can fall between:

| action | code |
|---|---|
| `Start` | main.rs:20-23, open and first catch-up |
| `BeginPass(full)` | main.rs:70-73, pass.rs:66, the catch-up of a pass |
| `OpenJournal` | pass.rs:92-121, resume point and gap |
| `CommitBatch` | pass.rs:123-142, one full batch, fsynced |
| `FinishJournal` | pass.rs:143-151, the remainder and the journal's watermark |
| `CopyFixed` | pass.rs:159-185, one committed row of the fixed families |
| `ReportPass` | main.rs:74-90 and `send_watermark` |
| `FailPass` | any `?` of the pass, main.rs:91-95 |
| `OverflowPass` | `encode_key` refusing the resume point, pass.rs:123 |
| `Crash` | the process or machine stops; the archive was fsynced |

The time of the full interval is abstracted: a turn may be full whenever the
code does not require it to be (`Due`). A failure may strike at every step
that reads or writes. A post may be adopted after the client has given up
waiting, or never: `SendWatermark` hands the report to `inflight` and goes on.
Fixed families are as many *separately committed rows* as `NumFixed` says;
what a row contains is reduced to the journal tips it agrees with. A copy only
puts (pass.rs:167-181): a row the view does not show leaves the archive's row
as it is, so the archive keeps rows the node has deleted, beside rows of later
moments. `PassComplete`, `SnapshotBacked` and `SnapshotsConverge` are stated of
the archive with such rows in it.

`PowerLoss` adds two ways in which a node goes back. `disk` is its store as far
as it has reached the disk; `LosePower` takes the node back to it, while the
archive, fsynced, stays. `Restore` puts a copy of the archive in the place of
the node's store and boots the node on it, which is what an archive with the
node's layout is for (archive.rs:3-6). It may end a pass anywhere, and reports of the node's
former life may still be under way. The boot counter is a row of a fixed
family: the node bumps it at startup, a catch-up shows it (`viewBoot`), and the
full pass that copies the last fixed row copies it (`archiveBoot`); a pass over
the journals alone does not. Three history variables say under which
conditions something is promised: `agreed` (no power loss since the start or
the last restore), `settled` (nothing was archived since the last full pass)
and `ordered` (no power loss, and every restore was settled).

### Families and Encoding

`Families` has the kinds of a family, its author, its key width, and the way
from a name to a family and back. A name is a prefix and a number; strings of
either form that no build knows stand behind one prefix, `Bogus`, and RocksDB's
own family, which `open` passes over, is `Default`. The names on
disk are canonical, as every build writes them: `Request:7`, not `Request:007`.
`Half` is 2^31; the theorems hold for every width, `Identity` checks with
`Half = 1`. Families are listed when a store is opened, and the node creates
them from its configuration when it boots (cf.rs:3-5), so the journals of
`Archiver` are a constant.

`Encoding` has keys, stamps and frames as sequences of bytes, at their real
widths of 4, 8 and 12, and the scan as the byte-order iterator it is. Both
modules are pure; nothing of them runs in TLC but what `ArchiveIdentity` uses.
What they say is proved, for every index and every stamp.

### ArchiveIdentity

The same archiver, seen from the family `Meta` alone. A store or archive is a
schema version (0: no `store_version` row), a stamp (none, partial, or an
identity) and, as history, who wrote the entries in it. An identity is a head
and a peer; the hash of the parameters and the address go with the head. A peer
has a kind and a number and is one integer on disk (`Families`: `ToWireInt`,
`FromWireInt`): a fresh archive gets the decoded identity encoded again, a full
pass copies the rows as they are, and the two must agree.
`Start` is main.rs:20-38, `OpenArchive` the opening or creation of the archive
under RocksDB's lock, `StampOrCheck` is archive.rs:48-70, `CopyJournals` and
`CopyMeta` are the effects of a pass. `Stop` may come between any two of them:
an archive may be created and never stamped. `Format` is an operator setting a
store up anew, for the same or another owner and under any version, *while no
archiver has it open*: what a secondary reads of a store that is replaced under
it is not the code's to decide. Stores start in every state `assemble`
distinguishes.

### Monitor

Per head: the head itself (`srv`), the stats poller's place and answers of the
round (`pc`, `got`), what is published under the lock (`app`), the alerts last
computed. `GetStats`, `GetReady`, `GetVersion` are one request each, answered
or failed; the head may change between them. `Publish` is poll.rs:65-95.
`FetchTip` and `PublishTip` are all that alerts use of the block poller: the tip
it was told, and then shows. Blocks come near their fallback deadlines one after
the other (`due`), whether or not the poller has seen them: `Compute` compares
the tip that is published with the present, as alerts.rs:112-115 does, so an old
tip comes near by itself while the head has a newer one. `Tick` is the
computation of alerts by a terminal. The JSON reader looks (`Awaited`), computes
the alerts (`ComputeJson`) and prints (`PrintJson`) under three locks one after
the other: pollers publish in between, so that a head may be printed as
unreachable without the alert that says so, or the other way round; what
`CompleteIsProbed` says holds all the same. Thresholds are flags; warn and crit are one level.
Headroom is what the sequencer has left (`room`), none or all, against the most
a head was ever seen to have (`max`, poll.rs:76): that baseline survives
outages and restarts, and a head that was found full, and has had no room
since, has none to be judged by. `answered` (the rooms a head has answered
with), `phases` and `counted` are history.

### TipSearch

`frontier["tip"]` and `frontier["hard"]` are the head's newest and newest
hard-confirmed block. Both grow at any time, and `LoseChain` takes the head
back to a shorter chain, as a restore or a power loss does, also while it is
searched. `Passes(n)` and `FailsToPass(n)` are one answered request; a failed
one is a `FailsToPass` of a block that qualifies. `pc` follows `find_last`:
halving from the hint (`probe`), doubling strides (`gallop`), bisection
(`bisect`), then the fetch that is displayed. `tick` counts modulo `HardEvery`,
the 5 of poll.rs:120. History: `low` and `high` are the least and the greatest
the frontier has been since the search under way began, `began` the requests
that had failed by then. `SearchExact` is stated of the step that ends a search:
its answer is at most `high`, and, if no request of *this* search failed, at
least `low`. On a chain that stays as it is the two are one.

### AlertLog

`alerts::compute` is any set of keys at each tick. `Refresh` is the whole of
`refresh_alerts`, the diff, the append and the cap; the save is two further
steps, writing the temporary file (`tmp`, each process has its own) and renaming
it. The write may fail and leave the temporary file cut short, the rename may
fail, and a kill may come at any point. A process that starts reads the state
file, or cannot (persist.rs:29-31) and begins with an empty log, which its first
save puts over the file. `stale[s]` is history: the file holds something that s
has neither read nor written. Keys are distinct: two heads configured under one
name would share keys and are not modelled. `OneShot` is `print_json`. `ActiveFor` and
`RaiseBefore` are the two lookups of the display: how long an active alert has
been on (ui.rs:258-266), and the raise a clear belongs to (ui.rs:649-660).
`ActiveRaised` says that the first finds the raise of this episode, and
`ClearsPaired` that the second never crosses an earlier clear, in the file and in
every session's log. `HistoryKept` is about sessions whose file is not stale:
one that could not read the history does write over it.

## Runs

| run | instance | shows |
|---|---|---|
| `Loss` | 2 journals, 2 indices in batches of 2, 2 boots, 2 reports under way, a fault | `NoLoss`, `WatermarkCovered`, `NoGaps`, `TypeOK` |
| `Passes` | 1 journal, 2 indices in batches of 1, 2 fixed rows, a fault | `ArchivedInOrder`, `SnapshotBacked`, `PassComplete`, and that the system implements `Retention` (`RetentionSpec`) |
| `Live` | 1 journal, 2 boots, 2 reports under way, a fault, fairness | `EverythingArchived`, `SpaceReclaimable`, `SnapshotsConverge` |
| `Rogue` | 1 journal, 4 indices in batches of 2, `--once`, a key width that just fits, a fault, fairness | `HolesWarned`, `GapsAreReal`, `KeptIsArchived` |
| `Power` | 1 journal, 2 indices, 1 fixed row, 2 boots, power losses and restores | `RestoreHeals`, `GenerationsRise`, `ArchiveAppendOnly` |
| `Tip` | 5 blocks, strides up to 3, the hard tip at every other poll, a failing request, a lost chain, fairness | `NothingInvented`, `SearchExact`, `PollEnds`, `Converges`, `TypeOK` |
| `Alerts` | 2 keys, 2 sessions, a log of 3, 5 ticks, files that cannot be read or written | `ActiveRaised`, `ClearsPaired`, `FileWhole`, `HistoryKept`, `TypeOK` |
| `Identity` | 2 heads, a head and a coil peer of each, 2 stores, 1 archive, 2 archivers, versions 0 to 4, 2 stores set up anew | `OneOwner`, `StampKept`, `NeverMisread`, `TypeOK` |
| `Monitor` | 1 head, 3 changes or failed requests, fairness | `ReadySurvivesNoOutage`, `RejectionsNoticed`, `CompleteIsProbed`, `AlertsSettle`, `TypeOK` |

Why these bounds are enough. *Two* journals are needed for a pass that is done
with one and dies before the other, and for a report that mixes a fresh mark
with an old one. *Two* reports under way can overtake each other. *Two* boots
forget a floor; in `Power` the second is one after a power loss or on a restored
archive, where entries of two generations meet. `PowerUnsound` has a third boot
and a third index, so that the loss can strike a node that has been restarted.
In `Passes` batches of one put a crash between two batches, between the batches
and the remainder, and between the two rows of the fixed families. In `Rogue`
*four* indices with batches of two give a full batch followed by a remainder, a
batch that the scan ends on exactly, an empty one, and an archived prefix, a gap
of two and an entry behind it. `MaxStart` lets the store be in use and trimmed
before the archiver first opens it. One fault at any step is one more pass from
the archive's tip; `Crash` and `FailPass` share the bound, and `Power` has none:
what a crash leaves in the archive, a restore and a power loss leave there too.
In `Alerts` five ticks of up to two events exceed a log of three in every way:
an event pushed out, a pair split, a whole log replaced by another session's. In
`Tip` five blocks carry the strides (1, 2, 3, 3) past their cap, a stride of
three leaves an interval that is bisected twice, and a hint of 4 or 5 on a
chain that was lost is halved twice, to 2 and to 1; one loss and one failed request meet in
either order, in one search or in two. In `Identity` two archivers on
one archive can be at different stores, or at one; versions lie on both sides of
the supported one; a store set up anew before each of two starts meets an
archive of its former owner, and again of its own. In `Monitor` heads share
nothing but the lock, so one stands for each; an outage, a change during it and
a return, a failed round between two rejections, or a deadline that comes near,
a block and the deadline of that, are three changes.

Fairness. `Live` assumes that the archiver is started again when it is down
(`WF(Start)`, a service manager), keeps taking steps (`WF(ArchiverStep)`: its
loop waits for nothing but time), that the full interval keeps elapsing
(`SF(BeginPass(TRUE))`: a turn that finds it elapsed comes again and again), and
that a report which is posted again and again gets through (`SF(Adopt)`).
Nothing is assumed of the node's appending or trimming. `Rogue` and
`UnflaggedGap` assume the same beside a rogue node (`FairRogueSpec`); with
`--once`, `WF(Start)` is the timer that runs it again. `Tip` assumes that the
poller's task runs on (`WF(Poll)`): each request is answered, refused, or times
out after 3 s (poll.rs:16). `Monitor` assumes the same of both pollers' tasks
(`WF(StatsRound)`, `WF(FetchTip \/ PublishTip)`: when the head is up and comes to
rest, its tip is found, which is `Converges`), that the terminal keeps ticking and that
minutes go by.

### Where the documents and the code part

Each of these runs checks one statement that a document or comment makes and
that the code does not keep; TLC shows how.

| run | statement | what happens |
|---|---|---|
| `PowerUnsound` | secondary_semantics.rs:256-258: what the secondary sees unsynced decides "never whether the archive is sound" | the archive keeps entries that a power loss took from the node and that it then wrote differently |
| `UnflaggedGap` | archiver README:85-88: a gap "is logged at error rather than passed over" | the pass warns, commits what lies behind the gap, then fails: no later pass sees the gap, and only successful passes log at error |
| `JsonAlerts` | snapshot.rs:3-5: JSON tells "the same state the terminal draws" | an alert that has just begun is timed from an earlier, cleared episode |

Stated without a run:

- `--once` is "one full pass, then exit" (archiver README:8); a pass that fails
  logs "retrying" (main.rs:95) and exits with success, without a retry.
- The hard tip is called "exact" (poll.rs:117-119, state.rs:219-220); a request
  that fails counts as a block that does not pass (poll.rs:151-156), so one
  failure makes the search end below the frontier, until the next search.
  `SearchExact` therefore bounds a search from below only if none of its own
  requests failed.
- The block poller is to "keep its details [...] fresh" (poll.rs:100-101), with an exception: when no block is
  found at all, on a head that came back with an empty chain or for a failed
  request, the poll ends (poll.rs:109-111) and the old tip and hard tip stay on
  display, without an age. `Converges` is about chains with a block.
- The JSON of a head may call it unreachable and lack the alert, since alerts
  are computed under one lock and printed under the next (main.rs:92-97).
- A node restored from its archive is to go on from a consistent past
  (archive.rs:3-6), and stamps replay in the order of the generations
  (journal.rs:13-17). Journals are archived every pass, the boot counter on
  full passes only (main.rs:70-71, pass.rs:74-80): a node restored from an
  archive that was written to since its last full pass, or after a power loss
  that took the counter's row, boots under a generation it has used before.
  `GenerationsRise` is therefore about restores from what a full pass left.
- A fixed family is said to be copied "wholesale" (pass.rs:154). `copy_family`
  puts and never deletes (pass.rs:159-185): rows the node has deleted stay in the archive and
  come back with a restore. `PassComplete` and `SnapshotsConverge` speak of the
  rows the node has.
- The headroom alert measures against the most room ever seen (poll.rs:76,
  alerts.rs:78-99): a head that was full when hztop first saw it raises none,
  and one that comes back with less than a tenth of its former capacity is
  short of room for good.
- Lanes are said to be archived "at independent rates" (watermark.rs:13-15);
  the first that fails aborts the pass and its report for all (pass.rs:71).
- The archiver's README asks for store schema "version 3 or later" (README:78);
  main.rs:26 accepts 3 alone. `NeverMisread` holds of the code and would fail of
  the README's rule.
- `complete` is documented as every head *probed*; it says nothing of the block
  pollers, which begin with a sleep of 2 s, so the tip and the fallback alert
  may be missing from a complete snapshot.
- `rejecting` is told from two totals: what a restarted head rejects before it
  passes its former total goes unnoticed, unless a round falls between.
  `RejectionsNoticed` is therefore about two rounds of one run of a head.

## Proofs

Every invariant and every action property a passing run checks is also a
theorem, and so is the refinement of `Retention`: the run shows it on one
instance, the theorem for every value of the constants that satisfies the named
assumptions. The assumptions are as weak as the code allows: sizes are naturals,
at least one journal, batches are not empty (`JournalsAssumption`,
`HeadNodeAssumption`, `ArchiverAssumption`), the boot counter is in some row
(`PowerLossAssumption`), a number has a sign bit to lose (`FamiliesAssumption`),
some schema is supported (`ArchiveIdentityAssumption`), strides and the turn of
the hard search are positive (`TipSearchAssumption`), a log has room for an
event and the conditions of one tick are finitely many (`AlertLogAssumption`).
Heads, sessions, stores, archives and archivers are any number, infinitely many
too.

Few of the properties are inductive alone. Each proof below names the invariant
that is, and shows that it holds at first and is kept by each action. TLC finds
no state that violates any of them on the instances of the runs (`SafetyInv`,
`PassInv` and `Bounded` on `Passes`, `GapInv` on `Loss`, `RogueInv` on `Rogue`,
`BaseInv`, `AgreedInv` and `RisingInv` on `Power`, and one each on `Identity`,
`Tip`, `Alerts` and `Monitor`).

### The archiver: `ArchiverProofs`, `PassProofs`, `GapProofs`

| theorem | states |
|---|---|
| `TypeCorrect` | `Spec => []TypeOK` |
| `NothingLost` | `Spec => []NoLoss` |
| `WatermarksCovered` | `Spec => []WatermarkCovered` |
| `ArchiveInOrder` | `Spec => []ArchivedInOrder` |
| `SnapshotsBacked` | `Spec => []SnapshotBacked` |
| `PassesComplete` | `Spec => []PassComplete` |
| `RetentionImplemented` | `Spec => RetentionSpec` |
| `NoFalseGaps` | `Spec => []NoGaps` |
| `EveryHoleWarned` | `RogueSpec => []HolesWarned` |
| `EveryGapReal` | `RogueSpec => []GapsAreReal` |

`SafetyInv` joins the first properties with:

- `HistoryInv`: nothing was written at or above a journal's end, and whatever
  node, view or archive hold at an index is what the node last wrote there;
- `ViewInv`: what is missing from the view below one of its entries is
  archived. The node deletes only below watermarks, watermarks are covered, so
  what the secondary no longer shows the archive has. This is what makes it
  safe to resume at the tip and to commit a batch whose lower neighbours are
  not in the view;
- `ScanInv`: while a journal is scanned, all below `pos` is archived, and the
  running mark lies below `pos`;
- `MarkInv`: the pass's own marks, the adopted ones and those under way speak
  of indices that were written and are archived. This is stronger than
  `WatermarkCovered`: a mark above the journal's end would cover what is
  appended later.

The argument goes round: marks are sound, so the node only deletes what is
archived, so a view's holes are archived, so a scan that starts behind the
archive's tip leaves nothing out, so the marks it yields are sound. Appends
(`AppendSafety`), trims (`TrimSafety`), catch-ups, commits (`CopyStep`) and
reports are lemmas of their own; facts about tips, floors and batches come first.

`PassInv` follows a pass. A row of a fixed family and the journals agree at the
moment it is written, so all that the view's rows tell of is in the view or, if
it was trimmed, archived (`ViewBacked`); the journals the pass is through with
hold all the view shows (`JournalsCopied`); the rows come after all of them, so
each is backed before it is committed. Copying the rows first would break the
last step. `RowsInRange` keeps a row from speaking of what is appended later.

`RetentionImplemented` maps archive and node to `Retention` by two minima: the
first index that is not archived (`Saved`) and the first the node still holds
(`Discarded`). `Bounded` says the same without `Min`, and each action then has
an abstract step: appends write, trims discard, commits save, the rest stutters.
That discarding stays behind saving is `NoLoss` again.

`NoFalseGaps` adds to `SafetyInv` that the node leaves no index out (`NoHoles`):
what the view lacks between the archive's tip and its own floor would be
archived, and above its tip the archive has nothing. Beside a node that deletes as
it pleases none of that holds, and `RogueInv` starts anew from what the node
keeps being a journal's end (`NodeSuffix`) and a view having no hole inside
(`ViewWhole`): a scan jumps only at its start, and has warned by then
(`ScanWarned`); what is missing from the view below an entry is gone for good
(`ViewFresh`), so a warned range stays empty on every side (`GapsEmpty`).

### Power loss and restores: `PowerProofs`

- `PowerTypeCorrect`: `PowerSpec => []PowerTypeOK`;
- `NothingRewritten`: `PowerSpec => ArchiveAppendOnly`. It rests on nothing the
  node does: a scan is above all the archive holds (`ScanAbove`), whatever
  became of the node, so a commit goes on top (`BaseInv`);
- `RestoresHeal`: `PowerSpec => []RestoreHeals`. `AgreedInv` says that
  `SafetyInv` and `PassInv` hold while `agreed`; a restore establishes both from
  `BaseInv` alone (`RestoreSafety`), with reports of the former life under way:
  they name nothing above the archive's entries, and the restored node goes on
  behind those;
- `GenerationsInOrder`: `PowerSpec => []GenerationsRise`. The counter bounds
  every generation on its own side (`CounterInv`); a full pass copies it after
  the journals and from the same catch-up (`RisingInv`), so a node restored from
  such an archive begins above all it finds.

### Names, bytes and owners: `StoreProofs`

The first nine are about pure conversions, from `FamiliesAssumption` and the real
widths alone:

- `PeersApart`: head and coil peers have integers of their own, as long as
  their numbers survive the shift, as all numbers read off a disk do;
- `NamesReadBack`: a known name is written out as it was read, so that the
  family is found again in the other store;
- `FamiliesApart`: two names of a store are never one family;
- `PassCoversStore`: a full pass copies every known family in exactly one of
  its two ways, and reports the others but RocksDB's own;
- `KeysSortByIndex` and `ScanIsNumeric`: byte order is numeric order, so that a
  scan from a key is a scan from an index: what `Journals` builds upon;
- `KeysReadBack`: an index is refused exactly if the width cannot hold it
  (journal.rs:88), and otherwise read back: `KeyLimit` is that refusal;
- `StampsSortByBytes`, `FramesReadBack`: stamps compare as their bytes do, and
  a frame yields the stamp and payload it was made of.

The argument about bytes is by digits: four bytes determine their number
(`Read4` of `BigEndian4`), the first byte that differs decides, and eight bytes
are two words of four, compared one after the other.

Of archivers on any number of stores and archives:

- `IdentityTypeCorrect`, `OwnersApart` (`OneOwner`), `StampsKept` (`StampKept`)
  and `SchemaKnown` (`NeverMisread`). `IdentityInv` adds that an archive holds
  nothing until it is stamped and then only its stamp's (`ArchiveInv`), and that
  an archive is open to one archiver, whose store was found to carry the same
  stamp and schema before it copies (`OpenInv`). `PeersApart` is used here:
  a stamp is the encoding of one peer, so two owners never share one.

### hztop: `TipSearchProofs`, `AlertLogProofs`, `MonitorProofs`

- `SearchTypeCorrect`, `NothingIsInvented` and `SearchIsExact`, by `TipInv`:
  while a search runs the frontier lies between its `low` and its `high`, and
  its lower end, once a block has passed, is at most `high`: some answer was
  given by a chain that reached it (`ReachInv`). As long as no chain is lost
  that block is still there (`ThereInv`). If no request of the search failed,
  the upper end lies beyond `low` (`ExactInv`): a block that failed to pass was
  above the frontier of that moment, so that an interval of one ends at `low` or
  above. `SearchIsExact` follows from the step that ends the search.
- `AlertTypeCorrect`, `ActivesAreRaised` (`ActiveRaised`), `ClearsArePaired`
  (`ClearsPaired`), `FileStaysWhole` (`FileWhole`) and `HistoryIsKept`
  (`HistoryKept`), by `AlertInv`. What the properties say with the display's
  searches is said there by position: the newest event of an active condition is
  a raise (`ActiveIn`), no clear follows a clear (`PairedIn`), and a terminal's
  log extends the file it read (`ExtendedBy`); each excuses a log that is full.
  `TmpInv` says that a temporary file about to be renamed is whole and holds the
  session's log, which makes the three the file's after a rename.
  One `Refresh` appends raises, then clears, then drops from the front; each of
  the three is a lemma (`RaisesAppended`, `ClearsAppended`, `RaisedLastCut`).
- `MonitorTypeCorrect`, `ReadyForgotten` (`ReadySurvivesNoOutage`),
  `CompleteProbed` (`CompleteIsProbed`) and `RejectionsAreNoticed`
  (`RejectionsNoticed`), by `MonitorInv`: of each head, the readiness that is
  held, in a round under way or published, was its own since the last round that
  failed; published stats are the last counted and, if there are any, of a boot
  (`Fine`). `HeadStep` shows once that a step of one head leaves the others be.

### Only model-checked

Liveness under fairness is out of the proof system's reach and stays with TLC:
`EverythingArchived`, `SpaceReclaimable`, `SnapshotsConverge`, `KeptIsArchived`,
`PollEnds`, `Converges`, `AlertsSettle`. So do the three statements that fail
(`ArchiveSound`, `HolesFlagged`, `JsonTimesActive`), which nothing could prove.

## Bounds

`MaxIndex`, `MaxStart`, `MaxBoots`, `MaxInflight`, `MaxFaults` (archiver),
`MaxBlock`, `MaxFails`, `MaxLosses` (search), `MaxTicks` (alert log), `MaxVersion`,
`MaxFormats` (identity), `MaxChanges` (monitor). The bounds on boots, faults,
reports under way, blocks, lost chains, ticks, versions, stores set up anew and changes
stand for no limit of the code; `KeyLimit`, `Half`, `Batch`, `StepCap`,
`HardEvery` and `Cap` are the code's own limits, scaled down. When `inflight`
is full a further report counts as lost.

## Not modelled

- The histories drawn as sparklines.
- Thresholds as numbers: an alert is on or off, and headroom none or all.
- A store replaced, or its `Meta` rewritten, while an archiver has it open.
- Families that appear after the archiver has opened the store: the node takes
  them from its configuration at boot (cf.rs:3-5).
- Names on disk that are not canonical.
- The order of power loss and fsync inside the archive: what is committed is
  synced (archive.rs:153-157).
- A report posted to a node other than the one whose store is read: no code
  could notice.
- `--dry-run`, drawing, keys, configuration, packaging, `request_record.rs`:
  output, input and pure conversions without state of their own.

## Plan

1. Done: the models of every component that keeps state, and their runs.
2. Done: a theorem for every invariant and action property of a passing run, and
   the refinement of `Retention`.
3. To prove yet: that `Rogue`'s and `PowerLoss`'s archivers implement weaker
   abstract specifications (nothing saved is ever changed, whatever is
   discarded); what restores keep of `NoGaps`; the steps towards liveness that
   are safety (each full turn of the loop copies at least one batch more).
