# MikroTrack: a verification project

MikroTrack polls a MikroTik router, merges what it reports into snapshots of
the devices of a network, logs the differences between snapshots as events,
and serves both through an HTTP API and a web page. What makes it hard is not
any single poll but what survives from one poll to the next: presence sessions
(`online_since`, `idle_since`, `offline_since`, `state_changed_at`) that rules in
four places must keep coherent, files written one after the other and read at
any time, a loop that must outlive every failure, and a page whose requests
overtake each other.

This directory holds TLA+ modules translated from the source, TLC
configurations, and proofs for the TLA+ proof system. `PROJECT.json` is the
index: the lines each definition stands for, the runs, the hazards, the
mutants, the findings and the theorems.

## The system

| component | source | state | operations | hard because |
|---|---|---|---|---|
| configuration | `src/app/config.py`, start of `src/app/api/main.py` | the environment | load and refuse; read again at every request | two parsers of the same variables |
| scheduler | `src/app/main.py` | stop flag, place in the cycle | boot, cycle, pause, signal | signals at any step, backoff, errors of every kind |
| router client, collector | `src/app/mikrotik_client.py`, `src/app/collector.py` | an open connection | connect, four fetches, disconnect | partial failure |
| device builder | `src/app/device_builder.py` | none | tables to devices | several records of one device in any order |
| presence rules | `src/app/arp_logic.py`, helpers of `src/app/persistence.py` | none | state of a device, effective previous state, evidence | the same question answered in four places |
| session merge | `_apply_stable_timestamps` | the latest snapshot | merge of a report | long histories, timeouts, unreadable files |
| snapshot diff and event log | `_generate_diff_events`, `_append_events` | `events.jsonl` | diff, append, read as lines | a second clock reading, swallowed errors, torn lines |
| snapshot store | `save_snapshot`, `_latest_snapshot_path`, `_cleanup_old_snapshots` | `*.json` | write, find the latest, clean up | in-place writes, names in local time |
| device API | `src/app/api/main.py` | none of its own | `GET /api/devices` and lists | two files read while a poll writes them |
| web timeline and proxy | `src/web/main.py`, `src/web/timeline_utils.py` | none | group events, pass devices on | events a second apart, errors of the API |
| device table of the UI | `src/web/templates/timeline.html` | items, rows, table, filters, timer | load, draw, filter, switch | overlapping requests |
| errors, logging, sanitising; UI regression checks | `src/app/errors.py`, `src/web/ui_regression.py`, ... | none | wording | - |

A cycle of the scheduler opens a connection, fetches four resources, builds
devices, and calls `save_snapshot`: merge with the latest snapshot, diff with
the same snapshot (read again), append to `events.jsonl`, write a new snapshot
file, delete old ones. The API is a daemon thread of the same process and
shares nothing with the loop but the files and the environment. The web
container talks to the API only, and the page to the web container.

What should hold of each:

- configuration: the loop and the API look at the same directory with the same timeout;
- scheduler: connections never leak, every pause has the right length, a signal stops the loop soon and failures never do, the exit status is true;
- device builder: evidence of presence is never hidden by an older record, address and status belong together, the order of a table means nothing;
- session merge: state and timestamps tell one story, sessions start and end when the rules say and never move, the timeout is kept;
- diff and log: the logged sessions are those of the snapshots, whoever follows the log knows the snapshot, a torn line costs no more than its neighbour;
- store: a poll takes effect at once or not at all, the latest file is the last save, cleanup takes nothing that is still wanted;
- API: an answer is true of some moment of the poll it met;
- timeline: the events of one poll are one group, those of two polls are two;
- device table: what is shown is what was answered, and in the end what is so.

## Modules

| module | models | builds on |
|---|---|---|
| `Configuration` | `load_config`, and what the API reads of the same variables | |
| `Scheduler` | `main`, `_run_once`, client and collector, from the environment on | `Configuration` |
| `DeviceBuilder` | `build_devices` for one MAC address | `SessionMerge` |
| `Presence` | presence rules, as operators on one device | |
| `SessionMerge` | `_apply_stable_timestamps` for one device: `MergeDevice` | `Presence` |
| `SessionHistory` | the poll loop seen from the latest snapshot: `Tick`, `SaveSnapshot`, `CrashWhileSaving` | `SessionMerge` |
| `PresenceSession` | abstract: what snapshots promise about the session of a device | |
| `SnapshotDiff` | the state and session events of one device: `DiffEvents` | `Presence` |
| `DeviceApi` | `list_devices` for one device: `ApiItem` | `Presence` |
| `SnapshotFeed` | `save_snapshot` step by step with faults and a reader | `SessionMerge`, `SnapshotDiff`, `DeviceApi` |
| `FieldLog` | all other events, topic by topic, with appends and saves that fail | `SessionMerge` |
| `SnapshotStore` | the directory of snapshots: names, retention, cleanup, readers | |
| `LatestFile` | abstract: the directory as one register | |
| `EventLog` | the text of `events.jsonl` from the diff to the readers of its lines | `Timeline` |
| `Timeline` | `group_events`, and the groups that gaps define | |
| `DeviceRefresh` | the device table of the page and the requests under way | |
| `*Proofs` | theorems about the module they are named after | that module |
| `MC*` | values of the constants for TLC | that module |

They meet as the code does. `Scheduler` says when a poll runs at all; that it
runs them one at a time is why the other modules have one writer.
What `SessionHistory`, `SnapshotFeed` and `FieldLog` take as input, `Observations` and `Reports`,
is every combination of the fields `DeviceBuilder` reports: with and without an
address, whatever the status.
`SnapshotFeed` is shown, and proved, to implement `SessionHistory`, which is
shown, and proved, to implement `PresenceSession`. `SnapshotFeed` takes it that
there is one latest file; `SnapshotStore` is shown, and proved, to be that
register (`LatestFile`) as long as local time does not go back. `EventLog` reads
its file through `Timeline`.

### State and actions

**Sessions.** A *device* is a record with the fields the session logic reads:
`arp`, `bridge`, `fused` (the stored state), `ip`, `last_known_ip`, `ip_is_stale`,
`attrs` (one value for all other tracked fields: only whether they change
matters) and the timestamps. `evidence` in the code is a copy of `arp` and
`bridge` and has no field of its own. `NULL` stands for an absent value and, in a
snapshot, for an absent device. Time is in seconds and the *idle timeout* in the
same unit. `SessionHistory.Tick` may advance by any amount; `SnapshotFeed.Tick`
ticks between any two steps of a poll.

**`SnapshotFeed`.** `step` is how far `save_snapshot` has come: `Merge` (line 1568),
`AppendEvents` or `AppendFails` (1569, whose error is swallowed), `OpenSnapshot`
(1574, the latest file is now empty), `WriteSnapshot` (1575). `SaveFails` is an
exception that reaches the loop, `Crash` the end of the process. `LoadSnapshot` and
`Respond` are the two reads of `list_devices`. The event log is one sequence per
device, because its only reader that decides anything looks at one device at a time.

**`FieldLog`.** A *topic* is something an event gives the value of, and `told` is what a
reader who hears only events was told last. A poll is one action here, in four
kinds: `Poll`, `AppendFails` (any of its events are lost, of any devices, and nobody
hears of it), `SaveFails` (events without a snapshot), `SaveTears` (the snapshot is
begun and cannot be read). Addresses and sources have one value for both of the
comparisons the code makes: one strips blanks and the other does not
(`src/app/persistence.py:575` and `1164`), and the router gives none. `doubt` is the set of topics a fault touched and no later
event has cleared up.

**`SnapshotStore`.** A file's name is the local time of its save, `now` plus `Shift` in
summer, and the latest file the one of the greatest name. `OpenSnapshot`, `WriteSnapshot`,
`StartCleanup` (which takes the cutoff and looks at all files, in one step, as no one
else writes them meanwhile), `RemoveExpired` file by file and `EndCleanup` are one save; `SaveFails` ends it at any point and the loop
goes on, `Crash` ends the process. A second save in the same second opens the same
file. `ListFiles`, then `LookAtFile` or `MissFile`, are a reader that lists first and
opens later. `Boot` and `BootFails` are `validate_persistence`. What is in a file is the
number of its save.

**`EventLog`.** The text of an event is cut where a cut matters: *begin*, the two bytes
*lead* and *trail* of a wide character, a *separator* that `str.splitlines` takes for a
line end, *end* and *newline*. `Flush` moves any beginning of the buffer to the file,
so that a reader, a failure or a crash may come after any part. `SkipEvent` is the
handler inside the loop of `_append_events`: the write that failed takes the line of
one event with it, or whatever the buffer had collected up to some line end, of
earlier events too, and the loop goes on; `lost` are the events it lost something
of. `CloseFails` is the write at close that fails. That the clock ticks at most once
while a diff runs is an assumption (`Tick`), which nothing in the code guarantees.
`SnapshotFeed` has the clock reading, the diff and the append in one step. Readers (`ReadEvents`, `Groups`) are state functions, evaluated in every state.

**`DeviceBuilder`** picks tables in `Init`, builds, and may build again from the same
records after two of them changed places (`Relist`).

**`Scheduler`.** It starts in any of the `Environments`; `Boot` and `BootFails` are `load_config`
and `validate_persistence`; `FetchFails` is a failure of any fetch, or of `build_devices`, which
runs before the connection is closed. `pc` is the place in `main`; a second of the pause is two
steps, looking at the flag (`Pause`) and sleeping (`Sleep`), and `Signal` fits between
any two.

**`DeviceRefresh`.** `Load` is `loadDevices` up to its first `await`, `Receive` and
`ReceiveFailure` what is after the last one; `Answer` and `Fail` are the proxy, which
answers with what the API says at that moment, or with an error after five
seconds at most. Loads come from the timer, from clicks and from coming back to
the panel, and each takes a free slot: two requests can be under way, and their
answers come in any order. The table holds rows or one of three messages.

Definitions commented *Mutant* are plausible bugs of the definition they precede.
They are in no specification; they are there to show that each property can fail.

## Runs

| run | question | bounds |
|---|---|---|
| `session_history` | are sessions coherent, ordered, in time; is the address reported last kept, and marked when it is old; does a reconnect start a session; is `PresenceSession` implemented | 1 device, 2 addresses, 2 attribute values, 6 ARP statuses, timeout 2, clock to 5 |
| `feed_reader` | does a GET that meets any part of a poll serve an online or idle device as such | 1 device, no addresses, 2 attribute values, 4 ARP statuses, timeout 2, clock to 3, 4 polls, no faults |
| `feed_faults` | with faults and clock ticks between steps, is `SessionHistory` implemented, do logged sessions agree with merged ones, and does an idle item have its session | 1 device, no addresses, 2 attribute values, one ARP status for each state, timeout 1, clock to 2, 3 polls, 1 fault in any step |
| `field_log` | does whoever follows the log know the snapshot, and does a quiet device keep its address there | 1 MAC, 1 address, statuses reachable and failed, 5 attribute records, 6 topics, 1 fault, timeout 2 |
| `snapshot_store` | is the last save kept, is it the latest file, do readers lose only what is expired, is the directory a register | retention 0 or 4, clock change of 2, saves of at most 1, clock to 6, 3 saves, 1 fault, 1 clock change, readers of 1 and 2 files |
| `event_log` | what does a lost or torn piece cost, and are the groups of the page polls | 2 MACs, wide and split texts, interval 2, clock to 3, 2 polls, 3 events, 1 fault, a page of 3 lines |
| `device_builder` | what `build_devices` promises | up to 2 leases and 3 ARP records, 2 addresses of which one link-local, or none, 4 statuses |
| `scheduler` | connections, exit status, pauses, signals, agreement of the parsers | 93 environments, backoff 10 |
| `device_refresh` | does the table show what was answered, are its messages true, does it become current | 2 devices, 2 items, 2 requests under way, 1 change, 1 failure |

Why these are enough.

- The merge, the API and the builder treat every device on its own (there is no
  expression that reads two), so one device shows all behaviours of a device; the
  proofs cover any number.
- A timeout of 2 has a tick before, at and after its boundary, and a clock to 5 lets a
  session go idle, time out, come back and go idle again. The ARP statuses are one of
  every class some rule tells apart: `delay` is separate from `reachable` because two
  rules differ on it.
- In the two feed runs an address would act on sessions only as a tracked field that
  changes, and the attributes do that already; what becomes of addresses themselves is
  the question of `session_history` and `field_log`. The two attribute values are
  interchangeable, and TLC takes them as symmetric.
- The four statuses of `device_builder` are one of every priority and every state: the
  builder treats statuses of the same priority alike, but for the state and the badge
  `STATIC` they give.
- Three ARP records are a pair that is compared and one more that a sort may move
  between them; of leases only the last counts, so two are enough.
- In the store, three saves are one that expires, one that is hidden or kept, and one
  that cleans up; the clock reaches beyond the retention, which is longer than a
  clock change and a save together, as a day is.
- In the log, two polls of three events have a torn line, the line it takes with it and
  one more; two MACs interleave in the sort. A topic has no influence on another
  but `presence` on all, so the six topics followed are one of each kind of
  comparison the code has: by value, by flag, by membership, by transition.
- The environments are the shortest and the longest one `main` accepts, and each of
  these with any one variable set to every kind of text its parser tells apart:
  parsers read one variable each. Interval (5, or the default of 60) and backoff
  are unequal, and neither so small that a signal in the middle has no room.
- Two requests under way are an older and a newer one, which can overtake it. A third
  would be older or newer than each of these.

The bounds are named: `MaxTime`, `MaxPolls`, `MaxSaves`, `MaxEvents`, `MaxFaults`, `MaxFailures`,
`MaxChanges`, `MaxRecords`, `MaxLeases` and `Slots`. A model whose clock, polls or faults are bounded
stops there, and so does a process that exits: these configurations switch the
deadlock check off. `session_history`, `field_log` and `device_refresh` have no such end
and check for deadlock.

`feed_reader` has no faults: with them a reachable device can be served as offline
(`doc_reachable_crash`). `feed_faults` asks the questions that survive them. In both,
the answer is a state function (`Item`) evaluated in every state in which a snapshot
is loaded: reading the events *now* is allowed there, and `Respond` itself only
ends the request.

Properties say what they excuse, and why:

- `KeepsLast` and the others of the store excuse a retention of 0 days, which
  deletes whatever is a moment old, the last save included if its writing and the
  cleanup are a clock tick apart.
- `StaleOnlyInRepeatedHour` allows an older file to be the latest in the hour that
  local time repeats: a poll then merges with a snapshot that is up to an hour old.
- `DamageIsBounded` does not count events with a line separator in their text, which
  no reader gets, nor a write cut inside a character, after which every read of
  the file raises and nothing in the code mends it.
- `AddressIsFound` and `LinkLocalIsLast` excuse what a record without an address hides
  (`Hidden`): the code takes an empty address for one that is not link-local, so such a
  record may be selected before one with an address.
- `PollsAreApart` excuses `COLLECTION_INTERVAL=1`: a second apart is what joins events.
- `OrderMeansNothing` excuses ties: two records of equal priority, or two different leases
  of one MAC address, of which the last one listed wins, bound or not.
- `ReadersAgree` excuses a path with blanks around it: `src/app/config.py:91` strips it,
  `src/app/api/main.py:20` does not, and the API then serves another directory.
- `SessionEventsTrue` and `SessionEventsComplete` excuse an idle timeout that falls between the
  clock readings of merge and diff.
- `OnlineIsServed` and `IdleIsServed` excuse a failure or crash so far (`faults = 0`), and a log whose
  last transition is outdated: the device was removed, re-added, or `unknown` in
  between, and no event since then says what it came back as. The findings show what
  is served then.

### Fairness

Two modules have any.

- `Scheduler`: `WF_vars(MainThread)`. Every call the main thread makes returns: sleeps last
  one second, file operations end, and the RouterOS client (external) works on
  sockets with a timeout. `Signal` is not fair, since no signal need ever come.
  `SignalStops` and `KeepsCollecting` depend on it.
- `DeviceRefresh`: `WF_vars(TimerFires)`, since `setInterval` fires again and again while it is
  set, and `WF_vars(Finish(slot))`, since the proxy gives up on the API after five
  seconds and then answers itself. `BecomesCurrent` depends on both. Clicks are not fair.

The other modules state safety only: whether a poll is made is the question of
`Scheduler`.

### Findings

Each is a run that violates one property, which quotes a document.

| run | what the code does | what the documents say |
|---|---|---|
| `doc_reachable_crash` | events are appended before the snapshot is written; if the write fails, the orphaned event is newer than every state the next polls confirm, and the API serves a reachable device as offline until its state changes | `reachable` means online |
| `doc_reachable_readd` | a device removed while offline and re-added reachable gets its empty `offline_since` filled from an old event, and is served as offline | `reachable` means online; events win only if newer |
| `doc_timeout_logged` | a timeout is applied before the states are compared, so it makes no event | `idle_timeout` is a reason of `device_offline` |

The first two are defects: the answer is wrong, and stays wrong, for a device
whose polls are all right. The third is a disagreement between text and code.

More disagreements were met. They have no run, since the code is plain about them.

- A GET between append and write mixes old evidence with new events, so that an online
  item may lack `online_since` or have `offline_since` (`src/app/api/main.py:318`;
  `docs/api-contract.md:279`).
- A timeout found by the API changes the status of an item and not its timestamps
  (`src/app/api/main.py:239`; `docs/api-contract.md:281`).
- `delay` and `probe` count as online evidence and bring a device back from offline
  (`src/app/arp_logic.py:7`; `docs/device-model.md:262`), and are `idle` in `docs/device-model.md:240`.
- A device that went from offline to unknown gets a new `state_changed_at` at every poll
  (`src/app/persistence.py:861`; `docs/device-model.md:266`).
- A failed cycle is followed by the backoff, not by `COLLECTION_INTERVAL`
  (`src/app/main.py:207`, `docs/scheduler.md:75`).
- A device online by the bridge table alone is stored with an empty address, not with
  its last known one (`src/app/persistence.py:700`, `docs/api-contract.md:285`).
- A permanent device with a locally administered MAC has the badge `RANDOM`
  (`src/app/device_builder.py:325`), and others have `STATIC` where the documents say `PERM`
  (`docs/device-model.md:288`).
- "After writing, diff runs against the previous snapshot." (`docs/storage.md:123`): the
  diff and the append come first (`src/app/persistence.py:1569`).
- "Each `events.jsonl` line is one JSON object" (`docs/storage.md:148`): not after a
  write that was cut (`event_log`).

- A device that was logged as idle, became `unknown` and comes back reachable: the API skips
  transitions from and to `unknown` (`src/app/api/main.py:91`), fills the empty `idle_since` of the
  snapshot from the old event (`src/app/api/main.py:434`) and serves the device as idle, later as
  offline, although it was never removed; `doc_reachable_readd` shows the same after a
  removal.

And what no document speaks of, but a reader of the models will meet: a failing
print of the result makes a cycle count as failed that was saved; `str_to_bool` takes
any word it does not know as false; a dynamic lease that disappears is logged as
`DEVICE_IP_ASSIGNMENT_CHANGED` from dynamic to static; after a failed save the log is ahead of
the snapshot in the topics it touched until each changes again; in the device table a
click on the display mode, while the first request is under way or after it failed,
says "No devices found"; and an older answer that comes last is shown until the
next refresh. With `COLLECTION_INTERVAL=1`, the least `src/app/config.py:46` accepts, the page
shows the changes of consecutive polls as one group (`src/web/timeline_utils.py:69`). A
working ARP record without an address, which `src/app/collector.py:104` lets through, may
be the primary record of a device and hide the address another record has
(`src/app/device_builder.py:69`).

## Proofs

TLAPS proves the following for every value of the constants. The assumptions are
the named `ASSUME`s: numbers the configuration gives are those `load_config` accepts
(which `Scheduler` itself derives from the environment; the interval of `EventLog` is any
from one second on), `NULL` is neither a number
nor an address nor `Unheard`, the ARP statuses are among those the code can meet, bounds are
natural numbers, a retention other than 0 is longer than a clock change and a
save together, MAC addresses in `EventLog` are numbers, of which only the order matters.

**`SessionHistoryProofs`**, about any set of devices.

- `Invariance`: `Inv` is inductive. It strengthens the properties by what a merge needs
  to know of the device it reads: types, `Coherent`, `Ordered` with respect to the
  time of the snapshot (not of the clock), and that an idle device had not expired
  when it was stored. None of them is inductive alone: whether timestamps stay
  ordered depends on which branch the state selects, which is sound only for
  coherent devices. `MergeDeviceInv` shows it for one device, by the branches of
  `MergedStamps`; `SaveInv` lifts it to the snapshot.
- `TypeCorrectness`, `Coherence`, `Order`, `Timeout`: the invariants the run checks.
- `Refinement`: every poll is a step of `PresenceSession`, case by case over the pairs
  of previous and current state.
- `Reconnect`: an offline device comes back only online, in a new session, on evidence.
- `AddressKept`: after any poll, whatever address it reports of a device or none, the last
  known address is the one reported last, the address shown is that one, and the
  mark of a stale address is there exactly if this report does not have it. The
  invariant `ShowsLastKnown` says of every stored device that an address it shows is its
  last known one; without it a merge could restore the wrong one.

**`SnapshotFeedProofs`**, about a poll in steps, with faults.

- `Invariance`: `FeedInv` says that the clock does not go back (`ClockInv`), that an
  unreadable file is not remembered (`FileInv`), and that what is on its way to the
  file is still the merge of a report with what is stored (`PendingInv`) - the reason
  why a save that ends later is the atomic save of `SessionHistory`.
- `Refinement`: each step is a step or a stutter of `SessionHistory`, under the mapping that
  takes the time of the merge for the clock. With it the invariant of
  `SessionHistoryProofs` holds of the stored snapshot (`StoredInv`, by instancing that
  module), which the next two need.
- `EventsAreTrue`, `EventsAreComplete`: merge and diff answer the same question in two
  places, from two clock readings. `SameReading` shows that the readings give one
  effective previous state unless the timeout falls between them, `DiffFacts` that the
  events then open and close the sessions the merge does, and `Appended` what of them
  a whole or a failed append leaves behind the end of a log.
- `IdleItemsHaveSessions`, with faults: no event of a log is from the future (`LogInv`), a loaded
  snapshot keeps the invariant of the stored one (`LoadedInv`), and a replay, wherever in a
  session the log begins, never leaves a start of idling without a start of the
  session.
- `OnlineDevicesAreServed`, `IdleDevicesAreServed`: `ServedInv` says what holds while nothing has
  failed. The file cannot be read only in the middle of a write (`FilesInv`); what the
  API replays from a log that is not outdated is either no session or one that fits
  the device the log was last appended for (`AgreesInv`); and an idle device that a GET has
  loaded was idle no later than that one (`LoadedIdleInv`). A GET may load before a poll
  and read the events after its append, so both are about the device before and after
  the snapshot is written (`Last`).

**`SnapshotStoreProofs`**, for any retention, number of saves, faults, clock changes and
readers. `IInv` consists of what is known of every file's times (`FileInv`), that what a
cleanup has chosen was and is past the retention (`DoomedInv`), that the last save's
file exists under its name and is in no cleanup's list (`TargetInv`), that the last
name is the greatest unless local time went back (`NameInv`), and of what a reader
has listed (`ReadingInv`). `LastIsKept`, `LatestIsLast`, `ReadersKeepFresh` and `TypeCorrect` follow;
`Refinement` shows that the directory is a `LatestFile` while local time does not go back.

**`FieldLogProofs`**: `LogIsFollowed`, for any devices, addresses, attributes, topics and
faults. The invariant adds the time without a readable snapshot: before the first
one nothing was heard, and after a torn one everything is in doubt. `QuietIsKept` needs
no such invariant: what the merge restores is what the diff compares with.

**`DeviceBuilderProofs`**, for tables of any length. Lemmas say what `Front`, `Primary` and
`Displayed` select (a least priority exists in any finite table; what is selected
has it); the invariant is that a device in hand is what the tables in hand make of
it; `AddressFound`, `Evidence`, `OneRecord`, `LinkLocal` and `Order` are the five properties of the run.

**`SchedulerProofs`**, for any environments and backoff. The inductive invariant says,
place by place, that the configuration was accepted (`BootInv`), what has been slept
and what is left of the pause (`PauseInv`), and that the second under way when the
signal comes is the last (`StopInv`). `TypeCorrect`, `Readers`, `Connections`, `Verdicts`, `Promptness` and
`Pacing` follow.

**`DeviceRefreshProofs`**, for any devices, items, number of requests and order of
answers: `TypeCorrect`, `TableIsRight` and `MessagesAreRight`. That the rows hold the items is what makes
a drawing show the items, so the two are proved together.

**`EventLogProofs`**, for any number of devices, polls, events and faults, any interval and any
page limit.

- `GroupingIsByGaps` is about `Timeline` alone. A finite set of events can be sorted (`CanBeSorted`),
  and the loop keeps `GroupsOf`: no event is left out, every group holds an event in
  each second up to its latest (`Closed`), and a later group is of a later device or
  begins after a gap (`Apart`). `LoopBody` shows it for one event that comes before none of
  those seen, `GroupsAreGaps` that two events are then in one group exactly if they are
  connected.
- `PollsAreKeptTogether` and `PollsAreToldApart` need to know what can be in the log at all. `EventInv`
  speaks of `Known`, the events in the file and on their way to it: the clock ticks once
  at most while a diff runs (`PollInv`), and between two polls of one process a second
  remains in which nothing happened, if the interval is of two seconds or more (`Silent`,
  `Gaps`, `GapInv`). No chain of events crosses it. For an interval of one second
  `PollsAreApart` says nothing, and the theorem neither.
- `DamageStaysBounded`: `TornInv` is a balance. Every line that begins on the remains of another,
  and the end of the text if it is cut, is owed to a fault of its own; whole lines cost
  nothing (`OwedLines`), a cut (`OwedCut`) or a piece taken out (`OwedWithout`) costs one. `LineInv` says
  that the line of what was logged stands whole in the file, and in the middle of an
  append that of every event but the `lost` ones in the file or the buffer. A line that stands whole and
  begins where one may begin is read (`LineIsRead`), so what is unreadable is torn.

Three answers above are recursive functions over data of any length: the replay
of a log, the loop of `group_events`, the text of a batch. No induction theorem is used
for them. Each proof supposes that the statement fails at some length, takes the least
one, and shows that one step of the recursion cannot break what held
before it.

Only model-checked are the liveness properties `SignalStops`, `KeepsCollecting` and
`BecomesCurrent`: fairness and ENABLED are out of the prover's reach. Every other property of a
passing run is stated by a theorem.

## Not modelled

- Data that is only copied or shown: comments, host names beyond "changed or not",
  flags other than those of the lease and the ARP entry, `arp_records`, `arp_secondary`,
  DHCP expiry.
- Display fields of the API (durations, labels, badges it adds) and the order of its
  answer. In the page: cells, statistics, sorting, the assignment filter (it works
  like the status filter), the filters of the timeline.
- The wording of changes in the timeline (`assignment`, `readable_description`).
- Credentials, ports and TLS flags beyond whether they are accepted; `WEB_HOST`, `WEB_PORT`
  and the backend URL of the configuration, which nothing but a log line uses (the
  web container reads its own, with another default).
- Log messages, sanitising, error texts and their codes: they change no state and
  no control beyond that an error is raised, which is modelled. The script
  that checks the page for strings is no part of the running system.
- That only the last 10000 events are replayed: logs that begin in the middle of a
  session are met through appends that fail in part.
- What the RouterOS client does with a connection (external).

## Plan

What is left, in this order:

1. `DeviceApi`: the fields `list_devices` derives from the resolved state (durations, badges,
   assignment) and the order of the answer; sorting in the page, which uses them.
2. A bound on how long the readers of `SnapshotFeed` may be wrong after a fault, in place of
   the runs without faults.
