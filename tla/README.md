# Verification of the flight data recorder

TLA+ modules, TLC configurations and TLAPS proofs about `nvidia-fdr`, the flight
data recorder that runs on the HMC: one process that samples sensors, keeps a
history of them on a small partition, notes errors, and fetches device dumps when
an error calls for one.

Contents: [the system](#the-system) · [plan](#plan) · [modules](#modules) ·
[runs](#runs) · [what was found](#differences-between-the-code-and-what-is-said-of-it) ·
[proofs](#proofs) · [limits](#limits-of-the-model)

## The system

`main.cpp:29-151` builds a `FlightDataRecorder_c`, lets it collect the birth
certificate, register signals and arm timers, and enters an sd-event loop
(`fdr_timers.cpp:391`). There is **one thread**: timer callbacks, D-Bus signal
callbacks and HTTP calls all run on the loop, one after the other. What makes the
program hard is therefore not data races but

* **crashes**: the HMC resets, or the process exits (an uncaught exception, too
  many exceptions) and systemd starts it again; every pair of file system writes
  has a state in between, and a record can be half written;
* **callbacks in an order nobody wrote down**: the compaction window, the sub
  window, poll timers, property changes, error events and one timer per running
  dump interleave freely;
* **exceptions**: `std::filesystem` calls throw; `Compactor`, the callbacks and
  `main` catch and carry on with whatever state is left;
* **time**: directories, boot events, errors and samples each take the clock by
  themselves, in seconds, and are compared with each other later.

### Components

| Component | Source | State | Operations |
|---|---|---|---|
| Start up | `fdr.cpp` 55-166, 211-487, 1449-1482 | profile, preconditions met, Redfish client | find the profile, check it, connect, run the preconditions, remove the profiles, check the disk |
| Boot counter | `tools/FdrBootCounter.sh`, `fdr.cpp` 963-1070 | `BootCount.txt`, `/tmp/.fdrHmcAlive`, `BootEvent.dat`, name of the current directory | count the boot, name the directory, append the boot event, set the mark |
| Compactor | `fdr_compact.cpp` | `Compactor.dat`, `newCompactor.dat`, sample directories | window expiry, start up cleaning, extraction of high fidelity samples, removal of raw samples, removal and append of an entry |
| Running statistics | `fdr_compact.cpp` 284-333, `fdr_record.cpp` 429-523 | min, max, average, counts per record | accumulate, write at sub window expiry, reset |
| Book of errors | `fdr_bookoferrors.cpp` | `BookOfErrors.dat` | append an error |
| Records | `fdr_record.cpp` | last value, last stored value, store pointer of each property | refresh from D-Bus or Redfish, store policy, store |
| Group updates | `fdr_grp_update.cpp` | properties fetched by one call | refresh all of a group, match them to records |
| Events | `fdr_events.cpp` | event file of the current directory | parse a D-Bus event, store it, forward it to the book of errors and the dump handler |
| Device dumps | `fdr_device_dump.cpp`, `fdr_device_dump_store.cpp` | running collections, debounce map, queue of dumps, dump files, `DeviceDumpRecords.dat` | event, GetDiagnostics with retries, polling, store, eviction, index rebuild |
| Store files | `fdr_store.cpp` | one file of length-delimited protobuf records | append, read next, recognise half a record |
| Exception limiter | `fdr_common.cpp` 207-277, `main.cpp` 72-90 | leaky bucket | count, drain, give up |
| Profile | `fdr_policy.cpp`, `ppf_sanity.cpp` | the decoded YAML | load, check uniqueness |
| Clients | `fdr_redfish.cpp`, `fdr_http.cpp`, `dbus_accessor.cpp` | session token | log in, get, subscribe |
| Logging | `fdr_log.cpp` | log level, throttling | log |
| Tools | `fdrtool/`, `automation/`, `tools/`, `benchmarkCode/` | none | off line decoding, generation, packing |

How they interact:

* the window timer runs `Compactor(true)`: it compacts the directory before the
  current one, then `CompactionWindowExpiryCleanUp` names a new directory, gives
  every record a new store pointer into it and appends its name to `Compactor.dat`;
* an error event goes first to the dump handler (`fdr_events.cpp:376-381`) and then
  to the book of errors (383-404). The compactor reads the book;
* the dump handler stores its files in the current sample directory, whose name
  the compactor changes, and keeps its queue across directories;
* the number of the boot counter is in the name of every directory, in the boot
  events and in the book of errors, and the compactor matches them by it;
* the profile, once read, is deleted from the partition, so that only a firmware
  update can bring another; every component takes its parameters from it;
* an exception in the refresh of a record goes to the limiter, which may end the
  process; systemd starts it again, in the same boot;
* at start up the compactor compacts everything `Compactor.dat` lists, by way of
  the boot events, before the new directory is appended and the timers are armed.

### What makes each part correct

* **Compactor**: no sample within `HiFiDataPreserveTimeSecs` of an error is thrown
  away; every directory with raw samples can still be found by a later compaction;
  the open directory is never compacted; an interrupted compaction can be
  repeated; it always goes on to open the next directory; no backlog builds up.
* **Start up**: it terminates, with nothing pending, whatever was left behind; old data
  formats are left alone; the profile is the right one; no required precondition is
  passed over.
* **Boot counter**: each boot has its own number, each restart the number of its boot.
* **Events**: a fault is in the book under the boot it happened in, an entry names
  details that are there, and a write that fails costs what was written and no more.
* **Clients**: no open session is given up.
* **Device dumps**: one attempt at a record per collection; no temporary file without a
  collection; the index lists every dump, the budget holds, the oldest dump of a
  device goes first; every collection ends, and in bounded time.
* **Running statistics**: each sample counted once whichever window expires first.
* **Records**: a changed value is stored, a failed refresh is not taken for one.
* **Exception limiter**: gives up above the rate and never below it.
* **Profile**: one that is accepted can be decoded and uses no id twice in a class, and
  none such is turned down.
* **Store files**: reading returns what was appended; half a record at the end is
  recognised, and never an intact record.

The hazards of the code, each at the line where it bites, are listed in
`PROJECT.json`.

## Plan

Done, in this order:

1. `SampleRetention`, `Compaction`: start up, compactor, book of errors and boot
   events together, because the compactor's promise depends on all of them.
2. `CompactionProofs`: types, the inductive invariant, the refinement.
3. `DumpLedger`, `DeviceDumpStore`, `DeviceDumpHandler`: the dump component.
4. `Records`: refresh, property changes, group updates, store policies, and the
   running statistics over both windows.
5. `BootCounter`, `LeakyBucket` with `RateBudget`, `EventHandler`, and `FdrService`,
   which composes the three: the recorder between its starts and ends.
6. `PlatformProfile`, `RedfishClient`, and `StartUp`, which composes them.
7. `BootCounterProofs`, `LeakyBucketProofs`, `FdrServiceProofs`, `StartUpProofs`.
8. `SumProofs` and `DeviceDumpProofs`: types, the refinement of `DumpLedger`, index, budget,
   temporary files, debouncing, times.
9. `RecordsProofs`: types, `NoTwoFetchesSkipped`, `FileHasLatest`, and both properties of
   the running statistics.
10. The other invariants of `Compaction`, among them `ErrorsKeepTheirSamples` and
    `RawIsTracked`, each under all the hazards it stands.
11. `ProfileIsRight`, with the sanity check shown to be exact for profiles of any size.

To do, most important first:

12. Theorems between components: that the numbers of `FdrService` are those `Compaction`
    takes `boot` from, so that what is proved of both holds of the recorder as a whole.
13. Dump profiles that share a prefix (`fdr_device_dump_store.cpp:160`).

## Modules

| Module | What it is |
|---|---|
| `SampleRetention` | abstract specification of the compactor: samples are added to the open directory only, and forgotten only when it is closed and no error so far is near |
| `Compaction` | start up, event loop and compactor, with crashes between any two writes |
| `CompactionProofs` | theorems about `Compaction` |
| `MCCompaction` | symmetry for its runs |
| `DumpLedger` | abstract specification of the dump records: each collection makes one attempt to leave a record |
| `DeviceDumpStore` | steps of `DeviceDumpStore::store`, index rebuild, eviction |
| `DeviceDumpHandler` | collections, timers, retries, failures, restarts; extends the store |
| `MCDeviceDump` | symmetry for its runs |
| `Records` | refresh, property changes and group updates of records, their store policies, the running statistics, and the timers that drive them |
| `MCRecords` | the profiles of its runs |
| `BootCounter` | the script, its file and mark, and the number the recorder works with |
| `RateBudget` | abstract specification of the limiter: which exceptions the capacity and the rate allow |
| `LeakyBucket` | the bucket that keeps one time stamp |
| `EventHandler` | signal, details file, entry of the Error record, book of errors |
| `FdrService` | `BootCounter`, `LeakyBucket` and `EventHandler` in one process, with its directories, deaths and resets |
| `MCFdrService` | the device names of its runs |
| `PlatformProfile` | search, sanity check, preconditions and removal of the profiles |
| `RedfishClient` | log in, query, sessions |
| `StartUp` | the constructor, which composes `PlatformProfile` and `RedfishClient`, with its exits and starts |
| `MCStartUp` | the profiles of its run |
| `SumProofs` | sums over finite sets, and induction over numbers with a set as its parameter |
| `BootCounterProofs`, `LeakyBucketProofs`, `FdrServiceProofs`, `StartUpProofs`, `RecordsProofs` | theorems about the modules they are named after |
| `DeviceDumpProofs` | theorems about `DeviceDumpHandler`, with its store |

Operators whose name has an underscore and a lower case ending
(`ExpiryCleanUp_noAppend`) are plausible mistakes in the operator they are named
after. Each property is violated when one of them is put in its place;
`PROJECT.json` lists the pairs. No specification uses them.

### `Compaction` and the code

`pc` is the place between two writes to the file system where the program stands:

```
down -StartUp-> bootEvent -RecordBootEvent-> clean --CleanEntriesDone--> append -> arm -> run
                                             | ^                           ^              |
                                  CleanEntry v |                           |              v
                              extract -> remove -> forget -> copy ------> rotate   CompactionWindowExpiry
```

The same engine (`extract` to `copy`) is entered from start up (`phase = "boot"`)
and from the window timer (`phase = "timer"`); `LeaveRemoveEntry` returns to
`clean` or to `rotate`. At `run` the process is in its event loop, where samples
are stored, errors reported and the window expires, in any order.

| Variable | Code |
|---|---|
| `boot`, `stamp` | `bootCounter`, `sensorDirTimestamp`; `current` is `GetDirectoryName()` |
| `due` | the next expiry of `CompactionWindowTimer` |
| `writers` | the records whose `store` pointer is not null |
| `victim`, `errorTimes`, `todo`, `draft` | `directoryTocompact`, `errorList`, what a directory iterator has yet to visit, `newCompactor.dat` |
| `compactor`, `book`, `events` | `Compactor.dat`, `BookOfErrors.dat`, `BootEvent.dat` |
| `torn`, `tornRaw` | which of the files end in half a record |
| `raw`, `hifi` | samples in `*.sensors.dat` and `*.sensors.hifi.dat` |
| `taken`, `reported` | history: all samples stored, all errors reported |

A sample is its directory, its component and its second; its value is left out,
since the compactor only looks at its time. `Hazards` says what the environment
may do; each run names its own set, and the comments in the module say what each
one is. `StartTime >= Preserve` is assumed because the code subtracts the one from
the other as `uint64_t`; a clock that starts before 00:05 on 1970-01-01 would wrap.
`sameSecond`, a restart within the second that named the last directory, is there
to say what is excluded; no run sets it, since a restart on the target takes longer.

### `DeviceDumpHandler` and the code

One profile. `contexts` is `inFlightContexts`, each with the state, attempt and
counters of `DumpContext` and the time its timer is due; `pc` is where the callback
that runs at the moment stands, `job` its device. `onEvent`, `tickContext` and
`onDumpComplete` are chains of actions that end at `idle`. Between them the other
devices' timers, new events, `Rollover` (the compactor opens a new directory) and
`Die` may come. `ledger` is `DeviceDumpRecords.dat` and `missed` (history) the number of
records that could not be written: `appendDumpRecord` logs a file it cannot open and does
not look at the stream after a write, and its callers go on in the same way, so that a
record is there, missing, or `HalfRecord`. The outcomes of the provider (accepted, unavailable, failed; done,
failed, in progress; a dump of some size or none) and of the file system (full,
unreadable, cannot be removed) are free choices, the latter only if the run's
`Hazards` allow them.

The store's free choices: `rebuildIndex` takes any order of dumps of one second,
since `std::sort` may; `WriteTemp` and `RenameTemp` are separate steps with a
possible crash in between; `enforceEviction` is one step per removed file.

### `Records` and the code

| Variable | Code |
|---|---|
| `pc`, `todo` | where `RefreshAndStore` stands, and the records of its `recordListToRefresh` still to refresh, of which `Current` is the first in the order of the profile; a poll blocks the loop, so nothing but the clock moves meanwhile |
| `due` | the timers of `InitTimerEvents`, one per kind and period as in `RecListPollMap`, `RecListGrpPollMap` and `RecListSubscribeStoreMap` |
| `rec` | the `Record` objects: `data`, `last_stored_data`, the two times and `runningStatus` (whose `avg` holds the sum until it is written, as in the code) |
| `stat` | of each record, the last record its statistics file got (`record`) and the directory of that file (`dir`) |
| `told`, `readings` | history: what the platform said last, and what was averaged since the last statistics record |

A group is read by one call, so `GroupPollRecordTimer` is one step; `Refresh` of a
single record is two, the times before the read and the value after it, and the
clock may move in between (`slowRead`). `RefreshSucceeds`, `RefreshFails`,
`RefreshKeepsString` and `RefreshThrows` are the ways out of `Record::Refresh`:
with a value, by an early `return` (after which `Store` is called all the same),
with a string record that read something else (no `return` there, so the old string
is averaged), and by an exception that skips `Store`. `CompactionWindowTimer` is
`Compactor(true)` as far as the records see it; the compaction itself is in `Compaction`,
where conversely `Store` stands for all the callbacks of this module.

### `FdrService` and the code

`step` is where the start of the recorder stands, `handling` where `eventParser` does:

```
idle -Start-> script -update_data_file-> write -WriteCount-> read -UpdateGlobVariables-> event
                  \_____________KeepCount___________________/       event -UpdateBootEventLog-> mark
                                                                    mark -CreateFdrHmcAlive-> up
no -Receive-> details -WriteDetails-> entry -WriteEntry-> book -BookEvent-> no
```

| Variable | Code |
|---|---|
| `lines`, `exists`, `alive` | the number in `BootCount.txt`, whether there is such a file, `/tmp/.fdrHmcAlive` |
| `count`, `bootCounter` | the variable of the script, the variable of the recorder; a set of at most one number, so that "nothing" needs no number of its own |
| `bootEvents` | `BootEvent.dat` |
| `clock`, `e` | the steady clock and the member of `LeakyBucket`, counted in the unit of `Drip` |
| `event`, `details`, `entries`, `book` | the event that is handled, `Event_<timestamp>.dat`, the Error records, `BookOfErrors.dat` |
| `bookTorn` | `BookOfErrors.dat` ends in half an entry |
| `stamp`, `store` | `sensorDirTimestamp`, the directory in which `CreateRecords` opened the Error records |
| `hmcBoot`, `survived`, `received`, `faults` | history |
| `unwritten`, `lost` | history: the details that could not be written, the faults whose entry was not written or was deleted with a torn book and that have not come again since |

`Die` and `HmcReset` may come at every step; between `update_data_file`, whose redirection
empties the file, and `WriteCount` only if the run allows `tornCount`. Each of the three writes
of `eventParser` is `FDRStore::append` (`fdr_store.cpp:98-103`), which returns in the same
way whatever became of the record: with `writeFails` the details, the entry or the book may be
left without it, the book also with half of it, and the handler goes on. `tornKeeper` is the
reset that leaves half an entry in the book. Whoever reads the book to its end then,
`CompareMessageWithLog` or the compactor (`CompactorReadsBook`), deletes the whole of it
(`fdr_common.cpp:78-105`). Each component
has its own specification; `FdrService` says which of its actions go together and
which variables the others leave alone, and the proofs use that its steps are steps
or stutters of each part.

### `StartUp` and the code

`pc` follows the constructor: `search`, `sanity`, `client`, `precheck`, `cleanup`,
`disk`, `dumps`, `run`, or `exit`, with the `reason`. `files` is the platforms directory in
the order of the names, each file a record of what the code asks of it; `cursor` the file
that is tried, `profile` the member variable; `check`, `left` and `passed` the precondition
that is tested, the attempts left and (history) those found to hold. `rfc`, `token` and
`request` are the client, `sessions` what the server has open; `opened`, `unanswered` and
`inherited` are history. `FirmwareUpdate` may put other profiles in place while the
process is down. The boot counter and what follows come after `dumps` in the constructor
or just before it; they are in `FdrService` and `Compaction`.

## Runs

All passing runs together take every action. Deadlock is not checked: every run
has a state in which the clock and the counters have reached their bounds and
nothing is left to do, and `down` with no restart left.

| Run | Question | Bounds |
|---|---|---|
| `power` | Does every error keep its samples when the HMC may reset between any two writes? | two components (symmetric), three boots, six seconds with a window of two: two run time compactions in one boot, or two boots left with a directory each; a directory of the old format in half the initial states |
| `restart` | Is `RetentionInv` invariant, and is `SampleRetention` implemented, under every hazard the theorems allow? | one component, two boots, five seconds |
| `faults` | With half written records, failing copies, exceptions and slow starts, does start up end with an empty list and every window turn over? | window of one second so that the second expiry, which compacts, comes within four seconds; fairness |
| `dump_rollover` | Two collections, with retries, time outs, stores that fail and records that cannot be written, while the directory changes: one attempt at a record each, no dump without a record, nothing left over, bounded time? | two devices (symmetric), up to two retries, seven seconds, three records; one roll over |
| `dump_restart` | Is the index complete, the budget met and the ledger kept when the process dies at any step, with records lost or cut off? | two devices, sizes one and two of a budget of two, two restarts, four seconds, three records |
| `dump_faults` | Do SUCCESS records name files, does debouncing work, does every collection end, when reading, writing and removing fail? | two devices, one retry, six seconds; no event after four, so that the end of the clock cannot cut a collection short; fairness |
| `records` | Do the statistics sum up what was read, and does the sample file end in the latest value, whatever the order of polls, signals and windows and however reads fail? | a polled `Double` that stores every fetch, a grouped `Uint64` and a subscribed string that store changes; two values; four seconds, in which the window ends in the same second as the second sub window and a poll |
| `service` | With a death or a reset at any step, appends that fail unnoticed and a torn book of errors: is a boot number used for one boot only, is a fault in the book under its boot, or its entry lost, do entries name their details, or those whose write failed, and does the limiter give up exactly when it should? | two boots, numbers up to two, two events of one component (under its name, under the name of its kind, or none), capacity one, a drip of two, a clock of two; the mark may not be created |
| `startup` | Right profile, required preconditions, sessions, and does every start end? | nine directories (one file or several; not a profile, broken, foreign, with components that cannot be decoded, with a double id, with a class in two parts, with a dump configuration that is refused), a threshold of two, three sessions, two starts; fairness |
| `torn_copy`, `repeated_error`, `records_double` | violations, see below | the smallest that show them |

Why the bounds are enough: compaction looks at one directory, the next one and the
errors of one boot; all comparisons are between stamps at most one window and two
preserve times apart, and the clock covers two windows after the first. Errors are
capped at one, since an error only adds to what is kept; the proofs, where they
apply, have no bound. In the dump runs two devices are enough for collections that
overtake one another, and two records of one device for eviction and debounce.
Records share nothing but the loop and the clock, so one of each kind is enough; each
poll comes at least once before and once after the first end of a sub window. In `service`
two boots are enough to confuse a boot with another, two numbers for a boot to be
counted twice, two events for one fault to be lost and the other to find half its entry, or for
one to come again; a capacity of one makes every exception decide, and
the theorems hold for all capacities. In `startup` every reason to exit occurs, and a
second start shows what a first one left behind.

**Fairness.** `Compaction`: weak fairness of the program's own steps (it is one
thread that does not stop between two statements, and the timer, once due, fires),
and strong fairness of `StartCopy` and `FinishCopy`, i.e. a copy that is tried again and
again works in the end. Without the latter start up may loop for ever, since
`CompactorBookKeeperCleanEntries` starts over with the same entry when the copy
fails. No fairness of crashes, errors, samples or of starting the process.
`DeviceDumpHandler`: weak fairness of the callback, of time and of the timers,
each of which is re-armed every second.
`StartUp`: weak fairness of the constructor's steps and of `exit`, again because it is one
thread; no command, check or log in is assumed to succeed, and once the loop runs
nothing is fair. `FdrService` states no liveness.

### What the properties say

Compactor: `ErrorsKeepTheirSamples` (nothing within the preserve time of an error
is lost, errors after the compaction included), `RawIsTracked` (whatever has raw
samples is still listed somewhere), `NoBacklog`, `LegacyIsLeftAlone`, `HiFiIsFinal`
(a repeated compaction does not overwrite a finished file by an empty one),
`RetentionSpec` (refinement), `NothingPendingAfterClean`, `CurrentIsNotCompacted`,
`ReturnsToLoop`, `WindowTurnsOver`.

Dumps: `LedgerSpec` (refinement: a collection ends with exactly one attempt at a record, which
is a record of its device and outcome unless the write fails), `DumpsAreIndexed` (until a
record is lost, each dump on the disk is named by a record), `TempsBelongToCollections`,
`CollectionTimeIsBounded`, `IndexMatchesFiles`, `WithinBudgetAfterStore`,
`OldestOfDeviceFirst`, `SuccessNamesAFile`, `StoredDumpsAreApart`, `CollectionsEnd`.

Records: `RunningIsSummary` (the statistics kept field by field equal those of the
list of samples since the last statistics record), `StatsStayInTheirDirectory`,
`FileHasLatest` (once `Store` was called, no reported change is outstanding),
`NoTwoFetchesSkipped` (of a polled record that stores every fetch).

Service: `FreshnessInv` (the number in the file is at least every number used, and above
those of earlier boots once this boot is counted, so that no number stands for two
boots), `ErrorIsBooked` (the
comparison that leaves repeated errors out never takes a fault for one of another boot; a
fault is missing only while its entry was not written or went with a torn book, and is booked
when it comes again), `EntryHasDetails` (although details and entry go to different
directories; a file is missing only if its own write failed),
`BudgetSpec` (refinement: one time stamp gives up exactly when the list of all
exceptions does).

Start up: `ProfileIsRight` (the first that suits; past the sanity check only when its
components can be decoded and no class uses an id twice in a row of its own, and turned down
by it for nothing else), `RequiredChecksHeld`, `SessionsAreHeld` (no
log in while the session is open, but for answers that were lost), `StartUpEnds`.

## Differences between the code and what is said of it

Checked by a run that ends in a violation:

* `torn_copy` – `newCompactor.dat` is written "to avoid the possible HMC reset while
  directly modifying Compactor.dat" (`fdr_compact.cpp:618-621`), but `copyFile` truncates
  `Compactor.dat` before it writes it. A reset there leaves it empty, and the listed
  directories are never compacted.
* `repeated_error` – the profiles promise five minutes of samples before and after an
  error (`platforms/fdr_ppf_hgxr_hmc.yaml:29`), but `CompareMessageWithLog` leaves out an
  error that agrees with an earlier one in boot, component, parameter and kind, and
  `eventParser` gives all faults the same parameter and kind. The second fault of a
  component in a boot keeps no samples.
* `records_double` – `last_stored_data` is "used to determine if anything changed"
  (`fdr_record.hpp:55-56`), but `same_data_values` (`fdr_record.cpp:525-549`) reads the value
  only for `Uint64` and compares two empty strings for every other number: a `Double`
  sensor stored `OnChange`, of which the shipped profiles have hundreds, is stored
  once and never again.

Known from the models, without a run of their own; each shows in seconds when a
small configuration is given the hazard named (`Window = 2`, `Preserve = 1`, and for
the dumps the constants of `dump_rollover`):

| Where | What | To see it |
|---|---|---|
| `fdr.cpp:1128` | `ModifySpecificRecords` resets all store pointers before it creates the new ones; an exception in between is caught (`fdr_compact.cpp:171-172`) and the loop goes on with null pointers | `WritersArePresent`, `{"throws"}` |
| `fdr_device_dump_store.cpp:242` | a dump larger than the budget is evicted by its own store, and the SUCCESS record names a file that is gone | `SuccessNamesAFile`, a size above the budget |
| `fdr_device_dump_store.cpp:109` | the queue is said to be "sorted by timestamp" (`fdr_device_dump_store.hpp:47-49`); a slow collection is appended behind a later one | `IndexIsSorted` |
| `fdr_compact.cpp:484` | a sensors file that ends in half a record makes the extraction return; the raw files not read yet are deleted with the rest | `ErrorsKeepTheirSamples`, two files, `{"tornSample"}` |
| `fdr_compact.cpp:825` | after a restart within the boot everything is compacted at once, also what was stored seconds ago; an error that follows does not find the samples before it | `ErrorsKeepTheirSamples`, `{"processDeath"}` |
| `fdr_timers.cpp:345` | the window timer is armed after start up, birth certificate and signal registration; the first directory lives longer than `farWindowTimestamp` says | `ErrorsKeepTheirSamples`, `{"slowBoot"}`, `MaxTime = 8` |
| `fdr.cpp:1044`, `1062` | directory and boot event take the time separately; if the second turns in between, the directory is older than its boot event, counts as format 0 and is dropped uncompacted | `RawIsTracked`, `{"powerLoss", "slowBoot"}` |
| `fdr_device_dump.cpp:546` | a dump that cannot be read back ends its collection without a record | `LedgerSpec`, `{"unreadableTemp"}` |
| `fdr_device_dump.cpp:635` | `DeviceDumpRecords.dat` is to let an analyst enumerate "all GpuDumps ever collected on this HMC, with outcome" (`fdr_logs_schema.proto:97-99`); a death between the rename of a dump and its record leaves a dump that the next process indexes and nothing ever records | `DumpsAreIndexed`, `{"restart"}` |
| `fdr_device_dump.cpp:872-908` | the record of a collection is written by best effort, as the comment says: one that cannot be written is missing or half there, and readers of the file stop at the half | `DumpsAreIndexed` without `missed = 0`, `{"recordFails"}` |
| `fdr_device_dump_store.cpp:161` | a temporary file of a collection cut short by a restart is neither indexed nor removed | `TempsBelongToCollections`, `{"restart"}` |
| `fdr_device_dump.cpp:847` | the record of a failure carries the time of the failure, not of the event | `recordCollectionFailure` |
| `fdr.cpp:1296` | a subscribed property that changes to 0, false or the empty string is dropped | `FileHasLatest` in `records`, `Values = {0, 1}` |
| `fdr.cpp:1293` | a property of a type that is not handled ends the loop over the signal; those after it are not seen | `PropertiesChanged` |
| `fdr_record.cpp:589-591` | `EveryFetch` goes by the time of the last store also for a subscribed record, which is not fetched (`HEALTH`, `platforms/fdr_ppf_vulcan.yaml:13088`, `13928`): a change less than `FetchFreqSecs` after a store is never stored if none follows | `Store` |
| `fdr_record.cpp:264-272` | a string record that reads another type counts as a sample of value 0 in its statistics | `RefreshKeepsString` |
| `tools/FdrBootCounter.sh:27` | a reset after the truncation leaves `BootCount.txt` empty, and numbers are used again from 1 | `FreshnessInv` in `service`, `CounterFaults = {"tornCount"}` |
| `tools/FdrBootCounter.sh:34` | a restart between count and mark counts the boot twice, although the number is to change "only during HMC reboot"; when the mark cannot be created, every restart does | `update_data_file` |
| `fdr_events.cpp:351`, `368` | `EventLoggingPath` is the "full path of event details getting stored" (`fdr_logs_schema.proto:56`); a details file that cannot be written is not noticed, since `FDRStore::append` (`fdr_store.cpp:98-103`) does not tell and `CreateSamplesWriter` (`fdr.cpp:557-564`) only warns: the entry that follows names a file that is not there | `EventLoggingPathIsStored` in `service` |
| `fdr_bookoferrors.cpp:97` | the entry of a fault that cannot be written is missing, and nobody notices | `EveryFaultIsBooked` in `FdrServiceProofs`, `{"writeFails"}` |
| `fdr_bookoferrors.cpp:71` | half an entry at the end of the book, of a reset or a failed write, makes the next comparison that misses delete the whole book: the faults of all boots go with it | `EveryFaultIsBooked`, `{"tornKeeper"}` |
| `fdr_record.cpp:617-620` | an append that fails is not noticed and `last_stored_data` is set all the same; an `OnChange` value that could not be written is not tried again until it changes | `Store` of `Records`, where the append succeeds |
| `fdr_events.cpp:334` | an exception while the directory of the details is made ends the handling: dump handler and book never hear of the fault | `WriteDetailsThrows` |
| `ppf_sanity.cpp:106` | an id used twice in a class passes when the class is split by another one | `Split` in `MCStartUp` |
| `ppf_sanity.cpp:36` | a profile of which only the components cannot be decoded passes the search, ends the process as insane and is not passed over for the next file | `Opaque` in `MCStartUp` |
| `fdr.cpp:1449-1482` | a profile that cannot be removed stays, without a word, and the start goes on | `CleanupDone` |
| `fdr.cpp:101-114` | a log in that fails at start up leaves the recorder without Redfish for good | `CreateClient` |

Read in the code while modelling, outside the models:

* `fdr.cpp:171` – the limiter is made whenever `ExceptionAllowRate` is not 0, although
  the example profile says that a negative one never exits (`platforms/fdr_ppf_example.yaml:55`).
* `fdr_events.cpp:240` – `"DEVICE_EVENT_DATA "` is searched with a blank at its end.
* `fdr_redfish.cpp:80-101` – `logout` sends no token and no payload, so that it is a GET
  that ends no session.
* `fdr.cpp:264` – `substr` of a path without a dot throws, and the search with it.
* `fdr_record.cpp:397-400` – the passthrough read is given `Arg1` twice and `Arg2` never.
* `fdr_record.cpp:623-648` – the comment of `refreshDataCallback` speaks of a book of errors
  that the function does not write.
* `dbus_accessor.cpp:140-197`, `fdr_redfish.cpp:215-240` – some failed reads give 0, which is stored.
* `tools/FdrBootCounter.sh:16` – a file that cannot be written is not read either: the
  script prints 1 and the recorder reads the old number.
* `README.md:162-165` of the repository – a restart after a change of the profile cannot work unless
  `FDR_PRESERVE_PLATFORM_FILES` is set, since a start deletes the profiles.

## Proofs

`CompactionProofs`, for every value of the constants that satisfies
`ConstantsAssumption`:

* `TypeCorrect`: `Spec => []TypeOK`, under all hazards.
* `RetentionInvariant`: `Spec => []RetentionInv`, assuming `Hazards \subseteq OrderlyHazards`.
* `CompactionImplementsRetention`: `Spec => RetentionSpec`, under the same assumption.
* `CurrentStaysOpen`, `HiFiFilesAreFinal`: `CurrentIsNotCompacted` and `HiFiIsFinal`
  as consequences, under the same assumption.
* `CleanLeavesNothing`, `OldDataStays`: `NothingPendingAfterClean` and `LegacyIsLeftAlone`,
  under all hazards.
* `BacklogStaysShort`: `NoBacklog`, if no copy fails and nothing throws.
* `RawSamplesAreTracked`: `RawIsTracked`, without `tornCopy`, `tornKeeper`, `copyFails`, `throws`
  and `slowBoot`. Each of the five alone violates it, as TLC shows. Resets, process
  deaths, half written samples, repeated errors and starts in one second are allowed.
* `ErrorsKeepSamples`: `ErrorsKeepTheirSamples`, assuming `Preserve < Window` and orderly
  hazards without `processDeath` and `throws` (`KeepHazards`).

`OrderlyHazards` has resets and process deaths between any two writes, torn and
failing copies, exceptions and slow compactions. It leaves out half written
records, a slow start and restarts within a second, because there the promise is
not kept (see the table above).

The argument. `Forget` of `SampleRetention` asks that no error so far is near the
samples removed. When `RemoveSamplesLogfile` removes a raw file this must follow from
what `CompactorEngine` computed some steps earlier, so the invariant carries it:

* `PhaseInv`: where the clock can be, above all that the window timer is due at most a
  window after the stamp, so that no sample is later than `farWindowTimestamp`;
* `OrderInv`: `Compactor.dat` lists directories by increasing stamp and nothing
  younger than the current one, so that the engine never gets the open directory;
* `SamplesInv`: a raw sample lies in the window of its directory, and a high fidelity
  sample whose raw file exists is one of its samples, so that writing the file again
  loses nothing;
* `EngineInv`: while a directory is worked on, `errorTimes` is what the book says of it
  (no error is added in between: one thread), and every raw sample near one of these
  times is in a high fidelity file unless its raw file is still to be read.

`NearIsInHiFiRange` connects the two notions of "near": an error near a sample of a
directory is among `ErrorsAround` of it, since both ends of the window are extended
by `Preserve`. `EntriesAfterProperties` is what is needed of the list operator. Each
part of the invariant has a lemma with one step per action.

`ErrorsKeepTheirSamples` says more than the refinement: also an error that comes *after*
a compaction finds its samples. It needs to be known how old they are. `GridInv` has it:
the window timer keeps its grid however long a compaction takes, so that what the engine
works on at an expiry was stored at least a window before it. With `Preserve < Window`
(every shipped profile: 300 of 86400 seconds, 30 of 300 in the example) nothing removed can
be near an error to come; `LostInv` says just that, and `TakenInv` that samples of an earlier
boot are out of reach of later errors, which the book notes under their own boot. Where it
stops: a process that ends and starts again in the same boot compacts at once what
it stored seconds ago; an exception that leaves the records without writers gets
there too, by way of the death that follows; with `Preserve = Window` TLC has a sample one
second too near.

`RawIsTracked` rests on `TrackedInv` (a directory with raw samples is in `Compactor.dat` or in
its draft, and its entry is taken out only when no raw file is left) and `AnnouncedInv`: every listed
directory has its boot event, so that start up compacts it and does not take it for
the old format. `slowBoot` is what breaks the second one.

`BootCounterProofs`, assuming that `BootCount.txt` is never cut off (`NotTorn`: the counter
starts over at 1 otherwise):

* `Freshness`: `CounterSpec => [](FreshnessInv /\ NumbersAreFresh)`. `NumbersAreFresh` alone is
  not inductive: that the next number is new follows from what is in the file, and
  while the file is being written, from what the script holds. `Number` is the one or the
  other, and `Counted` says whether it was counted for this boot.
* `Stability`: `CounterSpec => NumberIsStable`, restarts of the service stay in their boot. No run
  checks it, since the proof follows the script step by step.

`LeakyBucketProofs`, for every capacity and drip:

* `BucketIsSummary`: `e` is the maximum over the exceptions of when all since that one
  will have leaked (`LeaksBy`).
* `BucketKeepsPromise`: `BucketSpec => BudgetSpec`. `FullWhenSpent` is the step: by
  `BucketIsSummary`, rounding `e - clock` up to drips reaches the capacity exactly when
  for some exception the number since, less the drips passed, does. The lemmas about
  quotients are proved from the definition of `\div`.

`FdrServiceProofs`, with the faults named: `ServiceFreshness` and `FaultsAreBooked` assume
`NotTorn`, `ServiceBudget`, `ServiceTypes` and `EntriesHaveDetails` nothing, so that all of them
hold with failing appends and torn books. Two more say what is left without these:
`DetailsAreStored` has `EventLoggingPathIsStored` without `writeFails`, and `NoFaultIsLost` that
every fault handled is in the book when no fault of the stores and no `tornCount` is there
(the book is then never torn, and never deleted). The first two
theorems of the parts carry over because every step of the service is a step or a stutter
of the part. `EntriesHaveDetails` needs that the details of the event under way are there
or failed, and that it is still handled in the directory of the details; `FaultsAreBooked` needs
`BookInv`: an entry with the number of this boot was made in this boot, which is where
freshness comes in.

`StartUpProofs`, without assumptions beyond the named ones of the modules:
`PreconditionsHeld` (from `ChecksInv`: each required check before `check` has passed),
`SessionsHeld` (from `SessionsInv`: while a log in is under way the old session is closed,
and no session is used that another process opened), `StartTypes`, and

* `SanityCheckIsExact`: for every profile that can be decoded, the check finds an id used twice in a run of one
  class exactly when there is one. `MemoryAfter` is the induction over the ids: after `n` calls
  the memory of `UniqueParamChecker` is the set of the ids since the class last changed, and
  the answer is whether one of these runs had a repetition;
* `RightProfile`: `StartSpec => []ProfileIsRight`, with components that cannot be decoded and
  files that cannot be read a second time as further ways out of the check. `RightInv` adds to it that while the search
  is under way no file before `cursor` suits.

`DeviceDumpProofs`, with the hazards each theorem excludes:

| Theorem | States | Without |
|---|---|---|
| `HandlerTypes` | `TypeOK` | |
| `HandlerKeepsLedger` | `LedgerSpec`: one attempt at a record each, under `recordFails` and `tornRecord` too | `unreadableTemp` |
| `DumpsIndexed` | `DumpsAreIndexed`: until a record is lost | `restart` |
| `DumpsAreApart` | `StoredDumpsAreApart` | |
| `CollectionsAreShort` | `CollectionTimeIsBounded` | |
| `TempsAreOwned` | `TempsBelongToCollections` | `restart`, `strandsTemp` |
| `IndexIsExact`, `OldestFirst`, `WithinBudget` | `IndexMatchesFiles`, `OldestOfDeviceFirst`, `WithinBudgetAfterStore` | `removeFails` |
| `SuccessHasFile` | `SuccessNamesAFile` | a size above the budget |

Each exclusion is in the table of differences or is a failure of the file system that the
code answers by a log line. `TimeInv` (a collection under way is younger than the clock, one
that is finished is the one at hand) and `DebounceInv` (no collection of a device starts
within the window of its last one) carry the times. `IndexInv` says that the index
names files, each once, and those of one device by age: a collection in flight is
younger than all dumps of its device, so that a new name goes to the end. `Complete` is the
other inclusion; `StoreInv` that the dump just stored is not the one evicted, which for
two dumps within the budget needs that the sizes of the index add up to what is on the
disk. `IndexedInv` says where in a callback a dump may be on the disk without its record:
only behind the rename, and it is that of the collection at hand. `DurationInv` bounds a collection by what it has waited so far: `Waited(n)` is the sum
of the first `n` doubling waits, in closed form.

`SumProofs` is about the sums both this module and `RecordsProofs` need. `LeastNatural` and
`InductionOnNat` are induction with a *set* as the parameter, from the fact that `<` on the
natural numbers is well founded (`NatLessThanWellFounded`, `WFMin`), since the
library's theorems, which take a predicate, cannot be used here. `TotalOfOneMore`: a
fold with `+` over a finite set does not depend on the order of the elements; `TotalReindexed`:
nor on their names.

`RecordsProofs`, for every profile, any slow reads and all ways a read can fail:

* `RecordTypes`: `TypeOK`.
* `NoSecondSkip`: `NoTwoFetchesSkipped`. `ClockInv` says that no timer is overdue while the
  loop waits and that a poll ends within its period, `ReadOf` how the two times of a record lie to it. `SkipOf`
  is the measure: a fetch turned down came less than a period after the last store, so
  the next one comes more than a period after it.
* `StoresLatest`: `FileHasLatest`, if no `OnChange` record is a `Double` and no subscribed one can
  become 0. Both are findings (`records_double`, `fdr.cpp:1296`). `LatestOf` relates what the
  platform said last to what is in memory and what was stored.
* `StatsStay`: `StatsStayInTheirDirectory`. `StatsOf`: what is being summed up began after the
  last statistics record and in the directory that is open.
* `StatisticsAreRight`: `RunningIsSummary`, for any number of samples. `SummedUp` says it without
  folds (a number, a sum, and a minimum and a maximum that are among the samples and
  bound them, with the latest of their times); the lemmas before it show that one more sample keeps it,
  and that it is what the folds of the property compute.

The proofs about records go record by record: `RecordStep` says all that a step of the module
may do to one record, and each invariant is then shown for these few cases.

Only model-checked: the liveness properties (`ReturnsToLoop`, `WindowTurnsOver`, `CollectionsEnd`,
`StartUpEnds`), which are out of reach of the prover. Every other property of a passing run
has a theorem; where a theorem excludes hazards, the property fails under them or is not
claimed. What follows when two components are put side by side that no
module composes (boot numbers between `FdrService` and `Compaction`) is neither checked nor proved.

## Limits of the model

* Time is in whole seconds and callbacks take none, except where `slowBoot` and
  `slowEngine` say so; a compaction is assumed to take less than a window.
* Data format versions are two; the file names, protobuf encoding and the
  formatting of directory names are left out, and parsing them back is taken to succeed.
* The search of an event for its profile, component and record is an input.
* One dump profile. Profiles whose file prefixes overlap share files in
  `rebuildIndex` (`fdr_device_dump_store.cpp:160`), which the model does not show.
* The free space of the partition is an outcome, not a counter.
* Records: integers stand for values, and the average is in thousandths. `Integer`, the
  list types and the sensors that `Command` and `Redfish` cannot read as `Double` are
  left out, as is the choice of the fetch method. All reads of one poll take less than
  its period. A timer is taken to be armed again when it fires; were it armed after its
  callback, `NoTwoFetchesSkipped` would only be easier to keep. `DeleteSpecificRecords`
  is left out: no shipped profile has `AfterBootDelete` records.
* The counter file is a number or nothing, and can be written; `Drip` is a whole number of
  units of time, while the code computes in floating point and microseconds: above a rate
  of 10^6 the code's drip is 0 and the bucket never fills.
* An event is its names, its component and whether it is a fault; the parsing of the
  properties and the texts are left out. Half a details file and half an entry count as
  none, since the reader of either finds nothing; half an entry in the book is kept, since it
  makes the reader delete the book, and that deletion is taken to succeed.
* Samples in `Compaction` and `Records` are written when they are handed to the store, or cut
  off by a reset. The records of failed collections in `DeviceDumpFailures.dat`, which are
  written and lost in the same way as those in `DeviceDumpRecords.dat`, are left out.
* Calls that block (D-Bus up to its time out, `exec` of a command, which has none, HTTP) are
  taken to return at once. Collections take longer by as much as the loop is blocked, and a
  command that never returns stops the start, which `StartUpEnds` does not speak of.
* `PlatformProfile` does not decode YAML; what a profile says is a record of what the
  code asks. A profile given on the command line skips the search and is left out.
* Redfish transport, D-Bus, logging and the tools are not modelled: they are I/O, wording
  or sequential programs outside the recorder.
