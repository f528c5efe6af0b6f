--------------------------- MODULE DeviceDumpHandler ---------------------------
(***************************************************************************)
(* class DeviceDumpHandler (fdr_device_dump.cpp) for one profile.          *)
(*                                                                         *)
(* A critical event of a device makes the handler ask the provider for a   *)
(* dump.  GetDiagnostics may answer Unavailable, then it is tried again    *)
(* after a growing wait; once it is accepted a timer polls its status      *)
(* every second.  A finished dump is read back, stored and recorded in     *)
(* DeviceDumpRecords.dat; a failure is recorded too.  The records are kept *)
(* by best effort: the handler goes on when one cannot be written.  Several*)
(* devices are collected at once, one timer each, on one event loop: `pc'  *)
(* is where a callback stands, "idle" when none is running.                *)
(***************************************************************************)
EXTENDS DeviceDumpStore

CONSTANTS
  WindowSecs,   \* Debounce.WindowSecs
  MaxRetries,   \* Retrieval.MaxRetries
  BaseSecs,     \* Retrieval.RetryDelayMs in whole seconds
  TimeoutSecs,  \* Retrieval.TimeoutSecs
  Sizes,        \* the sizes a dump can have, 0 when there is none
  MaxTime,      \* bound: the clock stops here
  LastEvent,    \* bound: no event after this time
  MaxDir,       \* bound: how many sample directories there will be
  MaxRecords,   \* bound: no event beyond this number of records
  Hazards       \* what the environment may do

HazardNames ==
  { "restart",         \* the process dies and is started again
    "rollover",        \* the compaction window opens a new directory
    "unreadableTemp",  \* the dump cannot be read back
    "storeFails",      \* the dump cannot be written
    "strandsTemp",     \* ... and the temporary file stays
    "removeFails",     \* fs::remove fails in the eviction
    "recordFails",     \* a record cannot be written, or only half of it
    "tornRecord" }     \* an HMC reset leaves half a record

ASSUME HandlerAssumption ==
  /\ WindowSecs \in Nat /\ MaxRetries \in 0..10
  /\ BaseSecs \in Nat /\ TimeoutSecs \in Nat
  /\ Sizes \subseteq Nat
  /\ MaxTime \in Nat /\ LastEvent \in Nat /\ MaxDir \in Nat
  /\ MaxRecords \in Nat
  /\ Hazards \subseteq HazardNames
  /\ "none" \notin Devices

(* As in DeviceDumpStore, operators with a lower case ending behind an      *)
(* underscore stand for a plausible mistake in the code they precede.      *)
VARIABLES
  now,          \* std::time(nullptr)
  pc,           \* where the callback stands
  job,          \* the device the callback is about
  dumpSize,     \* the size of the dump it has read
  contexts,     \* inFlightContexts, a function on the devices in flight
  debounceMap,  \* when a dump of a device was last stored
  ledger,       \* DeviceDumpRecords.dat
  missed,       \* history: how many records could not be written
  outcome       \* history: how the collection of `job' ended

records == <<ledger, missed>>
handlerVars == <<now, pc, job, dumpSize, contexts, debounceMap, records, outcome>>
vars == <<handlerVars, storeVars>>

NoDump == [dir |-> 0, device |-> "none", time |-> 0]

(* The context remembers the temporary file by its directory.              *)
tempFilePath(d) ==
  [dir |-> contexts[d].dir, device |-> d, time |-> contexts[d].eventTimestamp]

(* Exponential backoff after the n-th attempt.                             *)
waitSecs(n) == (IF BaseSecs > 1 THEN BaseSecs ELSE 1) * 2 ^ (n - 1)

debounceCheck_inverted(d) ==
  d \in DOMAIN debounceMap => now - debounceMap[d] <= WindowSecs
debounceCheck(d) ==
  d \in DOMAIN debounceMap => now - debounceMap[d] >= WindowSecs

HalfRecord ==
  [device |-> "none", status |-> "HALF", eventTimeStamp |-> 0, filePath |-> NoDump]

(* A file that cannot be opened is logged, a failed write is not noticed.  *)
appendDumpRecord(d, status, time, path) ==
  \/ /\ ledger' = Append(ledger, [device |-> d, status |-> status,
                                  eventTimeStamp |-> time, filePath |-> path])
     /\ UNCHANGED missed
  \/ /\ "recordFails" \in Hazards
     /\ missed' = missed + 1
     /\ ledger' \in {ledger, Append(ledger, HalfRecord)}

(* recordCollectionFailure, as it ends up in DeviceDumpRecords.dat         *)
recordCollectionFailure(d) == appendDumpRecord(d, "FAILED", now, NoDump)

Init ==
  /\ StoreInit
  /\ now = 1 /\ pc = "idle" /\ job = "none" /\ dumpSize = 0
  /\ contexts = <<>> /\ debounceMap = <<>> /\ ledger = <<>> /\ missed = 0
  /\ outcome = "none"

(* The callback goes on at the label l, or returns to the event loop.      *)
GoTo(l) == pc' = l /\ outcome' = "none"
Return == GoTo("idle") /\ job' = "none" /\ UNCHANGED records

(* A terminal failure of the collection at hand is recorded, then cleanup. *)
Fail_cleanupOnly(d) ==
  /\ UNCHANGED records
  /\ job' = d /\ pc' = "cleanup" /\ outcome' = "recorded"
Fail(d) ==
  /\ recordCollectionFailure(d)
  /\ job' = d /\ pc' = "cleanup" /\ outcome' = "recorded"

(* The callback returns before anything is recorded.                       *)
Leave(why) ==
  /\ pc' = "cleanup" /\ outcome' = why
  /\ UNCHANGED <<job, records>>

-----------------------------------------------------------------------------
(* onEvent for an event that matches the profile and names the device d    *)

Event(d) ==
  /\ pc = "idle" /\ now <= LastEvent
  /\ debounceCheck(d)
  /\ Len(ledger) + missed + Cardinality(DOMAIN contexts) < MaxRecords

(* The partition is full.                                                  *)
RejectEvent(d) ==
  /\ Event(d)
  /\ recordCollectionFailure(d)
  /\ UNCHANGED <<now, pc, job, dumpSize, contexts, debounceMap, outcome,
                 storeVars>>

(* collectDump: nothing happens while the device is in flight, and nothing *)
(* is kept or recorded if the temporary file cannot be opened.             *)
collectDump(d) ==
  /\ Event(d) /\ d \notin DOMAIN contexts
  /\ contexts' = Put(contexts, d,
       [state |-> "AwaitingGetDiag", attempt |-> 0, retryWaitRemaining |-> 0,
        elapsedPollSecs |-> 0, eventTimestamp |-> now, dir |-> dir, due |-> now + 1])
  /\ WriteTemp(buildStoragePath(d, now))
  /\ job' = d /\ GoTo("getDiagnostics")
  /\ UNCHANGED <<now, dumpSize, debounceMap, records>>

(* callGetDiagnostics: accepted, Unavailable, or any other error.  The call *)
(* blocks the event loop; here it is answered at once.                     *)
callGetDiagnostics ==
  LET n == contexts[job].attempt + 1 IN
  /\ pc = "getDiagnostics"
  /\ \/ /\ contexts' = [contexts EXCEPT ![job] =
             [@ EXCEPT !.state = "PollingStatus", !.attempt = n,
                       !.elapsedPollSecs = 0]]
        /\ Return
     \/ /\ n <= MaxRetries
        /\ contexts' = [contexts EXCEPT ![job] =
             [@ EXCEPT !.state = "RetryWaiting", !.attempt = n,
                       !.retryWaitRemaining = waitSecs(n)]]
        /\ Return
     \/ /\ contexts' = [contexts EXCEPT ![job].attempt = n]
        /\ Fail(job)
  /\ UNCHANGED <<now, dumpSize, debounceMap, storeVars>>

-----------------------------------------------------------------------------
(* tickContext: the timer of the device d fires                            *)

TimerExpires(d) == pc = "idle" /\ d \in DOMAIN contexts /\ now >= contexts[d].due

tickRetryWaiting_pastZero(d) ==
  LET remaining == contexts[d].retryWaitRemaining - 1 IN
  /\ TimerExpires(d) /\ contexts[d].state = "RetryWaiting"
  /\ contexts' = [contexts EXCEPT ![d].retryWaitRemaining = remaining,
                                  ![d].due = now + 1]
  /\ IF remaining >= 0 THEN Return
     ELSE GoTo("getDiagnostics") /\ job' = d /\ UNCHANGED records
  /\ UNCHANGED <<now, dumpSize, debounceMap, storeVars>>
tickRetryWaiting(d) ==
  LET remaining == contexts[d].retryWaitRemaining - 1 IN
  /\ TimerExpires(d) /\ contexts[d].state = "RetryWaiting"
  /\ contexts' = [contexts EXCEPT ![d].retryWaitRemaining = remaining,
                                  ![d].due = now + 1]
  /\ IF remaining > 0 THEN Return
     ELSE GoTo("getDiagnostics") /\ job' = d /\ UNCHANGED records
  /\ UNCHANGED <<now, dumpSize, debounceMap, storeVars>>

(* pollAsyncStatus: the operation succeeded, failed, or is in progress     *)
pollAsyncStatus_noTimeout(d) ==
  /\ TimerExpires(d) /\ contexts[d].state = "PollingStatus"
  /\ contexts' = [contexts EXCEPT ![d].due = now + 1]
  /\ \/ GoTo("complete") /\ job' = d /\ UNCHANGED records
     \/ Fail(d)
     \/ Return
  /\ UNCHANGED <<now, dumpSize, debounceMap, storeVars>>
pollAsyncStatus(d) ==
  LET elapsed == contexts[d].elapsedPollSecs + 1 IN
  /\ TimerExpires(d) /\ contexts[d].state = "PollingStatus"
  /\ contexts' = [contexts EXCEPT ![d].elapsedPollSecs = elapsed,
                                  ![d].due = now + 1]
  /\ \/ GoTo("complete") /\ job' = d /\ UNCHANGED records
     \/ Fail(d)
     \/ elapsed < TimeoutSecs /\ Return
  /\ UNCHANGED <<now, dumpSize, debounceMap, storeVars>>

-----------------------------------------------------------------------------
(* onDumpComplete                                                          *)

Unchanged == UNCHANGED <<now, contexts>>

(* The dump is read back and the partition is looked at again.             *)
readDump ==
  /\ pc = "complete" /\ Unchanged /\ UNCHANGED <<debounceMap, storeVars>>
  /\ \/ /\ "unreadableTemp" \in Hazards
        /\ Leave("unreadable") /\ UNCHANGED dumpSize
     \/ /\ dumpSize' \in Sizes /\ dumpSize' = 0
        /\ Leave("empty")
     \/ /\ dumpSize' \in Sizes /\ dumpSize' > 0
        /\ Fail(job) \/ (GoTo("write") /\ UNCHANGED <<job, records>>)

(* store(): the path is built from the directory that is current now.      *)
storePath == buildStoragePath(job, contexts[job].eventTimestamp)

writeStoreTemp ==
  /\ pc = "write" /\ Unchanged /\ UNCHANGED <<job, dumpSize, debounceMap, records>>
  /\ WriteTemp(storePath)
  /\ GoTo("rename")

renameStoreTemp ==
  /\ pc = "rename" /\ Unchanged /\ UNCHANGED <<job, dumpSize, debounceMap, records>>
  /\ RenameTemp(storePath, dumpSize)
  /\ GoTo("evict")

storeFails_unrecorded ==
  /\ pc = "rename" /\ Unchanged /\ UNCHANGED <<dumpSize, debounceMap>>
  /\ "storeFails" \in Hazards /\ RemoveTemp(storePath)
  /\ Leave("unreadable")
storeFails ==
  /\ pc = "rename" /\ Unchanged /\ UNCHANGED <<dumpSize, debounceMap>>
  /\ \/ "storeFails" \in Hazards /\ RemoveTemp(storePath)
     \/ "strandsTemp" \in Hazards /\ UNCHANGED storeVars
  /\ Fail(job)

enforceEviction_once ==
  /\ pc = "evict" /\ Unchanged /\ UNCHANGED <<job, dumpSize, debounceMap, records>>
  /\ evictOldest(TRUE) \/ (~mustEvict /\ UNCHANGED storeVars)
  /\ GoTo("record")
enforceEviction ==
  /\ pc = "evict" /\ Unchanged /\ UNCHANGED <<job, dumpSize, debounceMap, records>>
  /\ \/ /\ \E removed \in BOOLEAN :
             (removed \/ "removeFails" \in Hazards) /\ evictOldest(removed)
        /\ UNCHANGED <<pc, outcome>>
     \/ ~mustEvict /\ UNCHANGED storeVars /\ GoTo("record")

(* The SUCCESS record, then the debounce window starts.                    *)
recordSuccess_tempPath ==
  /\ pc = "record" /\ Unchanged /\ UNCHANGED <<job, dumpSize, storeVars>>
  /\ appendDumpRecord(job, "SUCCESS", contexts[job].eventTimestamp, tempFilePath(job))
  /\ debounceMap' = Put(debounceMap, job, now)
  /\ pc' = "cleanup" /\ outcome' = "recorded"
recordSuccess ==
  /\ pc = "record" /\ Unchanged /\ UNCHANGED <<job, dumpSize, storeVars>>
  /\ appendDumpRecord(job, "SUCCESS", contexts[job].eventTimestamp, storePath)
  /\ debounceMap' = Put(debounceMap, job, now)
  /\ pc' = "cleanup" /\ outcome' = "recorded"

(* The temporary file goes by the path it had when it was opened.          *)
cleanupContext_currentPath ==
  /\ pc = "cleanup"
  /\ RemoveTemp(storePath)
  /\ contexts' = Restrict(contexts, DOMAIN contexts \ {job})
  /\ Return /\ dumpSize' = 0
  /\ UNCHANGED <<now, debounceMap>>
cleanupContext_onlyTemp ==
  /\ pc = "cleanup"
  /\ RemoveTemp(tempFilePath(job))
  /\ Return /\ dumpSize' = 0
  /\ UNCHANGED <<now, contexts, debounceMap>>
cleanupContext ==
  /\ pc = "cleanup"
  /\ RemoveTemp(tempFilePath(job))
  /\ contexts' = Restrict(contexts, DOMAIN contexts \ {job})
  /\ Return /\ dumpSize' = 0
  /\ UNCHANGED <<now, debounceMap>>

-----------------------------------------------------------------------------
(* The rest of the recorder, and the environment                           *)

(* CompactionWindowExpiryCleanUp names a new directory.                    *)
Rollover ==
  /\ pc = "idle" /\ "rollover" \in Hazards /\ dir < MaxDir
  /\ dir' = dir + 1
  /\ UNCHANGED <<handlerVars, files, temps, dumpIndex>>

(* The process ends or the HMC resets, perhaps while a record is written.  *)
Die ==
  /\ pc # "down" /\ "restart" \in Hazards
  /\ \/ UNCHANGED ledger
     \/ /\ "tornRecord" \in Hazards
        /\ pc \in {"idle", "getDiagnostics", "complete", "rename", "record"}
        /\ ledger' = Append(ledger, HalfRecord)
  /\ pc' = "down" /\ outcome' = "none" /\ job' = "none" /\ dumpSize' = 0
  /\ contexts' = <<>> /\ debounceMap' = <<>> /\ dumpIndex' = <<>>
  /\ UNCHANGED <<now, missed, dir, files, temps>>

(* initDeviceDumpHandler, in a new sample directory                        *)
Restart ==
  /\ pc = "down" /\ dir < MaxDir
  /\ dir' = dir + 1
  /\ rebuildIndex
  /\ Return
  /\ UNCHANGED <<now, dumpSize, contexts, debounceMap, files, temps>>

(* A callback takes no time and no timer is late.                          *)
Tick ==
  /\ pc \in {"idle", "down"} /\ now < MaxTime
  /\ \A d \in DOMAIN contexts : now < contexts[d].due
  /\ now' = now + 1
  /\ UNCHANGED <<pc, job, dumpSize, contexts, debounceMap, records, outcome,
                 storeVars>>

-----------------------------------------------------------------------------
Callback ==
  \/ callGetDiagnostics
  \/ readDump \/ writeStoreTemp \/ renameStoreTemp \/ storeFails
  \/ enforceEviction \/ recordSuccess \/ cleanupContext

Next ==
  \/ \E d \in Devices :
       \/ RejectEvent(d) \/ collectDump(d)
       \/ tickRetryWaiting(d) \/ pollAsyncStatus(d)
  \/ Callback
  \/ Rollover \/ Die \/ Restart \/ Tick

Spec == Init /\ [][Next]_vars

(* Callbacks run to their end, time passes and expired timers fire.        *)
Fairness ==
  /\ WF_vars(Callback) /\ WF_vars(Tick)
  /\ \A d \in Devices : WF_vars(tickRetryWaiting(d)) /\ WF_vars(pollAsyncStatus(d))

FairSpec == Spec /\ Fairness

-----------------------------------------------------------------------------
Context == [state : {"AwaitingGetDiag", "RetryWaiting", "PollingStatus"},
            attempt : Nat, retryWaitRemaining : Nat, elapsedPollSecs : Nat,
            eventTimestamp : Nat, dir : Nat, due : Nat]
DumpRecord == [device : Devices, status : {"SUCCESS", "FAILED"},
               eventTimeStamp : Nat, filePath : Path \cup {NoDump}]

(* Types: what each variable may hold.                                     *)
TypeOK ==
  /\ now \in Nat /\ dumpSize \in Nat /\ dir \in Nat
  /\ pc \in {"down", "idle", "getDiagnostics", "complete", "write", "rename",
             "evict", "record", "cleanup"}
  /\ outcome \in {"none", "recorded", "empty", "unreadable"}
  /\ job \in DOMAIN contexts \cup {"none"}
  /\ job = "none" <=> pc \in {"idle", "down"}
  /\ DOMAIN contexts \subseteq Devices /\ DOMAIN debounceMap \subseteq Devices
  /\ \A d \in DOMAIN contexts : contexts[d] \in Context
  /\ \A d \in DOMAIN debounceMap : debounceMap[d] \in Nat
  /\ ledger \in Seq(DumpRecord \cup {HalfRecord}) /\ missed \in Nat
  /\ DOMAIN files \subseteq Path /\ \A p \in DOMAIN files : files[p] \in Nat
  /\ temps \subseteq Path
  /\ dumpIndex \in Seq(Path)

(* DeviceDumpRecords.dat is an index of every collection event by best     *)
(* effort: a collection ends with exactly one attempt to write a record of *)
(* its device, whatever is retried, times out or fails to be stored, the   *)
(* attempt is the record unless the write fails, and collections of one    *)
(* device do not overlap.                                                  *)
Recorded == IF outcome \in {"recorded", "empty"} THEN {job} ELSE {}
Ledger == INSTANCE DumpLedger
  WITH alive <- pc # "down",
       open <- DOMAIN contexts \ Recorded,
       empty <- IF outcome = "empty" THEN {job} ELSE {},
       BestEffort <- "recordFails" \in Hazards
LedgerSpec == Ledger!Spec

(* DeviceDumpRecords.dat lets an analyst enumerate "all GpuDumps ever      *)
(* collected on this HMC, with outcome" (fdr_logs_schema.proto): between   *)
(* callbacks every dump on the disk is named by a SUCCESS record, in       *)
(* whatever directory it was stored, if no write of a record failed.       *)
DumpsAreIndexed ==
  pc = "idle" /\ missed = 0 =>
    \A p \in DOMAIN files :
      \E i \in DOMAIN ledger : ledger[i].status = "SUCCESS" /\ ledger[i].filePath = p

(* Between callbacks the only temporary files are those of collections in  *)
(* flight, although a collection may end in another directory than the one *)
(* it began in: nothing takes up space that no eviction counts.            *)
TempsBelongToCollections ==
  pc = "idle" => temps = {tempFilePath(d) : d \in DOMAIN contexts}

(* The index lists every dump on the disk once, in whatever directory it   *)
(* is and whatever process stored it: nothing else can ever be evicted.    *)
IndexMatchesFiles ==
  pc # "down" => IsInjective(dumpIndex) /\ ToSet(dumpIndex) = DOMAIN files

(* When store() returns the dumps on the disk are within the budget, those *)
(* left by an earlier process that died before it evicted included.        *)
WithinBudgetAfterStore == pc = "record" => SumFunction(files) <= Budget

(* The file a new SUCCESS record names exists: the eviction of a store     *)
(* never takes the dump that has just been stored.                         *)
SuccessNamesAFile ==
  [][\A i \in DOMAIN ledger' \ DOMAIN ledger :
       ledger'[i].status = "SUCCESS" => ledger'[i].filePath \in DOMAIN files']_vars

(* Of one device the oldest dump goes first, also after a restart: its     *)
(* collections do not overtake each other.                                 *)
OldestOfDeviceFirst ==
  [][\A p \in DOMAIN files \ DOMAIN files', q \in DOMAIN files' :
       p.device = q.device => p.time <= q.time]_vars

(* "deque is sorted by timestamp so pop_front always removes the           *)
(* globally-oldest entry in that profile"                                  *)
IndexIsSorted == IsSorted(dumpIndex, LAMBDA a, b : a.time <= b.time)

(* Two dumps of a device that one process stores are WindowSecs apart,     *)
(* although the window is looked at when the event arrives and starts when *)
(* the collection ends.                                                    *)
StoredDumpsAreApart ==
  [][\A d \in DOMAIN debounceMap \cap DOMAIN debounceMap' :
       debounceMap'[d] # debounceMap[d] =>
         debounceMap'[d] - debounceMap[d] >= WindowSecs]_vars

(* A collection takes no longer than all the waits and one polling phase   *)
(* together.                                                               *)
LongestCollection ==
  waitSecs(1) * (2 ^ MaxRetries - 1) + (IF TimeoutSecs > 1 THEN TimeoutSecs ELSE 1)
CollectionTimeIsBounded ==
  \A d \in DOMAIN contexts : now - contexts[d].eventTimestamp <= LongestCollection

(* Every collection comes to an end, so that the next event of its device  *)
(* is not dropped as a duplicate for ever.                                 *)
CollectionsEnd ==
  \A d \in Devices : d \in DOMAIN contexts ~> d \notin DOMAIN contexts
================================================================================
