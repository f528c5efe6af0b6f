---------------------------- MODULE DeviceDumpProofs ----------------------------
(***************************************************************************)
(* What holds of the dump handler for every number of devices, retries,    *)
(* sizes and directories: types, the promise of the ledger, and what the   *)
(* store keeps true of its files and its index.                            *)
(***************************************************************************)
EXTENDS DeviceDumpHandler, SumProofs

Places == {"down", "idle", "getDiagnostics", "complete", "write", "rename",
           "evict", "record", "cleanup"}

(* A step that leaves the records alone leaves both variables alone.       *)
USE DEF records

-----------------------------------------------------------------------------
(* The waits between the attempts                                          *)

LEMMA PowersOfTwo ==
  /\ 2^0 = 1 /\ 2^1 = 2 /\ 2^2 = 4 /\ 2^3 = 8 /\ 2^4 = 16 /\ 2^5 = 32
  /\ 2^6 = 64 /\ 2^7 = 128 /\ 2^8 = 256 /\ 2^9 = 512 /\ 2^10 = 1024
OBVIOUS

LEMMA DoublingPower ==
  ASSUME NEW n \in 0..9
  PROVE  2^n \in Nat /\ 2^n >= 1 /\ 2^(n + 1) = 2 * 2^n
<1>0. CASE n = 0
  <2> n + 1 = 1
    BY <1>0
  <2> QED  BY <1>0, PowersOfTwo
<1>1. CASE n = 1
  <2> n + 1 = 2
    BY <1>1
  <2> QED  BY <1>1, PowersOfTwo
<1>2. CASE n = 2
  <2> n + 1 = 3
    BY <1>2
  <2> QED  BY <1>2, PowersOfTwo
<1>3. CASE n = 3
  <2> n + 1 = 4
    BY <1>3
  <2> QED  BY <1>3, PowersOfTwo
<1>4. CASE n = 4
  <2> n + 1 = 5
    BY <1>4
  <2> QED  BY <1>4, PowersOfTwo
<1>5. CASE n = 5
  <2> n + 1 = 6
    BY <1>5
  <2> QED  BY <1>5, PowersOfTwo
<1>6. CASE n = 6
  <2> n + 1 = 7
    BY <1>6
  <2> QED  BY <1>6, PowersOfTwo
<1>7. CASE n = 7
  <2> n + 1 = 8
    BY <1>7
  <2> QED  BY <1>7, PowersOfTwo
<1>8. CASE n = 8
  <2> n + 1 = 9
    BY <1>8
  <2> QED  BY <1>8, PowersOfTwo
<1>9. CASE n = 9
  <2> n + 1 = 10
    BY <1>9
  <2> QED  BY <1>9, PowersOfTwo
<1> QED  BY <1>0, <1>1, <1>2, <1>3, <1>4, <1>5, <1>6, <1>7, <1>8, <1>9

LEMMA WaitIsPositive ==
  ASSUME NEW n \in 1..MaxRetries
  PROVE  waitSecs(n) \in Nat /\ waitSecs(n) >= 1
<1>1. n - 1 \in 0..9 /\ BaseSecs \in Nat
  BY HandlerAssumption
<1>2. 2^(n - 1) \in Nat /\ 2^(n - 1) >= 1
  BY <1>1, DoublingPower
<1> DEFINE base == IF BaseSecs > 1 THEN BaseSecs ELSE 1
<1>3. base \in Nat /\ base >= 1
  BY <1>1
<1>4. \A a, b \in Nat : a >= 1 /\ b >= 1 => a * b \in Nat /\ a * b >= 1
  OBVIOUS
<1> QED  BY <1>2, <1>3, <1>4 DEF waitSecs

-----------------------------------------------------------------------------
(* Types.  A collection that waits has waits left, unless it is the one    *)
(* the callback is about; the outcome is known only during the clean up.   *)
TypeInv ==
  /\ TypeOK
  /\ pc = "cleanup" <=> outcome # "none"
  /\ IsFiniteSet(DOMAIN files)
  /\ \A d \in DOMAIN contexts :
       d # job /\ contexts[d].state = "RetryWaiting" =>
         contexts[d].retryWaitRemaining >= 1

LEMMA InitTypes == Init => TypeInv
<1> SUFFICES ASSUME Init PROVE TypeInv
  OBVIOUS
<1>1. IsFiniteSet(DOMAIN files)
  BY FS_EmptySet DEF Init, StoreInit
<1> QED
  BY <1>1 DEF Init, StoreInit, TypeInv, TypeOK

(* How a callback goes on.                                                 *)
LEMMA LongerLedger ==
  ASSUME ledger \in Seq(DumpRecord \cup {HalfRecord}),
         NEW rec \in DumpRecord \cup {HalfRecord}
  PROVE  /\ Append(ledger, rec) \in Seq(DumpRecord \cup {HalfRecord})
         /\ Append(ledger, HalfRecord) \in Seq(DumpRecord \cup {HalfRecord})
<1> DEFINE Rec == DumpRecord \cup {HalfRecord}
<1>1. ledger \in Seq(Rec) /\ rec \in Rec /\ HalfRecord \in Rec
  OBVIOUS
<1> HIDE DEF Rec
<1>2. Append(ledger, rec) \in Seq(Rec) /\ Append(ledger, HalfRecord) \in Seq(Rec)
  BY <1>1
<1> QED  BY <1>2 DEF Rec

LEMMA RecordIsTyped ==
  ASSUME TypeInv, NEW d \in Devices, NEW status \in {"SUCCESS", "FAILED"},
         NEW time \in Nat, NEW path \in Path \cup {NoDump},
         appendDumpRecord(d, status, time, path)
  PROVE  ledger' \in Seq(DumpRecord \cup {HalfRecord}) /\ missed' \in Nat
<1> DEFINE rec == [device |-> d, status |-> status,
                   eventTimeStamp |-> time, filePath |-> path]
<1>1. rec \in DumpRecord \cup {HalfRecord}
  BY DEF DumpRecord
<1>2. ledger \in Seq(DumpRecord \cup {HalfRecord}) /\ missed \in Nat
  BY DEF TypeInv, TypeOK
<1>3. \/ ledger' = Append(ledger, rec) /\ missed' = missed
      \/ missed' = missed + 1 /\ ledger' \in {ledger, Append(ledger, HalfRecord)}
  BY DEF appendDumpRecord
<1> HIDE DEF rec
<1> QED  BY <1>1, <1>2, <1>3, LongerLedger

LEMMA GoingOn ==
  ASSUME TypeInv, NEW l \in Places \ {"down", "idle", "cleanup"}, GoTo(l),
         UNCHANGED records, job' \in DOMAIN contexts', job' # "none"
  PROVE  /\ pc' \in Places /\ outcome' \in {"none", "recorded", "empty", "unreadable"}
         /\ job' = "none" <=> pc' \in {"idle", "down"}
         /\ pc' = "cleanup" <=> outcome' # "none"
         /\ ledger' \in Seq(DumpRecord \cup {HalfRecord}) /\ missed' \in Nat
BY DEF TypeInv, TypeOK, GoTo, Places

LEMMA Returning ==
  ASSUME TypeInv, Return
  PROVE  /\ pc' = "idle" /\ outcome' = "none" /\ job' = "none"
         /\ ledger' \in Seq(DumpRecord \cup {HalfRecord}) /\ missed' \in Nat
BY DEF TypeInv, TypeOK, Return, GoTo

LEMMA Failing ==
  ASSUME TypeInv, NEW d \in DOMAIN contexts, Fail(d)
  PROVE  /\ pc' = "cleanup" /\ outcome' = "recorded" /\ job' = d /\ d # "none"
         /\ ledger' \in Seq(DumpRecord \cup {HalfRecord}) /\ missed' \in Nat
<1>1. d \in Devices /\ now \in Nat
  BY DEF TypeInv, TypeOK
<1>2. ledger' \in Seq(DumpRecord \cup {HalfRecord}) /\ missed' \in Nat
  BY <1>1, RecordIsTyped DEF Fail, recordCollectionFailure
<1> QED  BY <1>1, <1>2, HandlerAssumption DEF Fail

(* The device a callback is about is in flight.                            *)
LEMMA JobIsInFlight ==
  ASSUME TypeInv, pc \notin {"idle", "down"}
  PROVE  /\ job \in DOMAIN contexts /\ job \in Devices /\ job # "none"
         /\ contexts[job] \in Context
BY DEF TypeInv, TypeOK

LEMMA PathsAreTyped ==
  ASSUME TypeInv, NEW d \in DOMAIN contexts
  PROVE  /\ tempFilePath(d) \in Path
         /\ buildStoragePath(d, contexts[d].eventTimestamp) \in Path
<1>1. d \in Devices /\ dir \in Nat /\ contexts[d] \in Context
  BY DEF TypeInv, TypeOK
<1> QED  BY <1>1 DEF tempFilePath, buildStoragePath, Path, Context

(* A collection that begins.                                                *)
LEMMA Beginning ==
  ASSUME TypeInv, NEW d \in Devices, collectDump(d)
  PROVE  /\ pc = "idle" /\ job = "none"
         /\ pc' = "getDiagnostics" /\ outcome' = "none" /\ job' = d /\ d # "none"
         /\ d \notin DOMAIN contexts
         /\ DOMAIN contexts' = {d} \cup DOMAIN contexts
         /\ contexts'[d] = [state |-> "AwaitingGetDiag", attempt |-> 0,
                         retryWaitRemaining |-> 0, elapsedPollSecs |-> 0,
                         eventTimestamp |-> now, dir |-> dir, due |-> now + 1]
         /\ \A e \in DOMAIN contexts : contexts'[e] = contexts[e]
         /\ UNCHANGED <<now, dumpSize, debounceMap, records, dir, files, dumpIndex>>
<1> DEFINE new == [state |-> "AwaitingGetDiag", attempt |-> 0,
                   retryWaitRemaining |-> 0, elapsedPollSecs |-> 0,
                   eventTimestamp |-> now, dir |-> dir, due |-> now + 1]
<1>1. d \notin DOMAIN contexts /\ contexts' = Put(contexts, d, new)
  BY DEF collectDump
<1> HIDE DEF new
<1>2. /\ DOMAIN contexts' = {d} \cup DOMAIN contexts
      /\ contexts'[d] = new
      /\ \A e \in DOMAIN contexts : contexts'[e] = contexts[e]
  BY <1>1 DEF Put
<1>3. /\ pc = "idle" /\ pc' = "getDiagnostics" /\ outcome' = "none" /\ job' = d
      /\ UNCHANGED <<now, dumpSize, debounceMap, records, dir, files, dumpIndex>>
  BY DEF collectDump, Event, GoTo, WriteTemp
<1>4. job = "none" /\ d # "none"
  BY <1>3, HandlerAssumption DEF TypeInv, TypeOK
<1> QED  BY <1>1, <1>2, <1>3, <1>4 DEF new

LEMMA StepTypes ==
  ASSUME TypeInv, [Next]_vars
  PROVE  TypeInv'
<1> USE HandlerAssumption
<1>1. ASSUME NEW d \in Devices, RejectEvent(d) PROVE TypeInv'
  <2>1. ledger' \in Seq(DumpRecord \cup {HalfRecord}) /\ missed' \in Nat
    BY <1>1, RecordIsTyped DEF RejectEvent, recordCollectionFailure, TypeInv, TypeOK
  <2> QED  BY <1>1, <2>1 DEF RejectEvent, storeVars, TypeInv, TypeOK
<1>2. ASSUME NEW d \in Devices, collectDump(d) PROVE TypeInv'
  <2>1. /\ DOMAIN contexts' = {d} \cup DOMAIN contexts
        /\ contexts'[d] = [state |-> "AwaitingGetDiag", attempt |-> 0,
                        retryWaitRemaining |-> 0, elapsedPollSecs |-> 0,
                        eventTimestamp |-> now, dir |-> dir, due |-> now + 1]
        /\ \A e \in DOMAIN contexts : contexts'[e] = contexts[e]
        /\ pc' = "getDiagnostics" /\ outcome' = "none" /\ job' = d /\ d # "none"
        /\ job = "none"
        /\ UNCHANGED <<now, dumpSize, debounceMap, records, dir, files, dumpIndex>>
    BY <1>2, Beginning
  <2>2. contexts'[d] \in Context
    BY <2>1 DEF TypeInv, TypeOK, Context
  <2>3. buildStoragePath(d, now) \in Path
    BY DEF buildStoragePath, Path, TypeInv, TypeOK
  <2>4. temps' \subseteq Path
    BY <1>2, <2>3 DEF collectDump, WriteTemp, TypeInv, TypeOK
  <2>5. \A e \in DOMAIN contexts' :
       e # job' /\ contexts'[e].state = "RetryWaiting" =>
         contexts'[e].retryWaitRemaining >= 1
    BY <2>1 DEF TypeInv, TypeOK
  <2> QED  BY <2>1, <2>2, <2>4, <2>5 DEF TypeInv, TypeOK
<1>3. CASE callGetDiagnostics
  <2>1. /\ job \in DOMAIN contexts /\ job # "none" /\ contexts[job] \in Context
    BY <1>3, JobIsInFlight DEF callGetDiagnostics
  <2> DEFINE n == contexts[job].attempt + 1
  <2>2. n \in Nat /\ n >= 1
    BY <2>1 DEF Context
  <2>3. UNCHANGED <<now, dumpSize, debounceMap, dir, files, temps, dumpIndex>>
    BY <1>3 DEF callGetDiagnostics, storeVars
  <2>4. CASE contexts' = [contexts EXCEPT ![job] =
                [@ EXCEPT !.state = "PollingStatus", !.attempt = n,
                          !.elapsedPollSecs = 0]] /\ Return
    <3>1. DOMAIN contexts' = DOMAIN contexts /\ contexts'[job].state = "PollingStatus"
          /\ contexts'[job] \in Context
          /\ \A e \in DOMAIN contexts : e # job => contexts'[e] = contexts[e]
      BY <2>1, <2>2, <2>4 DEF Context
    <3> QED  BY <2>1, <2>3, <2>4, <3>1, Returning DEF TypeInv, TypeOK
  <2>5. CASE n <= MaxRetries /\ contexts' = [contexts EXCEPT ![job] =
                [@ EXCEPT !.state = "RetryWaiting", !.attempt = n,
                          !.retryWaitRemaining = waitSecs(n)]] /\ Return
    <3>1. waitSecs(n) \in Nat /\ waitSecs(n) >= 1
      BY <2>2, <2>5, WaitIsPositive
    <3>2. DOMAIN contexts' = DOMAIN contexts
          /\ contexts'[job].retryWaitRemaining >= 1 /\ contexts'[job] \in Context
          /\ \A e \in DOMAIN contexts : e # job => contexts'[e] = contexts[e]
      BY <2>1, <2>2, <2>5, <3>1 DEF Context
    <3> QED  BY <2>1, <2>3, <2>5, <3>2, Returning DEF TypeInv, TypeOK
  <2>6. CASE contexts' = [contexts EXCEPT ![job].attempt = n] /\ Fail(job)
    <3>1. DOMAIN contexts' = DOMAIN contexts /\ contexts'[job] \in Context
          /\ \A e \in DOMAIN contexts : e # job => contexts'[e] = contexts[e]
      BY <2>1, <2>2, <2>6 DEF Context
    <3> QED  BY <2>1, <2>3, <2>6, <3>1, Failing DEF TypeInv, TypeOK
  <2> QED  BY <1>3, <2>4, <2>5, <2>6 DEF callGetDiagnostics
<1>4. ASSUME NEW d \in Devices, tickRetryWaiting(d) PROVE TypeInv'
  <2> DEFINE remaining == contexts[d].retryWaitRemaining - 1
  <2>1. /\ pc = "idle" /\ d \in DOMAIN contexts /\ contexts[d] \in Context /\ now \in Nat
        /\ contexts[d].state = "RetryWaiting" /\ job = "none" /\ d # "none"
    BY <1>4 DEF tickRetryWaiting, TimerExpires, TypeInv, TypeOK
  <2>2. remaining \in Nat
    BY <2>1 DEF TypeInv, Context
  <2>3. /\ contexts' = [contexts EXCEPT ![d].retryWaitRemaining = remaining,
                                        ![d].due = now + 1]
        /\ UNCHANGED <<now, dumpSize, debounceMap, dir, files, temps, dumpIndex>>
    BY <1>4 DEF tickRetryWaiting, storeVars
  <2>4. /\ DOMAIN contexts' = DOMAIN contexts /\ contexts'[d] \in Context
        /\ contexts'[d].retryWaitRemaining = remaining
        /\ \A e \in DOMAIN contexts : e # d => contexts'[e] = contexts[e]
    BY <2>1, <2>2, <2>3 DEF Context
  <2>5. CASE remaining > 0 /\ Return
    <3>1. /\ pc' = "idle" /\ outcome' = "none" /\ job' = "none"
          /\ ledger' \in Seq(DumpRecord \cup {HalfRecord}) /\ missed' \in Nat
      BY <2>5, Returning
    <3>2. contexts'[d].retryWaitRemaining >= 1
      BY <2>2, <2>4, <2>5
    <3> QED  BY <2>1, <2>3, <2>4, <3>1, <3>2 DEF TypeInv, TypeOK
  <2>6. CASE GoTo("getDiagnostics") /\ job' = d /\ UNCHANGED records
    <3>1. /\ pc' = "getDiagnostics" /\ outcome' = "none"
          /\ ledger' = ledger /\ missed' = missed
      BY <2>6 DEF GoTo
    <3> QED  BY <2>1, <2>2, <2>3, <2>4, <2>6, <3>1 DEF TypeInv, TypeOK
  <2> QED  BY <1>4, <2>5, <2>6 DEF tickRetryWaiting
<1>5. ASSUME NEW d \in Devices, pollAsyncStatus(d) PROVE TypeInv'
  <2> DEFINE elapsed == contexts[d].elapsedPollSecs + 1
  <2>1. /\ pc = "idle" /\ d \in DOMAIN contexts /\ contexts[d] \in Context /\ now \in Nat
        /\ contexts[d].state = "PollingStatus" /\ job = "none" /\ d # "none"
    BY <1>5 DEF pollAsyncStatus, TimerExpires, TypeInv, TypeOK
  <2>2. /\ contexts' = [contexts EXCEPT ![d].elapsedPollSecs = elapsed,
                                        ![d].due = now + 1]
        /\ UNCHANGED <<now, dumpSize, debounceMap, dir, files, temps, dumpIndex>>
    BY <1>5 DEF pollAsyncStatus, storeVars
  <2>3. /\ DOMAIN contexts' = DOMAIN contexts /\ contexts'[d] \in Context
        /\ contexts'[d].state = "PollingStatus"
        /\ \A e \in DOMAIN contexts : e # d => contexts'[e] = contexts[e]
    BY <2>1, <2>2 DEF Context
  <2>4. CASE GoTo("complete") /\ job' = d /\ UNCHANGED records
    BY <2>1, <2>2, <2>3, <2>4 DEF TypeInv, TypeOK, GoTo
  <2>5. CASE Fail(d)
    BY <2>1, <2>2, <2>3, <2>5, Failing DEF TypeInv, TypeOK
  <2>6. CASE Return
    BY <2>1, <2>2, <2>3, <2>6, Returning DEF TypeInv, TypeOK
  <2> QED  BY <1>5, <2>4, <2>5, <2>6 DEF pollAsyncStatus
<1>6. CASE readDump
  <2>1. /\ job \in DOMAIN contexts /\ job # "none"
        /\ UNCHANGED <<now, contexts, debounceMap, dir, files, temps, dumpIndex>>
    BY <1>6, JobIsInFlight DEF readDump, Unchanged, storeVars
  <2>2. dumpSize' \in Nat
    BY <1>6 DEF readDump, TypeInv, TypeOK
  <2>3. CASE \E why \in {"unreadable", "empty"} : Leave(why)
    BY <2>1, <2>2, <2>3 DEF Leave, TypeInv, TypeOK
  <2>4. CASE Fail(job)
    BY <2>1, <2>2, <2>4, Failing DEF TypeInv, TypeOK
  <2>5. CASE GoTo("write") /\ UNCHANGED <<job, records>>
    BY <2>1, <2>2, <2>5 DEF GoTo, TypeInv, TypeOK
  <2> QED  BY <1>6, <2>3, <2>4, <2>5 DEF readDump
<1>7. CASE writeStoreTemp
  <2>1. job \in DOMAIN contexts /\ job # "none"
    BY <1>7, JobIsInFlight DEF writeStoreTemp
  <2>2. storePath \in Path
    BY <2>1, PathsAreTyped DEF storePath
  <2>3. /\ pc' = "rename" /\ outcome' = "none" /\ temps' \subseteq Path
        /\ UNCHANGED <<now, contexts, job, dumpSize, debounceMap, records, dir, files, dumpIndex>>
    BY <1>7, <2>2 DEF writeStoreTemp, Unchanged, GoTo, WriteTemp, TypeInv, TypeOK
  <2> QED  BY <2>1, <2>3 DEF TypeInv, TypeOK
<1>8. CASE renameStoreTemp
  <2>1. job \in DOMAIN contexts /\ job # "none"
    BY <1>8, JobIsInFlight DEF renameStoreTemp
  <2>2. storePath \in Path
    BY <2>1, PathsAreTyped DEF storePath
  <2>3. /\ pc' = "evict" /\ outcome' = "none" /\ temps' \subseteq Path
        /\ UNCHANGED <<now, contexts, job, dumpSize, debounceMap, records, dir>>
        /\ files' = Put(files, storePath, dumpSize) /\ dumpIndex' = Append(dumpIndex, storePath)
    BY <1>8, <2>2 DEF renameStoreTemp, Unchanged, GoTo, RenameTemp, TypeInv, TypeOK
  <2>4. /\ DOMAIN files' = DOMAIN files \cup {storePath}
        /\ \A p \in DOMAIN files' : files'[p] \in Nat
    BY <2>3 DEF Put, TypeInv, TypeOK
  <2>5. IsFiniteSet(DOMAIN files')
    BY <2>4, FS_AddElement DEF TypeInv
  <2>6. dumpIndex' \in Seq(Path)
    BY <2>2, <2>3 DEF TypeInv, TypeOK
  <2> QED  BY <2>1, <2>2, <2>3, <2>4, <2>5, <2>6 DEF TypeInv, TypeOK
<1>9. CASE storeFails
  <2>1. job \in DOMAIN contexts /\ job # "none"
    BY <1>9, JobIsInFlight DEF storeFails
  <2>2. /\ UNCHANGED <<now, contexts, dumpSize, debounceMap, dir, files, dumpIndex>>
        /\ temps' \subseteq Path
    BY <1>9 DEF storeFails, Unchanged, RemoveTemp, storeVars, TypeInv, TypeOK
  <2>3. Fail(job)
    BY <1>9 DEF storeFails
  <2> QED  BY <2>1, <2>2, <2>3, Failing DEF TypeInv, TypeOK
<1>10. CASE enforceEviction
  <2>1. /\ job \in DOMAIN contexts /\ job # "none"
        /\ UNCHANGED <<now, contexts, job, dumpSize, debounceMap, records>>
    BY <1>10, JobIsInFlight DEF enforceEviction, Unchanged
  <2>2. CASE \E removed \in BOOLEAN : evictOldest(removed) /\ UNCHANGED <<pc, outcome>>
    <3>1. /\ UNCHANGED <<dir, temps, pc, outcome>>
          /\ dumpIndex # <<>> /\ dumpIndex' = Tail(dumpIndex)
      BY <2>2 DEF evictOldest, mustEvict
    <3>2. dumpIndex' \in Seq(Path)
      BY <3>1 DEF TypeInv, TypeOK
    <3>3. DOMAIN files' \subseteq DOMAIN files /\ \A p \in DOMAIN files' : files'[p] = files[p]
      BY <2>2 DEF evictOldest, Restrict
    <3>4. IsFiniteSet(DOMAIN files')
      BY <3>3, FS_Subset DEF TypeInv
    <3> QED  BY <2>1, <3>1, <3>2, <3>3, <3>4 DEF TypeInv, TypeOK
  <2>3. CASE UNCHANGED storeVars /\ GoTo("record")
    BY <1>10, <2>1, <2>3 DEF storeVars, GoTo, TypeInv, TypeOK
  <2> QED  BY <1>10, <2>2, <2>3 DEF enforceEviction
<1>11. CASE recordSuccess
  <2>1. job \in DOMAIN contexts /\ job \in Devices /\ job # "none" /\ contexts[job] \in Context
    BY <1>11, JobIsInFlight DEF recordSuccess
  <2>2. storePath \in Path
    BY <2>1, PathsAreTyped DEF storePath
  <2>3. /\ pc' = "cleanup" /\ outcome' = "recorded"
        /\ UNCHANGED <<now, contexts, job, dumpSize, dir, files, temps, dumpIndex>>
        /\ debounceMap' = Put(debounceMap, job, now)
        /\ appendDumpRecord(job, "SUCCESS", contexts[job].eventTimestamp, storePath)
    BY <1>11 DEF recordSuccess, Unchanged, storeVars
  <2>4. ledger' \in Seq(DumpRecord \cup {HalfRecord}) /\ missed' \in Nat
    BY <2>1, <2>2, <2>3, RecordIsTyped DEF Context
  <2>5. /\ DOMAIN debounceMap' \subseteq Devices
        /\ \A d \in DOMAIN debounceMap' : debounceMap'[d] \in Nat
    BY <2>1, <2>3 DEF Put, TypeInv, TypeOK
  <2> QED  BY <2>1, <2>3, <2>4, <2>5 DEF TypeInv, TypeOK
<1>12. CASE cleanupContext
  <2>1. /\ UNCHANGED <<now, debounceMap, dir, files, dumpIndex>> /\ dumpSize' = 0
        /\ temps' \subseteq Path /\ Return
        /\ contexts' = Restrict(contexts, DOMAIN contexts \ {job})
    BY <1>12 DEF cleanupContext, RemoveTemp, TypeInv, TypeOK
  <2>2. /\ DOMAIN contexts' = DOMAIN contexts \ {job}
        /\ \A d \in DOMAIN contexts' : contexts'[d] = contexts[d]
    BY <2>1 DEF Restrict
  <2> QED  BY <2>1, <2>2, Returning DEF TypeInv, TypeOK
<1>13. CASE Rollover
  BY <1>13 DEF Rollover, handlerVars, TypeInv, TypeOK
<1>14. CASE Die
  <2>1. /\ pc' = "down" /\ outcome' = "none" /\ job' = "none" /\ dumpSize' = 0
        /\ contexts' = <<>> /\ debounceMap' = <<>> /\ dumpIndex' = <<>>
        /\ UNCHANGED <<now, missed, dir, files, temps>>
    BY <1>14 DEF Die
  <2>3. ledger' \in {ledger, Append(ledger, HalfRecord)}
    BY <1>14 DEF Die
  <2>4. ledger' \in Seq(DumpRecord \cup {HalfRecord})
    BY <2>3, LongerLedger DEF TypeInv, TypeOK
  <2>2. DOMAIN contexts' = {} /\ DOMAIN debounceMap' = {} /\ dumpIndex' \in Seq(Path)
    BY <2>1
  <2> QED  BY <2>1, <2>2, <2>4 DEF TypeInv, TypeOK
<1>15. CASE Restart
  <2>1. /\ pc' = "idle" /\ outcome' = "none" /\ job' = "none" /\ dir' = dir + 1 /\ pc = "down"
        /\ UNCHANGED <<now, dumpSize, contexts, debounceMap, files, temps, records>>
    BY <1>15 DEF Restart, Return, GoTo
  <2>2. dumpIndex' \in [1..Cardinality(DOMAIN files) -> DOMAIN files]
    BY <1>15 DEF Restart, rebuildIndex, SetToSeqs
  <2>3. Cardinality(DOMAIN files) \in Nat /\ DOMAIN files \subseteq Path
    BY FS_CardinalityType DEF TypeInv, TypeOK
  <2>4. dumpIndex' \in Seq(Path)
    BY <2>2, <2>3
  <2> QED  BY <2>1, <2>4 DEF TypeInv, TypeOK
<1>16. CASE Tick
  BY <1>16 DEF Tick, storeVars, TypeInv, TypeOK
<1>17. CASE UNCHANGED vars
  BY <1>17 DEF vars, handlerVars, storeVars, TypeInv, TypeOK
<1> QED
  BY <1>1, <1>2, <1>3, <1>4, <1>5, <1>6, <1>7, <1>8, <1>9, <1>10, <1>11, <1>12,
     <1>13, <1>14, <1>15, <1>16, <1>17 DEF Next, Callback

(* Whatever the environment does, every variable keeps its type: at most   *)
(* one callback runs, it is about a device in flight, and no path, record  *)
(* or index entry is malformed.                                            *)
THEOREM TypesInvariant == Spec => []TypeInv
<1> QED  BY InitTypes, StepTypes, PTL DEF Spec

(* In particular the collections, the index and the files keep their types *)
(* through every failure and restart (TypeOK of the handler).              *)
THEOREM HandlerTypes == Spec => []TypeOK
<1>1. TypeInv => TypeOK
  BY DEF TypeInv
<1> QED  BY TypesInvariant, <1>1, PTL

-----------------------------------------------------------------------------
(* The ledger.  An unreadable temporary file leaves no record, a           *)
(* difference between code and documentation that is left aside here.      *)
Open == DOMAIN contexts \ Recorded
Empty == IF outcome = "empty" THEN {job} ELSE {}
ledgerVars == <<pc # "down", Open, Empty, ledger, missed>>

LEMMA Appending ==
  ASSUME TypeInv, NEW d \in Devices, NEW status \in {"SUCCESS", "FAILED"},
         NEW time \in Nat, NEW path \in Path \cup {NoDump},
         appendDumpRecord(d, status, time, path)
  PROVE  Ledger!AppendRecord(d, status)
<1> DEFINE e == [device |-> d, status |-> status, eventTimeStamp |-> time, filePath |-> path]
<1>1. ledger \in Seq(DumpRecord \cup {HalfRecord}) /\ e \in DumpRecord
  BY DEF TypeInv, TypeOK, DumpRecord
<1>2. \/ ledger' = Append(ledger, e) /\ UNCHANGED missed
      \/ /\ "recordFails" \in Hazards /\ missed' = missed + 1
         /\ UNCHANGED ledger \/ ledger' = Append(ledger, HalfRecord)
  BY DEF appendDumpRecord
<1>3. e.device = d /\ e.status = status
  OBVIOUS
<1> HIDE DEF e
<1>4. CASE ledger' = Append(ledger, e) /\ UNCHANGED missed
  <2>1. /\ Len(ledger') = Len(ledger) + 1
        /\ ledger'[Len(ledger')] = e
        /\ \A i \in 1..Len(ledger) : ledger'[i] = ledger[i]
    BY <1>1, <1>4
  <2>2. SubSeq(ledger', 1, Len(ledger)) = ledger
    BY <1>1, <1>4
  <2> QED  BY <1>3, <1>4, <2>1, <2>2 DEF Ledger!AppendRecord, Ledger!Write
<1>5. CASE /\ "recordFails" \in Hazards /\ missed' = missed + 1
           /\ UNCHANGED ledger \/ ledger' = Append(ledger, HalfRecord)
  BY <1>5 DEF Ledger!AppendRecord, Ledger!Miss, Ledger!LeaveHalf
<1> QED  BY <1>2, <1>4, <1>5

(* A failure closes the collection with an attempt to record it.           *)
LEMMA FailureIsRecorded ==
  ASSUME TypeInv, NEW d \in DOMAIN contexts, Fail(d), outcome = "none",
         DOMAIN contexts' = DOMAIN contexts, pc # "down"
  PROVE  Ledger!Next
<1>1. d \in Devices /\ now \in Nat
  BY DEF TypeInv, TypeOK
<1>2. Ledger!AppendRecord(d, "FAILED")
  BY <1>1, Appending DEF Fail, recordCollectionFailure
<1>3. /\ Open = DOMAIN contexts /\ Open' = DOMAIN contexts \ {d}
      /\ Empty = {} /\ Empty' = {} /\ pc' # "down"
  BY DEF Open, Empty, Recorded, Fail
<1>4. Ledger!Record(d, "FAILED")
  BY <1>2, <1>3 DEF Ledger!Record, Open, Empty
<1> QED  BY <1>1, <1>3, <1>4 DEF Ledger!Next

LEMMA StepLedger ==
  ASSUME TypeInv, [Next]_vars, "unreadableTemp" \notin Hazards,
         outcome # "unreadable"
  PROVE  [Ledger!Next]_ledgerVars /\ outcome' # "unreadable"
<1> USE HandlerAssumption
<1>0. pc # "cleanup" => outcome = "none" /\ Open = DOMAIN contexts /\ Empty = {}
  BY DEF TypeInv, Open, Empty, Recorded
<1>1. ASSUME NEW d \in Devices, RejectEvent(d)
      PROVE  Ledger!Next /\ outcome' # "unreadable"
  <2>1. Ledger!AppendRecord(d, "FAILED")
    BY <1>1, Appending DEF RejectEvent, recordCollectionFailure, TypeInv, TypeOK
  <2>2. UNCHANGED <<pc, contexts, outcome, job>> /\ pc # "down"
    BY <1>1 DEF RejectEvent, Event
  <2>3. Ledger!TurnDown(d)
    BY <2>1, <2>2 DEF Ledger!TurnDown, Recorded
  <2> QED  BY <2>2, <2>3 DEF Ledger!Next
<1>2. ASSUME NEW d \in Devices, collectDump(d)
      PROVE  Ledger!Next /\ outcome' # "unreadable"
  <2>1. /\ pc = "idle" /\ pc' = "getDiagnostics" /\ outcome' = "none"
        /\ d \notin DOMAIN contexts /\ DOMAIN contexts' = {d} \cup DOMAIN contexts
        /\ UNCHANGED records
    BY <1>2, Beginning
  <2>2. Open' = Open \cup {d} /\ Empty' = {}
    BY <1>0, <2>1 DEF Open, Empty, Recorded
  <2>3. Ledger!Begin(d)
    BY <1>0, <2>1, <2>2 DEF Ledger!Begin, Open, Empty
  <2> QED  BY <2>1, <2>3 DEF Ledger!Next
<1>3. ASSUME pc \notin {"cleanup", "down"}, pc' \notin {"cleanup", "down"},
             outcome' = "none", DOMAIN contexts' = DOMAIN contexts, UNCHANGED records
      PROVE  UNCHANGED ledgerVars /\ outcome' # "unreadable"
  BY <1>0, <1>3 DEF ledgerVars, Open, Empty, Recorded
<1>4. CASE callGetDiagnostics
  <2>1. pc = "getDiagnostics" /\ DOMAIN contexts' = DOMAIN contexts
    BY <1>4 DEF callGetDiagnostics
  <2>2. CASE Return
    BY <1>3, <2>1, <2>2 DEF Return, GoTo
  <2>3. CASE Fail(job)
    BY <1>0, <2>1, <2>3, JobIsInFlight, FailureIsRecorded DEF Fail
  <2> QED  BY <1>4, <2>2, <2>3 DEF callGetDiagnostics
<1>5. ASSUME NEW d \in Devices, tickRetryWaiting(d)
      PROVE  UNCHANGED ledgerVars /\ outcome' # "unreadable"
  BY <1>3, <1>5 DEF tickRetryWaiting, TimerExpires, Return, GoTo
<1>6. ASSUME NEW d \in Devices, pollAsyncStatus(d)
      PROVE  [Ledger!Next]_ledgerVars /\ outcome' # "unreadable"
  <2>1. pc = "idle" /\ d \in DOMAIN contexts /\ DOMAIN contexts' = DOMAIN contexts
    BY <1>6 DEF pollAsyncStatus, TimerExpires
  <2>2. CASE GoTo("complete") /\ UNCHANGED records
    BY <1>3, <2>1, <2>2 DEF GoTo
  <2>3. CASE Return
    BY <1>3, <2>1, <2>3 DEF Return, GoTo
  <2>4. CASE Fail(d)
    BY <1>0, <2>1, <2>4, FailureIsRecorded DEF Fail
  <2> QED  BY <1>6, <2>2, <2>3, <2>4 DEF pollAsyncStatus
<1>7. CASE readDump
  <2>1. pc = "complete" /\ DOMAIN contexts' = DOMAIN contexts /\ job \in DOMAIN contexts
    BY <1>7, JobIsInFlight DEF readDump, Unchanged
  <2>2. CASE Leave("empty")
    <3>1. /\ Open = DOMAIN contexts /\ Empty = {} /\ job \in Devices
          /\ Open' = DOMAIN contexts \ {job} /\ Empty' = {job}
          /\ pc' = "cleanup" /\ outcome' = "empty" /\ UNCHANGED records
      BY <1>0, <2>1, <2>2 DEF Leave, Open, Empty, Recorded, TypeInv, TypeOK
    <3>2. Ledger!FindEmpty(job)
      BY <2>1, <3>1 DEF Ledger!FindEmpty, Open, Empty
    <3> QED  BY <2>1, <3>1, <3>2 DEF Ledger!Next
  <2>3. CASE Fail(job)
    BY <1>0, <2>1, <2>3, FailureIsRecorded DEF Fail
  <2>4. CASE GoTo("write") /\ UNCHANGED records
    BY <1>3, <2>1, <2>4 DEF GoTo
  <2> QED  BY <1>7, <2>2, <2>3, <2>4 DEF readDump
<1>8. CASE writeStoreTemp \/ renameStoreTemp
  BY <1>3, <1>8 DEF writeStoreTemp, renameStoreTemp, Unchanged, GoTo
<1>9. CASE storeFails
  <2>1. pc = "rename" /\ DOMAIN contexts' = DOMAIN contexts /\ Fail(job)
    BY <1>9 DEF storeFails, Unchanged
  <2> QED  BY <1>0, <2>1, JobIsInFlight, FailureIsRecorded DEF Fail
<1>10. CASE enforceEviction
  BY <1>0, <1>3, <1>10 DEF enforceEviction, Unchanged, GoTo
<1>11. CASE recordSuccess
  <2>1. /\ pc = "record" /\ pc' = "cleanup" /\ outcome' = "recorded"
        /\ UNCHANGED <<contexts, job>>
        /\ appendDumpRecord(job, "SUCCESS", contexts[job].eventTimestamp, storePath)
    BY <1>11 DEF recordSuccess, Unchanged
  <2>2. job \in DOMAIN contexts /\ job \in Devices /\ contexts[job].eventTimestamp \in Nat
    BY <2>1, JobIsInFlight DEF Context
  <2>3. storePath \in Path
    BY <2>2, PathsAreTyped DEF storePath
  <2>4. Ledger!AppendRecord(job, "SUCCESS")
    BY <2>1, <2>2, <2>3, Appending
  <2>5. /\ Open = DOMAIN contexts /\ Open' = DOMAIN contexts \ {job}
        /\ Empty = {} /\ Empty' = {}
    BY <1>0, <2>1 DEF Open, Empty, Recorded
  <2>6. Ledger!Record(job, "SUCCESS")
    BY <2>2, <2>4, <2>5 DEF Ledger!Record, Open, Empty
  <2> QED  BY <2>1, <2>2, <2>6 DEF Ledger!Next
<1>12. CASE cleanupContext
  <2>1. /\ pc = "cleanup" /\ pc' = "idle" /\ outcome' = "none"
        /\ DOMAIN contexts' = DOMAIN contexts \ {job} /\ UNCHANGED records
    BY <1>12 DEF cleanupContext, Return, GoTo, Restrict
  <2>2. Open' = DOMAIN contexts \ {job} /\ Empty' = {}
    BY <2>1 DEF Open, Empty, Recorded
  <2>3. outcome \in {"recorded", "empty"}
    BY <2>1 DEF TypeInv, TypeOK
  <2>4. Open = DOMAIN contexts \ {job} /\ job \in Devices
    BY <2>1, <2>3, JobIsInFlight DEF Open, Recorded
  <2>5. CASE outcome = "recorded"
    BY <2>1, <2>2, <2>4, <2>5 DEF ledgerVars, Empty
  <2>6. CASE outcome = "empty"
    <3>1. Empty = {job}
      BY <2>6 DEF Empty
    <3>2. Ledger!Discard(job)
      BY <2>1, <2>2, <2>4, <3>1 DEF Ledger!Discard, Open, Empty
    <3> QED  BY <2>1, <2>4, <3>2 DEF Ledger!Next
  <2> QED  BY <2>1, <2>3, <2>5, <2>6
<1>13. CASE Rollover \/ Tick \/ UNCHANGED vars
  BY <1>13 DEF Rollover, Tick, vars, handlerVars, ledgerVars, Open, Empty, Recorded
<1>14. CASE Die
  <2>1. /\ pc # "down" /\ pc' = "down" /\ outcome' = "none" /\ UNCHANGED missed
        /\ DOMAIN contexts' = {}
        /\ UNCHANGED ledger \/ ledger' = Append(ledger, HalfRecord)
    BY <1>14 DEF Die
  <2>2. Open' = {} /\ Empty' = {}
    BY <2>1 DEF Open, Empty, Recorded
  <2>3. Ledger!Crash
    BY <2>1, <2>2 DEF Ledger!Crash, Ledger!LeaveHalf, Open, Empty
  <2> QED  BY <2>1, <2>3 DEF Ledger!Next
<1>15. CASE Restart
  <2>1. /\ pc = "down" /\ pc' = "idle" /\ outcome' = "none" /\ UNCHANGED <<contexts, records>>
    BY <1>15 DEF Restart, Return, GoTo
  <2>2. UNCHANGED <<Open, Empty>>
    BY <1>0, <2>1 DEF Open, Empty, Recorded
  <2>3. Ledger!Restart
    BY <2>1, <2>2 DEF Ledger!Restart, Open, Empty
  <2> QED  BY <2>1, <2>3 DEF Ledger!Next
<1> QED
  BY <1>1, <1>2, <1>4, <1>5, <1>6, <1>7, <1>8, <1>9, <1>10, <1>11, <1>12,
     <1>13, <1>14, <1>15 DEF Next, Callback

(* However collections of several devices are retried, polled, stored and  *)
(* interleaved, and whenever the process dies, each one ends with exactly  *)
(* one attempt to record it, as long as the dump that was fetched can be   *)
(* read back; and an attempt leaves exactly one record, unless records can *)
(* fail to be written, when the handler goes on without it.                *)
THEOREM HandlerKeepsLedger ==
  ASSUME "unreadableTemp" \notin Hazards
  PROVE  Spec => LedgerSpec
<1> DEFINE Readable == outcome # "unreadable"
<1>1. Init => Ledger!Init /\ Readable
  <2> SUFFICES ASSUME Init PROVE Ledger!Init /\ Readable
    OBVIOUS
  <2>1. /\ pc = "idle" /\ contexts = <<>> /\ outcome = "none"
        /\ ledger = <<>> /\ missed = 0
    BY DEF Init
  <2>2. DOMAIN contexts = {}
    BY <2>1
  <2> QED  BY <2>1, <2>2 DEF Ledger!Init, Recorded
<1>2. TypeInv /\ Readable /\ [Next]_vars => [Ledger!Next]_ledgerVars /\ Readable'
  BY StepLedger
<1>3. TypeInv /\ Readable /\ [Next]_vars =>
        [Ledger!Next]_<<pc # "down", DOMAIN contexts \ Recorded,
                        IF outcome = "empty" THEN {job} ELSE {}, ledger, missed>>
  BY <1>2 DEF ledgerVars, Open, Empty
<1> HIDE DEF Readable
<1> QED  BY <1>1, <1>2, <1>3, TypesInvariant, PTL DEF Spec, LedgerSpec, Ledger!Spec

-----------------------------------------------------------------------------
(* Collections: one begins with collectDump, ends with cleanupContext or   *)
(* with the process, and keeps its time and directory in between.          *)
LEMMA CollectionsLast ==
  ASSUME TypeInv, [Next]_vars
  PROVE  /\ \A d \in DOMAIN contexts \cap DOMAIN contexts' :
              /\ contexts'[d].eventTimestamp = contexts[d].eventTimestamp
              /\ contexts'[d].dir = contexts[d].dir
              /\ \/ contexts'[d].due = contexts[d].due
                 \/ contexts'[d].due = now + 1 /\ now' = now
         /\ \A d \in DOMAIN contexts' \ DOMAIN contexts : d \in Devices /\ collectDump(d)
         /\ \A d \in DOMAIN contexts \ DOMAIN contexts' :
              Die \/ (cleanupContext /\ d = job)
<1> DEFINE Kept == /\ DOMAIN contexts' = DOMAIN contexts
                   /\ \A d \in DOMAIN contexts :
                        /\ contexts'[d].eventTimestamp = contexts[d].eventTimestamp
                        /\ contexts'[d].dir = contexts[d].dir
                        /\ \/ contexts'[d].due = contexts[d].due
                           \/ contexts'[d].due = now + 1 /\ now' = now
<1>1. CASE UNCHANGED contexts
  BY <1>1
<1>2. CASE callGetDiagnostics
  <2>1. job \in DOMAIN contexts /\ contexts[job] \in Context
    BY <1>2, JobIsInFlight DEF callGetDiagnostics
  <2> DEFINE n == contexts[job].attempt + 1
  <2>2. CASE contexts' = [contexts EXCEPT ![job] =
                [@ EXCEPT !.state = "PollingStatus", !.attempt = n,
                          !.elapsedPollSecs = 0]]
    BY <2>1, <2>2 DEF Context
  <2>3. CASE contexts' = [contexts EXCEPT ![job] =
                [@ EXCEPT !.state = "RetryWaiting", !.attempt = n,
                          !.retryWaitRemaining = waitSecs(n)]]
    BY <2>1, <2>3 DEF Context
  <2>4. CASE contexts' = [contexts EXCEPT ![job].attempt = n]
    BY <2>1, <2>4 DEF Context
  <2> QED  BY <1>2, <2>2, <2>3, <2>4 DEF callGetDiagnostics
<1>3. ASSUME NEW e \in Devices, tickRetryWaiting(e) \/ pollAsyncStatus(e)
      PROVE  Kept
  <2>1. e \in DOMAIN contexts /\ contexts[e] \in Context
    BY <1>3 DEF tickRetryWaiting, pollAsyncStatus, TimerExpires, TypeInv, TypeOK
  <2> QED  BY <1>3, <2>1 DEF tickRetryWaiting, pollAsyncStatus, Context
<1>4. ASSUME NEW e \in Devices, collectDump(e)
      PROVE  /\ DOMAIN contexts' = {e} \cup DOMAIN contexts
             /\ \A d \in DOMAIN contexts : contexts'[d] = contexts[d]
  BY <1>4, Beginning
<1>5. CASE cleanupContext
  <2>1. /\ DOMAIN contexts' = DOMAIN contexts \ {job}
        /\ \A d \in DOMAIN contexts' : contexts'[d] = contexts[d]
    BY <1>5 DEF cleanupContext, Restrict
  <2> QED  BY <1>5, <2>1
<1>6. CASE Die
  <2>1. DOMAIN contexts' = {}
    BY <1>6 DEF Die
  <2> QED  BY <1>6, <2>1
<1>7. ASSUME NEW d \in Devices, RejectEvent(d) PROVE UNCHANGED contexts
  BY <1>7 DEF RejectEvent
<1>8. CASE readDump \/ writeStoreTemp \/ renameStoreTemp \/ storeFails
           \/ enforceEviction \/ recordSuccess
  BY <1>1, <1>8 DEF readDump, writeStoreTemp, renameStoreTemp, storeFails,
                    enforceEviction, recordSuccess, Unchanged
<1>9. CASE Rollover \/ Restart \/ Tick \/ UNCHANGED vars
  BY <1>1, <1>9 DEF Rollover, Restart, Tick, vars, handlerVars
<1> QED
  BY <1>1, <1>2, <1>3, <1>4, <1>5, <1>6, <1>7, <1>8, <1>9 DEF Next, Callback

(* A collection has begun by now and its timer expires later than that, so *)
(* the end of a collection is later than its beginning.                    *)
Finishing == {"complete", "write", "rename", "evict", "record"}
TimeInv ==
  /\ \A d \in DOMAIN contexts :
       contexts[d].eventTimestamp <= now /\ contexts[d].eventTimestamp < contexts[d].due
  /\ pc \in Finishing => contexts[job].eventTimestamp < now

LEMMA StepTime ==
  ASSUME TypeInv, TypeInv', TimeInv, [Next]_vars
  PROVE  TimeInv'
<1>1. now \in Nat /\ now' \in Nat /\ now <= now'
  <2>1. now' = now \/ now' = now + 1
    BY DEF Next, Callback, RejectEvent, collectDump, tickRetryWaiting, pollAsyncStatus,
           callGetDiagnostics, readDump, writeStoreTemp, renameStoreTemp, storeFails,
           enforceEviction, recordSuccess, cleanupContext, Rollover, Die, Restart, Tick,
           vars, handlerVars, Unchanged
  <2> QED  BY <2>1 DEF TypeInv, TypeOK
<1>2. \A d \in DOMAIN contexts : contexts[d].eventTimestamp \in Nat /\ contexts[d].due \in Nat
  BY DEF TypeInv, TypeOK, Context
<1>3. ASSUME NEW d \in DOMAIN contexts'
      PROVE  contexts'[d].eventTimestamp <= now' /\ contexts'[d].eventTimestamp < contexts'[d].due
  <2>1. CASE d \in DOMAIN contexts
    BY <1>1, <1>2, <1>3, <2>1, CollectionsLast DEF TimeInv
  <2>2. CASE d \notin DOMAIN contexts
    <3>1. d \in Devices /\ collectDump(d)
      BY <1>3, <2>2, CollectionsLast
    <3>2. /\ contexts'[d] = [state |-> "AwaitingGetDiag", attempt |-> 0,
                           retryWaitRemaining |-> 0, elapsedPollSecs |-> 0,
                           eventTimestamp |-> now, dir |-> dir, due |-> now + 1]
          /\ now' = now
      BY <3>1, Beginning
    <3> QED  BY <1>1, <3>2
  <2> QED  BY <2>1, <2>2
<1>4. ASSUME pc' \in Finishing
      PROVE  contexts'[job'].eventTimestamp < now'
  <2>1. CASE pc \in Finishing /\ UNCHANGED <<job, contexts, now>>
    BY <2>1 DEF TimeInv
  <2>2. ASSUME NEW d \in Devices, pollAsyncStatus(d)
        PROVE  contexts'[job'].eventTimestamp < now'
    <3>1. job' = d /\ d \in DOMAIN contexts /\ now >= contexts[d].due /\ now' = now
          /\ DOMAIN contexts' = DOMAIN contexts
      BY <1>4, <2>2 DEF pollAsyncStatus, TimerExpires, Return, GoTo, Fail, Finishing
    <3>2. contexts'[d].eventTimestamp = contexts[d].eventTimestamp
      BY <3>1, CollectionsLast
    <3> QED  BY <1>1, <1>2, <3>1, <3>2 DEF TimeInv
  <2>3. ASSUME NEW d \in Devices, RejectEvent(d) \/ collectDump(d) \/ tickRetryWaiting(d)
        PROVE  FALSE
    BY <1>4, <2>3 DEF RejectEvent, collectDump, tickRetryWaiting, Event, TimerExpires,
                      Return, GoTo, Finishing
  <2>4. ~(callGetDiagnostics \/ cleanupContext \/ storeFails)
    BY <1>4 DEF callGetDiagnostics, cleanupContext, storeFails, Return, GoTo, Fail, Finishing
  <2>5. ~(Rollover \/ Die \/ Restart \/ Tick)
    BY <1>4 DEF Rollover, Die, Restart, Tick, handlerVars, Return, GoTo, Finishing
  <2>6. CASE readDump
    BY <1>4, <2>1, <2>6 DEF readDump, Leave, Fail, GoTo, Unchanged, Finishing
  <2>7. CASE writeStoreTemp \/ renameStoreTemp \/ enforceEviction \/ recordSuccess
    BY <1>4, <2>1, <2>7 DEF writeStoreTemp, renameStoreTemp, enforceEviction,
                            recordSuccess, GoTo, Unchanged, Finishing
  <2>8. CASE UNCHANGED vars
    BY <1>4, <2>1, <2>8 DEF vars, handlerVars
  <2> QED  BY <2>2, <2>3, <2>4, <2>5, <2>6, <2>7, <2>8 DEF Next, Callback
<1> QED  BY <1>3, <1>4 DEF TimeInv

LEMMA TimeInvariant == Spec => []TimeInv
<1>1. Init => TimeInv
  <2> SUFFICES ASSUME Init PROVE TimeInv
    OBVIOUS
  <2>1. DOMAIN contexts = {} /\ pc = "idle"
    BY DEF Init
  <2> QED  BY <2>1 DEF TimeInv, Finishing
<1>2. TypeInv /\ TypeInv' /\ TimeInv /\ [Next]_vars => TimeInv'
  BY StepTime
<1> QED  BY <1>1, <1>2, TypesInvariant, PTL DEF Spec

-----------------------------------------------------------------------------
(* The debounce window.  The time of a collection in flight is a window    *)
(* later than the last dump of its device, until that dump is its own.     *)
DebounceInv ==
  \A d \in DOMAIN contexts \cap DOMAIN debounceMap :
    \/ d = job /\ pc = "cleanup"
    \/ contexts[d].eventTimestamp - debounceMap[d] >= WindowSecs

LEMMA DebounceSteps ==
  ASSUME TypeInv, [Next]_vars
  PROVE  \/ UNCHANGED debounceMap
         \/ DOMAIN debounceMap' = {}
         \/ recordSuccess
<1>1. ASSUME NEW d \in Devices, RejectEvent(d) \/ collectDump(d) \/ tickRetryWaiting(d)
                                \/ pollAsyncStatus(d)
      PROVE  UNCHANGED debounceMap
  BY <1>1 DEF RejectEvent, collectDump, tickRetryWaiting, pollAsyncStatus
<1>2. callGetDiagnostics \/ readDump \/ writeStoreTemp \/ renameStoreTemp \/ storeFails
        \/ enforceEviction \/ cleanupContext \/ Rollover \/ Restart \/ Tick
      => UNCHANGED debounceMap
  BY DEF callGetDiagnostics, readDump, writeStoreTemp, renameStoreTemp, storeFails,
         enforceEviction, cleanupContext, Rollover, Restart, Tick, handlerVars
<1>3. Die => DOMAIN debounceMap' = {}
  BY DEF Die
<1> QED  BY <1>1, <1>2, <1>3 DEF Next, Callback, vars, handlerVars

(* The device of the clean up stays the job of the callback until the      *)
(* collection is forgotten.                                                *)
LEMMA CleanupLasts ==
  ASSUME TypeInv, [Next]_vars, pc = "cleanup", job \in DOMAIN contexts'
  PROVE  pc' = "cleanup" /\ job' = job
<1>1. ~cleanupContext /\ ~Die
  BY DEF cleanupContext, Die, Restrict
<1>2. \A d \in Devices : ~(RejectEvent(d) \/ collectDump(d) \/ tickRetryWaiting(d)
                           \/ pollAsyncStatus(d))
  BY DEF RejectEvent, collectDump, tickRetryWaiting, pollAsyncStatus, Event, TimerExpires
<1>3. ~(callGetDiagnostics \/ readDump \/ writeStoreTemp \/ renameStoreTemp \/ storeFails
        \/ enforceEviction \/ recordSuccess \/ Rollover \/ Restart \/ Tick)
  BY DEF callGetDiagnostics, readDump, writeStoreTemp, renameStoreTemp, storeFails,
         enforceEviction, recordSuccess, Rollover, Restart, Tick
<1> QED  BY <1>1, <1>2, <1>3 DEF Next, Callback, vars, handlerVars

LEMMA StepDebounce ==
  ASSUME TypeInv, TypeInv', TimeInv, DebounceInv, [Next]_vars
  PROVE  /\ DebounceInv'
         /\ \A d \in DOMAIN debounceMap \cap DOMAIN debounceMap' :
              debounceMap'[d] # debounceMap[d] =>
                debounceMap'[d] - debounceMap[d] >= WindowSecs
<1>1. CASE UNCHANGED debounceMap
  <2>1. ASSUME NEW d \in DOMAIN contexts' \cap DOMAIN debounceMap
        PROVE  \/ d = job' /\ pc' = "cleanup"
               \/ contexts'[d].eventTimestamp - debounceMap[d] >= WindowSecs
    <3>1. CASE d \notin DOMAIN contexts
      <4>1. d \in Devices /\ collectDump(d)
        BY <2>1, <3>1, CollectionsLast
      <4>2. /\ contexts'[d] = [state |-> "AwaitingGetDiag", attempt |-> 0,
                             retryWaitRemaining |-> 0, elapsedPollSecs |-> 0,
                             eventTimestamp |-> now, dir |-> dir, due |-> now + 1]
        BY <4>1, Beginning
      <4>3. now - debounceMap[d] >= WindowSecs
        BY <2>1, <4>1 DEF collectDump, Event, debounceCheck
      <4> QED  BY <4>2, <4>3
    <3>2. CASE d \in DOMAIN contexts /\ d = job /\ pc = "cleanup"
      BY <2>1, <3>2, CleanupLasts
    <3>3. CASE d \in DOMAIN contexts /\ ~(d = job /\ pc = "cleanup")
      BY <2>1, <3>3, CollectionsLast DEF DebounceInv
    <3> QED  BY <3>1, <3>2, <3>3
  <2> QED  BY <1>1, <2>1 DEF DebounceInv
<1>2. CASE DOMAIN debounceMap' = {}
  BY <1>2 DEF DebounceInv
<1>3. CASE recordSuccess
  <2>1. /\ pc = "record" /\ pc' = "cleanup" /\ UNCHANGED <<now, contexts, job>>
        /\ debounceMap' = Put(debounceMap, job, now)
    BY <1>3 DEF recordSuccess, Unchanged
  <2>2. job \in DOMAIN contexts
    BY <2>1, JobIsInFlight
  <2>3. /\ DOMAIN debounceMap' = DOMAIN debounceMap \cup {job}
        /\ debounceMap'[job] = now
        /\ \A d \in DOMAIN debounceMap : d # job => debounceMap'[d] = debounceMap[d]
    BY <2>1 DEF Put
  <2>4. contexts[job].eventTimestamp < now
    BY <2>1 DEF TimeInv, Finishing
  <2>5. now \in Nat /\ contexts[job].eventTimestamp \in Nat /\ WindowSecs \in Nat
        /\ \A d \in DOMAIN debounceMap : debounceMap[d] \in Nat
    BY <2>2, HandlerAssumption DEF TypeInv, TypeOK, Context
  <2>6. job \in DOMAIN debounceMap => contexts[job].eventTimestamp - debounceMap[job] >= WindowSecs
    BY <2>1, <2>2 DEF DebounceInv
  <2>7. job \in DOMAIN debounceMap => now - debounceMap[job] >= WindowSecs
    BY <2>4, <2>5, <2>6
  <2>8. DebounceInv'
    BY <2>1, <2>3 DEF DebounceInv
  <2> QED  BY <2>3, <2>7, <2>8
<1> QED  BY <1>1, <1>2, <1>3, DebounceSteps

(* Two dumps of a device that one process stores are a window apart,       *)
(* although the window is looked at when an event arrives and starts when  *)
(* the collection ends.                                                    *)
THEOREM DumpsAreApart == Spec => StoredDumpsAreApart
<1> DEFINE Apart == \A d \in DOMAIN debounceMap \cap DOMAIN debounceMap' :
                      debounceMap'[d] # debounceMap[d] =>
                        debounceMap'[d] - debounceMap[d] >= WindowSecs
<1>1. Init => DebounceInv
  <2> SUFFICES ASSUME Init PROVE DebounceInv
    OBVIOUS
  <2>1. DOMAIN contexts = {}
    BY DEF Init
  <2> QED  BY <2>1 DEF DebounceInv
<1>2. TypeInv /\ TypeInv' /\ TimeInv /\ DebounceInv /\ [Next]_vars => DebounceInv' /\ [Apart]_vars
  BY StepDebounce
<1> HIDE DEF Apart
<1>3. Spec => []DebounceInv /\ [][Apart]_vars
  BY <1>1, <1>2, TypesInvariant, TimeInvariant, PTL DEF Spec
<1> QED  BY <1>3, PTL DEF StoredDumpsAreApart, Apart

-----------------------------------------------------------------------------
(* Temporary files.  Every collection has one until its dump is stored,    *)
(* and the only other one is that of a store under way.                    *)
Stored == pc \in {"evict", "record", "cleanup"}
TempsInv ==
  /\ pc # "down"
  /\ \A p \in temps :
       \/ \E d \in DOMAIN contexts : p = tempFilePath(d)
       \/ pc = "rename" /\ p = storePath
  /\ \A d \in DOMAIN contexts : (d = job /\ Stored) \/ tempFilePath(d) \in temps

(* The name of a temporary file does not depend on the current directory.  *)
LEMMA TempsKeepTheirName ==
  ASSUME TypeInv, [Next]_vars, NEW d \in DOMAIN contexts \cap DOMAIN contexts'
  PROVE  tempFilePath(d)' = tempFilePath(d)
BY CollectionsLast DEF tempFilePath

LEMMA QuietForTemps ==
  ASSUME TypeInv, TempsInv, [Next]_vars, UNCHANGED temps, DOMAIN contexts' = DOMAIN contexts,
         pc # "rename", pc' # "down", Stored => Stored' /\ job' = job
  PROVE  TempsInv'
<1>1. ASSUME NEW p \in temps
      PROVE  \E d \in DOMAIN contexts' : p = tempFilePath(d)'
  BY <1>1, TempsKeepTheirName DEF TempsInv
<1>2. ASSUME NEW d \in DOMAIN contexts'
      PROVE  (d = job' /\ Stored') \/ tempFilePath(d)' \in temps'
  BY <1>2, TempsKeepTheirName DEF TempsInv
<1> QED  BY <1>1, <1>2 DEF TempsInv

LEMMA StepTemps ==
  ASSUME TypeInv, TempsInv, [Next]_vars, Hazards \cap {"restart", "strandsTemp"} = {}
  PROVE  TempsInv'
<1>1. ASSUME NEW d \in Devices,
             RejectEvent(d) \/ tickRetryWaiting(d) \/ pollAsyncStatus(d)
      PROVE  TempsInv'
  <2>1. /\ UNCHANGED temps /\ DOMAIN contexts' = DOMAIN contexts /\ pc = "idle"
        /\ pc' # "down"
    BY <1>1 DEF RejectEvent, tickRetryWaiting, pollAsyncStatus, Event, TimerExpires,
                storeVars, Return, GoTo, Fail
  <2> QED  BY <2>1, QuietForTemps DEF Stored
<1>2. CASE callGetDiagnostics \/ readDump
  <2>1. /\ UNCHANGED temps /\ DOMAIN contexts' = DOMAIN contexts
        /\ pc \in {"getDiagnostics", "complete"} /\ pc' # "down"
    BY <1>2 DEF callGetDiagnostics, readDump, Unchanged, storeVars, Return, GoTo, Fail, Leave
  <2> QED  BY <2>1, QuietForTemps DEF Stored
<1>3. CASE enforceEviction \/ recordSuccess
  <2>1. /\ UNCHANGED <<temps, contexts, job>> /\ pc \in {"evict", "record"}
        /\ pc' \in {"evict", "record", "cleanup"}
    BY <1>3 DEF enforceEviction, recordSuccess, evictOldest, Unchanged, storeVars, GoTo
  <2> QED  BY <2>1, QuietForTemps DEF Stored
<1>4. CASE Rollover \/ Tick
  <2>1. /\ UNCHANGED <<temps, contexts, job, pc>> /\ pc \in {"idle", "down"}
    BY <1>4 DEF Rollover, Tick, handlerVars, storeVars
  <2>2. pc = "idle"
    BY <2>1 DEF TempsInv
  <2> QED  BY <2>1, <2>2, QuietForTemps DEF Stored
<1>5. CASE UNCHANGED vars
  BY <1>5 DEF vars, handlerVars, storeVars, TempsInv, Stored, tempFilePath, storePath,
              buildStoragePath
<1>6. ~Die /\ ~Restart
  BY DEF Die, Restart, TempsInv
<1>7. ASSUME NEW d \in Devices, collectDump(d) PROVE TempsInv'
  <2>1. /\ pc = "idle" /\ pc' = "getDiagnostics" /\ d \notin DOMAIN contexts
        /\ DOMAIN contexts' = {d} \cup DOMAIN contexts
        /\ contexts'[d] = [state |-> "AwaitingGetDiag", attempt |-> 0,
                           retryWaitRemaining |-> 0, elapsedPollSecs |-> 0,
                           eventTimestamp |-> now, dir |-> dir, due |-> now + 1]
    BY <1>7, Beginning
  <2>2. temps' = temps \cup {buildStoragePath(d, now)}
    BY <1>7 DEF collectDump, WriteTemp
  <2>3. tempFilePath(d)' = buildStoragePath(d, now)
    BY <2>1 DEF tempFilePath, buildStoragePath
  <2>4. \A e \in DOMAIN contexts : tempFilePath(e)' = tempFilePath(e)
    BY <2>1, TempsKeepTheirName
  <2>5. \A p \in temps' : \E e \in DOMAIN contexts' : p = tempFilePath(e)'
    BY <2>1, <2>2, <2>3, <2>4 DEF TempsInv
  <2>6. \A e \in DOMAIN contexts' : tempFilePath(e)' \in temps'
    BY <2>1, <2>2, <2>3, <2>4 DEF TempsInv, Stored
  <2> QED  BY <2>1, <2>5, <2>6 DEF TempsInv
<1>8. CASE writeStoreTemp \/ renameStoreTemp \/ storeFails
  <2>1. /\ UNCHANGED <<contexts, job, dir>> /\ pc' # "down"
        /\ pc \in {"write", "rename"} /\ job \in DOMAIN contexts
    BY <1>8, JobIsInFlight, HandlerAssumption
       DEF writeStoreTemp, renameStoreTemp, storeFails, Unchanged, WriteTemp, RenameTemp,
           RemoveTemp, storeVars, GoTo, Fail
  <2>2. \A d \in DOMAIN contexts : tempFilePath(d)' = tempFilePath(d)
    BY <2>1, TempsKeepTheirName
  <2>3. storePath' = storePath
    BY <2>1 DEF storePath, buildStoragePath
  <2>4. storePath.device = job /\ \A d \in DOMAIN contexts : tempFilePath(d).device = d
    BY DEF storePath, buildStoragePath, tempFilePath
  <2>5. CASE writeStoreTemp
    <3>1. pc = "write" /\ pc' = "rename" /\ temps' = temps \cup {storePath}
      BY <2>5 DEF writeStoreTemp, WriteTemp, GoTo
    <3> QED  BY <2>1, <2>2, <2>3, <3>1 DEF TempsInv, Stored
  <2>6. CASE renameStoreTemp \/ storeFails
    <3>1. /\ pc = "rename" /\ pc' \in {"evict", "cleanup"}
          /\ temps' = temps \ {storePath}
      BY <2>6 DEF renameStoreTemp, storeFails, RenameTemp, RemoveTemp, GoTo, Fail
    <3>2. \A p \in temps' : \E d \in DOMAIN contexts' : p = tempFilePath(d)'
      BY <2>1, <2>2, <3>1 DEF TempsInv
    <3>3. \A d \in DOMAIN contexts' : d = job' \/ tempFilePath(d)' \in temps'
      BY <2>1, <2>2, <2>4, <3>1 DEF TempsInv, Stored
    <3> QED  BY <2>1, <3>1, <3>2, <3>3 DEF TempsInv, Stored
  <2> QED  BY <1>8, <2>5, <2>6
<1>9. CASE cleanupContext
  <2>1. /\ pc = "cleanup" /\ pc' = "idle" /\ temps' = temps \ {tempFilePath(job)}
        /\ DOMAIN contexts' = DOMAIN contexts \ {job}
    BY <1>9 DEF cleanupContext, RemoveTemp, Return, GoTo, Restrict
  <2>2. \A d \in DOMAIN contexts' : tempFilePath(d)' = tempFilePath(d)
    BY <2>1, TempsKeepTheirName
  <2>3. \A d \in DOMAIN contexts : tempFilePath(d).device = d
    BY DEF tempFilePath
  <2>4. job \in DOMAIN contexts
    BY <2>1, JobIsInFlight
  <2>5. \A p \in temps' : \E d \in DOMAIN contexts' : p = tempFilePath(d)'
    BY <2>1, <2>2 DEF TempsInv
  <2>6. \A d \in DOMAIN contexts' : tempFilePath(d)' \in temps'
    BY <2>1, <2>2, <2>3, <2>4 DEF TempsInv
  <2> QED  BY <2>1, <2>5, <2>6 DEF TempsInv
<1> QED
  BY <1>1, <1>2, <1>3, <1>4, <1>5, <1>6, <1>7, <1>8, <1>9 DEF Next, Callback

(* Between callbacks the temporary files are exactly those of the          *)
(* collections in flight, although a collection may end in another         *)
(* directory than it began in, when the process is never killed and a      *)
(* temporary file can always be removed.                                   *)
THEOREM TempsAreOwned ==
  ASSUME Hazards \cap {"restart", "strandsTemp"} = {}
  PROVE  Spec => []TempsBelongToCollections
<1>1. Init => TempsInv
  <2> SUFFICES ASSUME Init PROVE TempsInv
    OBVIOUS
  <2>1. DOMAIN contexts = {} /\ pc = "idle" /\ temps = {}
    BY DEF Init, StoreInit
  <2> QED  BY <2>1 DEF TempsInv
<1>2. TypeInv /\ TempsInv /\ [Next]_vars => TempsInv'
  BY StepTemps
<1>3. TypeInv /\ TempsInv => TempsBelongToCollections
  BY DEF TempsInv, TempsBelongToCollections, Stored
<1> QED  BY <1>1, <1>2, <1>3, TypesInvariant, PTL DEF Spec

-----------------------------------------------------------------------------
(* The index.  It lists files, each once, and those of one device by age;  *)
(* a collection in flight is younger than all dumps of its device.         *)
IndexInv ==
  /\ IsInjective(dumpIndex)
  /\ ToSet(dumpIndex) \subseteq DOMAIN files
  /\ \A p \in DOMAIN files : p.time < now
  /\ \A p \in DOMAIN files, d \in DOMAIN contexts : p.device = d =>
       \/ p.time < contexts[d].eventTimestamp
       \/ d = job /\ Stored /\ p.time <= contexts[d].eventTimestamp
  /\ \A i, j \in DOMAIN dumpIndex :
       i < j /\ dumpIndex[i].device = dumpIndex[j].device =>
         dumpIndex[i].time <= dumpIndex[j].time
Complete == pc # "down" => DOMAIN files \subseteq ToSet(dumpIndex)

(* What becomes of the store in a step.                                    *)
LEMMA StoreSteps ==
  ASSUME TypeInv, [Next]_vars
  PROVE  \/ UNCHANGED <<files, dumpIndex>>
         \/ renameStoreTemp \/ enforceEviction \/ Die \/ Restart
<1>1. ASSUME NEW d \in Devices, RejectEvent(d) \/ collectDump(d) \/ tickRetryWaiting(d)
                                \/ pollAsyncStatus(d)
      PROVE  UNCHANGED <<files, dumpIndex>>
  BY <1>1 DEF RejectEvent, collectDump, tickRetryWaiting, pollAsyncStatus, WriteTemp, storeVars
<1>2. callGetDiagnostics \/ readDump \/ writeStoreTemp \/ storeFails
        \/ recordSuccess \/ cleanupContext \/ Rollover \/ Tick
      => UNCHANGED <<files, dumpIndex>>
  BY DEF callGetDiagnostics, readDump, writeStoreTemp, storeFails, recordSuccess,
         cleanupContext, Rollover, Tick, handlerVars, WriteTemp, RemoveTemp, storeVars
<1> QED  BY <1>1, <1>2 DEF Next, Callback, vars, handlerVars, storeVars

LEMMA TimePasses ==
  ASSUME TypeInv, [Next]_vars
  PROVE  now \in Nat /\ now' \in Nat /\ now <= now'
<1>1. ASSUME NEW d \in Devices, RejectEvent(d) \/ collectDump(d) \/ tickRetryWaiting(d)
                                \/ pollAsyncStatus(d)
      PROVE  now' = now
  BY <1>1 DEF RejectEvent, collectDump, tickRetryWaiting, pollAsyncStatus
<1>2. Callback \/ Rollover \/ Die \/ Restart => now' = now
  BY DEF Callback, callGetDiagnostics, readDump, writeStoreTemp, renameStoreTemp, storeFails,
         enforceEviction, recordSuccess, cleanupContext, Rollover, Die, Restart, Unchanged,
         handlerVars
<1>3. now' = now \/ now' = now + 1
  BY <1>1, <1>2 DEF Next, Tick, vars, handlerVars
<1> QED  BY <1>3 DEF TypeInv, TypeOK

(* A store is the last thing its collection does.                          *)
LEMMA StoredLasts ==
  ASSUME TypeInv, [Next]_vars, Stored, job \in DOMAIN contexts'
  PROVE  Stored' /\ job' = job
<1>1. CASE pc = "cleanup"
  BY <1>1, CleanupLasts DEF Stored
<1>2. CASE pc \in {"evict", "record"}
  <2>1. ~Die
    BY DEF Die
  <2>2. \A d \in Devices : ~(RejectEvent(d) \/ collectDump(d) \/ tickRetryWaiting(d)
                             \/ pollAsyncStatus(d))
    BY <1>2 DEF RejectEvent, collectDump, tickRetryWaiting, pollAsyncStatus, Event, TimerExpires
  <2>3. ~(callGetDiagnostics \/ readDump \/ writeStoreTemp \/ renameStoreTemp \/ storeFails
          \/ cleanupContext \/ Rollover \/ Restart \/ Tick)
    BY <1>2 DEF callGetDiagnostics, readDump, writeStoreTemp, renameStoreTemp, storeFails,
           cleanupContext, Rollover, Restart, Tick
  <2>4. CASE enforceEviction \/ recordSuccess \/ UNCHANGED vars
    BY <1>2, <2>4 DEF enforceEviction, recordSuccess, GoTo, Stored, vars, handlerVars
  <2> QED  BY <2>1, <2>2, <2>3, <2>4 DEF Next, Callback
<1> QED  BY <1>1, <1>2 DEF Stored

(* Files and collections keep their order while no file is added.          *)
LEMMA FilesStayOlder ==
  ASSUME TypeInv, IndexInv, [Next]_vars, DOMAIN files' \subseteq DOMAIN files
  PROVE  /\ \A p \in DOMAIN files' : p.time < now'
         /\ \A p \in DOMAIN files', d \in DOMAIN contexts' : p.device = d =>
              \/ p.time < contexts'[d].eventTimestamp
              \/ d = job' /\ Stored' /\ p.time <= contexts'[d].eventTimestamp
<1>0. \A p \in DOMAIN files : p.time \in Nat
  BY DEF TypeInv, TypeOK, Path
<1>1. \A p \in DOMAIN files' : p.time < now'
  BY <1>0, TimePasses DEF IndexInv
<1>2. ASSUME NEW p \in DOMAIN files', NEW d \in DOMAIN contexts', p.device = d
      PROVE  \/ p.time < contexts'[d].eventTimestamp
             \/ d = job' /\ Stored' /\ p.time <= contexts'[d].eventTimestamp
  <2>1. CASE d \notin DOMAIN contexts
    <3>1. d \in Devices /\ collectDump(d)
      BY <1>2, <2>1, CollectionsLast
    <3>2. contexts'[d] = [state |-> "AwaitingGetDiag", attempt |-> 0,
                        retryWaitRemaining |-> 0, elapsedPollSecs |-> 0,
                        eventTimestamp |-> now, dir |-> dir, due |-> now + 1]
      BY <3>1, Beginning
    <3> QED  BY <1>2, <3>2 DEF IndexInv
  <2>2. CASE d \in DOMAIN contexts
    <3>1. contexts'[d].eventTimestamp = contexts[d].eventTimestamp
      BY <1>2, <2>2, CollectionsLast
    <3>2. d = job /\ Stored => d = job' /\ Stored'
      BY <1>2, StoredLasts
    <3> QED  BY <1>2, <2>2, <3>1, <3>2 DEF IndexInv
  <2> QED  BY <2>1, <2>2
<1> QED  BY <1>1, <1>2

LEMMA Renaming ==
  ASSUME TypeInv, TimeInv, IndexInv, renameStoreTemp
  PROVE  /\ storePath \in Path /\ storePath \notin DOMAIN files /\ job \in DOMAIN contexts
         /\ pc = "rename" /\ pc' = "evict"
         /\ UNCHANGED <<now, contexts, job, dumpSize, dir, debounceMap, records>>
         /\ DOMAIN files' = DOMAIN files \cup {storePath}
         /\ files'[storePath] = dumpSize
         /\ dumpIndex' = Append(dumpIndex, storePath)
<1>1. /\ pc = "rename" /\ pc' = "evict"
      /\ UNCHANGED <<now, contexts, job, dumpSize, dir, debounceMap, records>>
      /\ files' = Put(files, storePath, dumpSize)
      /\ dumpIndex' = Append(dumpIndex, storePath)
  BY DEF renameStoreTemp, RenameTemp, Unchanged, GoTo
<1>2. job \in DOMAIN contexts /\ contexts[job].eventTimestamp \in Nat
  BY <1>1, JobIsInFlight DEF Context
<1>3. storePath \in Path
  BY <1>2, PathsAreTyped DEF storePath
<1>4. storePath.device = job /\ storePath.time = contexts[job].eventTimestamp
  BY DEF storePath, buildStoragePath
<1>5. storePath \notin DOMAIN files
  BY <1>1, <1>2, <1>4 DEF IndexInv, Stored
<1> QED  BY <1>1, <1>2, <1>3, <1>5 DEF Put

LEMMA StepIndex ==
  ASSUME TypeInv, TypeInv', TimeInv, IndexInv, [Next]_vars
  PROVE  IndexInv'
<1> USE DEF ToSet, IsInjective
<1>0. dumpIndex \in Seq(Path) /\ DOMAIN dumpIndex = 1..Len(dumpIndex) /\ Len(dumpIndex) \in Nat
      /\ \A p \in DOMAIN files : p.time \in Nat
  BY DEF TypeInv, TypeOK, Path
<1>1. CASE UNCHANGED <<files, dumpIndex>>
  BY <1>1, FilesStayOlder DEF IndexInv
<1>2. CASE renameStoreTemp
  <2>1. /\ storePath \in Path /\ storePath \notin DOMAIN files /\ job \in DOMAIN contexts
        /\ pc = "rename" /\ pc' = "evict" /\ UNCHANGED <<now, contexts, job>>
        /\ DOMAIN files' = DOMAIN files \cup {storePath}
        /\ dumpIndex' = Append(dumpIndex, storePath)
    BY <1>2, Renaming
  <2>2. /\ storePath.device = job /\ storePath.time = contexts[job].eventTimestamp
        /\ contexts[job].eventTimestamp \in Nat
    BY <2>1 DEF storePath, buildStoragePath, TypeInv, TypeOK, Context
  <2>3. contexts[job].eventTimestamp < now
    BY <2>1 DEF TimeInv, Finishing
  <2>4. /\ DOMAIN dumpIndex' = 1..(Len(dumpIndex) + 1)
        /\ dumpIndex'[Len(dumpIndex) + 1] = storePath
        /\ \A i \in DOMAIN dumpIndex : dumpIndex'[i] = dumpIndex[i]
    BY <1>0, <2>1
  <2>5. \A i \in DOMAIN dumpIndex : dumpIndex[i] \in DOMAIN files
    BY DEF IndexInv
  <2>6. IsInjective(dumpIndex')
    BY <1>0, <2>1, <2>4, <2>5 DEF IndexInv
  <2>7. \A i \in DOMAIN dumpIndex' : dumpIndex'[i] \in DOMAIN files'
    BY <1>0, <2>1, <2>4, <2>5
  <2>8. \A p \in DOMAIN files' : p.time < now'
    BY <2>1, <2>2, <2>3 DEF IndexInv
  <2>9. \A p \in DOMAIN files', d \in DOMAIN contexts' : p.device = d =>
              \/ p.time < contexts'[d].eventTimestamp
              \/ d = job' /\ Stored' /\ p.time <= contexts'[d].eventTimestamp
    BY <2>1, <2>2 DEF IndexInv, Stored
  <2>10. \A i \in DOMAIN dumpIndex :
           dumpIndex[i].device = job => dumpIndex[i].time < storePath.time
    BY <2>1, <2>2, <2>5 DEF IndexInv, Stored
  <2>11. ASSUME NEW i \in DOMAIN dumpIndex', NEW j \in DOMAIN dumpIndex', i < j,
                dumpIndex'[i].device = dumpIndex'[j].device
         PROVE  dumpIndex'[i].time <= dumpIndex'[j].time
    <3>1. i \in DOMAIN dumpIndex
      BY <1>0, <2>4, <2>11
    <3>2. CASE j \in DOMAIN dumpIndex
      BY <2>4, <2>11, <3>1, <3>2 DEF IndexInv
    <3>3. CASE j = Len(dumpIndex) + 1
      <4>1. dumpIndex[i].time < storePath.time /\ dumpIndex[i].time \in Nat
        BY <1>0, <2>2, <2>4, <2>5, <2>10, <2>11, <3>1, <3>3
      <4> QED  BY <2>2, <2>4, <3>1, <3>3, <4>1
    <3> QED  BY <1>0, <2>4, <3>2, <3>3
  <2> QED  BY <2>6, <2>7, <2>8, <2>9, <2>11 DEF IndexInv
<1>3. CASE enforceEviction
  <2>1. CASE UNCHANGED storeVars
    BY <1>1, <2>1 DEF storeVars
  <2>2. ASSUME NEW removed \in BOOLEAN, evictOldest(removed) PROVE IndexInv'
    <3>1. /\ dumpIndex # <<>> /\ dumpIndex' = Tail(dumpIndex)
          /\ DOMAIN files' = IF removed THEN DOMAIN files \ {Head(dumpIndex)} ELSE DOMAIN files
      BY <2>2 DEF evictOldest, mustEvict, Restrict
    <3>2. /\ DOMAIN dumpIndex' = 1..(Len(dumpIndex) - 1)
          /\ \A i \in DOMAIN dumpIndex' : i + 1 \in DOMAIN dumpIndex
                                          /\ dumpIndex'[i] = dumpIndex[i + 1]
          /\ Head(dumpIndex) = dumpIndex[1] /\ 1 \in DOMAIN dumpIndex
      BY <1>0, <3>1
    <3>3. IsInjective(dumpIndex')
      BY <1>0, <3>2 DEF IndexInv
    <3>4. \A i \in DOMAIN dumpIndex' : dumpIndex'[i] \in DOMAIN files'
      BY <1>0, <3>1, <3>2 DEF IndexInv
    <3>5. \A i, j \in DOMAIN dumpIndex' :
            i < j /\ dumpIndex'[i].device = dumpIndex'[j].device =>
              dumpIndex'[i].time <= dumpIndex'[j].time
      BY <1>0, <3>2 DEF IndexInv
    <3> QED  BY <3>1, <3>3, <3>4, <3>5, FilesStayOlder DEF IndexInv
  <2> QED  BY <1>3, <2>1, <2>2 DEF enforceEviction
<1>4. CASE Die
  <2>1. dumpIndex' = <<>> /\ DOMAIN dumpIndex' = {} /\ files' = files
    BY <1>4 DEF Die
  <2> QED  BY <2>1, FilesStayOlder DEF IndexInv
<1>5. CASE Restart
  <2>1. /\ dumpIndex' \in SetToSeqs(DOMAIN files) /\ files' = files
        /\ IsSorted(dumpIndex', LAMBDA a, b : a.time <= b.time)
    BY <1>5 DEF Restart, rebuildIndex
  <2>2. Cardinality(DOMAIN files) \in Nat
    BY FS_CardinalityType DEF TypeInv
  <2>3. /\ dumpIndex' \in [1..Cardinality(DOMAIN files) -> DOMAIN files]
        /\ \A i, j \in DOMAIN dumpIndex' : i # j => dumpIndex'[i] # dumpIndex'[j]
    BY <2>1 DEF SetToSeqs
  <2>4. Len(dumpIndex') = Cardinality(DOMAIN files)
    BY <2>2, <2>3
  <2>5. \A i, j \in DOMAIN dumpIndex' : i < j => dumpIndex'[i].time <= dumpIndex'[j].time
    BY <2>1, <2>3, <2>4 DEF IsSorted
  <2> QED  BY <2>1, <2>3, <2>5, FilesStayOlder DEF IndexInv
<1> QED  BY <1>1, <1>2, <1>3, <1>4, <1>5, StoreSteps

LEMMA IndexInvariant == Spec => []IndexInv
<1>1. Init => IndexInv
  <2> SUFFICES ASSUME Init PROVE IndexInv
    OBVIOUS
  <2>1. DOMAIN contexts = {} /\ DOMAIN files = {} /\ DOMAIN dumpIndex = {}
    BY DEF Init, StoreInit
  <2> QED  BY <2>1 DEF IndexInv, IsInjective, ToSet
<1>2. TypeInv /\ TypeInv' /\ TimeInv /\ IndexInv /\ [Next]_vars => IndexInv'
  BY StepIndex
<1> QED  BY <1>1, <1>2, TypesInvariant, TimeInvariant, PTL DEF Spec

-----------------------------------------------------------------------------
(* Nothing is missing from the index as long as every eviction removes the *)
(* file whose entry it drops.                                              *)
LEMMA OntoWhenAsMany ==
  ASSUME NEW S, IsFiniteSet(S), NEW f \in SetToSeqs(S)
  PROVE  ToSet(f) = S
<1>1. Cardinality(S) \in Nat
  BY FS_CardinalityType
<1>2. IsFiniteSet(1..Cardinality(S)) /\ Cardinality(1..Cardinality(S)) = Cardinality(S)
  BY <1>1, FS_Interval
<1>3. f \in Injection(1..Cardinality(S), S)
  BY DEF SetToSeqs, Injection, IsInjective
<1>4. f \in Surjection(1..Cardinality(S), S)
  BY <1>2, <1>3, FS_Injection
<1> QED  BY <1>4 DEF Surjection, ToSet

LEMMA StepComplete ==
  ASSUME TypeInv, TimeInv, IndexInv, Complete, [Next]_vars, "removeFails" \notin Hazards
  PROVE  Complete'
<1> USE DEF ToSet
<1>0. dumpIndex \in Seq(Path) /\ DOMAIN dumpIndex = 1..Len(dumpIndex) /\ Len(dumpIndex) \in Nat
  BY DEF TypeInv, TypeOK
<1>1. CASE UNCHANGED <<files, dumpIndex>> /\ (pc = "down" => pc' = "down")
  BY <1>1 DEF Complete
<1>2. CASE pc = "down" /\ ~Restart
  <2>1. /\ ~Callback /\ ~Rollover /\ ~Die
        /\ \A d \in Devices : ~(RejectEvent(d) \/ collectDump(d) \/ tickRetryWaiting(d)
                                \/ pollAsyncStatus(d))
    BY <1>2 DEF Callback, callGetDiagnostics, readDump, writeStoreTemp, renameStoreTemp,
         storeFails, enforceEviction, recordSuccess, cleanupContext, Rollover, Die, Event,
         RejectEvent, collectDump, tickRetryWaiting, pollAsyncStatus, TimerExpires
  <2>2. Tick \/ UNCHANGED vars
    BY <1>2, <2>1 DEF Next
  <2> QED  BY <1>1, <2>2 DEF Tick, vars, handlerVars, storeVars
<1>3. CASE renameStoreTemp
  <2>1. /\ DOMAIN files' = DOMAIN files \cup {storePath} /\ pc = "rename"
        /\ dumpIndex' = Append(dumpIndex, storePath) /\ storePath \in Path
    BY <1>3, Renaming
  <2>2. /\ DOMAIN dumpIndex' = 1..(Len(dumpIndex) + 1)
        /\ dumpIndex'[Len(dumpIndex) + 1] = storePath
        /\ \A i \in DOMAIN dumpIndex : i \in DOMAIN dumpIndex' /\ dumpIndex'[i] = dumpIndex[i]
    BY <1>0, <2>1
  <2> QED  BY <1>0, <2>1, <2>2 DEF Complete
<1>4. CASE enforceEviction
  <2>1. CASE UNCHANGED storeVars
    BY <1>1, <1>4, <2>1 DEF enforceEviction, storeVars
  <2>2. CASE evictOldest(TRUE)
    <3>1. /\ dumpIndex # <<>> /\ dumpIndex' = Tail(dumpIndex)
          /\ DOMAIN files' = DOMAIN files \ {Head(dumpIndex)}
          /\ pc # "down"
      BY <1>4, <2>2 DEF evictOldest, mustEvict, Restrict, enforceEviction
    <3>2. /\ DOMAIN dumpIndex' = 1..(Len(dumpIndex) - 1)
          /\ \A k \in DOMAIN dumpIndex' : dumpIndex'[k] = dumpIndex[k + 1]
          /\ Head(dumpIndex) = dumpIndex[1]
      BY <1>0, <3>1
    <3>3. ASSUME NEW p \in DOMAIN files'
          PROVE  \E k \in DOMAIN dumpIndex' : p = dumpIndex'[k]
      <4>1. PICK i \in DOMAIN dumpIndex : p = dumpIndex[i]
        BY <3>1, <3>3 DEF Complete
      <4>2. i # 1
        BY <3>1, <3>2, <3>3, <4>1
      <4>3. i - 1 \in DOMAIN dumpIndex' /\ dumpIndex'[i - 1] = dumpIndex[i]
        BY <1>0, <3>2, <4>2
      <4> QED  BY <4>1, <4>3
    <3> QED  BY <3>3 DEF Complete
  <2> QED  BY <1>4, <2>1, <2>2 DEF enforceEviction
<1>5. CASE Die
  BY <1>5 DEF Die, Complete
<1>6. CASE Restart
  <2>1. dumpIndex' \in SetToSeqs(DOMAIN files) /\ files' = files
    BY <1>6 DEF Restart, rebuildIndex
  <2>2. ToSet(dumpIndex') = DOMAIN files
    BY <2>1, OntoWhenAsMany DEF TypeInv
  <2> QED  BY <2>1, <2>2 DEF Complete
<1> QED  BY <1>1, <1>2, <1>3, <1>4, <1>5, <1>6, StoreSteps

LEMMA CompleteInvariant ==
  ASSUME "removeFails" \notin Hazards
  PROVE  Spec => []Complete
<1>1. Init => Complete
  <2> SUFFICES ASSUME Init PROVE Complete
    OBVIOUS
  <2>1. DOMAIN files = {}
    BY DEF Init, StoreInit
  <2> QED  BY <2>1 DEF Complete
<1>2. TypeInv /\ TimeInv /\ IndexInv /\ Complete /\ [Next]_vars => Complete'
  BY StepComplete
<1> QED  BY <1>1, <1>2, TypesInvariant, TimeInvariant, IndexInvariant, PTL DEF Spec

(* The index lists every dump on the disk exactly once, whatever directory *)
(* it is in and whichever process stored it, so all of them can be evicted *)
(* some day.  A file that cannot be removed is given up with its entry.    *)
THEOREM IndexIsExact ==
  ASSUME "removeFails" \notin Hazards
  PROVE  Spec => []IndexMatchesFiles
<1>1. IndexInv /\ Complete => IndexMatchesFiles
  BY DEF IndexInv, Complete, IndexMatchesFiles
<1> QED  BY <1>1, IndexInvariant, CompleteInvariant, PTL

LEMMA StepOldestFirst ==
  ASSUME TypeInv, TimeInv, IndexInv, Complete, [Next]_vars,
         NEW p \in DOMAIN files \ DOMAIN files', NEW q \in DOMAIN files',
         p.device = q.device
  PROVE  p.time <= q.time
<1>1. ~renameStoreTemp
  BY Renaming
<1>2. ~Die /\ ~Restart
  BY DEF Die, Restart
<1>3. enforceEviction /\ files' # files
  BY <1>1, <1>2, StoreSteps
<1>4. PICK removed \in BOOLEAN : evictOldest(removed)
  BY <1>3 DEF enforceEviction, storeVars
<1>5. /\ dumpIndex # <<>> /\ pc # "down"
      /\ DOMAIN files' = DOMAIN files \ {Head(dumpIndex)}
  BY <1>3, <1>4 DEF evictOldest, mustEvict, Restrict, enforceEviction
<1>6. dumpIndex \in Seq(Path) /\ Head(dumpIndex) = dumpIndex[1] /\ 1 \in DOMAIN dumpIndex
  BY <1>5 DEF TypeInv, TypeOK
<1>7. p = dumpIndex[1] /\ q \in DOMAIN files /\ q # dumpIndex[1]
  BY <1>5, <1>6
<1>8. PICK j \in DOMAIN dumpIndex : q = dumpIndex[j]
  BY <1>5, <1>7 DEF Complete, ToSet
<1>9. 1 < j
  BY <1>6, <1>7, <1>8
<1> QED  BY <1>6, <1>7, <1>8, <1>9 DEF IndexInv

(* Of one device the oldest dump is evicted first, in the order of the     *)
(* queue as well as in the order a restart rebuilds.                       *)
THEOREM OldestFirst ==
  ASSUME "removeFails" \notin Hazards
  PROVE  Spec => OldestOfDeviceFirst
<1> DEFINE Oldest == \A p \in DOMAIN files \ DOMAIN files', q \in DOMAIN files' :
                       p.device = q.device => p.time <= q.time
<1>1. TypeInv /\ TimeInv /\ IndexInv /\ Complete /\ [Next]_vars => [Oldest]_vars
  BY StepOldestFirst
<1> HIDE DEF Oldest
<1>2. Spec => [][Oldest]_vars
  BY <1>1, TypesInvariant, TimeInvariant, IndexInvariant, CompleteInvariant, PTL DEF Spec
<1> QED  BY <1>2, PTL DEF OldestOfDeviceFirst, Oldest

-----------------------------------------------------------------------------
(* The eviction that must not take the dump just stored                    *)
sizeAt(i) == IF dumpIndex[i] \in DOMAIN files THEN files[dumpIndex[i]] ELSE 0

(* What the store counts is the total of the sizes along the index.        *)
sizes == [i \in DOMAIN dumpIndex |-> sizeAt(i)]
fileSizes == [p \in DOMAIN files |-> files[p]]

LEMMA SizesAreNatural ==
  ASSUME TypeInv
  PROVE  /\ IsFiniteSet(DOMAIN dumpIndex) /\ sizes \in [DOMAIN dumpIndex -> Nat]
         /\ IsFiniteSet(DOMAIN files) /\ fileSizes \in [DOMAIN files -> Nat]
<1>1. DOMAIN dumpIndex = 1..Len(dumpIndex) /\ Len(dumpIndex) \in Nat
  BY DEF TypeInv, TypeOK
<1>2. IsFiniteSet(1..Len(dumpIndex))
  BY <1>1, FS_Interval
<1>3. IsFiniteSet(DOMAIN files) /\ \A p \in DOMAIN files : files[p] \in Nat
  BY DEF TypeInv, TypeOK
<1> QED  BY <1>1, <1>2, <1>3 DEF sizes, fileSizes, sizeAt

LEMMA UsedIsTotal ==
  ASSUME TypeInv
  PROVE  computeUsedBytes = Total(sizes, DOMAIN dumpIndex)
<1> DEFINE D == DOMAIN dumpIndex
           Sums(g) == g = [s \in SUBSET D |->
                 IF s = {} THEN 0
                 ELSE sizeAt(CHOOSE x \in s : TRUE) + g[s \ {CHOOSE x \in s : TRUE}]]
           used == CHOOSE g : Sums(g)
<1>1. computeUsedBytes = used[D]
  BY DEF computeUsedBytes, MapThenSumSet, MapThenFoldSet, sizeAt
<1>2. \A g : Sums(g) <=> SumsUp(g, sizes, D)
  <2> SUFFICES ASSUME NEW g PROVE Sums(g) <=> SumsUp(g, sizes, D)
    OBVIOUS
  <2> DEFINE one == [s \in SUBSET D |-> IF s = {} THEN 0
                                       ELSE sizeAt(Chosen(s)) + g[s \ {Chosen(s)}]]
             other == [s \in SUBSET D |-> IF s = {} THEN 0
                                         ELSE sizes[Chosen(s)] + g[s \ {Chosen(s)}]]
  <2>1. \A s \in SUBSET D : s # {} => sizes[Chosen(s)] = sizeAt(Chosen(s))
    BY ChosenIsElement DEF sizes
  <2>2. one = other
    BY <2>1
  <2>3. Sums(g) <=> g = one
    BY DEF Chosen
  <2>4. SumsUp(g, sizes, D) <=> g = other
    BY DEF SumsUp
  <2> HIDE DEF one, other, Sums
  <2> QED  BY <2>2, <2>3, <2>4
<1>3. \E g : SumsUp(g, sizes, D)
  BY SizesAreNatural, SumExists
<1>4. Sums(used)
  <2> HIDE DEF Sums
  <2> QED  BY <1>2, <1>3
<1>5. SumsUp(used, sizes, D)
  BY <1>2, <1>4
<1> HIDE DEF used
<1> QED  BY <1>1, <1>5, SizesAreNatural, TotalIs

LEMMA DiskIsTotal ==
  ASSUME TypeInv
  PROVE  SumFunction(files) = Total(fileSizes, DOMAIN files)
<1> DEFINE D == DOMAIN files
           Sums(g) == g = [s \in SUBSET D |->
                 IF s = {} THEN 0
                 ELSE files[CHOOSE x \in s : TRUE] + g[s \ {CHOOSE x \in s : TRUE}]]
           disk == CHOOSE g : Sums(g)
<1>1. SumFunction(files) = disk[D]
  BY DEF SumFunction, SumFunctionOnSet, FoldFunctionOnSet, MapThenFoldSet
<1>2. \A g : Sums(g) <=> SumsUp(g, fileSizes, D)
  <2> SUFFICES ASSUME NEW g PROVE Sums(g) <=> SumsUp(g, fileSizes, D)
    OBVIOUS
  <2> DEFINE one == [s \in SUBSET D |-> IF s = {} THEN 0
                                       ELSE files[Chosen(s)] + g[s \ {Chosen(s)}]]
             other == [s \in SUBSET D |-> IF s = {} THEN 0
                                         ELSE fileSizes[Chosen(s)] + g[s \ {Chosen(s)}]]
  <2>1. \A s \in SUBSET D : s # {} => fileSizes[Chosen(s)] = files[Chosen(s)]
    BY ChosenIsElement DEF fileSizes
  <2>2. one = other
    BY <2>1
  <2>3. Sums(g) <=> g = one
    BY DEF Chosen
  <2>4. SumsUp(g, fileSizes, D) <=> g = other
    BY DEF SumsUp
  <2> HIDE DEF one, other, Sums
  <2> QED  BY <2>2, <2>3, <2>4
<1>3. \E g : SumsUp(g, fileSizes, D)
  BY SizesAreNatural, SumExists
<1>4. Sums(disk)
  <2> HIDE DEF Sums
  <2> QED  BY <1>2, <1>3
<1>5. SumsUp(disk, fileSizes, D)
  BY <1>2, <1>4
<1> HIDE DEF disk
<1> QED  BY <1>1, <1>5, SizesAreNatural, TotalIs

(* As long as the index has every file once, both count the same bytes.    *)
LEMMA UsedIsDisk ==
  ASSUME TypeInv, IndexInv, Complete, pc # "down"
  PROVE  computeUsedBytes = SumFunction(files)
<1> DEFINE I == DOMAIN dumpIndex
           S == DOMAIN files
<1>1. dumpIndex \in [I -> S]
  BY DEF TypeInv, TypeOK, IndexInv, ToSet
<1>2. Numbers(dumpIndex, I, S)
  BY DEF IndexInv, Complete, ToSet, IsInjective, Numbers
<1>3. Agree(sizes, [i \in I |-> fileSizes[dumpIndex[i]]], I)
  BY <1>1 DEF Agree, sizes, sizeAt, fileSizes
<1>4. Total(sizes, I) = Total(fileSizes, S)
  BY <1>1, <1>2, <1>3, SizesAreNatural, TotalReindexed
<1> QED  BY <1>4, UsedIsTotal, DiskIsTotal

LEMMA SumOfOne ==
  ASSUME TypeInv, DOMAIN dumpIndex = {1}
  PROVE  computeUsedBytes = sizeAt(1)
<1> DEFINE none == [i \in {} |-> 0]
<1>1. {1} \ {1} = {} /\ none \in [{1} \ {1} -> Nat] /\ Agree(sizes, none, {1} \ {1})
  BY DEF Agree
<1>2. sizes[1] = sizeAt(1) /\ sizeAt(1) \in Nat
  BY SizesAreNatural DEF sizes
<1> HIDE DEF none
<1>3. Total(sizes, {1}) = sizes[1] + Total(none, {1} \ {1})
  BY <1>1, SizesAreNatural, TotalOfOneMore
<1>4. Total(none, {1} \ {1}) = 0
  BY <1>1, TotalOfNone
<1> QED  BY <1>2, <1>3, <1>4, UsedIsTotal

(* From the rename to the record the dump is the last one of the index.    *)
StoreInv ==
  /\ pc \in {"write", "rename"} => dumpSize \in Sizes
  /\ pc \in {"evict", "record"} =>
       /\ dumpIndex # <<>> /\ dumpIndex[Len(dumpIndex)] = storePath
       /\ files[storePath] \in Sizes

LEMMA StepStore ==
  ASSUME TypeInv, TimeInv, IndexInv, StoreInv, [Next]_vars, \A s \in Sizes : s <= Budget
  PROVE  StoreInv'
<1>0. dumpIndex \in Seq(Path) /\ DOMAIN dumpIndex = 1..Len(dumpIndex) /\ Len(dumpIndex) \in Nat
  BY DEF TypeInv, TypeOK
<1>1. CASE pc' \notin {"write", "rename", "evict", "record"}
  BY <1>1 DEF StoreInv
<1>2. ASSUME NEW d \in Devices, RejectEvent(d) \/ collectDump(d) \/ tickRetryWaiting(d)
                                \/ pollAsyncStatus(d)
      PROVE  pc' \notin {"write", "rename", "evict", "record"}
  BY <1>2 DEF RejectEvent, collectDump, tickRetryWaiting, pollAsyncStatus, Event, TimerExpires,
              Return, GoTo, Fail
<1>3. callGetDiagnostics \/ storeFails \/ recordSuccess \/ cleanupContext
        \/ Rollover \/ Die \/ Restart \/ Tick
      => pc' \notin {"write", "rename", "evict", "record"}
  BY DEF callGetDiagnostics, storeFails, recordSuccess, cleanupContext, Rollover, Die,
         Restart, Tick, handlerVars, Return, GoTo, Fail
<1>4. CASE readDump
  <2>1. CASE pc' = "write"
    BY <1>4, <2>1 DEF readDump, Leave, Fail, GoTo, StoreInv
  <2>2. CASE pc' = "cleanup"
    BY <1>1, <2>2
  <2> QED  BY <1>4, <2>1, <2>2 DEF readDump, Leave, Fail, GoTo
<1>5. CASE writeStoreTemp
  BY <1>5 DEF writeStoreTemp, GoTo, StoreInv
<1>6. CASE renameStoreTemp
  <2>1. /\ pc = "rename" /\ pc' = "evict" /\ UNCHANGED <<contexts, job, dumpSize, dir>>
        /\ files'[storePath] = dumpSize /\ storePath \in Path
        /\ dumpIndex' = Append(dumpIndex, storePath)
    BY <1>6, Renaming
  <2>2. storePath' = storePath
    BY <2>1 DEF storePath, buildStoragePath
  <2>3. dumpIndex' # <<>> /\ dumpIndex'[Len(dumpIndex')] = storePath
    BY <1>0, <2>1
  <2> QED  BY <2>1, <2>2, <2>3 DEF StoreInv
<1>7. CASE enforceEviction
  <2>1. pc = "evict" /\ pc' \in {"evict", "record"} /\ UNCHANGED <<contexts, job, dir>>
    BY <1>7 DEF enforceEviction, evictOldest, Unchanged, GoTo, storeVars
  <2>2. storePath' = storePath
    BY <2>1 DEF storePath, buildStoragePath
  <2>3. CASE UNCHANGED storeVars
    BY <2>1, <2>2, <2>3 DEF storeVars, StoreInv
  <2>4. ASSUME NEW removed \in BOOLEAN, evictOldest(removed) PROVE StoreInv'
    <3>1. /\ dumpIndex # <<>> /\ dumpIndex' = Tail(dumpIndex) /\ computeUsedBytes > Budget
          /\ \/ files' = files
             \/ files' = Restrict(files, DOMAIN files \ {Head(dumpIndex)})
      BY <2>4 DEF evictOldest, mustEvict
    <3>2. /\ dumpIndex[Len(dumpIndex)] = storePath /\ files[storePath] \in Sizes
      BY <2>1 DEF StoreInv
    <3>3. storePath \in DOMAIN files /\ Len(dumpIndex) \in DOMAIN dumpIndex
      BY <1>0, <3>1, <3>2 DEF IndexInv, ToSet
    <3>4. Len(dumpIndex) # 1
      <4> SUFFICES ASSUME Len(dumpIndex) = 1 PROVE FALSE
        OBVIOUS
      <4>1. DOMAIN dumpIndex = {1} /\ sizeAt(1) = files[storePath]
        BY <1>0, <3>2, <3>3 DEF sizeAt
      <4>2. sizeAt(1) \in Nat /\ sizeAt(1) <= Budget /\ Budget \in Nat
        BY <3>2, <4>1, HandlerAssumption, StoreAssumption
      <4> QED  BY <3>1, <4>1, <4>2, SumOfOne
    <3>5. /\ Len(dumpIndex) > 1 /\ Len(dumpIndex') = Len(dumpIndex) - 1
          /\ dumpIndex'[Len(dumpIndex')] = storePath /\ dumpIndex' # <<>>
          /\ Head(dumpIndex) = dumpIndex[1]
      <4>1. Len(dumpIndex) \in Nat /\ Len(dumpIndex) > 1
        BY <1>0, <3>3, <3>4
      <4>2. dumpIndex' \in Seq(Path) /\ Len(dumpIndex') = Len(dumpIndex) - 1
        BY <1>0, <3>1
      <4>3. \A k \in 1..(Len(dumpIndex) - 1) : dumpIndex'[k] = dumpIndex[k + 1]
        BY <1>0, <3>1
      <4>4. dumpIndex'[Len(dumpIndex) - 1] = dumpIndex[Len(dumpIndex)]
        BY <4>1, <4>3
      <4>5. dumpIndex' # <<>>
        BY <4>1, <4>2
      <4>6. Head(dumpIndex) = dumpIndex[1]
        BY <1>0, <4>1
      <4> QED  BY <3>2, <4>1, <4>2, <4>4, <4>5, <4>6
    <3>6. Head(dumpIndex) # storePath
      BY <1>0, <3>2, <3>3, <3>5 DEF IndexInv, IsInjective
    <3>7. files'[storePath] = files[storePath]
      BY <3>1, <3>3, <3>6 DEF Restrict
    <3> QED  BY <2>1, <2>2, <3>2, <3>5, <3>7 DEF StoreInv
  <2> QED  BY <1>7, <2>3, <2>4 DEF enforceEviction
<1>8. CASE UNCHANGED vars
  BY <1>8 DEF vars, handlerVars, storeVars, StoreInv, storePath, buildStoragePath
<1> QED
  BY <1>1, <1>2, <1>3, <1>4, <1>5, <1>6, <1>7, <1>8 DEF Next, Callback

(* The loop that evicts ends when nothing is left to evict.                *)
Evicted == pc = "record" => ~mustEvict

LEMMA SameStore ==
  ASSUME UNCHANGED <<files, dumpIndex>>
  PROVE  mustEvict' = mustEvict
<1>1. computeUsedBytes' = computeUsedBytes
  BY DEF computeUsedBytes, MapThenSumSet, MapThenFoldSet
<1> QED  BY <1>1 DEF mustEvict

LEMMA StepEvicted ==
  ASSUME TypeInv, Evicted, [Next]_vars
  PROVE  Evicted'
<1>1. ASSUME NEW d \in Devices, RejectEvent(d) \/ collectDump(d) \/ tickRetryWaiting(d)
                                \/ pollAsyncStatus(d)
      PROVE  pc' # "record"
  BY <1>1 DEF RejectEvent, collectDump, tickRetryWaiting, pollAsyncStatus, Event, TimerExpires,
              Return, GoTo, Fail
<1>2. callGetDiagnostics \/ readDump \/ writeStoreTemp \/ renameStoreTemp \/ storeFails
        \/ recordSuccess \/ cleanupContext \/ Rollover \/ Die \/ Restart \/ Tick
      => pc' # "record"
  BY DEF callGetDiagnostics, readDump, writeStoreTemp, renameStoreTemp, storeFails,
         recordSuccess, cleanupContext, Rollover, Die, Restart, Tick, handlerVars,
         Return, GoTo, Fail, Leave
<1>3. CASE enforceEviction
  <2>1. CASE pc' = "record"
    <3>1. ~mustEvict /\ UNCHANGED storeVars
      BY <1>3, <2>1 DEF enforceEviction
    <3>2. mustEvict' = mustEvict
      BY <3>1, SameStore DEF storeVars
    <3> QED  BY <3>1, <3>2 DEF Evicted
  <2> QED  BY <2>1 DEF Evicted
<1>4. CASE UNCHANGED vars
  <2>1. UNCHANGED <<files, dumpIndex>> /\ pc' = pc
    BY <1>4 DEF vars, handlerVars, storeVars
  <2>2. mustEvict' = mustEvict
    BY <2>1, SameStore
  <2> QED  BY <2>1, <2>2 DEF Evicted
<1> QED  BY <1>1, <1>2, <1>3, <1>4 DEF Next, Callback, Evicted

(* When a store has returned, the dumps on the disk are within the budget: *)
(* it counts along its index, and the index has every file exactly once,   *)
(* those of earlier processes and of earlier directories included.         *)
THEOREM WithinBudget ==
  ASSUME "removeFails" \notin Hazards
  PROVE  Spec => []WithinBudgetAfterStore
<1>1. Init => Evicted
  BY DEF Init, Evicted
<1>2. TypeInv /\ Evicted /\ [Next]_vars => Evicted'
  BY StepEvicted
<1>3. TypeInv /\ IndexInv /\ Complete /\ Evicted => WithinBudgetAfterStore
  <2> SUFFICES ASSUME TypeInv, IndexInv, Complete, Evicted, pc = "record"
               PROVE  SumFunction(files) <= Budget
    BY DEF WithinBudgetAfterStore
  <2>1. computeUsedBytes = SumFunction(files) /\ ~mustEvict
    BY UsedIsDisk DEF Evicted
  <2>2. computeUsedBytes \in Nat /\ Budget \in Nat
    BY UsedIsTotal, SizesAreNatural, TotalIsNatural, HandlerAssumption, StoreAssumption
  <2>3. CASE dumpIndex = <<>>
    <3>1. DOMAIN dumpIndex = {}
      BY <2>3
    <3>2. sizes \in [{} -> Nat]
      BY <3>1, SizesAreNatural
    <3>3. Total(sizes, {}) = 0
      BY <3>2, TotalOfNone
    <3> QED  BY <2>1, <2>2, <3>1, <3>3, UsedIsTotal
  <2>4. CASE dumpIndex # <<>>
    BY <2>1, <2>2, <2>4 DEF mustEvict
  <2> QED  BY <2>3, <2>4
<1> QED  BY <1>1, <1>2, <1>3, TypesInvariant, IndexInvariant, CompleteInvariant, PTL DEF Spec

(* Every step that adds a SUCCESS record is that of recordSuccess.         *)
LEMMA StepSuccess ==
  ASSUME TypeInv, IndexInv, StoreInv, [Next]_vars,
         NEW i \in DOMAIN ledger' \ DOMAIN ledger, ledger'[i].status = "SUCCESS"
  PROVE  ledger'[i].filePath \in DOMAIN files'
<1> DEFINE Added(status, path) ==
      \E d, time : appendDumpRecord(d, status, time, path)
<1>0. ledger \in Seq(DumpRecord \cup {HalfRecord})
  BY DEF TypeInv, TypeOK
<1>h. ledger' # Append(ledger, HalfRecord)
  <2>1. HalfRecord.status # "SUCCESS"
    BY DEF HalfRecord
  <2> HIDE DEF HalfRecord
  <2>2. ledger' = Append(ledger, HalfRecord) => ledger'[i] = HalfRecord
    BY <1>0
  <2> QED  BY <2>1, <2>2
<1>1. ASSUME NEW status, NEW path, Added(status, path)
      PROVE  status = "SUCCESS" /\ ledger'[i].filePath = path
  <2>1. PICK d, time : appendDumpRecord(d, status, time, path)
    BY <1>1
  <2> DEFINE e == [device |-> d, status |-> status, eventTimeStamp |-> time, filePath |-> path]
  <2>2. ledger' # ledger
    OBVIOUS
  <2>3. ledger' = Append(ledger, e) /\ e.status = status /\ e.filePath = path
    BY <1>h, <2>1, <2>2 DEF appendDumpRecord
  <2> HIDE DEF e
  <2>4. ledger'[i] = e
    BY <1>0, <2>3
  <2> QED  BY <2>3, <2>4
<1>2. ~UNCHANGED ledger
  OBVIOUS
<1>3. \A d : ~Fail(d) /\ ~recordCollectionFailure(d)
  BY <1>1 DEF Fail, recordCollectionFailure
<1> HIDE DEF Added
<1>4. ASSUME NEW d \in Devices, RejectEvent(d) \/ collectDump(d) \/ tickRetryWaiting(d)
                                \/ pollAsyncStatus(d)
      PROVE  FALSE
  BY <1>2, <1>3, <1>4 DEF RejectEvent, collectDump, tickRetryWaiting, pollAsyncStatus, Return
<1>5. ~(callGetDiagnostics \/ readDump \/ writeStoreTemp \/ renameStoreTemp \/ storeFails
        \/ enforceEviction \/ cleanupContext \/ Rollover \/ Die \/ Restart \/ Tick)
  BY <1>h, <1>2, <1>3 DEF callGetDiagnostics, readDump, writeStoreTemp, renameStoreTemp, storeFails,
         enforceEviction, cleanupContext, Rollover, Die, Restart, Tick, Return, Leave,
         handlerVars
<1>6. recordSuccess
  BY <1>2, <1>4, <1>5 DEF Next, Callback, vars, handlerVars
<1>7. /\ pc = "record" /\ files' = files
      /\ appendDumpRecord(job, "SUCCESS", contexts[job].eventTimestamp, storePath)
  BY <1>6 DEF recordSuccess, storeVars
<1>8. ledger'[i].filePath = storePath
  BY <1>1, <1>7 DEF Added
<1>9. /\ dumpIndex \in Seq(Path) /\ dumpIndex # <<>>
      /\ dumpIndex[Len(dumpIndex)] = storePath
  BY <1>7 DEF StoreInv, TypeInv, TypeOK
<1>10. Len(dumpIndex) \in DOMAIN dumpIndex
  BY <1>9
<1> QED  BY <1>7, <1>8, <1>9, <1>10 DEF IndexInv, ToSet

(* The file a new SUCCESS record names is there: the eviction of a store   *)
(* never takes the dump it was made for, files that cannot be removed and  *)
(* dumps of earlier processes included, if one dump alone fits the budget. *)
THEOREM SuccessHasFile ==
  ASSUME \A s \in Sizes : s <= Budget
  PROVE  Spec => SuccessNamesAFile
<1> DEFINE Named == \A i \in DOMAIN ledger' \ DOMAIN ledger :
                      ledger'[i].status = "SUCCESS" => ledger'[i].filePath \in DOMAIN files'
<1>1. Init => StoreInv
  BY DEF Init, StoreInv
<1>2. TypeInv /\ TimeInv /\ IndexInv /\ StoreInv /\ [Next]_vars => StoreInv'
  BY StepStore
<1>3. TypeInv /\ IndexInv /\ StoreInv /\ [Next]_vars => [Named]_vars
  BY StepSuccess
<1> HIDE DEF Named
<1>4. Spec => [][Named]_vars
  BY <1>1, <1>2, <1>3, TypesInvariant, TimeInvariant, IndexInvariant, PTL DEF Spec
<1> QED  BY <1>4, PTL DEF SuccessNamesAFile, Named

-----------------------------------------------------------------------------
(* The records name the dumps.  A dump that has been renamed waits for its *)
(* record until the eviction is over, and only a death can come in between.*)
Listed(p, log) ==
  \E i \in DOMAIN log : log[i].status = "SUCCESS" /\ log[i].filePath = p
IndexedInv ==
  /\ pc # "down"
  /\ missed = 0 =>
       \A p \in DOMAIN files :
         Listed(p, ledger) \/ (pc \in {"evict", "record"} /\ p = storePath)

LEMMA ListedLasts ==
  ASSUME NEW l \in Seq(DumpRecord \cup {HalfRecord}), NEW p, Listed(p, l), NEW e
  PROVE  Listed(p, Append(l, e))
<1>1. PICK i \in DOMAIN l : l[i].status = "SUCCESS" /\ l[i].filePath = p
  BY DEF Listed
<1>2. i \in DOMAIN Append(l, e) /\ Append(l, e)[i] = l[i]
  BY <1>1
<1> QED  BY <1>1, <1>2 DEF Listed

(* No step takes a record away, and missed does not shrink.                *)
LEMMA RecordsStay ==
  ASSUME TypeInv, [Next]_vars
  PROVE  /\ missed \in Nat /\ (missed' = missed \/ missed' = missed + 1)
         /\ \A p : Listed(p, ledger) => Listed(p, ledger')
<1>0. ledger \in Seq(DumpRecord \cup {HalfRecord}) /\ missed \in Nat
  BY DEF TypeInv, TypeOK
<1> DEFINE Kept == \/ UNCHANGED <<ledger, missed>>
                   \/ \E d, status, time, path : appendDumpRecord(d, status, time, path)
                   \/ Die
<1>1. Kept
  <2>1. ASSUME NEW d \in Devices, RejectEvent(d) \/ collectDump(d)
                 \/ tickRetryWaiting(d) \/ pollAsyncStatus(d)
        PROVE  Kept
    BY <2>1 DEF RejectEvent, collectDump, tickRetryWaiting, pollAsyncStatus, Return,
                Fail, recordCollectionFailure
  <2>2. CASE callGetDiagnostics \/ readDump \/ storeFails \/ recordSuccess
    BY <2>2 DEF callGetDiagnostics, readDump, storeFails, recordSuccess, Return,
                Leave, Fail, recordCollectionFailure
  <2>3. CASE writeStoreTemp \/ renameStoreTemp \/ enforceEviction \/ cleanupContext
               \/ Rollover \/ Restart \/ Tick \/ UNCHANGED vars
    BY <2>3 DEF writeStoreTemp, renameStoreTemp, enforceEviction, cleanupContext,
                Rollover, Restart, Tick, Return, vars, handlerVars
  <2> QED  BY <2>1, <2>2, <2>3 DEF Next, Callback
<1>2. /\ missed' = missed \/ missed' = missed + 1
      /\ ledger' = ledger \/ \E e : ledger' = Append(ledger, e)
  BY <1>1 DEF appendDumpRecord, Die
<1> QED  BY <1>0, <1>2, ListedLasts

LEMMA StepIndexed ==
  ASSUME TypeInv, TypeInv', "restart" \notin Hazards, IndexedInv, [Next]_vars
  PROVE  IndexedInv'
<1> USE DEF IndexedInv
<1>0. pc # "down" /\ ~Die /\ ~Restart
  BY DEF Die, Restart
<1>1. pc' # "down"
  <2>1. ASSUME NEW d \in Devices, RejectEvent(d) \/ collectDump(d)
                 \/ tickRetryWaiting(d) \/ pollAsyncStatus(d)
        PROVE  pc' # "down"
    BY <1>0, <2>1 DEF RejectEvent, collectDump, tickRetryWaiting, pollAsyncStatus, Return,
                Fail, GoTo
  <2>2. CASE Callback
    BY <1>0, <2>2 DEF Callback, callGetDiagnostics, readDump, writeStoreTemp, renameStoreTemp,
                storeFails, enforceEviction, recordSuccess, cleanupContext, Return, Leave,
                Fail, GoTo
  <2>3. CASE Rollover \/ Tick \/ UNCHANGED vars
    BY <1>0, <2>3 DEF Rollover, Tick, vars, handlerVars
  <2> QED  BY <1>0, <2>1, <2>2, <2>3 DEF Next
<1>2. SUFFICES ASSUME missed' = 0, NEW p \in DOMAIN files'
               PROVE  Listed(p, ledger') \/ (pc' \in {"evict", "record"} /\ p = storePath')
  BY <1>1
<1>3. missed = 0
  BY <1>2, RecordsStay
<1>4. CASE p \notin DOMAIN files
  <2>1. renameStoreTemp
    BY <1>0, <1>2, <1>4, StoreSteps DEF enforceEviction, evictOldest, Restrict, storeVars
  <2>2. /\ pc' = "evict" /\ UNCHANGED <<job, contexts, dir>>
        /\ DOMAIN files' = DOMAIN files \cup {storePath}
    BY <2>1 DEF renameStoreTemp, RenameTemp, Put, GoTo, Unchanged
  <2> QED  BY <1>2, <1>4, <2>2 DEF storePath, buildStoragePath
<1>5. CASE p \in DOMAIN files
  <2>1. CASE Listed(p, ledger)
    BY <2>1, RecordsStay
  <2>2. CASE pc \in {"evict", "record"} /\ p = storePath
    <3>1. \A d \in Devices : ~(RejectEvent(d) \/ collectDump(d) \/ tickRetryWaiting(d)
                               \/ pollAsyncStatus(d))
      BY <2>2 DEF RejectEvent, collectDump, tickRetryWaiting, pollAsyncStatus, Event,
                  TimerExpires
    <3>2. ~(callGetDiagnostics \/ readDump \/ writeStoreTemp \/ renameStoreTemp
            \/ storeFails \/ cleanupContext \/ Rollover \/ Tick)
      BY <2>2 DEF callGetDiagnostics, readDump, writeStoreTemp, renameStoreTemp, storeFails,
             cleanupContext, Rollover, Tick
    <3>3. CASE enforceEviction \/ UNCHANGED vars
      <4>1. UNCHANGED <<job, contexts, dir>> /\ pc' \in {"evict", "record"}
        BY <2>2, <3>3 DEF enforceEviction, Unchanged, evictOldest, storeVars, GoTo,
                          vars, handlerVars
      <4> QED  BY <2>2, <4>1 DEF storePath, buildStoragePath
    <3>4. CASE recordSuccess
      <4> DEFINE e == [device |-> job, status |-> "SUCCESS",
                       eventTimeStamp |-> contexts[job].eventTimestamp,
                       filePath |-> storePath]
      <4>1. ledger' = Append(ledger, e)
        BY <1>2, <1>3, <3>4 DEF recordSuccess, appendDumpRecord
      <4>2. e.status = "SUCCESS" /\ e.filePath = storePath
        OBVIOUS
      <4> HIDE DEF e
      <4>3. ledger \in Seq(DumpRecord \cup {HalfRecord})
        BY DEF TypeInv, TypeOK
      <4>4. Len(ledger) + 1 \in DOMAIN ledger' /\ ledger'[Len(ledger) + 1] = e
        BY <4>1, <4>3
      <4> QED  BY <2>2, <4>2, <4>4 DEF Listed
    <3> QED  BY <1>0, <3>1, <3>2, <3>3, <3>4 DEF Next, Callback
  <2> QED  BY <1>3, <1>5, <2>1, <2>2
<1> QED  BY <1>4, <1>5

(* As long as the process does not die, and until a record is first lost,  *)
(* every dump on the disk is named by a SUCCESS record between callbacks,  *)
(* whatever directory became current while it was collected and whatever   *)
(* was evicted.  With a death between the rename and the record it is not. *)
THEOREM DumpsIndexed ==
  ASSUME "restart" \notin Hazards
  PROVE  Spec => []DumpsAreIndexed
<1>1. Init => IndexedInv
  <2> SUFFICES ASSUME Init PROVE IndexedInv
    OBVIOUS
  <2>1. pc = "idle" /\ DOMAIN files = {}
    BY DEF Init, StoreInit
  <2> QED  BY <2>1 DEF IndexedInv
<1>2. TypeInv /\ TypeInv' /\ IndexedInv /\ [Next]_vars => IndexedInv'
  BY StepIndexed
<1>3. IndexedInv => DumpsAreIndexed
  BY DEF IndexedInv, DumpsAreIndexed, Listed
<1> QED  BY <1>1, <1>2, <1>3, TypesInvariant, PTL DEF Spec

-----------------------------------------------------------------------------
(* How long a collection takes.  Waited(n) is the sum of the first n waits. *)
Waited(n) == waitSecs(1) * (2 ^ n - 1)
Polling == IF TimeoutSecs > 1 THEN TimeoutSecs ELSE 1

power(n) == IF n = 0 THEN 1 ELSE IF n = 1 THEN 2 ELSE IF n = 2 THEN 4
            ELSE IF n = 3 THEN 8 ELSE IF n = 4 THEN 16 ELSE IF n = 5 THEN 32
            ELSE IF n = 6 THEN 64 ELSE IF n = 7 THEN 128 ELSE IF n = 8 THEN 256
            ELSE IF n = 9 THEN 512 ELSE 1024

LEMMA PowerIs ==
  ASSUME NEW n \in 0..10
  PROVE  2^n = power(n)
<1>0. CASE n = 0
  BY <1>0, PowersOfTwo DEF power
<1>1. CASE n = 1
  BY <1>1, PowersOfTwo DEF power
<1>2. CASE n = 2
  BY <1>2, PowersOfTwo DEF power
<1>3. CASE n = 3
  BY <1>3, PowersOfTwo DEF power
<1>4. CASE n = 4
  BY <1>4, PowersOfTwo DEF power
<1>5. CASE n = 5
  BY <1>5, PowersOfTwo DEF power
<1>6. CASE n = 6
  BY <1>6, PowersOfTwo DEF power
<1>7. CASE n = 7
  BY <1>7, PowersOfTwo DEF power
<1>8. CASE n = 8
  BY <1>8, PowersOfTwo DEF power
<1>9. CASE n = 9
  BY <1>9, PowersOfTwo DEF power
<1>10. CASE n = 10
  BY <1>10, PowersOfTwo DEF power
<1> QED  BY <1>0, <1>1, <1>2, <1>3, <1>4, <1>5, <1>6, <1>7, <1>8, <1>9, <1>10

LEMMA PowersGrow ==
  ASSUME NEW n \in 0..10, NEW m \in n..10
  PROVE  2^n \in Nat /\ 2^m \in Nat /\ 1 <= 2^n /\ 2^n <= 2^m
<1>1. power(n) \in Nat /\ power(m) \in Nat /\ 1 <= power(n) /\ power(n) <= power(m)
  BY DEF power
<1>2. m \in 0..10
  OBVIOUS
<1>3. 2^n = power(n) /\ 2^m = power(m)
  BY <1>2, PowerIs
<1> QED  BY <1>1, <1>3

LEMMA WaitsAddUp ==
  /\ Waited(0) = 0
  /\ \A n \in 0..MaxRetries : Waited(n) \in Nat /\ Waited(n) <= Waited(MaxRetries)
  /\ \A n \in 1..MaxRetries : Waited(n) = Waited(n - 1) + waitSecs(n)
<1> DEFINE base == IF BaseSecs > 1 THEN BaseSecs ELSE 1
<1>1. base \in Nat /\ MaxRetries \in 0..10
  BY HandlerAssumption
<1>2. waitSecs(1) = base
  <2>1. 1 - 1 = 0 /\ 2^0 = 1
    BY PowersOfTwo
  <2>2. waitSecs(1) = base * 2^0
    BY <2>1 DEF waitSecs
  <2> QED  BY <1>1, <2>1, <2>2
<1> HIDE DEF base
<1>3. Waited(0) = 0
  BY <1>1, <1>2, PowersOfTwo DEF Waited
<1>4. ASSUME NEW n \in 0..MaxRetries
      PROVE  Waited(n) \in Nat /\ Waited(n) <= Waited(MaxRetries)
  <2>1. 2^n \in Nat /\ 2^MaxRetries \in Nat /\ 1 <= 2^n /\ 2^n <= 2^MaxRetries
    <3>1. n \in 0..10 /\ MaxRetries \in n..10
      BY <1>1
    <3> QED  BY <3>1, PowersGrow
  <2>2. \A b, u, k \in Nat : b * u \in Nat /\ b * u <= b * (u + k)
    <3> TAKE b, u, k \in Nat
    <3>1. b * (u + k) = b * u + b * k
      OBVIOUS
    <3>2. b * u \in Nat /\ b * k \in Nat
      OBVIOUS
    <3> QED  BY <3>1, <3>2
  <2> DEFINE u == 2^n - 1
             k == 2^MaxRetries - 2^n
  <2>3. u \in Nat /\ k \in Nat /\ u + k = 2^MaxRetries - 1
    BY <2>1
  <2> HIDE DEF u, k
  <2>4. base * u \in Nat /\ base * u <= base * (u + k)
    BY <1>1, <2>2, <2>3
  <2>5. Waited(n) = base * u
    BY <1>2 DEF Waited, u
  <2>6. Waited(MaxRetries) = base * (u + k)
    BY <1>2, <2>3 DEF Waited
  <2> QED  BY <2>4, <2>5, <2>6
<1>5. ASSUME NEW n \in 1..MaxRetries
      PROVE  Waited(n) = Waited(n - 1) + waitSecs(n)
  <2>1. n - 1 \in 0..9 /\ (n - 1) + 1 = n
    BY <1>1
  <2>2. 2^(n - 1) \in Nat /\ 2^n = 2 * 2^(n - 1)
    BY <2>1, DoublingPower
  <2>3. \A b, x \in Nat : b * (2 * x - 1) = b * (x - 1) + b * x
    OBVIOUS
  <2>4. waitSecs(n) = base * 2^(n - 1)
    BY DEF waitSecs, base
  <2> QED  BY <1>1, <1>2, <2>2, <2>3, <2>4 DEF Waited
<1> QED  BY <1>3, <1>4, <1>5

(* What the fields of a collection say about its age when its timer was    *)
(* armed.  `busy': a callback is about it.                                 *)
age(c) == c.due - 1 - c.eventTimestamp
Progress(c, busy) ==
  \/ /\ c.state = "AwaitingGetDiag" /\ busy
     /\ c.attempt = 0 /\ age(c) = 0
  \/ /\ c.state = "RetryWaiting" /\ c.attempt \in 1..MaxRetries
     /\ age(c) = Waited(c.attempt) - c.retryWaitRemaining
     /\ busy => c.retryWaitRemaining = 0
  \/ /\ c.state = "PollingStatus" /\ c.attempt \in 1..(MaxRetries + 1)
     /\ age(c) = Waited(c.attempt - 1) + c.elapsedPollSecs
     /\ IF busy THEN c.elapsedPollSecs <= Polling ELSE c.elapsedPollSecs < Polling
DurationInv ==
  /\ pc = "getDiagnostics" => contexts[job].state # "PollingStatus"
  /\ \A d \in DOMAIN contexts :
       /\ now = contexts[d].due - 1 \/ now = contexts[d].due
       /\ d = job => now = contexts[d].due - 1
       /\ IF d = job /\ pc = "cleanup"
          THEN now - contexts[d].eventTimestamp <= LongestCollection
          ELSE Progress(contexts[d], d = job)

LEMMA ProgressIsBounded ==
  ASSUME NEW c \in Context, NEW busy \in BOOLEAN, Progress(c, busy)
  PROVE  /\ age(c) <= LongestCollection
         /\ ~busy /\ (c.state = "RetryWaiting" => c.retryWaitRemaining >= 1) =>
              age(c) + 1 <= LongestCollection
<1>1. /\ MaxRetries \in Nat /\ Polling \in Nat /\ Polling >= 1
  BY HandlerAssumption DEF Polling
<1>2. LongestCollection = Waited(MaxRetries) + Polling
  BY DEF LongestCollection, Waited, Polling
<1>3. Waited(MaxRetries) \in Nat
  BY <1>1, WaitsAddUp
<1>4. CASE c.state = "AwaitingGetDiag"
  BY <1>1, <1>2, <1>3, <1>4 DEF Progress
<1>5. CASE c.state = "RetryWaiting"
  <2>1. c.attempt \in 1..MaxRetries /\ age(c) = Waited(c.attempt) - c.retryWaitRemaining
        /\ c.retryWaitRemaining \in Nat
    BY <1>5 DEF Progress, Context
  <2>2. Waited(c.attempt) \in Nat /\ Waited(c.attempt) <= Waited(MaxRetries)
    BY <1>1, <2>1, WaitsAddUp
  <2> QED  BY <1>1, <1>2, <1>3, <1>5, <2>1, <2>2
<1>6. CASE c.state = "PollingStatus"
  <2>1. /\ c.attempt \in 1..(MaxRetries + 1)
        /\ age(c) = Waited(c.attempt - 1) + c.elapsedPollSecs
        /\ IF busy THEN c.elapsedPollSecs <= Polling ELSE c.elapsedPollSecs < Polling
        /\ c.elapsedPollSecs \in Nat
    BY <1>6 DEF Progress, Context
  <2>2. c.attempt - 1 \in 0..MaxRetries
    BY <1>1, <2>1
  <2>3. Waited(c.attempt - 1) \in Nat /\ Waited(c.attempt - 1) <= Waited(MaxRetries)
    BY <2>2, WaitsAddUp
  <2> QED  BY <1>1, <1>2, <1>3, <1>6, <2>1, <2>3
<1> QED  BY <1>4, <1>5, <1>6 DEF Context

(* What DurationInv says of one collection.                                *)
InTime(c, busy, over, time) ==
  /\ time = c.due - 1 \/ time = c.due
  /\ busy => time = c.due - 1
  /\ IF busy /\ over THEN time - c.eventTimestamp <= LongestCollection
     ELSE Progress(c, busy)

LEMMA DurationUnfolds ==
  DurationInv <=> /\ pc = "getDiagnostics" => contexts[job].state # "PollingStatus"
                  /\ \A d \in DOMAIN contexts :
                       InTime(contexts[d], d = job, pc = "cleanup", now)
BY DEF DurationInv, InTime

LEMMA NewIsInTime ==
  ASSUME NEW time \in Nat, NEW where \in Nat
  PROVE  InTime([state |-> "AwaitingGetDiag", attempt |-> 0, retryWaitRemaining |-> 0,
                 elapsedPollSecs |-> 0, eventTimestamp |-> time, dir |-> where,
                 due |-> time + 1], TRUE, FALSE, time)
BY DEF InTime, Progress, age

(* A retry that is due counts down, and its callback begins at zero.       *)
LEMMA RetryIsInTime ==
  ASSUME NEW c \in Context, NEW time \in Nat, time >= c.due, c.state = "RetryWaiting",
         InTime(c, FALSE, FALSE, time), c.retryWaitRemaining >= 1, NEW left \in Nat,
         left = c.retryWaitRemaining - 1,
         NEW n, n = [c EXCEPT !.retryWaitRemaining = left, !.due = time + 1]
  PROVE  InTime(n, FALSE, FALSE, time) /\ (left = 0 => InTime(n, TRUE, FALSE, time))
<1>1. /\ n.due = time + 1 /\ n.retryWaitRemaining = left /\ n.state = c.state
      /\ n.attempt = c.attempt /\ n.eventTimestamp = c.eventTimestamp
      /\ c.due \in Nat /\ c.eventTimestamp \in Nat
  BY DEF Context
<1>2. time = c.due
  BY <1>1 DEF InTime
<1>3. c.attempt \in 1..MaxRetries /\ age(c) = Waited(c.attempt) - c.retryWaitRemaining
  BY DEF InTime, Progress
<1>4. Waited(c.attempt) \in Nat
  BY <1>3, WaitsAddUp, HandlerAssumption
<1>5. age(n) = Waited(n.attempt) - n.retryWaitRemaining
  <2>1. age(n) = age(c) + 1
    BY <1>1, <1>2 DEF age
  <2>2. c.retryWaitRemaining \in Nat
    BY DEF Context
  <2> QED  BY <1>1, <1>3, <1>4, <2>1, <2>2
<1>6. n.state = "RetryWaiting" /\ n.attempt \in 1..MaxRetries /\ n.retryWaitRemaining = left
  BY <1>1, <1>3
<1>7. Progress(n, FALSE) /\ (left = 0 => Progress(n, TRUE))
  BY <1>5, <1>6 DEF Progress
<1>8. time = n.due - 1
  BY <1>1
<1> QED  BY <1>7, <1>8 DEF InTime

(* A poll that is due: the collection goes on within the timeout.          *)
LEMMA PollIsInTime ==
  ASSUME NEW c \in Context, NEW time \in Nat, time >= c.due, c.state = "PollingStatus",
         InTime(c, FALSE, FALSE, time), NEW elapsed \in Nat, elapsed = c.elapsedPollSecs + 1,
         NEW n, n = [c EXCEPT !.elapsedPollSecs = elapsed, !.due = time + 1]
  PROVE  InTime(n, TRUE, FALSE, time) /\ (elapsed < TimeoutSecs => InTime(n, FALSE, FALSE, time))
<1>1. /\ n.due = time + 1 /\ n.elapsedPollSecs = elapsed /\ n.state = c.state
      /\ n.attempt = c.attempt /\ n.eventTimestamp = c.eventTimestamp
      /\ c.due \in Nat /\ c.eventTimestamp \in Nat /\ c.elapsedPollSecs \in Nat
  BY DEF Context
<1>2. time = c.due
  BY <1>1 DEF InTime
<1>3. /\ c.attempt \in 1..(MaxRetries + 1) /\ c.elapsedPollSecs < Polling
      /\ age(c) = Waited(c.attempt - 1) + c.elapsedPollSecs
  BY DEF InTime, Progress
<1>4. Waited(c.attempt - 1) \in Nat
  <2>1. c.attempt - 1 \in 0..MaxRetries
    BY <1>3, HandlerAssumption
  <2> QED  BY <2>1, WaitsAddUp
<1>5. age(n) = Waited(n.attempt - 1) + n.elapsedPollSecs
  BY <1>1, <1>2, <1>3, <1>4 DEF age
<1>6. elapsed <= Polling /\ (elapsed < TimeoutSecs => elapsed < Polling)
  BY <1>1, <1>3, HandlerAssumption DEF Polling
<1>7. /\ n.state = "PollingStatus" /\ n.attempt \in 1..(MaxRetries + 1)
      /\ n.elapsedPollSecs = elapsed
  BY <1>1, <1>3
<1>8. Progress(n, TRUE) /\ (elapsed < TimeoutSecs => Progress(n, FALSE))
  BY <1>5, <1>6, <1>7 DEF Progress
<1>9. time = n.due - 1
  BY <1>1
<1> QED  BY <1>8, <1>9 DEF InTime

(* A callback about a collection may end it at any time.                   *)
LEMMA EndsInTime ==
  ASSUME NEW c \in Context, NEW time \in Nat, NEW over \in BOOLEAN,
         InTime(c, TRUE, FALSE, time)
  PROVE  InTime(c, TRUE, over, time)
<1>1. time = c.due - 1 /\ Progress(c, TRUE) /\ c.due \in Nat /\ c.eventTimestamp \in Nat
  BY DEF InTime, Context
<1>2. age(c) <= LongestCollection
  BY <1>1, ProgressIsBounded
<1>3. time - c.eventTimestamp = age(c)
  BY <1>1 DEF age
<1> QED  BY <1>1, <1>2, <1>3 DEF InTime

(* The attempt that ends a wait: its age is the sum of the waits.          *)
LEMMA AttemptIsInTime ==
  ASSUME NEW c \in Context, NEW time \in Nat, InTime(c, TRUE, FALSE, time),
         c.state # "PollingStatus"
  PROVE  /\ c.attempt + 1 \in 1..(MaxRetries + 1)
         /\ age(c) = Waited(c.attempt) /\ time = c.due - 1
<1>1. time = c.due - 1 /\ Progress(c, TRUE)
  BY DEF InTime
<1>2. MaxRetries \in Nat
  BY HandlerAssumption
<1>3. CASE c.state = "AwaitingGetDiag"
  BY <1>1, <1>2, <1>3, WaitsAddUp DEF Progress
<1>4. CASE c.state = "RetryWaiting"
  <2>1. c.attempt \in 1..MaxRetries /\ c.retryWaitRemaining = 0
        /\ age(c) = Waited(c.attempt) - c.retryWaitRemaining
    BY <1>1, <1>4 DEF Progress
  <2>2. Waited(c.attempt) \in Nat
    BY <1>2, <2>1, WaitsAddUp
  <2> QED  BY <1>1, <1>2, <2>1, <2>2
<1> QED  BY <1>3, <1>4 DEF Context

(* Steps that leave the collections alone.                                 *)
LEMMA QuietForDuration ==
  ASSUME TypeInv, DurationInv, UNCHANGED <<now, contexts, job>>,
         pc' = "getDiagnostics" => pc = "getDiagnostics", pc = "cleanup" => pc' = "cleanup"
  PROVE  DurationInv'
<1>1. ASSUME NEW d \in DOMAIN contexts
      PROVE  InTime(contexts[d], d = job, pc' = "cleanup", now)
  <2>1. InTime(contexts[d], d = job, pc = "cleanup", now)
    BY <1>1, DurationUnfolds
  <2>2. CASE d # job \/ (pc' = "cleanup" <=> pc = "cleanup")
    BY <2>1, <2>2 DEF InTime
  <2>3. CASE d = job /\ pc' = "cleanup" /\ pc # "cleanup"
    <3>1. InTime(contexts[d], TRUE, FALSE, now)
      BY <2>1, <2>3 DEF InTime
    <3>2. contexts[d] \in Context /\ now \in Nat
      BY <1>1 DEF TypeInv, TypeOK
    <3>3. InTime(contexts[d], TRUE, TRUE, now)
      BY <3>1, <3>2, EndsInTime
    <3> QED  BY <2>3, <3>3 DEF InTime
  <2> QED  BY <2>2, <2>3
<1>2. pc' = "getDiagnostics" => contexts[job].state # "PollingStatus"
  BY DEF DurationInv
<1> QED  BY <1>1, <1>2 DEF DurationInv, InTime

LEMMA StepDuration ==
  ASSUME TypeInv, TypeInv', DurationInv, [Next]_vars
  PROVE  DurationInv'
<1>0. /\ \A d \in DOMAIN contexts : contexts[d] \in Context /\ d # "none"
      /\ now \in Nat
  BY HandlerAssumption DEF TypeInv, TypeOK
<1>1. ASSUME NEW d \in Devices, RejectEvent(d) PROVE DurationInv'
  BY <1>1, QuietForDuration DEF RejectEvent
<1>2. CASE readDump \/ writeStoreTemp \/ renameStoreTemp \/ storeFails \/ enforceEviction
           \/ recordSuccess
  <2>1. /\ UNCHANGED <<now, contexts, job>> /\ pc # "cleanup"
        /\ pc' = "getDiagnostics" => pc = "getDiagnostics"
    BY <1>2 DEF readDump, writeStoreTemp, renameStoreTemp, storeFails, enforceEviction,
                recordSuccess, Unchanged, Leave, Fail, GoTo
  <2> QED  BY <2>1, QuietForDuration
<1>3. CASE Rollover \/ UNCHANGED vars
  BY <1>3, QuietForDuration DEF Rollover, vars, handlerVars
<1>4. CASE Restart
  <2>1. job = "none" /\ job' = "none" /\ pc = "down" /\ pc' = "idle"
    BY <1>4 DEF Restart, Return, GoTo, TypeInv, TypeOK
  <2> QED  BY <1>4, <2>1, QuietForDuration DEF Restart
<1>5. CASE Die
  <2>1. DOMAIN contexts' = {} /\ pc' = "down"
    BY <1>5 DEF Die
  <2> QED  BY <2>1 DEF DurationInv
<1>6. CASE cleanupContext
  <2>1. /\ pc = "cleanup" /\ pc' = "idle" /\ job' = "none" /\ now' = now
        /\ DOMAIN contexts' = DOMAIN contexts \ {job}
        /\ \A d \in DOMAIN contexts' : contexts'[d] = contexts[d]
    BY <1>6 DEF cleanupContext, Return, GoTo, Restrict
  <2>2. \A d \in DOMAIN contexts' : InTime(contexts'[d], d = job', pc' = "cleanup", now')
    BY <1>0, <2>1, DurationUnfolds DEF InTime
  <2> QED  BY <2>1, <2>2 DEF DurationInv, InTime
<1>7. CASE Tick
  <2>1. /\ pc \in {"idle", "down"} /\ now' = now + 1 /\ UNCHANGED <<pc, job, contexts>>
        /\ \A d \in DOMAIN contexts : now < contexts[d].due
    BY <1>7 DEF Tick
  <2>2. job = "none"
    BY <2>1 DEF TypeInv, TypeOK
  <2>3. ASSUME NEW d \in DOMAIN contexts
        PROVE  InTime(contexts[d], d = job, pc = "cleanup", now + 1)
    <3>1. InTime(contexts[d], d = job, pc = "cleanup", now) /\ contexts[d].due \in Nat
      BY <1>0, <2>3, DurationUnfolds DEF Context
    <3>2. now + 1 = contexts[d].due /\ d # job
      BY <1>0, <2>1, <2>2, <2>3, <3>1 DEF InTime
    <3> QED  BY <3>1, <3>2 DEF InTime
  <2> QED  BY <2>1, <2>3 DEF DurationInv, InTime
<1>8. ASSUME NEW d \in Devices, collectDump(d) PROVE DurationInv'
  <2>1. /\ job = "none" /\ pc = "idle" /\ pc' = "getDiagnostics" /\ job' = d
        /\ d \notin DOMAIN contexts /\ now' = now
        /\ DOMAIN contexts' = {d} \cup DOMAIN contexts
        /\ contexts'[d] = [state |-> "AwaitingGetDiag", attempt |-> 0,
                           retryWaitRemaining |-> 0, elapsedPollSecs |-> 0,
                           eventTimestamp |-> now, dir |-> dir, due |-> now + 1]
        /\ \A e \in DOMAIN contexts : contexts'[e] = contexts[e]
    BY <1>8, Beginning
  <2>2. InTime(contexts'[d], TRUE, FALSE, now)
    BY <1>0, <2>1, NewIsInTime DEF TypeInv, TypeOK
  <2>3. \A e \in DOMAIN contexts : InTime(contexts[e], FALSE, FALSE, now)
    BY <1>0, <2>1, DurationUnfolds DEF InTime
  <2>4. contexts'[d].state # "PollingStatus"
    BY <2>1
  <2>5. \A e \in DOMAIN contexts' : InTime(contexts'[e], e = job', pc' = "cleanup", now')
    BY <2>1, <2>2, <2>3 DEF InTime
  <2> QED  BY <2>1, <2>4, <2>5 DEF DurationInv, InTime
(* The step of a timer or of its callback is about one collection.         *)
<1>9. ASSUME NEW d \in DOMAIN contexts, job' \in {d, "none"}, job \in {d, "none"},
             now' = now, DOMAIN contexts' = DOMAIN contexts,
             \A e \in DOMAIN contexts : e # d => contexts'[e] = contexts[e],
             InTime(contexts'[d], job' = d, pc' = "cleanup", now),
             pc' = "getDiagnostics" => job' = d /\ contexts'[d].state # "PollingStatus"
      PROVE  DurationInv'
  <2>1. \A e \in DOMAIN contexts : e # d => InTime(contexts[e], FALSE, FALSE, now)
    <3> SUFFICES ASSUME NEW e \in DOMAIN contexts, e # d
                 PROVE  InTime(contexts[e], FALSE, FALSE, now)
      OBVIOUS
    <3>1. e # job
      BY <1>0, <1>9
    <3>2. InTime(contexts[e], e = job, pc = "cleanup", now)
      BY DurationUnfolds
    <3> QED  BY <3>1, <3>2 DEF InTime
  <2>2. \A e \in DOMAIN contexts' : InTime(contexts'[e], e = job', pc' = "cleanup", now')
    BY <1>0, <1>9, <2>1 DEF InTime
  <2> QED  BY <1>9, <2>2 DEF DurationInv, InTime
<1>10. ASSUME NEW d \in Devices, TimerExpires(d)
       PROVE  /\ d \in DOMAIN contexts /\ contexts[d] \in Context /\ d # "none"
              /\ now >= contexts[d].due /\ job = "none" /\ pc = "idle"
              /\ InTime(contexts[d], FALSE, FALSE, now)
              /\ contexts[d].state = "RetryWaiting" => contexts[d].retryWaitRemaining >= 1
  <2>1. /\ d \in DOMAIN contexts /\ contexts[d] \in Context /\ d # "none"
        /\ now >= contexts[d].due /\ pc = "idle"
    BY <1>0, <1>10 DEF TimerExpires
  <2>2. job = "none"
    BY <2>1 DEF TypeInv, TypeOK
  <2>3. InTime(contexts[d], FALSE, FALSE, now)
    BY <2>1, <2>2, DurationUnfolds DEF InTime
  <2> QED  BY <2>1, <2>2, <2>3 DEF TypeInv
<1>11. ASSUME NEW d \in Devices, tickRetryWaiting(d) PROVE DurationInv'
  <2> DEFINE c == contexts[d]
             left == contexts[d].retryWaitRemaining - 1
  <2>1. /\ d \in DOMAIN contexts /\ c \in Context /\ d # "none" /\ now >= c.due
        /\ job = "none" /\ InTime(c, FALSE, FALSE, now)
        /\ c.state = "RetryWaiting" /\ c.retryWaitRemaining >= 1
    BY <1>10, <1>11 DEF tickRetryWaiting
  <2>2. /\ contexts' = [contexts EXCEPT ![d].retryWaitRemaining = left, ![d].due = now + 1]
        /\ now' = now
    BY <1>11 DEF tickRetryWaiting
  <2>3. /\ DOMAIN contexts' = DOMAIN contexts
        /\ contexts'[d] = [c EXCEPT !.retryWaitRemaining = left, !.due = now + 1]
        /\ \A e \in DOMAIN contexts : e # d => contexts'[e] = contexts[e]
    BY <2>1, <2>2
  <2>4. left \in Nat /\ c.retryWaitRemaining \in Nat
    BY <2>1 DEF Context
  <2>5. contexts'[d].state = "RetryWaiting"
    BY <2>1, <2>3 DEF Context
  <2>8. /\ InTime(contexts'[d], FALSE, FALSE, now)
        /\ left = 0 => InTime(contexts'[d], TRUE, FALSE, now)
    <3> HIDE DEF c
    <3>1. left = c.retryWaitRemaining - 1
      BY DEF c
    <3> HIDE DEF left
    <3> QED  BY <1>0, <2>1, <2>3, <2>4, <3>1, RetryIsInTime
  <2>6. CASE left > 0 /\ Return
    BY <1>9, <2>1, <2>2, <2>3, <2>6, <2>8 DEF Return, GoTo, InTime
  <2>7. CASE ~(left > 0) /\ GoTo("getDiagnostics") /\ job' = d
    <3>1. left = 0
      BY <2>4, <2>7
    <3>2. InTime(contexts'[d], TRUE, FALSE, now)
      BY <2>8, <3>1
    <3> QED  BY <1>9, <2>1, <2>2, <2>3, <2>5, <2>7, <3>2 DEF GoTo, InTime
  <2> QED  BY <1>11, <2>6, <2>7 DEF tickRetryWaiting
<1>12. ASSUME NEW d \in Devices, pollAsyncStatus(d) PROVE DurationInv'
  <2> DEFINE c == contexts[d]
             elapsed == contexts[d].elapsedPollSecs + 1
  <2>1. /\ d \in DOMAIN contexts /\ c \in Context /\ d # "none" /\ now >= c.due
        /\ job = "none" /\ InTime(c, FALSE, FALSE, now) /\ c.state = "PollingStatus"
    BY <1>10, <1>12 DEF pollAsyncStatus
  <2>2. /\ contexts' = [contexts EXCEPT ![d].elapsedPollSecs = elapsed, ![d].due = now + 1]
        /\ now' = now
    BY <1>12 DEF pollAsyncStatus
  <2>3. /\ DOMAIN contexts' = DOMAIN contexts
        /\ contexts'[d] = [c EXCEPT !.elapsedPollSecs = elapsed, !.due = now + 1]
        /\ \A e \in DOMAIN contexts : e # d => contexts'[e] = contexts[e]
    BY <2>1, <2>2
  <2>4. elapsed \in Nat
    BY <2>1 DEF Context
  <2>5. /\ InTime(contexts'[d], TRUE, FALSE, now)
        /\ elapsed < TimeoutSecs => InTime(contexts'[d], FALSE, FALSE, now)
    <3> HIDE DEF c
    <3>1. elapsed = c.elapsedPollSecs + 1
      BY DEF c
    <3> HIDE DEF elapsed
    <3> QED  BY <1>0, <2>1, <2>3, <2>4, <3>1, PollIsInTime
  <2>6. CASE GoTo("complete") /\ job' = d
    BY <1>9, <2>1, <2>2, <2>3, <2>5, <2>6 DEF GoTo, InTime
  <2>7. CASE Fail(d)
    <3>1. contexts'[d] \in Context
      BY <2>1, <2>3 DEF TypeInv, TypeOK
    <3>2. InTime(contexts'[d], TRUE, TRUE, now)
      BY <1>0, <2>5, <3>1, EndsInTime
    <3> QED  BY <1>9, <2>1, <2>2, <2>3, <2>7, <3>2 DEF Fail, InTime
  <2>8. CASE elapsed < TimeoutSecs /\ Return
    BY <1>9, <2>1, <2>2, <2>3, <2>5, <2>8 DEF Return, GoTo, InTime
  <2> QED  BY <1>12, <2>6, <2>7, <2>8 DEF pollAsyncStatus
<1>13. CASE callGetDiagnostics
  <2> DEFINE c == contexts[job]
             n == contexts[job].attempt + 1
  <2>1. /\ pc = "getDiagnostics" /\ job \in DOMAIN contexts /\ c \in Context
        /\ job # "none" /\ now' = now
    BY <1>13, JobIsInFlight DEF callGetDiagnostics
  <2>2. InTime(c, TRUE, FALSE, now) /\ c.state # "PollingStatus"
    BY <2>1, DurationUnfolds DEF InTime
  <2>3. /\ n \in 1..(MaxRetries + 1) /\ age(c) = Waited(c.attempt) /\ now = c.due - 1
        /\ n - 1 = c.attempt /\ c.attempt \in Nat
    <3> HIDE DEF c
    <3>1. c.attempt \in Nat /\ n = c.attempt + 1
      BY <2>1 DEF Context, c
    <3>2. c.attempt + 1 \in 1..(MaxRetries + 1) /\ age(c) = Waited(c.attempt) /\ now = c.due - 1
      BY <1>0, <2>1, <2>2, AttemptIsInTime
    <3> HIDE DEF n
    <3> QED  BY <3>1, <3>2
  <2>4. MaxRetries \in Nat /\ Polling \in Nat /\ 0 < Polling
    BY HandlerAssumption DEF Polling
  <2>5. Waited(c.attempt) \in Nat
    BY <2>3, <2>4, WaitsAddUp
  <2>6. CASE contexts' = [contexts EXCEPT ![job] =
                [@ EXCEPT !.state = "PollingStatus", !.attempt = n,
                          !.elapsedPollSecs = 0]] /\ Return
    <3> DEFINE c2 == contexts'[job]
    <3>1. /\ DOMAIN contexts' = DOMAIN contexts
          /\ \A e \in DOMAIN contexts : e # job => contexts'[e] = contexts[e]
          /\ c2.state = "PollingStatus" /\ c2.attempt = n /\ c2.elapsedPollSecs = 0
          /\ c2.due = c.due /\ c2.eventTimestamp = c.eventTimestamp
      BY <2>1, <2>6 DEF Context
    <3>2. age(c2) = Waited(c2.attempt - 1) + c2.elapsedPollSecs
      BY <2>3, <2>5, <3>1 DEF age
    <3>3. Progress(c2, FALSE)
      BY <2>3, <2>4, <3>1, <3>2 DEF Progress
    <3>4. InTime(c2, FALSE, FALSE, now)
      BY <2>3, <3>1, <3>3 DEF InTime
    <3> QED  BY <1>9, <2>1, <2>6, <3>1, <3>4 DEF Return, GoTo, InTime
  <2>7. CASE n <= MaxRetries /\ contexts' = [contexts EXCEPT ![job] =
                [@ EXCEPT !.state = "RetryWaiting", !.attempt = n,
                          !.retryWaitRemaining = waitSecs(n)]] /\ Return
    <3> DEFINE c2 == contexts'[job]
    <3>1. /\ DOMAIN contexts' = DOMAIN contexts
          /\ \A e \in DOMAIN contexts : e # job => contexts'[e] = contexts[e]
          /\ c2.state = "RetryWaiting" /\ c2.attempt = n /\ c2.retryWaitRemaining = waitSecs(n)
          /\ c2.due = c.due /\ c2.eventTimestamp = c.eventTimestamp
      BY <2>1, <2>7 DEF Context
    <3>2. n \in 1..MaxRetries
      BY <2>3, <2>4, <2>7
    <3>3. /\ waitSecs(n) \in Nat /\ Waited(n) = Waited(n - 1) + waitSecs(n)
          /\ Waited(n) \in Nat
      BY <2>4, <3>2, WaitIsPositive, WaitsAddUp
    <3>4. age(c2) = age(c)
      BY <3>1 DEF age
    <3>5. age(c2) = Waited(c2.attempt) - c2.retryWaitRemaining
      BY <2>3, <2>5, <3>1, <3>3, <3>4
    <3>6. Progress(c2, FALSE)
      BY <3>1, <3>2, <3>5 DEF Progress
    <3>7. InTime(c2, FALSE, FALSE, now)
      BY <2>3, <3>1, <3>6 DEF InTime
    <3> QED  BY <1>9, <2>1, <2>7, <3>1, <3>7 DEF Return, GoTo, InTime
  <2>8. CASE contexts' = [contexts EXCEPT ![job].attempt = n] /\ Fail(job)
    <3>1. /\ DOMAIN contexts' = DOMAIN contexts
          /\ \A e \in DOMAIN contexts : e # job => contexts'[e] = contexts[e]
          /\ contexts'[job].due = c.due
          /\ contexts'[job].eventTimestamp = c.eventTimestamp
      BY <2>1, <2>8 DEF Context
    <3>2. InTime(c, TRUE, TRUE, now)
      BY <1>0, <2>1, <2>2, EndsInTime
    <3>3. InTime(contexts'[job], TRUE, TRUE, now)
      BY <3>1, <3>2 DEF InTime
    <3> QED  BY <1>9, <2>1, <2>8, <3>1, <3>3 DEF Fail, InTime
  <2> QED  BY <1>13, <2>6, <2>7, <2>8 DEF callGetDiagnostics
<1> QED
  BY <1>1, <1>2, <1>3, <1>4, <1>5, <1>6, <1>7, <1>8, <1>11, <1>12, <1>13 DEF Next, Callback

(* With up to ten retries, whatever their delay and the timeout, and       *)
(* whatever other collections do meanwhile, a collection is in flight no   *)
(* longer than all the waits and one polling phase together.               *)
THEOREM CollectionsAreShort == Spec => []CollectionTimeIsBounded
<1>1. Init => DurationInv
  <2> SUFFICES ASSUME Init PROVE DurationInv
    OBVIOUS
  <2>1. DOMAIN contexts = {} /\ pc = "idle"
    BY DEF Init
  <2> QED  BY <2>1 DEF DurationInv
<1>2. TypeInv /\ TypeInv' /\ DurationInv /\ [Next]_vars => DurationInv'
  BY StepDuration
<1>3. TypeInv /\ DurationInv => CollectionTimeIsBounded
  <2> SUFFICES ASSUME TypeInv, DurationInv, NEW d \in DOMAIN contexts
               PROVE  now - contexts[d].eventTimestamp <= LongestCollection
    BY DEF CollectionTimeIsBounded
  <2> DEFINE c == contexts[d]
  <2>1. c \in Context /\ now \in Nat /\ c.due \in Nat /\ c.eventTimestamp \in Nat
    BY DEF TypeInv, TypeOK, Context
  <2>2. InTime(c, d = job, pc = "cleanup", now)
    BY DurationUnfolds
  <2>3. CASE d = job
    <3>1. CASE pc = "cleanup"
      BY <2>2, <2>3, <3>1 DEF InTime
    <3>2. CASE pc # "cleanup"
      <4>1. InTime(c, TRUE, FALSE, now)
        BY <2>2, <2>3, <3>2 DEF InTime
      <4>2. InTime(c, TRUE, TRUE, now)
        BY <2>1, <4>1, EndsInTime
      <4> QED  BY <4>2 DEF InTime
    <3> QED  BY <3>1, <3>2
  <2>4. CASE d # job
    <3>1. Progress(c, FALSE) /\ (now = c.due - 1 \/ now = c.due)
      BY <2>2, <2>4 DEF InTime
    <3>2. c.state = "RetryWaiting" => c.retryWaitRemaining >= 1
      BY <2>4 DEF TypeInv
    <3>3. age(c) + 1 <= LongestCollection
      BY <2>1, <3>1, <3>2, ProgressIsBounded
    <3>4. /\ now - c.eventTimestamp = age(c) \/ now - c.eventTimestamp = age(c) + 1
          /\ age(c) \in Int
      BY <2>1, <3>1 DEF age
    <3>5. LongestCollection \in Int
      <4>1. LongestCollection = Waited(MaxRetries) + Polling
        BY DEF LongestCollection, Waited, Polling
      <4>2. Waited(MaxRetries) \in Nat /\ Polling \in Nat
        BY WaitsAddUp, HandlerAssumption DEF Polling
      <4> QED  BY <4>1, <4>2
    <3> QED  BY <2>1, <3>3, <3>4, <3>5
  <2> QED  BY <2>3, <2>4
<1> QED  BY <1>1, <1>2, <1>3, TypesInvariant, PTL DEF Spec
=================================================================================
