------------------------------ MODULE Compaction ------------------------------
(***************************************************************************)
(* The sample directories of the flight data recorder and their compaction *)
(* (fdr_compact.cpp, with the parts of fdr.cpp, fdr_store.cpp and          *)
(* fdr_timers.cpp it runs in).                                             *)
(*                                                                         *)
(* Sensor samples are appended to <component>.sensors.dat in the current   *)
(* directory BootCount_<boot>_DateStamp_<stamp>.  Every directory is named *)
(* in Bookkeeper/Compactor.dat.  When the compaction window expires the    *)
(* previous directory is compacted: the samples near an error of the book  *)
(* of errors are copied to <component>.sensors.hifi.dat, the raw files are *)
(* deleted, the name is removed from Compactor.dat, and a new directory is *)
(* opened.  At start up every listed directory is compacted.               *)
(*                                                                         *)
(* The program is one thread; `pc' is where it stands between two writes   *)
(* to the file system, because that is where an HMC reset or the death of  *)
(* the process can leave the files.                                        *)
(***************************************************************************)
EXTENDS Integers, Sequences, FiniteSets

CONSTANTS
  Files,      \* the components that have a *.sensors.dat file
  Window,     \* GeneralConfig.CompactionWindowSecs
  Preserve,   \* GeneralConfig.HiFiDataPreserveTimeSecs
  StartTime,  \* the clock when the recorder is first started
  MaxTime,    \* bound: the clock stops here
  MaxBoot,    \* bound: the highest boot counter
  MaxErrors,  \* bound: how many errors may be reported
  MaxSamples, \* bound: how many samples may be stored
  Hazards     \* what the environment may do, see HazardNames

HazardNames ==
  { "powerLoss",     \* the HMC resets: /tmp is lost, the boot counter moves
    "processDeath",  \* the process dies and is started again, same boot
    "tornCopy",      \* it does so after copyFile truncated Compactor.dat
    "tornKeeper",    \* an HMC reset leaves a bookkeeper record half written
    "tornSample",    \* an HMC reset leaves a sample half written
    "copyFails",     \* copyFile reports an error
    "throws",        \* a std::filesystem call throws
    "slowBoot",      \* seconds pass between start up and arming the timers
    "slowEngine",    \* seconds pass while the window is being compacted
    "repeatedError", \* a component reports its error again in the same boot
    "sameSecond" }   \* a restart within the second that names the directory

(* Start times are beyond Preserve: the code subtracts Preserve from them  *)
(* as uint64_t and would wrap before 1970-01-01 00:05.                     *)
ASSUME ConstantsAssumption ==
  /\ IsFiniteSet(Files) /\ Files # {}
  /\ Preserve \in Nat
  /\ Window \in Nat /\ Window > 0
  /\ StartTime \in Nat /\ StartTime > 0 /\ StartTime >= Preserve
  /\ MaxTime \in Nat /\ MaxBoot \in Nat /\ MaxErrors \in Nat
  /\ MaxSamples \in Nat
  /\ Hazards \subseteq HazardNames

(* Operators whose name has an underscore and a lower case ending stand for *)
(* a plausible mistake in the code they precede; no run uses them.         *)
RUN_TIME_DIR_COUNT_one == 1
BOOT_TIME_DIR_COUNT_two == 2
RUN_TIME_DIR_COUNT == 2
BOOT_TIME_DIR_COUNT == 1
currentDataFormatVersion == 2

Directory == [boot : Nat, stamp : Nat]
Sample == [dir : Directory, file : Files, time : Nat]
RawFile == [dir : Directory, file : Files]
BookOfErrorsEntry == [boot : Nat, device : Files, time : Nat]
BootEvent == [boot : Nat, time : Nat, version : {1, 2}]
Keepers == {"Compactor", "BookOfErrors", "BootEvent"}

VARIABLES
  now,         \* std::time(nullptr)
  pc,          \* where the program stands
  phase,       \* "boot": in the constructor, "timer": in the event loop
  boot,        \* bootCounter, kept in BootCount.txt
  stamp,       \* sensorDirTimestamp
  due,         \* when CompactionWindowTimer fires next
  writers,     \* the files whose records hold a store pointer
  victim,      \* directoryTocompact
  errorTimes,  \* errorList
  todo,        \* what the directory iterator has still to visit
  draft,       \* what newCompactor.dat holds
  hmcAlive,    \* /tmp/.fdrHmcAlive exists
  compactor,   \* Compactor.dat
  book,        \* BookOfErrors.dat
  events,      \* BootEvent.dat
  torn,        \* the bookkeeper files that end in half a record
  tornRaw,     \* the *.sensors.dat files that end in half a record
  raw,         \* the samples in *.sensors.dat files
  hifi,        \* the samples in *.sensors.hifi.dat files
  taken,       \* history: every sample ever stored
  reported     \* history: every error ever written to the book

localVars == <<victim, errorTimes, todo, draft>>
memoryVars == <<phase, boot, stamp, due, writers>>
keeperVars == <<compactor, book, events, torn>>
sampleVars == <<tornRaw, raw, hifi>>
historyVars == <<taken, reported>>
vars == <<now, pc, hmcAlive, localVars, memoryVars, keeperVars, sampleVars,
          historyVars>>

(* GetDirectoryName() *)
current == [boot |-> boot, stamp |-> stamp]
NoDirectory == [boot |-> 0, stamp |-> 0]

(* What an older recorder with data format 1 may have left behind.         *)
legacy == [boot |-> 1, stamp |-> StartTime - 1]
Legacy(f) == [dir |-> legacy, file |-> f, time |-> StartTime - 1]

-----------------------------------------------------------------------------
(* Reading and writing the bookkeeper files.                               *)

(* FDRStore::readnext finds half a record only behind the whole ones; the  *)
(* file is then backed up and deleted.  A reader that stops after n whole  *)
(* records does not get there.                                             *)
Corrupt(file) == file \in torn
CorruptWithin(n) == Corrupt("Compactor") /\ Len(compactor) < n

(* The samples, and the raw files, of one directory.                       *)
RawFilesOf_everyComponent(d) == Files
RawFilesOf(d) ==
  {s.file : s \in {x \in raw \cup tornRaw : x.dir = d}}
SamplesIn(store, d, f) == {s \in store : s.dir = d /\ s.file = f}

(* CompactorGetItsDataFormat: the version of the last boot event of the    *)
(* same boot that is not younger than the directory; 0 if there is none.   *)
DataFormat_ofLastEvent(d) ==
  IF events = {} \/ Corrupt("BootEvent") THEN 0
  ELSE (CHOOSE e \in events : \A o \in events : o.time <= e.time).version
DataFormat(d) ==
  LET before == {e \in events : e.boot = d.boot /\ e.time <= d.stamp}
      last == {e \in before : \A o \in before : o.time <= e.time}
  IN  IF Corrupt("BootEvent") \/ last = {} THEN 0
      ELSE (CHOOSE e \in last : \A o \in last : o.version <= e.version).version

(* CompactorCheckBookOfErrors: the errors of the same boot that happened   *)
(* within the window of the directory, extended by Preserve on both sides. *)
CheckIsInRange(low, high, x) == low <= x /\ x <= high
leastWindowTimestamp(d) == d.stamp
farWindowTimestamp(d) == d.stamp + Window
ErrorsAround_notExtended(d) ==
  {e.time : e \in {x \in book :
     /\ x.boot = d.boot
     /\ CheckIsInRange(leastWindowTimestamp(d), farWindowTimestamp(d), x.time)}}
ErrorsAround(d) ==
  {e.time : e \in {x \in book :
     /\ x.boot = d.boot
     /\ CheckIsInRange(leastWindowTimestamp(d) - Preserve,
                       farWindowTimestamp(d) + Preserve, x.time)}}
InHiFiRange_beforeOnly(t, times) ==
  \E e \in times : CheckIsInRange(e - Preserve, e, t)
InHiFiRange(t, times) ==
  \E e \in times : CheckIsInRange(e - Preserve, e + Preserve, t)

(* The entries behind the first one that names d; none if d is not named.  *)
EntriesAfter_keepsMatch(entries, d) ==
  LET hits == {i \in 1..Len(entries) : entries[i] = d}
  IN  IF hits = {} THEN <<>>
      ELSE SubSeq(entries, CHOOSE i \in hits : \A j \in hits : i <= j, Len(entries))
EntriesAfter(entries, d) ==
  LET hits == {i \in 1..Len(entries) : entries[i] = d}
      first == CHOOSE i \in hits : \A j \in hits : i <= j
  IN  IF hits = {} THEN <<>> ELSE SubSeq(entries, first + 1, Len(entries))

-----------------------------------------------------------------------------
(* The constructor, up to the call of CompactorBookKeeperCleanEntries.     *)

Init ==
  /\ now = StartTime
  /\ pc = "down" /\ phase = "boot"
  /\ victim = NoDirectory /\ errorTimes = {} /\ todo = {} /\ draft = <<>>
  /\ due = 0 /\ writers = {}
  /\ book = {} /\ torn = {} /\ tornRaw = {} /\ hifi = {} /\ taken = {}
  /\ reported = {}
  /\ hmcAlive \in BOOLEAN
  /\ \/ /\ ~hmcAlive /\ boot = 0 /\ stamp = 0
        /\ compactor = <<>> /\ events = {} /\ raw = {}
     \/ /\ boot = legacy.boot /\ stamp = legacy.stamp
        /\ compactor = <<legacy>>
        /\ events = {[boot |-> 1, time |-> legacy.stamp, version |-> 1]}
        /\ raw = {Legacy(f) : f \in Files}

(* FdrBootCounter.sh and UpdateGlobVariables(true)                         *)
StartUp ==
  /\ pc = "down"
  /\ "sameSecond" \in Hazards \/ now > stamp
  /\ boot' = IF hmcAlive THEN boot ELSE boot + 1
  /\ boot' <= MaxBoot
  /\ stamp' = now
  /\ pc' = "bootEvent" /\ phase' = "boot"
  /\ UNCHANGED <<now, due, writers, hmcAlive, localVars, keeperVars,
                 sampleVars, historyVars>>

(* UpdateBootEventLog, CreateFdrHmcAlive and CreateRecords                 *)
RecordBootEvent ==
  /\ pc = "bootEvent"
  /\ events' = events \cup {[boot |-> boot, time |-> now,
                             version |-> currentDataFormatVersion]}
  /\ hmcAlive' = TRUE
  /\ writers' = Files
  /\ pc' = "clean"
  /\ UNCHANGED <<now, phase, boot, stamp, due, localVars, compactor, book,
                 torn, sampleVars, historyVars>>

-----------------------------------------------------------------------------
(* The compactor engine                                                    *)

(* CompactorEngine up to the choice whether high fidelity files are made.  *)
(* A corrupt book of errors is deleted and counts as one without errors.   *)
CompactorEngine(d) ==
  /\ victim' = d
  /\ todo' = RawFilesOf(d)
  /\ IF Corrupt("BookOfErrors")
     THEN /\ book' = {} /\ torn' = torn \ {"BookOfErrors"}
          /\ errorTimes' = {}
     ELSE /\ UNCHANGED <<book, torn>>
          /\ errorTimes' = ErrorsAround(d)
  /\ pc' = IF errorTimes' = {} THEN "remove" ELSE "extract"

(* What is done with one entry at start up: another format is dropped.     *)
CleanEntry_continuesOnMismatch ==
  /\ pc = "clean" /\ Len(compactor) >= BOOT_TIME_DIR_COUNT
  /\ DataFormat(Head(compactor)) = currentDataFormatVersion
  /\ CompactorEngine(Head(compactor))
  /\ UNCHANGED <<now, draft, hmcAlive, memoryVars, compactor, events, sampleVars,
                 historyVars>>
CleanEntry ==
  /\ pc = "clean" /\ Len(compactor) >= BOOT_TIME_DIR_COUNT
  /\ LET d == Head(compactor) IN
     IF DataFormat(d) = currentDataFormatVersion
     THEN CompactorEngine(d) /\ UNCHANGED events
     ELSE /\ pc' = "forget" /\ victim' = d
          /\ events' = IF Corrupt("BootEvent") THEN {} ELSE events
          /\ torn' = torn \ {"BootEvent"}
          /\ UNCHANGED <<errorTimes, todo, book>>
  /\ UNCHANGED <<now, draft, hmcAlive, memoryVars, compactor, sampleVars,
                 historyVars>>

(* CompactorBookKeeperCleanEntries finds no entry and returns.             *)
CleanEntriesDone ==
  /\ pc = "clean" /\ Len(compactor) < BOOT_TIME_DIR_COUNT
  /\ compactor' = IF CorruptWithin(BOOT_TIME_DIR_COUNT) THEN <<>> ELSE compactor
  /\ torn' = torn \ {"Compactor"}
  /\ pc' = "append"
  /\ UNCHANGED <<now, hmcAlive, localVars, memoryVars, book, events,
                 sampleVars, historyVars>>

(* CompactorCreateHighFidelityFiles for one file: the old high fidelity    *)
(* file is deleted and written again.  If the raw file is corrupt it is    *)
(* deleted and the function returns, with the other files unread.          *)
CreateHighFidelityFile(f) ==
  LET corrupt == [dir |-> victim, file |-> f] \in tornRaw
      near == {s \in SamplesIn(raw, victim, f) : InHiFiRange(s.time, errorTimes)}
  IN
  /\ pc = "extract" /\ f \in todo
  /\ hifi' = (hifi \ SamplesIn(hifi, victim, f)) \cup near
  /\ raw' = IF corrupt THEN raw \ SamplesIn(raw, victim, f) ELSE raw
  /\ tornRaw' = tornRaw \ {[dir |-> victim, file |-> f]}
  /\ todo' = IF corrupt THEN {} ELSE todo \ {f}
  /\ UNCHANGED <<now, pc, victim, errorTimes, draft, hmcAlive, memoryVars,
                 keeperVars, historyVars>>

HighFidelityFilesDone ==
  /\ pc = "extract" /\ todo = {}
  /\ pc' = "remove" /\ todo' = RawFilesOf(victim)
  /\ UNCHANGED <<now, victim, errorTimes, draft, hmcAlive, memoryVars,
                 keeperVars, sampleVars, historyVars>>

(* CompactorRemoveSamplesLogfiles for one file                             *)
RemoveSamplesLogfile(f) ==
  /\ pc = "remove" /\ f \in todo
  /\ raw' = raw \ SamplesIn(raw, victim, f)
  /\ tornRaw' = tornRaw \ {[dir |-> victim, file |-> f]}
  /\ todo' = todo \ {f}
  /\ UNCHANGED <<now, pc, victim, errorTimes, draft, hmcAlive, hifi, memoryVars,
                 keeperVars, historyVars>>

(* The directory is done, or fs::remove throws: the exception is caught,   *)
(* the files that are left stay, and the entry is removed all the same.    *)
RemoveSamplesLogfilesDone ==
  /\ pc = "remove" /\ (todo = {} \/ "throws" \in Hazards)
  /\ pc' = "forget" /\ todo' = {}
  /\ UNCHANGED <<now, victim, errorTimes, draft, hmcAlive, memoryVars,
                 keeperVars, sampleVars, historyVars>>

-----------------------------------------------------------------------------
(* CompactorBookKeeperRemoveEntry                                          *)

(* It returns into the loop of CleanEntries or, from the timer, into the   *)
(* part of Compactor that opens the next directory.                        *)
LeaveRemoveEntry ==
  /\ pc' = IF phase = "boot" THEN "clean" ELSE "rotate"
  /\ victim' = NoDirectory /\ errorTimes' = {} /\ draft' = <<>>
  /\ UNCHANGED <<now, todo, hmcAlive, memoryVars, book, events, sampleVars,
                 historyVars>>

(* Corrupt, or nothing is left: the file is deleted.                       *)
DeleteBookKeeper ==
  /\ pc = "forget"
  /\ Corrupt("Compactor") \/ EntriesAfter(compactor, victim) = <<>>
  /\ compactor' = <<>> /\ torn' = torn \ {"Compactor"}
  /\ LeaveRemoveEntry

(* newCompactor.dat is written and copyFile opens, and truncates, the      *)
(* file it is to replace.                                                  *)
StartCopy ==
  /\ pc = "forget" /\ ~Corrupt("Compactor")
  /\ EntriesAfter(compactor, victim) # <<>>
  /\ draft' = EntriesAfter(compactor, victim)
  /\ compactor' = <<>>
  /\ pc' = "copy"
  /\ UNCHANGED <<now, victim, errorTimes, todo, hmcAlive, memoryVars, book,
                 events, torn, sampleVars, historyVars>>

FinishCopy ==
  /\ pc = "copy"
  /\ compactor' = draft
  /\ UNCHANGED torn
  /\ LeaveRemoveEntry

(* copyFile fails, before it opened the file or after; RemoveEntry returns *)
CopyFails ==
  /\ "copyFails" \in Hazards
  /\ \/ pc = "forget" /\ ~Corrupt("Compactor")
        /\ EntriesAfter(compactor, victim) # <<>>
     \/ pc = "copy"
  /\ UNCHANGED <<compactor, torn>>
  /\ LeaveRemoveEntry

(* CompactorBookKeeperAppendEntry, the last step of the constructor and of *)
(* the expiry of the window.                                               *)
AppendEntry ==
  /\ pc = "append"
  /\ compactor' = Append(compactor, current)
  /\ pc' = IF phase = "boot" THEN "arm" ELSE "run"
  /\ UNCHANGED <<now, hmcAlive, localVars, memoryVars, book, events, torn,
                 sampleVars, historyVars>>

-----------------------------------------------------------------------------
(* The event loop                                                          *)

(* InitTimerEvents, after the birth certificate and the signal handlers    *)
InitTimerEvents_alreadyDue ==
  /\ pc = "arm"
  /\ due' = now - Window
  /\ pc' = "run" /\ phase' = "timer"
  /\ UNCHANGED <<now, boot, stamp, writers, hmcAlive, localVars, keeperVars,
                 sampleVars, historyVars>>
InitTimerEvents ==
  /\ pc = "arm"
  /\ due' = now + Window
  /\ pc' = "run" /\ phase' = "timer"
  /\ UNCHANGED <<now, boot, stamp, writers, hmcAlive, localVars, keeperVars,
                 sampleVars, historyVars>>

(* A timer or signal callback stores a sample of one component.            *)
Store(f) ==
  LET s == [dir |-> current, file |-> f, time |-> now] IN
  /\ pc = "run" /\ f \in writers
  /\ Cardinality(taken \cup {s}) <= MaxSamples
  /\ raw' = raw \cup {s}
  /\ taken' = taken \cup {s}
  /\ UNCHANGED <<now, pc, tornRaw, hifi, hmcAlive, localVars, memoryVars,
                 keeperVars, reported>>

(* Record::Store through a store pointer that was never set again          *)
StoreWithoutWriter(f) ==
  /\ pc = "run" /\ f \in Files \ writers
  /\ pc' = "down" /\ phase' = "boot" /\ writers' = {} /\ due' = 0
  /\ UNCHANGED <<now, boot, stamp, hmcAlive, localVars, keeperVars, sampleVars,
                 historyVars>>

(* CompareMessageWithLog: an error of the same boot and component is in    *)
(* the book.  The reader stops there; otherwise it reads to the end, and a *)
(* corrupt book is deleted before the error is added.                      *)
SameError(x, e) == x.boot = e.boot /\ x.device = e.device
CompareMessageWithLog(e) == \E x \in book : SameError(x, e)
BookOfErrorEngine(f) ==
  LET e == [boot |-> boot, device |-> f, time |-> now] IN
  /\ pc = "run" /\ Cardinality(reported \cup {e}) <= MaxErrors
  /\ (\E x \in reported : SameError(x, e)) => "repeatedError" \in Hazards
  /\ IF CompareMessageWithLog(e)
     THEN UNCHANGED <<book, torn>>
     ELSE /\ book' = (IF Corrupt("BookOfErrors") THEN {} ELSE book) \cup {e}
          /\ torn' = torn \ {"BookOfErrors"}
  /\ reported' = reported \cup {e}
  /\ UNCHANGED <<now, pc, hmcAlive, localVars, memoryVars, compactor, events,
                 sampleVars, taken>>

(* CompactionWindowTimerCBEngine -> Compactor(true): the directory before  *)
(* the current one is compacted, if there is one.  An exception on the way *)
(* to it, out of the list or the book of errors, skips the compaction.     *)
CompactionWindowExpiry ==
  /\ pc = "run" /\ now >= due
  /\ due' = due + Window
  /\ \/ /\ Len(compactor) >= RUN_TIME_DIR_COUNT
        /\ CompactorEngine(Head(compactor))
        /\ UNCHANGED compactor
     \/ /\ Len(compactor) < RUN_TIME_DIR_COUNT
        /\ pc' = "rotate"
        /\ compactor' = IF CorruptWithin(RUN_TIME_DIR_COUNT) THEN <<>>
                        ELSE compactor
        /\ torn' = torn \ {"Compactor"}
        /\ UNCHANGED <<victim, errorTimes, todo, book>>
     \/ /\ "throws" \in Hazards
        /\ pc' = "rotate"
        /\ UNCHANGED <<victim, errorTimes, todo, compactor, book, torn>>
  /\ UNCHANGED <<now, phase, boot, stamp, writers, draft, hmcAlive, events,
                 sampleVars, historyVars>>

(* An exception while high fidelity files are written is caught in         *)
(* Compactor, which goes on.                                               *)
EngineThrows_skipsCleanUp ==
  /\ "throws" \in Hazards
  /\ pc = "extract" /\ phase = "timer"
  /\ pc' = "run"
  /\ victim' = NoDirectory /\ errorTimes' = {} /\ todo' = {}
  /\ UNCHANGED <<now, draft, hmcAlive, memoryVars, keeperVars, sampleVars,
                 historyVars>>
EngineThrows ==
  /\ "throws" \in Hazards
  /\ pc = "extract" /\ phase = "timer"
  /\ pc' = "rotate"
  /\ victim' = NoDirectory /\ errorTimes' = {} /\ todo' = {}
  /\ UNCHANGED <<now, draft, hmcAlive, memoryVars, keeperVars, sampleVars,
                 historyVars>>

(* CompactionWindowExpiryCleanUp: UpdateGlobVariables(false) and           *)
(* ModifySpecificRecords("Recreate"), which gives every record a store     *)
(* pointer into the new directory.                                         *)
ExpiryCleanUp_noAppend ==
  /\ pc = "rotate"
  /\ stamp' = now
  /\ writers' = Files
  /\ pc' = "run"
  /\ UNCHANGED <<now, phase, boot, due, hmcAlive, localVars, keeperVars,
                 sampleVars, historyVars>>
ExpiryCleanUp ==
  /\ pc = "rotate"
  /\ stamp' = now
  /\ writers' = Files
  /\ pc' = "append"
  /\ UNCHANGED <<now, phase, boot, due, hmcAlive, localVars, keeperVars,
                 sampleVars, historyVars>>

(* ... or throws half way: some pointers are null and nothing is appended. *)
ExpiryCleanUpThrows ==
  /\ pc = "rotate" /\ "throws" \in Hazards
  /\ stamp' = now
  /\ \E done \in SUBSET Files : done # Files /\ writers' = done
  /\ pc' = "run"
  /\ UNCHANGED <<now, phase, boot, due, hmcAlive, localVars, keeperVars,
                 sampleVars, historyVars>>

-----------------------------------------------------------------------------
(* The environment                                                         *)

(* Everything in memory is gone.  The directory being named in `current'   *)
(* stays as the name the dead process used.                                *)
LoseMemory ==
  /\ pc' = "down" /\ phase' = "boot" /\ due' = 0 /\ writers' = {}
  /\ victim' = NoDirectory /\ errorTimes' = {} /\ todo' = {} /\ draft' = <<>>
  /\ UNCHANGED <<now, boot, stamp, historyVars>>

(* The process dies, or the HMC resets, between two writes or while a high *)
(* fidelity file is being written.                                         *)
Die(cause) ==
  /\ cause \in Hazards
  /\ \/ pc # "down"
     \/ cause = "powerLoss" /\ hmcAlive
  /\ pc = "copy" => "tornCopy" \in Hazards
  /\ hmcAlive' = (hmcAlive /\ cause = "processDeath")
  /\ \/ UNCHANGED hifi
     \/ /\ pc = "extract"
        /\ \E f \in todo : \E part \in SUBSET SamplesIn(raw, victim, f) :
             hifi' = (hifi \ SamplesIn(hifi, victim, f)) \cup
                     {s \in part : InHiFiRange(s.time, errorTimes)}
  /\ LoseMemory
  /\ UNCHANGED <<keeperVars, tornRaw, raw>>

(* The HMC resets while a record is being appended: half of it is on disk. *)
DieInAppend ==
  /\ hmcAlive' = FALSE
  /\ \/ /\ "tornKeeper" \in Hazards
        /\ \/ pc = "bootEvent" /\ torn' = torn \cup {"BootEvent"}
           \/ pc = "append" /\ torn' = torn \cup {"Compactor"}
           \/ pc = "run" /\ torn' = torn \cup {"BookOfErrors"}
        /\ UNCHANGED tornRaw
     \/ /\ "tornSample" \in Hazards
        /\ pc = "run"
        /\ \E f \in writers : tornRaw' = tornRaw \cup {[dir |-> current, file |-> f]}
        /\ UNCHANGED torn
  /\ LoseMemory
  /\ UNCHANGED <<compactor, book, events, raw, hifi>>

(* The timer callback is never late; start up and compaction take time     *)
(* only where the hazards say so, and a compaction less than a window.     *)
Tick ==
  /\ now < MaxTime
  /\ \/ pc = "down"
     \/ pc = "run" /\ now < due
     \/ pc \notin {"down", "run"} /\ phase = "boot" /\ "slowBoot" \in Hazards
     \/ pc \notin {"down", "run"} /\ phase = "timer" /\ "slowEngine" \in Hazards
        /\ now + 1 < due
  /\ now' = now + 1
  /\ UNCHANGED <<pc, hmcAlive, localVars, memoryVars, keeperVars, sampleVars,
                 historyVars>>

-----------------------------------------------------------------------------
RemoveEntry == DeleteBookKeeper \/ StartCopy \/ FinishCopy \/ CopyFails

Engine ==
  \/ \E f \in Files : CreateHighFidelityFile(f)
  \/ HighFidelityFilesDone
  \/ \E f \in Files : RemoveSamplesLogfile(f)
  \/ RemoveSamplesLogfilesDone
  \/ EngineThrows
  \/ RemoveEntry

Boot ==
  StartUp \/ RecordBootEvent \/ CleanEntry \/ CleanEntriesDone \/ InitTimerEvents

Loop ==
  \/ \E f \in Files : Store(f) \/ StoreWithoutWriter(f) \/ BookOfErrorEngine(f)
  \/ CompactionWindowExpiry
  \/ ExpiryCleanUp \/ ExpiryCleanUpThrows

Environment ==
  \/ \E cause \in {"powerLoss", "processDeath"} : Die(cause)
  \/ DieInAppend
  \/ Tick

Next == Boot \/ Engine \/ AppendEntry \/ Loop \/ Environment

Spec == Init /\ [][Next]_vars

(* The program does not stop between two statements, a timer that is due   *)
(* fires, and a copy that is tried again and again works in the end.       *)
(* Nothing is assumed of the environment.                                  *)
Fairness ==
  /\ WF_vars(RecordBootEvent) /\ WF_vars(CleanEntry)
  /\ WF_vars(CleanEntriesDone) /\ WF_vars(InitTimerEvents)
  /\ WF_vars(Engine) /\ WF_vars(AppendEntry)
  /\ WF_vars(CompactionWindowExpiry) /\ WF_vars(ExpiryCleanUp)
  /\ SF_vars(StartCopy) /\ SF_vars(FinishCopy)

FairSpec == Spec /\ Fairness

-----------------------------------------------------------------------------
(* Types: what each variable may hold.                                     *)
TypeOK ==
  /\ now \in Nat /\ boot \in Nat /\ stamp \in Nat /\ due \in Nat
  /\ pc \in {"down", "bootEvent", "clean", "extract", "remove", "forget",
             "copy", "append", "arm", "run", "rotate"}
  /\ phase \in {"boot", "timer"}
  /\ hmcAlive \in BOOLEAN
  /\ writers \subseteq Files /\ todo \subseteq Files
  /\ victim \in Directory
  /\ errorTimes \subseteq Nat
  /\ draft \in Seq(Directory) /\ compactor \in Seq(Directory)
  /\ book \subseteq BookOfErrorsEntry /\ reported \subseteq BookOfErrorsEntry
  /\ events \subseteq BootEvent
  /\ torn \subseteq Keepers /\ tornRaw \subseteq RawFile
  /\ raw \subseteq Sample /\ hifi \subseteq Sample /\ taken \subseteq Sample

(* A sample stored by the recorder that is in none of its files any more.  *)
Lost == taken \ (raw \cup hifi)

(* The compactor seen as what it promises about samples.                   *)
Retention == INSTANCE SampleRetention
  WITH open <- current, kept <- raw \cup hifi, errors <- reported
RetentionSpec == Retention!Spec

(* No sample within Preserve seconds of an error of the same boot is ever  *)
(* thrown away, whether the error came before the compaction or after it:  *)
(* the recorder keeps the previous directory for a whole window so that an *)
(* error at the start of the next one still finds its samples, and a       *)
(* compaction that is interrupted and done again loses nothing.            *)
ErrorsKeepTheirSamples == \A s \in Lost, e \in reported : ~Retention!Near(s, e)

(* Every directory with raw samples is the current one or is named in      *)
(* Compactor.dat (or in the copy of it that is about to replace it), so    *)
(* that a later compaction will find it: also after a crash at any step.   *)
RawIsTracked ==
  \A s \in raw :
    \/ s.dir = legacy
    \/ \E i \in 1..Len(compactor) : compactor[i] = s.dir
    \/ \E i \in 1..Len(draft) : draft[i] = s.dir
    \/ pc = "forget" /\ s.dir = victim

(* In the event loop Compactor.dat names the current directory last, and   *)
(* at most one other: there is no backlog of directories to compact.       *)
NoBacklog ==
  pc = "run" => /\ Len(compactor) \in 1..RUN_TIME_DIR_COUNT
                /\ compactor[Len(compactor)] = current

(* CompactorBookKeeperCleanEntries returns only with an empty Compactor.dat *)
(* ("Number of entries in Compactor.dat will be 0 before this method       *)
(* returns"), whatever the state an earlier process left.                  *)
NothingPendingAfterClean ==
  pc = "append" /\ phase = "boot" => compactor = <<>> /\ ~Corrupt("Compactor")

(* The engine never works on the directory the records are writing to.     *)
CurrentIsNotCompacted ==
  pc \in {"extract", "remove"} /\ phase = "timer" => victim # current

(* A directory of another data format is left as it is.                    *)
LegacyIsLeftAlone ==
  (\E e \in events : e.version = 1) => \A f \in Files : Legacy(f) \in raw

(* Once the raw file is gone its high fidelity file is never changed: a    *)
(* compaction that is repeated after a crash must not start from nothing.  *)
HiFiIsFinal ==
  [][\A s \in hifi :
        /\ SamplesIn(raw, s.dir, s.file) = {}
        /\ [dir |-> s.dir, file |-> s.file] \notin tornRaw
        => s \in hifi']_vars

(* Why the compactor keeps its promise.  It is inductive under the hazards *)
(* of OrderlyHazards: half written records are excluded, the timers are    *)
(* armed in the second of the first directory, no two directories are      *)
(* opened in one second, and a component reports one error in a boot.      *)
OrderlyHazards ==
  {"powerLoss", "processDeath", "tornCopy", "copyFails", "throws", "slowEngine"}

(* Where in the program the phase and the clock can be.                    *)
PhaseInv ==
  /\ pc \in {"bootEvent", "clean", "arm", "down"} => phase = "boot"
  /\ pc \in {"run", "rotate"} => phase = "timer"
  /\ stamp <= now
  /\ phase = "boot" /\ pc # "down" => now = stamp
  /\ phase = "timer" => now <= due /\ stamp < due
  /\ phase = "timer" /\ pc # "run" => now < due
  /\ phase = "timer" /\ pc \in {"run", "append"} => due <= stamp + Window
  /\ phase = "timer" /\ pc \notin {"run", "append"} => due <= now + Window /\ stamp < now

(* Directories are listed in the order of their stamps, and what is listed *)
(* or worked on is older than the directory about to be appended.          *)
InOrder(entries) ==
  \A i, j \in 1..Len(entries) : i < j => entries[i].stamp < entries[j].stamp
UpTo(entries, t) == \A i \in 1..Len(entries) : entries[i].stamp <= t

OrderInv ==
  /\ InOrder(compactor) /\ InOrder(draft)
  /\ UpTo(compactor, stamp) /\ UpTo(draft, stamp)
  /\ phase = "boot" /\ pc \notin {"down", "arm"} =>
       UpTo(compactor, stamp - 1) /\ UpTo(draft, stamp - 1)
  /\ pc = "append" => UpTo(compactor, stamp - 1)
  /\ pc \in {"extract", "remove"} => victim.stamp < stamp

(* A raw sample is as old as its directory says; a high fidelity file is   *)
(* older than the current directory and, while its raw file exists, holds  *)
(* nothing else.                                                           *)
SamplesInv ==
  /\ \A s \in raw : /\ s.dir.stamp <= stamp
                    /\ s.dir.stamp <= s.time /\ s.time <= s.dir.stamp + Window
  /\ \A s \in hifi : s.dir.stamp < stamp
  /\ \A s \in hifi : SamplesIn(raw, s.dir, s.file) # {} => s \in raw

(* What the engine has done so far is enough for what it does next.        *)
EngineInv ==
  /\ torn = {} /\ tornRaw = {} /\ book = reported
  /\ pc \in {"extract", "remove"} => errorTimes = ErrorsAround(victim)
  /\ pc = "extract" => \A f \in todo : SamplesIn(raw, victim, f) # {}
  /\ pc \in {"extract", "remove"} =>
       \A s \in raw :
         s.dir = victim /\ InHiFiRange(s.time, errorTimes) /\ s \notin hifi =>
           pc = "extract" /\ s.file \in todo

RetentionInv == TypeOK /\ PhaseInv /\ OrderInv /\ SamplesInv /\ EngineInv

(* Every record has its store pointer whenever callbacks can run: "any     *)
(* exception should not cause break in the flow".                          *)
WritersArePresent == pc = "run" => writers = Files

(* A start up and a compaction come to an end, although RemoveEntry gives  *)
(* up when the copy fails and the loop of CleanEntries starts over.        *)
ReturnsToLoop == pc \notin {"down", "run"} ~> pc \in {"down", "run"}

(* When the window expires a new directory is opened, whatever fails in    *)
(* the compaction of the old one.                                          *)
WindowTurnsOver ==
  \A t \in StartTime..MaxTime :
    (pc = "run" /\ now >= due /\ stamp = t) ~> (stamp # t \/ pc = "down")

=============================================================================
