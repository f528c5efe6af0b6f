------------------------------ MODULE FdrService ------------------------------
(***************************************************************************)
(* The recorder as a service: the boot counter, the event loop with its    *)
(* handler of error events, and the exception limiter, through process     *)
(* deaths and HMC resets at any step (main.cpp, fdr.cpp).                  *)
(***************************************************************************)
EXTENDS BootCounter, LeakyBucket, EventHandler

VARIABLES
  stamp,    \* sensorDirTimestamp
  store     \* the directory the Error records were opened in

serviceVars == <<counterVars, bucketVars, eventVars, stamp, store>>

running == step = "up"

(* GetDirectoryName()                                                      *)
currentDirectory == [ids |-> bootCounter, stamp |-> stamp]
NoDirectory == [ids |-> {}, stamp |-> 0]

FdrInit ==
  /\ CounterInit /\ BucketInit /\ HandlerInit
  /\ stamp = 0 /\ store = NoDirectory

-----------------------------------------------------------------------------
(* The constructor                                                         *)

StartProcess ==
  /\ Start /\ InitExceptionRateLimiter
  /\ UNCHANGED <<eventVars, stamp, store>>

RunFdrBootCounter ==
  /\ update_data_file \/ WriteCount \/ KeepCount
  /\ UNCHANGED <<bucketVars, eventVars, stamp, store>>

ReadBootCount ==
  /\ UpdateGlobVariables
  /\ stamp' = clock
  /\ UNCHANGED <<bucketVars, eventVars, store>>

LogBoot ==
  /\ UpdateBootEventLog
  /\ UNCHANGED <<bucketVars, eventVars, stamp, store>>

(* CreateFdrHmcAlive, CreateRecords, which opens the Error records, and the*)
(* compaction of what an earlier process left.                             *)
FinishStart ==
  /\ CreateFdrHmcAlive
  /\ store' = currentDirectory
  /\ CompactorReadsBook
  /\ UNCHANGED <<handling, event, detailVars, entries, received, faults,
                 bucketVars, stamp>>

-----------------------------------------------------------------------------
(* The event loop: one callback at a time                                  *)

EventSignal ==
  /\ running
  /\ \E s \in Signal : Receive(s, clock)
  /\ UNCHANGED <<counterVars, bucketVars, stamp, store>>

StoreEvent ==
  /\ \/ WriteDetails(currentDirectory)
     \/ WriteDetailsThrows
     \/ WriteEntry(currentDirectory, store)
     \/ BookEvent(bootCounter, hmcBoot)
  /\ UNCHANGED <<counterVars, bucketVars, stamp, store>>

(* The compaction window expires; the Error records are not opened again.  *)
OpenDirectory ==
  /\ running /\ handling = "no" /\ clock > stamp
  /\ stamp' = clock
  /\ CompactorReadsBook
  /\ UNCHANGED <<handling, event, detailVars, entries, received, faults,
                 counterVars, bucketVars, store>>

(* Everything in the memory of the process is gone.                        *)
LoseMemory ==
  /\ stamp' = 0 /\ store' = NoDirectory
  /\ UNCHANGED bucketVars

(* A refresh or a store of a record threw, which may end the process.      *)
CatchException ==
  /\ running /\ handling = "no"
  /\ CheckExceptionRateLimit
  /\ \/ /\ ~exited'
        /\ UNCHANGED <<counterVars, eventVars, stamp, store>>
     \/ /\ exited'
        /\ Die /\ StopHandling(bootCounter)
        /\ stamp' = 0 /\ store' = NoDirectory

ProcessDies == Die /\ StopHandling(bootCounter) /\ LoseMemory
HmcResets ==
  /\ HmcReset
  /\ StopHandling(bootCounter) \/ TearBook(bootCounter)
  /\ LoseMemory

TimePasses ==
  /\ Tick
  /\ UNCHANGED <<counterVars, eventVars, stamp, store>>

FdrNext ==
  \/ StartProcess \/ RunFdrBootCounter \/ ReadBootCount \/ LogBoot \/ FinishStart
  \/ EventSignal \/ StoreEvent \/ OpenDirectory \/ CatchException
  \/ ProcessDies \/ HmcResets \/ TimePasses

FdrSpec == FdrInit /\ [][FdrNext]_serviceVars

-----------------------------------------------------------------------------
FdrTypeOK ==
  /\ CounterTypeOK /\ BucketTypeOK
  /\ stamp \in Nat /\ store.ids \subseteq Nat /\ store.stamp \in Nat
  /\ handling \in {"no", "details", "entry", "book"}
  /\ handling # "no" => running
  /\ bookTorn \in BOOLEAN
  /\ event.name \in Names \cup {NoName}
  /\ event.component \in Components \cup {NoComponent}

(* Every fault that was handled is in the book of errors under the boot it *)
(* happened in, unless its entry could not be written or went with a torn  *)
(* book: an entry of an earlier boot of the HMC never stands for it, no    *)
(* stop between two writes loses it, and a fault that was lost is booked   *)
(* when it comes again.                                                    *)
ErrorIsBooked ==
  \A f \in faults \ lost : \E b \in book : b.hmc = f.hmc /\ b.key = f.key

(* The path in an entry of an Error record names a details file that is    *)
(* there, unless that very file could not be written, whenever the process *)
(* was stopped and however many directories were opened since.             *)
EntryHasDetails == \A n \in entries : n.path \in details \cup unwritten

(* EventLoggingPath is the "full path of event details getting stored"     *)
(* (fdr_logs_schema.proto): the file it names is there.                    *)
EventLoggingPathIsStored == \A n \in entries : n.path \in details
================================================================================
