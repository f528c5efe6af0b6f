--------------------------- MODULE FdrServiceProofs ---------------------------
(***************************************************************************)
(* The service as a whole: its boot counter is that of BootCounter, its    *)
(* limiter that of LeakyBucket, so what is proved of the two holds of it,  *)
(* and on the freshness of the numbers rests that of the book of errors.   *)
(***************************************************************************)
EXTENDS FdrService, BootCounterProofs, LeakyBucketProofs

(* Each part of the service takes only its own steps.                      *)
LEMMA CounterSteps ==
  ASSUME [FdrNext]_serviceVars PROVE [CounterNext]_counterVars
<1> USE DEF CounterNext, StartSteps
<1>1. CASE StartProcess \/ RunFdrBootCounter \/ ReadBootCount \/ LogBoot \/ FinishStart
  BY <1>1 DEF StartProcess, RunFdrBootCounter, ReadBootCount, LogBoot, FinishStart
<1>2. CASE EventSignal \/ StoreEvent \/ OpenDirectory \/ TimePasses
  BY <1>2 DEF EventSignal, StoreEvent, OpenDirectory, TimePasses
<1>3. CASE CatchException \/ ProcessDies \/ HmcResets
  BY <1>3 DEF CatchException, ProcessDies, HmcResets
<1>4. CASE UNCHANGED serviceVars
  BY <1>4 DEF serviceVars
<1> QED  BY <1>1, <1>2, <1>3, <1>4 DEF FdrNext

LEMMA BucketSteps ==
  ASSUME [FdrNext]_serviceVars PROVE [BucketNext]_bucketVars
<1> USE DEF BucketNext
<1>1. CASE StartProcess \/ RunFdrBootCounter \/ ReadBootCount \/ LogBoot \/ FinishStart
  BY <1>1 DEF StartProcess, RunFdrBootCounter, ReadBootCount, LogBoot, FinishStart
<1>2. CASE EventSignal \/ StoreEvent \/ OpenDirectory \/ TimePasses
  BY <1>2 DEF EventSignal, StoreEvent, OpenDirectory, TimePasses
<1>3. CASE CatchException \/ ProcessDies \/ HmcResets
  BY <1>3 DEF CatchException, ProcessDies, HmcResets, LoseMemory
<1>4. CASE UNCHANGED serviceVars
  BY <1>4 DEF serviceVars
<1> QED  BY <1>1, <1>2, <1>3, <1>4 DEF FdrNext

(* Restarts, resets and events do not disturb the boot counter: a number   *)
(* stays with one boot of the HMC, and does not change within it.          *)
THEOREM ServiceFreshness ==
  ASSUME NotTorn PROVE FdrSpec => []FreshnessInv /\ NumberIsStable
<1>1. FdrInit => CounterInit
  BY DEF FdrInit
<1>2. [FdrNext]_serviceVars => [CounterNext]_counterVars
  BY CounterSteps
<1>3. FdrSpec => CounterSpec
  BY <1>1, <1>2, PTL DEF FdrSpec, CounterSpec
<1> QED  BY <1>3, Freshness, Stability, PTL

(* The service gives up exactly when its budget of exceptions is spent,    *)
(* and each process starts with a full one.                                *)
THEOREM ServiceBudget == FdrSpec => BudgetSpec
<1>1. FdrInit => BucketInit
  BY DEF FdrInit
<1>2. [FdrNext]_serviceVars => [BucketNext]_bucketVars
  BY BucketSteps
<1>3. FdrSpec => BucketSpec
  BY <1>1, <1>2, PTL DEF FdrSpec, BucketSpec
<1> QED  BY <1>3, BucketKeepsPromise, PTL

-----------------------------------------------------------------------------
(* Events are handled by a process that is up.                             *)
HandledWhenUp ==
  /\ handling \in {"no", "details", "entry", "book"}
  /\ handling # "no" => running

LEMMA HandlingNeedsProcess ==
  ASSUME HandledWhenUp, [FdrNext]_serviceVars PROVE HandledWhenUp'
<1> USE DEF HandledWhenUp, running
<1>1. CASE StartProcess \/ RunFdrBootCounter \/ ReadBootCount \/ LogBoot \/ FinishStart
  BY <1>1 DEF StartProcess, RunFdrBootCounter, ReadBootCount, LogBoot, FinishStart,
     Start, update_data_file, WriteCount, KeepCount, UpdateGlobVariables,
     UpdateBootEventLog, CreateFdrHmcAlive, eventVars
<1>2. CASE EventSignal \/ StoreEvent
  BY <1>2 DEF EventSignal, StoreEvent, Receive, WriteDetails, WriteDetailsThrows,
     WriteEntry, BookEvent, counterVars
<1>3. CASE OpenDirectory \/ TimePasses
  BY <1>3 DEF OpenDirectory, TimePasses, counterVars, eventVars
<1>4. CASE CatchException \/ ProcessDies \/ HmcResets
  BY <1>4 DEF CatchException, ProcessDies, HmcResets, StopHandling, TearBook,
     counterVars, eventVars
<1>5. CASE UNCHANGED serviceVars
  BY <1>5 DEF serviceVars, counterVars, eventVars
<1> QED  BY <1>1, <1>2, <1>3, <1>4, <1>5 DEF FdrNext

LEMMA ResolvedNames ==
  ASSUME NEW s \in Signal PROVE ResolveDevice(s) \in Names \cup {NoName}
  BY DEF Signal, ResolveDevice

LEMMA TypeSteps ==
  ASSUME FdrTypeOK, BucketInv, BucketInv', [FdrNext]_serviceVars
  PROVE  FdrTypeOK'
<1> USE DEF FdrTypeOK
<1>1. CounterTypeOK' /\ BucketTypeOK' /\ clock \in Nat
  BY CounterSteps, CounterTypes DEF BucketInv, BucketTypeOK
<1>2. HandledWhenUp'
  BY HandlingNeedsProcess DEF HandledWhenUp
<1>3. /\ stamp' \in Nat /\ store'.ids \subseteq Nat /\ store'.stamp \in Nat
  <2> USE DEF currentDirectory, NoDirectory
  <2>1. CASE StartProcess \/ RunFdrBootCounter \/ ReadBootCount \/ LogBoot
    BY <1>1, <2>1 DEF StartProcess, RunFdrBootCounter, ReadBootCount, LogBoot
  <2>5. CASE FinishStart
    <3>1. bootCounter \subseteq Nat
      BY DEF CounterTypeOK
    <3> QED  BY <2>5, <3>1 DEF FinishStart
  <2>2. CASE EventSignal \/ StoreEvent \/ OpenDirectory \/ TimePasses
    BY <1>1, <2>2 DEF EventSignal, StoreEvent, OpenDirectory, TimePasses
  <2>3. CASE CatchException \/ ProcessDies \/ HmcResets
    BY <2>3 DEF CatchException, ProcessDies, HmcResets, LoseMemory
  <2>4. CASE UNCHANGED serviceVars
    BY <2>4 DEF serviceVars
  <2> QED  BY <2>1, <2>2, <2>3, <2>4, <2>5 DEF FdrNext
<1>4. /\ event'.name \in Names \cup {NoName}
      /\ event'.component \in Components \cup {NoComponent}
  <2>1. CASE StartProcess \/ RunFdrBootCounter \/ ReadBootCount \/ LogBoot \/ FinishStart
    BY <2>1 DEF StartProcess, RunFdrBootCounter, ReadBootCount, LogBoot, FinishStart,
       eventVars
  <2>2. CASE EventSignal
    <3>1. PICK s \in Signal : Receive(s, clock)
      BY <2>2 DEF EventSignal
    <3> QED  BY <3>1, ResolvedNames DEF Receive
  <2>3. CASE StoreEvent
    BY <2>3 DEF StoreEvent, WriteDetails, WriteDetailsThrows, WriteEntry, BookEvent, NoEvent
  <2>4. CASE OpenDirectory \/ TimePasses
    BY <2>4 DEF OpenDirectory, TimePasses, eventVars
  <2>5. CASE CatchException \/ ProcessDies \/ HmcResets
    BY <2>5 DEF CatchException, ProcessDies, HmcResets, StopHandling, TearBook,
       eventVars, NoEvent
  <2>6. CASE UNCHANGED serviceVars
    BY <2>6 DEF serviceVars, eventVars
  <2> QED  BY <2>1, <2>2, <2>3, <2>4, <2>5, <2>6 DEF FdrNext
<1>5. bookTorn' \in BOOLEAN
  <2> USE DEF DeleteTornBook, CompactorReadsBook, bookVars
  <2>1. CASE StartProcess \/ RunFdrBootCounter \/ ReadBootCount \/ LogBoot \/ FinishStart
    BY <2>1 DEF StartProcess, RunFdrBootCounter, ReadBootCount, LogBoot, FinishStart,
       eventVars
  <2>2. CASE EventSignal \/ OpenDirectory \/ TimePasses
    BY <2>2 DEF EventSignal, Receive, OpenDirectory, TimePasses, eventVars
  <2>3. CASE StoreEvent
    BY <2>3 DEF StoreEvent, WriteDetails, WriteDetailsThrows, WriteEntry, BookEvent,
       AppendToBook
  <2>4. CASE CatchException \/ ProcessDies \/ HmcResets
    BY <2>4 DEF CatchException, ProcessDies, HmcResets, StopHandling, TearBook, eventVars
  <2>5. CASE UNCHANGED serviceVars
    BY <2>5 DEF serviceVars, eventVars
  <2> QED  BY <2>1, <2>2, <2>3, <2>4, <2>5 DEF FdrNext
<1> QED  BY <1>1, <1>2, <1>3, <1>4, <1>5 DEF HandledWhenUp

(* The types, and that an event is only ever handled by a process that has *)
(* been started: no death leaves one half handled for the next process.    *)
THEOREM ServiceTypes == FdrSpec => []FdrTypeOK
<1>1. FdrInit => FdrTypeOK
  <2> SUFFICES ASSUME FdrInit PROVE FdrTypeOK
    OBVIOUS
  <2>1. CounterTypeOK
    BY DEF FdrInit, CounterInit, CounterTypeOK, Steps
  <2>2. BucketTypeOK
    BY EmptyRecord, 0 \in Nat DEF FdrInit, BucketInit, BucketInv
  <2>3. /\ event.name \in Names \cup {NoName}
        /\ event.component \in Components \cup {NoComponent}
    BY DEF FdrInit, HandlerInit, NoEvent
  <2> QED  BY <2>1, <2>2, <2>3 DEF FdrInit, HandlerInit, FdrTypeOK, NoDirectory
<1>2. FdrTypeOK /\ BucketInv /\ BucketInv' /\ [FdrNext]_serviceVars => FdrTypeOK'
  BY TypeSteps
<1>3. FdrInit => BucketInit
  BY DEF FdrInit
<1>4. [FdrNext]_serviceVars => [BucketNext]_bucketVars
  BY BucketSteps
<1>5. FdrSpec => BucketSpec
  BY <1>3, <1>4, PTL DEF FdrSpec, BucketSpec
<1> QED  BY <1>1, <1>2, <1>5, BucketIsSummary, PTL DEF FdrSpec

-----------------------------------------------------------------------------
(* Details before the entry                                                *)

(* When the entry is written, the details of the event in hand are in the  *)
(* directory of the process, or their write failed.                        *)
EntryInv ==
  /\ HandledWhenUp
  /\ EntryHasDetails
  /\ handling = "entry" => Details(currentDirectory) \in details \cup unwritten

(* Without a new entry, only the event that comes to its entry matters.    *)
LEMMA EntryUntouched ==
  ASSUME EntryInv, HandledWhenUp', UNCHANGED <<entries, detailVars>>,
         \/ handling' # "entry"
         \/ UNCHANGED <<handling, event, currentDirectory>>
  PROVE  EntryInv'
  BY DEF EntryInv, EntryHasDetails, Details, detailVars

LEMMA EntrySteps == ASSUME EntryInv, [FdrNext]_serviceVars PROVE EntryInv'
<1>0. HandledWhenUp'
  BY HandlingNeedsProcess DEF EntryInv
<1>1. CASE StartProcess \/ RunFdrBootCounter \/ ReadBootCount \/ LogBoot \/ FinishStart
  <2>1. handling # "entry" /\ handling' = handling /\ UNCHANGED <<entries, detailVars>>
    BY <1>1 DEF StartProcess, RunFdrBootCounter, ReadBootCount, LogBoot, FinishStart,
       Start, update_data_file, WriteCount, KeepCount, UpdateGlobVariables,
       UpdateBootEventLog, CreateFdrHmcAlive, eventVars, EntryInv, HandledWhenUp, running
  <2> QED  BY <1>0, <2>1, EntryUntouched
<1>2. CASE EventSignal
  BY <1>0, <1>2, EntryUntouched DEF EventSignal, Receive
<1>3. CASE StoreEvent
  <2>1. currentDirectory' = currentDirectory
    BY <1>3 DEF StoreEvent, currentDirectory, counterVars
  <2>2. CASE WriteDetails(currentDirectory)
    BY <1>0, <2>1, <2>2 DEF WriteDetails, Details, EntryInv, EntryHasDetails
  <2>3. CASE WriteDetailsThrows
    BY <1>0, <2>3, EntryUntouched DEF WriteDetailsThrows
  <2>4. CASE WriteEntry(currentDirectory, store)
    <3>1. entries' \subseteq
            entries \cup {[path |-> Details(currentDirectory), store |-> store]}
      BY <2>4 DEF WriteEntry
    <3>2. handling = "entry" /\ handling' # "entry" /\ UNCHANGED detailVars
      BY <2>4 DEF WriteEntry
    <3> HIDE <2>4
    <3> QED  BY <1>0, <3>1, <3>2 DEF EntryInv, EntryHasDetails, detailVars
  <2>5. CASE BookEvent(bootCounter, hmcBoot)
    BY <1>0, <2>5, EntryUntouched DEF BookEvent
  <2> QED  BY <1>3, <2>2, <2>3, <2>4, <2>5 DEF StoreEvent
<1>4. CASE OpenDirectory
  BY <1>0, <1>4, EntryUntouched DEF OpenDirectory
<1>5. CASE TimePasses
  BY <1>0, <1>5, EntryUntouched DEF TimePasses, counterVars, eventVars, currentDirectory
<1>6. CASE CatchException \/ ProcessDies \/ HmcResets
  <2>1. CASE handling' = "no" /\ UNCHANGED <<entries, detailVars>>
    BY <1>0, <2>1, EntryUntouched
  <2>2. CASE UNCHANGED eventVars /\ handling = "no"
    BY <1>0, <2>2, EntryUntouched DEF eventVars
  <2> QED  BY <1>6, <2>1, <2>2 DEF CatchException, ProcessDies, HmcResets,
           StopHandling, TearBook
<1>7. CASE UNCHANGED serviceVars
  BY <1>0, <1>7, EntryUntouched DEF serviceVars, counterVars, eventVars, currentDirectory
<1> QED  BY <1>1, <1>2, <1>3, <1>4, <1>5, <1>6, <1>7 DEF FdrNext

(* Whenever the process is stopped, the path in an entry of an Error record*)
(* names a details file that is there or whose very write failed: the      *)
(* directory it is computed from cannot change between the two writes.     *)
THEOREM EntriesHaveDetails == FdrSpec => []EntryHasDetails
<1>1. FdrInit => EntryInv
  BY DEF FdrInit, HandlerInit, EntryInv, HandledWhenUp, EntryHasDetails
<1>2. EntryInv /\ [FdrNext]_serviceVars => EntryInv'
  BY EntrySteps
<1>3. EntryInv => EntryHasDetails
  BY DEF EntryInv
<1> QED  BY <1>1, <1>2, <1>3, PTL DEF FdrSpec

(* If writes do not fail, an entry names a file that is there, through all *)
(* deaths and resets: a failed write is the only way to a path that leads  *)
(* nowhere.                                                                *)
THEOREM DetailsAreStored ==
  ASSUME "writeFails" \notin HandlerFaults PROVE FdrSpec => []EventLoggingPathIsStored
<1>1. FdrInit => unwritten = {}
  BY DEF FdrInit, HandlerInit
<1>2. ASSUME [FdrNext]_serviceVars PROVE UNCHANGED unwritten
  <2> USE DEF eventVars, detailVars
  <2>1. CASE StartProcess \/ RunFdrBootCounter \/ ReadBootCount \/ LogBoot \/ FinishStart
    BY <2>1 DEF StartProcess, RunFdrBootCounter, ReadBootCount, LogBoot, FinishStart
  <2>2. CASE EventSignal \/ StoreEvent \/ OpenDirectory \/ TimePasses
    BY <2>2 DEF EventSignal, Receive, StoreEvent, WriteDetails, WriteDetailsThrows,
       WriteEntry, BookEvent, OpenDirectory, TimePasses
  <2>3. CASE CatchException \/ ProcessDies \/ HmcResets
    BY <2>3 DEF CatchException, ProcessDies, HmcResets, StopHandling, TearBook
  <2>4. CASE UNCHANGED serviceVars
    BY <2>4 DEF serviceVars
  <2> QED  BY <1>2, <2>1, <2>2, <2>3, <2>4 DEF FdrNext
<1>3. unwritten = {} /\ [FdrNext]_serviceVars => (unwritten = {})'
  BY <1>2
<1>4. unwritten = {} /\ EntryHasDetails => EventLoggingPathIsStored
  BY DEF EntryHasDetails, EventLoggingPathIsStored
<1> QED  BY <1>1, <1>3, <1>4, EntriesHaveDetails, PTL DEF FdrSpec

-----------------------------------------------------------------------------
(* The book of errors                                                      *)

(* An entry carries a number that was used in the boot it was made in, and *)
(* so does everything the process enters from now on.                      *)
LoggedNumbers ==
  step \in {"mark", "up"} =>
    \A n \in bootCounter : [id |-> n, hmc |-> hmcBoot] \in bootEvents
BookNumbers ==
  \A b \in book : \E n \in Nat :
    b.ids = {n} /\ [id |-> n, hmc |-> b.hmc] \in bootEvents

BookInv == HandledWhenUp /\ LoggedNumbers /\ BookNumbers /\ ErrorIsBooked

LEMMA BookUntouched ==
  ASSUME BookInv, HandledWhenUp', UNCHANGED <<book, lost, faults>>,
         bootEvents \subseteq bootEvents', LoggedNumbers'
  PROVE  BookInv'
  BY DEF BookInv, BookNumbers, ErrorIsBooked

(* Every fault went with the book.                                         *)
LEMMA BookDeleted ==
  ASSUME BookInv, HandledWhenUp', book' = {}, lost' = lost \cup faults,
         UNCHANGED faults, LoggedNumbers'
  PROVE  BookInv'
  BY DEF BookInv, BookNumbers, ErrorIsBooked

LEMMA LoggedSteps ==
  ASSUME FreshnessInv, LoggedNumbers, [CounterNext]_counterVars
  PROVE  LoggedNumbers' /\ bootEvents \subseteq bootEvents'
<1> USE DEF LoggedNumbers
<1>1. CASE Start \/ update_data_file \/ WriteCount \/ KeepCount \/ UpdateGlobVariables
  BY <1>1 DEF Start, update_data_file, WriteCount, KeepCount, UpdateGlobVariables
<1>2. CASE UpdateBootEventLog
  BY <1>2 DEF UpdateBootEventLog
<1>3. CASE CreateFdrHmcAlive
  BY <1>3 DEF CreateFdrHmcAlive
<1>4. CASE Die \/ HmcReset
  BY <1>4 DEF Die, HmcReset
<1>5. CASE UNCHANGED counterVars
  BY <1>5 DEF counterVars
<1> QED  BY <1>1, <1>2, <1>3, <1>4, <1>5 DEF CounterNext, StartSteps

(* An entry with the number of the process is one of this boot.            *)
LEMMA SameNumberSameBoot ==
  ASSUME FreshnessInv, BookInv, step = "up"
  PROVE  /\ \E n \in Nat : bootCounter = {n} /\ [id |-> n, hmc |-> hmcBoot] \in bootEvents
         /\ \A b \in book : b.ids = bootCounter => b.hmc = hmcBoot
<1>1. PICK n \in Nat : bootCounter = {n}
  <2>1. /\ bootCounter = Number /\ bootCounter # {} /\ bootCounter \subseteq Nat
        /\ \A m, n \in bootCounter : m = n
    BY DEF FreshnessInv, CounterTypeOK, Counted
  <2>2. PICK n \in bootCounter : TRUE
    BY <2>1
  <2>3. bootCounter = {n} /\ n \in Nat
    BY <2>1, <2>2
  <2> QED  BY <2>3
<1>2. [id |-> n, hmc |-> hmcBoot] \in bootEvents
  BY <1>1 DEF BookInv, LoggedNumbers
<1>3. ASSUME NEW b \in book, b.ids = bootCounter
      PROVE  b.hmc = hmcBoot
  <2>1. PICK m \in Nat : b.ids = {m} /\ [id |-> m, hmc |-> b.hmc] \in bootEvents
    BY DEF BookInv, BookNumbers
  <2>2. m = n
    BY <1>1, <1>3, <2>1
  <2> QED  BY <1>2, <2>1, <2>2 DEF FreshnessInv, NumbersAreFresh
<1> QED  BY <1>1, <1>2, <1>3

LEMMA BookSteps ==
  ASSUME FreshnessInv, BookInv, [FdrNext]_serviceVars
  PROVE  BookInv'
<1>1. HandledWhenUp' /\ LoggedNumbers' /\ bootEvents \subseteq bootEvents'
  BY HandlingNeedsProcess, CounterSteps, LoggedSteps DEF BookInv
<1>2. CASE UNCHANGED <<bookVars, faults>>
  BY <1>1, <1>2, BookUntouched DEF bookVars
<1>3. CASE DeleteTornBook /\ UNCHANGED faults
  BY <1>1, <1>3, BookDeleted DEF DeleteTornBook
<1>4. CASE TearBook(bootCounter)
  BY <1>1, <1>4, BookUntouched, BookDeleted DEF TearBook
<1>5. CASE /\ BookEvent(bootCounter, hmcBoot)
           /\ UNCHANGED <<counterVars, bucketVars, stamp, store>>
  <2> DEFINE key == Key(event)
             fault == [key |-> key, hmc |-> hmcBoot]
             entry == [ids |-> bootCounter, key |-> key, hmc |-> hmcBoot]
  <2>1. step = "up" /\ UNCHANGED <<hmcBoot, bootCounter, bootEvents>>
    BY <1>5 DEF BookEvent, BookInv, HandledWhenUp, running, counterVars
  <2>2. PICK n \in Nat :
          bootCounter = {n} /\ [id |-> n, hmc |-> hmcBoot] \in bootEvents
    BY <2>1, SameNumberSameBoot
  <2>3. handling = "book" /\ faults \subseteq faults' /\ faults' \subseteq faults \cup {fault}
    BY <1>5 DEF BookEvent
  <2>4. CASE Comparing(bootCounter)
    <3>1. AppendToBook(entry)
      BY <1>5, <2>4 DEF BookEvent
    <3>2. \/ /\ book \subseteq book' /\ book' \subseteq book \cup {entry}
             /\ lost \ {fault} \subseteq lost'
          \/ /\ book' \subseteq {entry}
             /\ (lost \cup faults) \ {fault} \subseteq lost'
      <4> HIDE DEF key
      <4> QED  BY <3>1 DEF AppendToBook
    <3>3. entry \in book' \/ fault \in lost'
      <4> HIDE DEF key
      <4> QED  BY <3>1 DEF AppendToBook
    <3>4. BookNumbers'
      BY <2>1, <2>2, <3>2 DEF BookInv, BookNumbers
    <3>5. ASSUME NEW f \in faults', f \notin lost'
          PROVE  \E b \in book' : b.hmc = f.hmc /\ b.key = f.key
      <4>1. CASE f = fault
        BY <3>3, <3>5, <4>1
      <4>2. CASE f # fault
        <5>1. f \in faults /\ f \notin lost /\ book \subseteq book'
          <6> HIDE DEF fault, entry
          <6> QED  BY <2>3, <3>2, <3>5, <4>2
        <5> QED  BY <5>1 DEF BookInv, ErrorIsBooked
      <4> QED  BY <4>1, <4>2
    <3> QED  BY <1>1, <3>4, <3>5 DEF BookInv, ErrorIsBooked
  <2>5. CASE ~Comparing(bootCounter)
    <3>1. UNCHANGED bookVars
      BY <1>5, <2>5 DEF BookEvent
    <3>2. CASE ~IsFault(event)
      BY <1>2, <1>5, <3>1, <3>2 DEF BookEvent
    <3>3. CASE Booked(bootCounter, key)
      <4>1. PICK b \in book : b.ids = bootCounter /\ b.key = key
        BY <3>3 DEF Booked
      <4>2. b.hmc = hmcBoot
        BY <2>1, <4>1, SameNumberSameBoot
      <4>3. BookNumbers'
        BY <2>1, <3>1 DEF BookInv, BookNumbers, bookVars
      <4>4. ErrorIsBooked'
        BY <2>3, <3>1, <4>1, <4>2 DEF BookInv, ErrorIsBooked, bookVars
      <4> QED  BY <1>1, <4>3, <4>4 DEF BookInv
    <3> QED  BY <2>3, <2>5, <3>2, <3>3 DEF Comparing
  <2> QED  BY <2>4, <2>5
<1>6. CASE StartProcess \/ RunFdrBootCounter \/ ReadBootCount \/ LogBoot \/ FinishStart
  BY <1>2, <1>3, <1>6 DEF StartProcess, RunFdrBootCounter, ReadBootCount, LogBoot,
     FinishStart, CompactorReadsBook, eventVars
<1>7. CASE EventSignal \/ OpenDirectory \/ TimePasses
  BY <1>2, <1>3, <1>7 DEF EventSignal, Receive, OpenDirectory, CompactorReadsBook,
     TimePasses, eventVars
<1>8. CASE StoreEvent
  <2>1. CASE WriteDetails(currentDirectory)
    BY <1>2, <2>1 DEF WriteDetails
  <2>2. CASE WriteDetailsThrows
    BY <1>2, <2>2 DEF WriteDetailsThrows
  <2>3. CASE WriteEntry(currentDirectory, store)
    BY <1>2, <2>3 DEF WriteEntry
  <2> QED  BY <1>5, <1>8, <2>1, <2>2, <2>3 DEF StoreEvent
<1>9. CASE CatchException \/ ProcessDies \/ HmcResets
  BY <1>2, <1>3, <1>4, <1>9 DEF CatchException, ProcessDies, HmcResets, StopHandling,
     eventVars
<1>10. CASE UNCHANGED serviceVars
  BY <1>2, <1>10 DEF serviceVars, eventVars
<1> QED  BY <1>6, <1>7, <1>8, <1>9, <1>10 DEF FdrNext

(* Every fault that was handled is in the book of errors under its own     *)
(* boot unless a failed write or a torn book took it: an entry is passed   *)
(* over only when the book has one of the same number, and by              *)
(* ServiceFreshness a number stands for one boot of the HMC.               *)
THEOREM FaultsAreBooked == ASSUME NotTorn PROVE FdrSpec => []ErrorIsBooked
<1>1. FdrInit => BookInv
  BY DEF FdrInit, HandlerInit, CounterInit, BookInv, HandledWhenUp, LoggedNumbers,
     BookNumbers, ErrorIsBooked
<1>2. FreshnessInv /\ BookInv /\ [FdrNext]_serviceVars => BookInv'
  BY BookSteps
<1>3. BookInv => ErrorIsBooked
  BY DEF BookInv
<1> QED  BY <1>1, <1>2, <1>3, ServiceFreshness, PTL DEF FdrSpec

(* If writes do not fail and no reset tears the book, it is never deleted  *)
(* and every fault that was handled stays in it, through all other deaths  *)
(* and resets.                                                             *)
EveryFaultIsBooked ==
  \A f \in faults : \E b \in book : b.hmc = f.hmc /\ b.key = f.key

THEOREM NoFaultIsLost ==
  ASSUME NotTorn, HandlerFaults = {} PROVE FdrSpec => []EveryFaultIsBooked
<1> DEFINE Intact == ~bookTorn /\ lost = {}
<1>1. FdrInit => Intact
  BY DEF FdrInit, HandlerInit
<1>2. ASSUME Intact, [FdrNext]_serviceVars PROVE Intact'
  <2>1. ~DeleteTornBook /\ ~TearBook(bootCounter)
    BY <1>2 DEF DeleteTornBook, TearBook
  <2>2. CASE UNCHANGED bookVars
    BY <1>2, <2>2 DEF bookVars
  <2>3. CASE StartProcess \/ RunFdrBootCounter \/ ReadBootCount \/ LogBoot \/ FinishStart
    BY <2>1, <2>2, <2>3 DEF StartProcess, RunFdrBootCounter, ReadBootCount, LogBoot,
       FinishStart, CompactorReadsBook, eventVars
  <2>4. CASE EventSignal \/ OpenDirectory \/ TimePasses
    BY <2>1, <2>2, <2>4 DEF EventSignal, Receive, OpenDirectory, CompactorReadsBook,
       TimePasses, eventVars
  <2>5. CASE StoreEvent
    BY <1>2, <2>2, <2>5 DEF StoreEvent, WriteDetails, WriteDetailsThrows, WriteEntry,
       BookEvent, AppendToBook
  <2>6. CASE CatchException \/ ProcessDies \/ HmcResets
    BY <2>1, <2>2, <2>6 DEF CatchException, ProcessDies, HmcResets, StopHandling, eventVars
  <2>7. CASE UNCHANGED serviceVars
    BY <2>2, <2>7 DEF serviceVars, eventVars
  <2> QED  BY <1>2, <2>3, <2>4, <2>5, <2>6, <2>7 DEF FdrNext
<1>3. Intact /\ ErrorIsBooked => EveryFaultIsBooked
  BY DEF ErrorIsBooked, EveryFaultIsBooked
<1>4. Intact /\ [FdrNext]_serviceVars => Intact'
  BY <1>2
<1> QED  BY <1>1, <1>3, <1>4, FaultsAreBooked, PTL DEF FdrSpec
================================================================================
