------------------------------ MODULE EventHandler ------------------------------
(***************************************************************************)
(* The handler of the InterfacesAdded signals of the event log             *)
(* (fdr_events.cpp) with the book of errors it fills (fdr_bookoferrors.cpp)*)
(*                                                                         *)
(* An event names its device in up to three places.  For a device with an  *)
(* Error record a details file is written into the current directory, and  *)
(* an entry with its path into the store of the Error record, which was    *)
(* opened when the records were created.  Then the event goes to the       *)
(* device dump handler, and a Critical or Warning one into the book of     *)
(* errors.  A reset can come between any two of these writes, and each of  *)
(* them is FDRStore::append, which returns in the same way whether it could*)
(* write the record, a part of it or nothing.                              *)
(***************************************************************************)
EXTENDS Integers, Sequences, FiniteSets

CONSTANTS
  Names,       \* device names: a kind, and the numbers in it
  Components,  \* the components with an Error record: a kind and a number
  MaxEvents,   \* bound: how many events are received
  HandlerFaults \* what may go wrong, see HandlerFaultNames

HandlerFaultNames ==
  { "writeFails",   \* an append writes nothing or half a record, and returns
    "tornKeeper" }  \* an HMC reset leaves half an entry in the book

(* GPU_SXM_1 is [kind |-> "GPU", numbers |-> <<1>>], GPU has no number.    *)
ASSUME EventHandlerAssumption ==
  /\ \A n \in Names : n.numbers \in Seq(Nat)
  /\ \A c \in Components : c.number \in Nat
  /\ MaxEvents \in Nat
  /\ HandlerFaults \subseteq HandlerFaultNames

VARIABLES
  handling,  \* where eventParser stands
  event,     \* the event it works on
  details,   \* the Event_<timestamp>.dat files, by their paths
  entries,   \* the entries in the Error records
  book,      \* BookOfErrors.dat
  bookTorn,  \* BookOfErrors.dat ends in half an entry
  received,  \* history: how many events have been received
  faults,    \* history: the faults eventParser is done with
  unwritten, \* history: the details that could not be written
  lost       \* history: the faults whose entry was not written or was deleted

detailVars == <<details, unwritten>>
bookVars == <<book, bookTorn, lost>>
eventVars == <<handling, event, detailVars, entries, bookVars, received, faults>>

NoName == [kind |-> "", numbers |-> <<>>]
NoComponent == [kind |-> "", number |-> 0]
NoEvent == [name |-> NoName, component |-> NoComponent, time |-> 0, severe |-> FALSE]

(* What the signal may say.  An origin that is NoName ends in a slash.     *)
Signal == [name : Names \cup {NoName},
           args : [given : BOOLEAN, name : Names],
           origin : [given : BOOLEAN, name : Names \cup {NoName}],
           severe : BOOLEAN]

HandlerInit ==
  /\ handling = "no" /\ event = NoEvent
  /\ details = {} /\ entries = {} /\ book = {} /\ bookTorn = FALSE
  /\ received = 0 /\ faults = {} /\ unwritten = {} /\ lost = {}

-----------------------------------------------------------------------------
hasInstanceNumber(n) == n.numbers # <<>>

(* DEVICE_NAME, unless it has no number and the message arguments give a   *)
(* word; then the origin of the condition, unless that word has a number.  *)
ResolveDevice(s) ==
  LET word == IF ~hasInstanceNumber(s.name) /\ s.args.given THEN s.args.name
              ELSE s.name
  IN  IF ~hasInstanceNumber(word) /\ s.origin.given THEN s.origin.name
      ELSE word

(* getDeviceId takes what follows the last underscore.                     *)
getDeviceId(n) == n.numbers[Len(n.numbers)]
getFDRDeviceName(n) ==
  IF n.kind \in {"GPU", "NVSwitch", "Baseboard"} /\ hasInstanceNumber(n)
  THEN [kind |-> n.kind, number |-> getDeviceId(n)]
  ELSE NoComponent

(* The handler is called.  `time' is the clock when it starts.             *)
Receive(s, time) ==
  LET name == ResolveDevice(s)
      known == getFDRDeviceName(name) \in Components
  IN  /\ handling = "no"
      /\ received < MaxEvents /\ received' = received + 1
      /\ event' = [name |-> name,
                   component |-> IF known THEN getFDRDeviceName(name) ELSE NoComponent,
                   time |-> time, severe |-> s.severe]
      /\ handling' = IF known THEN "details" ELSE "book"
      /\ UNCHANGED <<detailVars, entries, bookVars, faults>>

Details(directory) ==
  [dir |-> directory, component |-> event.component, time |-> event.time]

(* CreateSamplesWriter and the append, which does not tell when it fails.  *)
WriteDetails(directory) ==
  /\ handling = "details"
  /\ \/ /\ details' = details \cup {Details(directory)}
        /\ UNCHANGED unwritten
     \/ /\ "writeFails" \in HandlerFaults
        /\ unwritten' = unwritten \cup {Details(directory)}
        /\ UNCHANGED details
  /\ handling' = "entry"
  /\ UNCHANGED <<event, entries, bookVars, received, faults>>

(* exists or create_directories throws: the callback logs it, and what was *)
(* still to be done with the event is not done.                            *)
WriteDetailsThrows ==
  /\ handling = "details"
  /\ handling' = "no" /\ event' = NoEvent
  /\ UNCHANGED <<detailVars, entries, bookVars, received, faults>>

(* getStoreFilePath of the store that the details were given to.  Half an  *)
(* entry counts as none.                                                   *)
WriteEntry_storeDirectory(directory, store) ==
  /\ handling = "entry"
  /\ entries' = entries \cup {[path |-> Details(store), store |-> store]}
  /\ handling' = "book"
  /\ UNCHANGED <<event, detailVars, bookVars, received, faults>>
WriteEntry(directory, store) ==
  /\ handling = "entry"
  /\ \/ entries' = entries \cup {[path |-> Details(directory), store |-> store]}
     \/ "writeFails" \in HandlerFaults /\ UNCHANGED entries
  /\ handling' = "book"
  /\ UNCHANGED <<event, detailVars, bookVars, received, faults>>

-----------------------------------------------------------------------------
(* The book of errors                                                      *)

(* SetBookOfErrorsRecord: the key is the component, or the name when the   *)
(* device has no Error record; one entry per boot and key.                 *)
Key(ev) == IF ev.component = NoComponent THEN ev.name ELSE ev.component

(* The comparison ends at the entry it looks for.                          *)
Booked_anyBoot(ids, key) == \E b \in book : b.key = key
Booked(ids, key) == \E b \in book : b.ids = ids /\ b.key = key

(* The event is a fault: Critical or Warning, and of a named device.       *)
IsFault(ev) == ev.severe /\ ev.name # NoName
Comparing(ids) == handling = "book" /\ IsFault(event) /\ ~Booked(ids, Key(event))

(* A reader that gets to half an entry deletes the whole book.             *)
DeleteTornBook ==
  /\ bookTorn
  /\ book' = {} /\ bookTorn' = FALSE
  /\ lost' = lost \cup faults

(* The comparison has read the book to its end, and the entry is appended. *)
AppendToBook(entry) ==
  LET fault == [key |-> entry.key, hmc |-> entry.hmc]
      kept == IF bookTorn THEN {} ELSE book
      gone == IF bookTorn THEN lost \cup faults ELSE lost
  IN  \/ /\ book' = kept \cup {entry} /\ bookTorn' = FALSE
         /\ lost' = gone \ {fault}
      \/ /\ "writeFails" \in HandlerFaults
         /\ book' = kept /\ bookTorn' \in BOOLEAN
         /\ lost' = gone \cup {fault}

(* The device dump handler is called, and then the book of errors if the   *)
(* event is a fault.                                                       *)
BookEvent(ids, hmc) ==
  LET key == Key(event)
  IN  /\ handling = "book"
      /\ faults' = faults \cup
           IF IsFault(event) THEN {[key |-> key, hmc |-> hmc]} ELSE {}
      /\ IF Comparing(ids)
         THEN AppendToBook([ids |-> ids, key |-> key, hmc |-> hmc])
         ELSE UNCHANGED bookVars
      /\ handling' = "no" /\ event' = NoEvent
      /\ UNCHANGED <<detailVars, entries, received>>

(* The compactor reads the book when a directory is compacted that the list*)
(* has a boot event for, and has nothing else to do with it here.          *)
CompactorReadsBook == DeleteTornBook \/ UNCHANGED bookVars

-----------------------------------------------------------------------------
(* The process ends                                                        *)

(* The files stay.  The comparison may have deleted a torn book, and the   *)
(* entry is not appended any more.                                         *)
StopHandling_resumes(ids) == UNCHANGED eventVars
StopHandling(ids) ==
  /\ handling' = "no" /\ event' = NoEvent
  /\ \/ UNCHANGED bookVars
     \/ Comparing(ids) /\ DeleteTornBook
  /\ UNCHANGED <<detailVars, entries, received, faults>>

(* The HMC resets while the entry is being appended.                       *)
TearBook(ids) ==
  /\ "tornKeeper" \in HandlerFaults
  /\ Comparing(ids)
  /\ bookTorn' = TRUE
  /\ IF bookTorn THEN book' = {} /\ lost' = lost \cup faults
                 ELSE UNCHANGED <<book, lost>>
  /\ handling' = "no" /\ event' = NoEvent
  /\ UNCHANGED <<detailVars, entries, received, faults>>
================================================================================
