------------------------------- MODULE DumpLedger -------------------------------
(***************************************************************************)
(* What DeviceDumpRecords.dat promises: it is an index of every collection *)
(* event, kept by best effort.  A collection of a device is opened, at most*)
(* one at a time, and ends with exactly one attempt to write its record,   *)
(* unless the device turns out to have no dump or the recorder dies.  An   *)
(* event may also be turned down at the door, which is recorded without a  *)
(* collection.  If writes do not fail, an attempt is a record.  How dumps  *)
(* are fetched, retried and stored does not appear.                        *)
(***************************************************************************)
EXTENDS Naturals, Sequences

CONSTANTS
  Devices,
  HalfRecord,  \* what is left of a record that is not written to its end
  BestEffort   \* the write of a record may fail

VARIABLES
  alive,   \* the recorder is running
  open,    \* the devices whose dump is being collected
  empty,   \* those of which it is known that there is no dump
  ledger,  \* the records, oldest first
  missed   \* how many records could not be written

Init ==
  /\ alive = TRUE /\ open = {} /\ empty = {}
  /\ ledger = <<>> /\ missed = 0

Begin(d) ==
  /\ d \notin open \cup empty
  /\ open' = open \cup {d}
  /\ UNCHANGED <<empty, ledger, missed>>

FindEmpty(d) ==
  /\ d \in open
  /\ open' = open \ {d} /\ empty' = empty \cup {d}
  /\ UNCHANGED <<ledger, missed>>

Discard(d) ==
  /\ d \in empty
  /\ empty' = empty \ {d}
  /\ UNCHANGED <<open, ledger, missed>>

Write(d, status) ==
  /\ Len(ledger') = Len(ledger) + 1
  /\ SubSeq(ledger', 1, Len(ledger)) = ledger
  /\ ledger'[Len(ledger')].device = d
  /\ ledger'[Len(ledger')].status = status
  /\ UNCHANGED missed

LeaveHalf == ledger' = Append(ledger, HalfRecord)
Miss ==
  /\ BestEffort
  /\ missed' = missed + 1
  /\ UNCHANGED ledger \/ LeaveHalf

AppendRecord(d, status) == Write(d, status) \/ Miss

Record(d, status) ==
  /\ d \in open
  /\ open' = open \ {d}
  /\ AppendRecord(d, status)
  /\ UNCHANGED empty

TurnDown(d) == AppendRecord(d, "FAILED") /\ UNCHANGED <<open, empty>>

Crash ==
  /\ alive /\ ~alive' /\ open' = {} /\ empty' = {}
  /\ UNCHANGED ledger \/ LeaveHalf
  /\ UNCHANGED missed
Restart == ~alive /\ alive' /\ UNCHANGED <<open, empty, ledger, missed>>

Next ==
  \/ /\ alive /\ UNCHANGED alive
     /\ \E d \in Devices :
          \/ Begin(d) \/ FindEmpty(d) \/ Discard(d) \/ TurnDown(d)
          \/ \E status \in {"SUCCESS", "FAILED"} : Record(d, status)
  \/ Crash \/ Restart

Spec == Init /\ [][Next]_<<alive, open, empty, ledger, missed>>
=================================================================================
