------------------------------ MODULE BootCounter ------------------------------
(***************************************************************************)
(* The boot counter (tools/FdrBootCounter.sh and the part of fdr.cpp that  *)
(* runs it).  Bookkeeper/BootCount.txt holds the number of the HMC boot;   *)
(* the names of the sample directories, the boot events and the entries of *)
(* the book of errors carry it.  /tmp/.fdrHmcAlive tells a restart of the  *)
(* service from a boot of the HMC: /tmp is lost in an HMC reset.           *)
(***************************************************************************)
EXTENDS Integers, FiniteSets

CONSTANTS
  MaxHmcBoots,  \* bound: how often the HMC boots
  MaxCount,     \* bound: the recorder is not started beyond this number
  CounterFaults \* what may go wrong, see CounterFaultNames

CounterFaultNames ==
  { "tornCount",  \* the HMC resets after `echo >' truncated BootCount.txt
    "markFails" } \* /tmp/.fdrHmcAlive cannot be created

ASSUME BootCounterAssumption ==
  /\ MaxHmcBoots \in Nat /\ MaxCount \in Nat
  /\ CounterFaults \subseteq CounterFaultNames

VARIABLES
  step,        \* where the start of the recorder stands
  alive,       \* /tmp/.fdrHmcAlive exists
  exists,      \* BootCount.txt exists
  lines,       \* the number in it; {} when it is empty
  count,       \* the variable of the script; {} when it is not set
  bootCounter, \* the variable of the recorder; {} for ""
  hmcBoot,     \* history: how often the HMC has booted
  bootEvents   \* BootEvent.dat, each entry with the HMC boot it was made in

counterVars ==
  <<step, alive, exists, lines, count, bootCounter, hmcBoot, bootEvents>>

Steps == {"idle", "script", "write", "read", "event", "mark", "up"}
Event == [id : Nat, hmc : Nat]

CounterInit ==
  /\ step = "idle" /\ alive = FALSE /\ exists = FALSE
  /\ lines = {} /\ count = {} /\ bootCounter = {}
  /\ hmcBoot = 1 /\ bootEvents = {}

-----------------------------------------------------------------------------
Start ==
  /\ step = "idle" /\ \A n \in lines : n < MaxCount
  /\ step' = "script"
  /\ UNCHANGED <<alive, exists, lines, count, bootCounter, hmcBoot, bootEvents>>

(* update_data_file: the last line of the file plus one; 1 if there is no  *)
(* file or no line.  BootCount.txt is taken to be writable.                *)
(* The redirection truncates the file before echo writes to it.            *)
update_data_file ==
  /\ step = "script" /\ (~alive \/ ~exists)
  /\ count' = {n + 1 : n \in IF lines = {} THEN {0} ELSE lines}
  /\ exists' = TRUE /\ lines' = {}
  /\ step' = "write"
  /\ UNCHANGED <<alive, bootCounter, hmcBoot, bootEvents>>

WriteCount_beforeIncrement ==
  /\ step = "write"
  /\ lines' = {n - 1 : n \in count}
  /\ step' = "read"
  /\ UNCHANGED <<alive, exists, count, bootCounter, hmcBoot, bootEvents>>
WriteCount ==
  /\ step = "write"
  /\ lines' = count
  /\ step' = "read"
  /\ UNCHANGED <<alive, exists, count, bootCounter, hmcBoot, bootEvents>>

(* The service was restarted: the script only prints the number.           *)
KeepCount ==
  /\ step = "script" /\ alive /\ exists
  /\ count' = lines
  /\ step' = "read"
  /\ UNCHANGED <<alive, exists, lines, bootCounter, hmcBoot, bootEvents>>

(* UpdateGlobVariables reads the file itself, not what the script printed. *)
UpdateGlobVariables ==
  /\ step = "read"
  /\ bootCounter' = IF exists THEN lines ELSE {0}
  /\ count' = {}
  /\ step' = "event"
  /\ UNCHANGED <<alive, exists, lines, hmcBoot, bootEvents>>

UpdateBootEventLog ==
  /\ step = "event"
  /\ bootEvents' = bootEvents \cup {[id |-> n, hmc |-> hmcBoot] : n \in bootCounter}
  /\ step' = "mark"
  /\ UNCHANGED <<alive, exists, lines, count, bootCounter, hmcBoot>>

(* A failure to create the mark is logged and the recorder goes on.        *)
CreateFdrHmcAlive ==
  /\ step = "mark"
  /\ alive' \in IF "markFails" \in CounterFaults THEN {alive, TRUE} ELSE {TRUE}
  /\ step' = "up"
  /\ UNCHANGED <<exists, lines, count, bootCounter, hmcBoot, bootEvents>>

-----------------------------------------------------------------------------
(* The process ends, and the script with it.                               *)
Die ==
  /\ step # "idle"
  /\ step = "write" => "tornCount" \in CounterFaults
  /\ step' = "idle" /\ count' = {} /\ bootCounter' = {}
  /\ UNCHANGED <<alive, exists, lines, hmcBoot, bootEvents>>

HmcReset ==
  /\ hmcBoot < MaxHmcBoots
  /\ step = "write" => "tornCount" \in CounterFaults
  /\ step' = "idle" /\ count' = {} /\ bootCounter' = {}
  /\ alive' = FALSE /\ hmcBoot' = hmcBoot + 1
  /\ UNCHANGED <<exists, lines, bootEvents>>

StartSteps ==
  \/ update_data_file \/ WriteCount \/ KeepCount
  \/ UpdateGlobVariables \/ UpdateBootEventLog \/ CreateFdrHmcAlive

CounterNext == Start \/ StartSteps \/ Die \/ HmcReset

CounterSpec == CounterInit /\ [][CounterNext]_counterVars

-----------------------------------------------------------------------------
CounterTypeOK ==
  /\ step \in Steps /\ alive \in BOOLEAN /\ exists \in BOOLEAN
  /\ lines \subseteq Nat /\ count \subseteq Nat /\ bootCounter \subseteq Nat
  /\ hmcBoot \in Nat /\ bootEvents \subseteq Event

(* A number is never used for two boots of the HMC: directories, boot      *)
(* events and booked errors of different boots can be told apart.          *)
NumbersAreFresh ==
  \A a, b \in bootEvents : a.id = b.id => a.hmc = b.hmc

(* Why: the number in the file is at least every number used so far, and   *)
(* above those of earlier boots as soon as it was counted for this one.    *)
Number == IF step = "write" THEN count ELSE lines
Counted == alive \/ step \in {"write", "read", "event", "mark", "up"}

FreshnessInv ==
  /\ CounterTypeOK
  /\ \A m, n \in Number : m = n
  /\ Number = {} => ~Counted /\ bootEvents = {}
  /\ \A n \in Number, b \in bootEvents :
       /\ b.id <= n /\ b.hmc <= hmcBoot
       /\ Counted /\ b.hmc < hmcBoot => b.id < n
  /\ Counted => exists
  /\ step = "write" => lines = {} /\ ~alive
  /\ step \in {"event", "mark", "up"} => bootCounter = Number
  /\ NumbersAreFresh

(* "update the boot counter only during HMC reboot or if BootCount.txt     *)
(* doesn't exist": once the mark is there the number stays until /tmp goes.*)
NumberIsStable ==
  [][alive /\ alive' => lines' = lines]_counterVars
================================================================================
