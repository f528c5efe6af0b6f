--------------------------- MODULE BootCounterProofs ---------------------------
(***************************************************************************)
(* Why a number is never used for two boots of the HMC, for any number of  *)
(* boots and restarts, and why it does not change within one.              *)
(***************************************************************************)
EXTENDS BootCounter, TLAPS

(* The counter is never left truncated.                                    *)
NotTorn == "tornCount" \notin CounterFaults

LEMMA InitFreshness == CounterInit => FreshnessInv
<1> SUFFICES ASSUME CounterInit PROVE FreshnessInv
  OBVIOUS
<1>1. CounterTypeOK
  BY DEF CounterInit, CounterTypeOK, Steps
<1>2. Number = {} /\ bootEvents = {} /\ ~Counted
  BY DEF CounterInit, Number, Counted
<1> QED  BY <1>1, <1>2 DEF CounterInit, FreshnessInv, NumbersAreFresh

LEMMA CountingKeepsFreshness ==
  ASSUME FreshnessInv, update_data_file
  PROVE  FreshnessInv'
<1> DEFINE next == {n + 1 : n \in IF lines = {} THEN {0} ELSE lines}
<1>1. /\ step = "script" /\ (~alive \/ ~exists)
      /\ count' = next /\ exists' = TRUE /\ lines' = {} /\ step' = "write"
      /\ UNCHANGED <<alive, bootCounter, hmcBoot, bootEvents>>
  BY DEF update_data_file
<1>2. Number = lines /\ Number' = next /\ Counted' /\ ~Counted
  <2>1. ~alive
    BY <1>1 DEF FreshnessInv, Counted
  <2> QED  BY <1>1, <2>1 DEF Number, Counted
<1>3. CounterTypeOK'
  BY <1>1 DEF FreshnessInv, CounterTypeOK, Steps
<1>4. \A m, n \in next : m = n
  BY <1>2 DEF FreshnessInv
<1>5. next # {}
  OBVIOUS
<1>6. \A n \in next, b \in bootEvents : b.id < n /\ b.hmc <= hmcBoot
  <2> SUFFICES ASSUME NEW n \in next, NEW b \in bootEvents
               PROVE  b.id < n /\ b.hmc <= hmcBoot
    OBVIOUS
  <2>1. lines # {}
    BY <1>2 DEF FreshnessInv
  <2>2. PICK m \in lines : n = m + 1
    BY <2>1
  <2>3. b.id <= m /\ b.hmc <= hmcBoot /\ b.id \in Nat /\ m \in Nat
    BY <1>2 DEF FreshnessInv, CounterTypeOK, Event
  <2> QED  BY <2>2, <2>3
<1>7. NumbersAreFresh'
  BY <1>1 DEF FreshnessInv, NumbersAreFresh
<1>8. ~alive'
  BY <1>1, <1>2 DEF Counted
<1>9. \A n \in Number', b \in bootEvents' :
        /\ b.id <= n /\ b.hmc <= hmcBoot'
        /\ Counted' /\ b.hmc < hmcBoot' => b.id < n
  <2> SUFFICES ASSUME NEW n \in next, NEW b \in bootEvents
               PROVE  b.id <= n /\ b.hmc <= hmcBoot /\ b.id < n
    BY <1>1, <1>2
  <2>1. b.id \in Nat /\ n \in Nat
    BY <1>1, <1>3 DEF CounterTypeOK, Event
  <2> QED  BY <1>6, <2>1
<1> HIDE DEF next
<1> QED  BY <1>1, <1>2, <1>3, <1>4, <1>5, <1>7, <1>8, <1>9 DEF FreshnessInv

LEMMA LoggingKeepsFreshness ==
  ASSUME FreshnessInv, UpdateBootEventLog
  PROVE  FreshnessInv'
<1>1. /\ step = "event" /\ step' = "mark"
      /\ bootEvents' = bootEvents \cup {[id |-> n, hmc |-> hmcBoot] : n \in bootCounter}
      /\ UNCHANGED <<alive, exists, lines, count, bootCounter, hmcBoot>>
  BY DEF UpdateBootEventLog
<1>2. Counted /\ Counted' /\ Number = lines /\ Number' = lines /\ bootCounter = lines
  BY <1>1 DEF Counted, Number, FreshnessInv
<1>3. CounterTypeOK'
  BY <1>1 DEF FreshnessInv, CounterTypeOK, Steps, Event
<1>4. \A n \in lines, b \in bootEvents' :
        /\ b.id <= n /\ b.hmc <= hmcBoot
        /\ b.hmc < hmcBoot => b.id < n
  <2> SUFFICES ASSUME NEW n \in lines, NEW b \in bootEvents'
               PROVE  /\ b.id <= n /\ b.hmc <= hmcBoot
                      /\ b.hmc < hmcBoot => b.id < n
    OBVIOUS
  <2>1. CASE b \in bootEvents
    BY <1>2, <2>1 DEF FreshnessInv
  <2>2. CASE b \notin bootEvents
    <3>1. PICK m \in bootCounter : b = [id |-> m, hmc |-> hmcBoot]
      BY <1>1, <2>2
    <3>2. m = n
      BY <1>2 DEF FreshnessInv
    <3> QED  BY <3>1, <3>2, <1>2 DEF FreshnessInv, CounterTypeOK
  <2> QED  BY <2>1, <2>2
<1>5. NumbersAreFresh'
  <2> SUFFICES ASSUME NEW a \in bootEvents', NEW b \in bootEvents', a.id = b.id
               PROVE  a.hmc = b.hmc
    BY DEF NumbersAreFresh
  <2>1. CASE a \in bootEvents /\ b \in bootEvents
    BY <2>1 DEF FreshnessInv, NumbersAreFresh
  <2>2. CASE ~(a \in bootEvents /\ b \in bootEvents)
    <3>1. PICK n \in lines :
            \/ a = [id |-> n, hmc |-> hmcBoot]
            \/ b = [id |-> n, hmc |-> hmcBoot]
      BY <1>1, <1>2, <2>2
    <3>2. a.id = n /\ b.id = n
      BY <3>1
    <3>3. /\ a.hmc \in Nat /\ b.hmc \in Nat /\ hmcBoot \in Nat /\ n \in Nat
      BY <1>1, <1>3 DEF CounterTypeOK, Event
    <3>4. a.hmc = hmcBoot /\ b.hmc = hmcBoot
      BY <1>4, <3>2, <3>3
    <3> QED  BY <3>4
  <2> QED  BY <2>1, <2>2
<1>6. lines # {}
  BY <1>2 DEF FreshnessInv
<1> QED  BY <1>1, <1>2, <1>3, <1>4, <1>5, <1>6 DEF FreshnessInv

LEMMA NextFreshness ==
  ASSUME NotTorn, FreshnessInv, [CounterNext]_counterVars
  PROVE  FreshnessInv'
<1> USE DEF FreshnessInv, CounterTypeOK, Steps, Number, Counted, NumbersAreFresh
<1>1. CASE Start
  BY <1>1 DEF Start
<1>2. CASE update_data_file
  BY <1>2, CountingKeepsFreshness
<1>3. CASE WriteCount
  BY <1>3 DEF WriteCount
<1>4. CASE KeepCount
  BY <1>4 DEF KeepCount
<1>5. CASE UpdateGlobVariables
  BY <1>5 DEF UpdateGlobVariables
<1>6. CASE UpdateBootEventLog
  BY <1>6, LoggingKeepsFreshness
<1>7. CASE CreateFdrHmcAlive
  BY <1>7 DEF CreateFdrHmcAlive
<1>8. CASE Die
  BY <1>8 DEF Die, NotTorn
<1>9. CASE HmcReset
  <2>1. /\ step # "write" /\ Number' = Number /\ Number = lines
        /\ ~Counted' /\ step' = "idle"
    BY <1>9 DEF HmcReset, NotTorn
  <2>2. CounterTypeOK'
    <3>1. hmcBoot \in Nat /\ hmcBoot + 1 \in Nat
      OBVIOUS
    <3> QED  BY <1>9, <3>1 DEF HmcReset
  <2>3. ASSUME NEW n \in lines, NEW b \in bootEvents
        PROVE  b.id <= n /\ b.hmc <= hmcBoot + 1
    BY <2>1 DEF Event
  <2>4. Number' = {} => bootEvents' = {}
    BY <1>9, <2>1 DEF HmcReset
  <2>5. NumbersAreFresh'
    BY <1>9 DEF HmcReset
  <2> HIDE DEF CounterTypeOK, Steps, Number, Counted, NumbersAreFresh
  <2> QED  BY <1>9, <2>1, <2>2, <2>3, <2>4, <2>5 DEF HmcReset
<1>10. CASE UNCHANGED counterVars
  BY <1>10 DEF counterVars
<1> QED
  BY <1>1, <1>2, <1>3, <1>4, <1>5, <1>6, <1>7, <1>8, <1>9, <1>10
     DEF CounterNext, StartSteps

LEMMA CounterTypes ==
  ASSUME CounterTypeOK, [CounterNext]_counterVars
  PROVE  CounterTypeOK'
<1> USE DEF CounterTypeOK, Steps
<1>1. CASE Start
  BY <1>1 DEF Start
<1>2. CASE update_data_file
  BY <1>2 DEF update_data_file
<1>3. CASE WriteCount
  BY <1>3 DEF WriteCount
<1>4. CASE KeepCount
  BY <1>4 DEF KeepCount
<1>5. CASE UpdateGlobVariables
  BY <1>5 DEF UpdateGlobVariables
<1>6. CASE UpdateBootEventLog
  BY <1>6 DEF UpdateBootEventLog, Event
<1>7. CASE CreateFdrHmcAlive
  BY <1>7 DEF CreateFdrHmcAlive
<1>8. CASE Die
  BY <1>8 DEF Die
<1>9. CASE HmcReset
  <2>1. hmcBoot \in Nat /\ hmcBoot + 1 \in Nat
    OBVIOUS
  <2> QED  BY <1>9, <2>1 DEF HmcReset
<1>10. CASE UNCHANGED counterVars
  BY <1>10 DEF counterVars
<1> QED
  BY <1>1, <1>2, <1>3, <1>4, <1>5, <1>6, <1>7, <1>8, <1>9, <1>10
     DEF CounterNext, StartSteps

(* A boot number belongs to one boot of the HMC, whatever the number of    *)
(* boots and restarts, if the file is never left truncated: the directories*)
(* and errors of two boots are never taken for those of one.               *)
THEOREM Freshness ==
  ASSUME NotTorn PROVE CounterSpec => [](FreshnessInv /\ NumbersAreFresh)
<1>1. FreshnessInv /\ [CounterNext]_counterVars => FreshnessInv'
  BY NextFreshness
<1>2. FreshnessInv => NumbersAreFresh
  BY DEF FreshnessInv
<1> QED  BY <1>1, <1>2, InitFreshness, PTL DEF CounterSpec

LEMMA NumberStaysWhileAlive ==
  ASSUME FreshnessInv, [CounterNext]_counterVars, alive, alive'
  PROVE  lines' = lines
<1>1. exists /\ step # "write"
  BY DEF FreshnessInv, Counted
<1> QED
  BY <1>1 DEF CounterNext, StartSteps, counterVars, Start, update_data_file,
     WriteCount, KeepCount, UpdateGlobVariables, UpdateBootEventLog,
     CreateFdrHmcAlive, Die, HmcReset

(* As long as /tmp/.fdrHmcAlive is there, no restart of the service changes*)
(* the number in BootCount.txt.                                            *)
THEOREM Stability == ASSUME NotTorn PROVE CounterSpec => NumberIsStable
<1>1. FreshnessInv /\ [CounterNext]_counterVars =>
        [alive /\ alive' => lines' = lines]_counterVars
  BY NumberStaysWhileAlive
<1>2. FreshnessInv /\ [CounterNext]_counterVars => FreshnessInv'
  BY NextFreshness
<1> QED  BY <1>1, <1>2, InitFreshness, PTL DEF CounterSpec, NumberIsStable
================================================================================
