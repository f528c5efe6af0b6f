----------------------------- MODULE RecordsProofs -----------------------------
(***************************************************************************)
(* What holds of the records for every profile, whatever the platform      *)
(* answers and however long a read takes: types, that no two fetches are   *)
(* skipped, that a statistics record stays within its directory and sums   *)
(* up its readings, and that the sample file ends in the latest value.     *)
(***************************************************************************)
EXTENDS Records, SumProofs

-----------------------------------------------------------------------------
(* The profile and the timers                                              *)

LEMMA StringsApart ==
  /\ "Poll" # "GroupPoll" /\ "Poll" # "Subscribe" /\ "GroupPoll" # "Subscribe"
  /\ "Poll" # "Store" /\ "GroupPoll" # "Store"
OBVIOUS

LEMMA TimerOfRecord ==
  ASSUME NEW r \in Records
  PROVE  /\ TimerOf(r) \in Timers
         /\ Info[r].FetchType = "Poll" =>
              TimerOf(r)[1] = "Poll" /\ TimerOf(r)[2] = Info[r].FetchFreqSecs
         /\ Info[r].FetchType = "GroupPoll" =>
              TimerOf(r)[1] = "GroupPoll" /\ TimerOf(r)[2] = Info[r].FetchFreqSecs
         /\ Info[r].FetchType = "Subscribe" =>
              TimerOf(r)[1] = "Store" /\ TimerOf(r)[2] = Info[r].StoreFreqSecs
         /\ Info[r].FetchType \in {"Poll", "GroupPoll", "Subscribe"}
<1>1. Info[r].FetchType \in {"Poll", "GroupPoll", "Subscribe"}
  BY RecordsAssumption DEF FetchTypes
<1>2. TimerOf(r) \in Timers
  BY DEF Timers
<1>3. Info[r].FetchType = "Poll" => TimerOf(r) = <<"Poll", Info[r].FetchFreqSecs>>
  BY DEF TimerOf
<1>4. Info[r].FetchType = "GroupPoll" => TimerOf(r) = <<"GroupPoll", Info[r].FetchFreqSecs>>
  BY DEF TimerOf
<1>5. Info[r].FetchType = "Subscribe" => TimerOf(r) = <<"Store", Info[r].StoreFreqSecs>>
  BY DEF TimerOf
<1> QED  BY <1>1, <1>2, <1>3, <1>4, <1>5

LEMMA TimerPeriods ==
  ASSUME NEW t \in Timers
  PROVE  t[2] \in Nat /\ t[2] >= 1
<1>1. CASE t \in {<<"SubWindow", SubWindow>>, <<"Window", Window>>}
  BY <1>1, RecordsAssumption
<1>2. CASE \E r \in Records : t = TimerOf(r)
  <2>1. PICK r \in Records : t = TimerOf(r)
    BY <1>2
  <2>2. Info[r].FetchFreqSecs \in 1..StartTime /\ Info[r].StoreFreqSecs \in 1..StartTime
        /\ StartTime \in Nat
    BY RecordsAssumption
  <2> QED  BY <2>1, <2>2, TimerOfRecord
<1> QED  BY <1>1, <1>2 DEF Timers

LEMMA RecordSettings ==
  ASSUME NEW r \in Records
  PROVE  /\ Info[r].FetchFreqSecs \in Nat /\ Info[r].FetchFreqSecs >= 1
         /\ Info[r].FetchFreqSecs <= StartTime /\ StartTime \in Nat /\ StartTime >= 1
         /\ Info[r].StorePolicy \in StorePolicies
BY RecordsAssumption

(* The list of timers is never empty, so that a clock without due times is *)
(* one that is not armed yet.                                              *)
LEMMA EmptyDue ==
  /\ DOMAIN <<>> = {}
  /\ \A d \in [Timers -> Nat] : d # <<>> /\ DOMAIN d = Timers
<1>1. DOMAIN <<>> = {}
  OBVIOUS
<1>2. <<"Window", Window>> \in Timers
  BY DEF Timers
<1> QED  BY <1>1, <1>2

LEMMA CurrentIsPending ==
  ASSUME todo \subseteq Records, todo # {}
  PROVE  Current \in todo
<1> DEFINE I == {i \in DOMAIN RecList : RecList[i] \in todo}
           First(i) == /\ RecList[i] \in todo
                       /\ \A j \in DOMAIN RecList : RecList[j] \in todo => i <= j
<1>1. DOMAIN RecList \subseteq Nat
  BY RecordsAssumption
<1>2. I # {}
  BY DEF Records, ToSet
<1>3. PICK i \in I : \A j \in I : i <= j
  BY <1>1, <1>2, LeastNatural
<1>4. i \in DOMAIN RecList /\ First(i)
  BY <1>3
<1>5. \E k \in DOMAIN RecList : First(k)
  BY <1>4
<1>6. First(CHOOSE k \in DOMAIN RecList : First(k))
  <2> HIDE DEF First
  <2> QED  BY <1>5
<1> QED  BY <1>6 DEF Current

-----------------------------------------------------------------------------
(* What the parts of a refresh make of a record                            *)

LEMMA StoreFields ==
  ASSUME NEW r \in Records, NEW x \in RecordObject, NEW t \in Nat
  PROVE  LET y == Store(r, x, t) IN
         /\ y \in RecordObject
         /\ y.value = x.value /\ y.timestamp = x.timestamp
         /\ y.lastFetchedAt = x.lastFetchedAt /\ y.running = x.running
         /\ mustStore(r, x, t) =>
              y.lastStored = x.value /\ y.lastStoredAt = t /\ y.turnedDown = 0
         /\ ~mustStore(r, x, t) =>
              /\ y.lastStored = x.lastStored /\ y.lastStoredAt = x.lastStoredAt
              /\ y.turnedDown = IF Info[r].StorePolicy = "EveryFetch"
                                THEN x.turnedDown + 1 ELSE 0
<1>1. CASE mustStore(r, x, t)
  <2>1. Store(r, x, t) = [x EXCEPT !.lastStored = x.value, !.lastStoredAt = t, !.turnedDown = 0]
    BY <1>1 DEF Store
  <2> DEFINE y == [value |-> x.value, timestamp |-> x.timestamp,
                   lastFetchedAt |-> x.lastFetchedAt, lastStored |-> x.value,
                   lastStoredAt |-> t, running |-> x.running, turnedDown |-> 0]
  <2>2. Store(r, x, t) = y
    BY <2>1 DEF RecordObject
  <2>3. y \in RecordObject
    BY DEF RecordObject
  <2>4. /\ Store(r, x, t) \in RecordObject
        /\ Store(r, x, t).value = x.value /\ Store(r, x, t).timestamp = x.timestamp
        /\ Store(r, x, t).lastFetchedAt = x.lastFetchedAt
        /\ Store(r, x, t).running = x.running
        /\ Store(r, x, t).lastStored = x.value /\ Store(r, x, t).lastStoredAt = t
        /\ Store(r, x, t).turnedDown = 0
    BY <2>2, <2>3
  <2> QED  BY <1>1, <2>4
<1>2. CASE ~mustStore(r, x, t)
  <2> DEFINE n == IF Info[r].StorePolicy = "EveryFetch" THEN x.turnedDown + 1 ELSE 0
  <2>1. Store(r, x, t) = [x EXCEPT !.turnedDown = n]
    BY <1>2 DEF Store
  <2>2. n \in Nat
    BY DEF RecordObject
  <2> HIDE DEF n
  <2>3. /\ Store(r, x, t) \in RecordObject /\ Store(r, x, t).turnedDown = n
        /\ Store(r, x, t).value = x.value /\ Store(r, x, t).timestamp = x.timestamp
        /\ Store(r, x, t).lastFetchedAt = x.lastFetchedAt
        /\ Store(r, x, t).running = x.running
        /\ Store(r, x, t).lastStored = x.lastStored
        /\ Store(r, x, t).lastStoredAt = x.lastStoredAt
    BY <2>1, <2>2 DEF RecordObject
  <2> QED  BY <1>2, <2>3 DEF n
<1> QED  BY <1>1, <1>2

LEMMA FetchedFields ==
  ASSUME NEW x \in RecordObject, NEW t \in Nat
  PROVE  LET y == Fetched(x, t) IN
         /\ y \in RecordObject
         /\ y.timestamp = t /\ y.lastFetchedAt = t
         /\ y.value = x.value /\ y.running = x.running /\ y.lastStored = x.lastStored
         /\ y.lastStoredAt = x.lastStoredAt /\ y.turnedDown = x.turnedDown
BY DEF Fetched, RecordObject

LEMMA ValuesAreNatural ==
  ASSUME NEW r \in Records, NEW v \in Values \cup {0}
  PROVE  currentRecValue(r, v) \in Nat /\ currentRecValue(r, v) \in Values \cup {0}
BY RecordsAssumption DEF currentRecValue

LEMMA EngineTypes ==
  ASSUME NEW r \in Records, NEW s \in Stat, NEW v \in Values \cup {0}, NEW t \in Nat
  PROVE  RunningStatisticEngine(r, s, v, t) \in Stat
<1> DEFINE x == currentRecValue(r, v)
<1>1. x \in Nat
  BY ValuesAreNatural
<1> HIDE DEF x
<1>2. RunningStatisticEngine(r, s, v, t) =
       [numsamples |-> s.numsamples + 1,
        avg |-> s.avg + x,
        min |-> IF s.minvaltimestamp = 0 \/ x <= s.min THEN x ELSE s.min,
        max |-> IF s.maxvaltimestamp = 0 \/ x >= s.max THEN x ELSE s.max,
        minvaltimestamp |-> IF s.minvaltimestamp = 0 \/ x <= s.min THEN t ELSE s.minvaltimestamp,
        maxvaltimestamp |-> IF s.maxvaltimestamp = 0 \/ x >= s.max THEN t ELSE s.maxvaltimestamp,
        fromtime |-> IF s.fromtime = 0 THEN t ELSE s.fromtime,
        totime |-> t]
  BY DEF RunningStatisticEngine, x
<1> QED  BY <1>1, <1>2 DEF Stat

LEMMA ConsumeFields ==
  ASSUME NEW r \in Records, NEW x \in RecordObject, NEW v \in Values \cup {0}
  PROVE  LET y == Consume(r, x, v) IN
         /\ y \in RecordObject
         /\ y.value = v /\ y.timestamp = x.timestamp /\ y.lastFetchedAt = x.lastFetchedAt
         /\ y.lastStored = x.lastStored /\ y.lastStoredAt = x.lastStoredAt
         /\ y.turnedDown = x.turnedDown
         /\ y.running = IF r \in Averaged
                        THEN RunningStatisticEngine(r, x.running, v, x.timestamp)
                        ELSE x.running
<1> DEFINE R == IF r \in Averaged THEN RunningStatisticEngine(r, x.running, v, x.timestamp)
                ELSE x.running
<1>1. R \in Stat
  <2>1. x.running \in Stat /\ x.timestamp \in Nat
    BY DEF RecordObject
  <2> QED  BY <2>1, EngineTypes
<1>2. Consume(r, x, v) = [x EXCEPT !.value = v, !.running = R]
  BY DEF Consume
<1> HIDE DEF R
<1>3. [x EXCEPT !.value = v, !.running = R] \in RecordObject
  BY <1>1 DEF RecordObject
<1> QED  BY <1>1, <1>2, <1>3 DEF RecordObject, R

-----------------------------------------------------------------------------
(* What a step makes of one record                                         *)

Unheard(r) == told'[r] = told[r] /\ readings'[r] = readings[r]
Heard(r, v, t) ==
  readings'[r] = IF r \in Averaged THEN Append(readings[r], Reading(r, v, t)) ELSE readings[r]
Untouched(r) == rec'[r] = rec[r] /\ Unheard(r)

(* Its group is read: the key is missing, the value is odd, or it is there.*)
GroupAnswered(r) ==
  \/ Untouched(r)
  \/ rec'[r] = Store(r, Fetched(rec[r], now), now) /\ Unheard(r)
  \/ \E v \in Values :
       /\ rec'[r] = Store(r, Consume(r, Fetched(rec[r], now), v), now)
       /\ told'[r] = v /\ Heard(r, v, now)

(* Its own refresh ends: it throws, has no value, has one or keeps the old.*)
Finished(r) ==
  \/ Untouched(r) /\ Info[r].FetchType # "GroupPoll"
  \/ rec'[r] = Store(r, rec[r], now) /\ Unheard(r)
  \/ /\ Info[r].FetchType # "GroupPoll"
     /\ \E v \in Values \cup {0} :
          /\ rec'[r] = Store(r, Consume(r, rec[r], v), now)
          /\ \/ v \in Values /\ told'[r] = v
             \/ v = rec[r].value /\ told'[r] = told[r]
          /\ Heard(r, v, rec[r].timestamp)

Signalled(r) ==
  /\ Info[r].FetchType = "Subscribe" /\ readings'[r] = readings[r]
  /\ \E v \in Values :
       /\ told'[r] = v
       /\ rec'[r] = IF v # 0 THEN refreshDataCallback(rec[r], v) ELSE rec[r]

Flushed(r) ==
  /\ told'[r] = told[r] /\ readings'[r] = <<>>
  /\ rec'[r] = IF r \in Averaged THEN [rec[r] EXCEPT !.running = NoStat] ELSE rec[r]
  /\ stat'[r] = IF r \in Averaged
                THEN appendRunningStatToStatfile(rec[r].running, stat[r]) ELSE stat[r]

Starts(r) ==
  /\ pc = "start" /\ pc' = "next" /\ todo' = Records /\ UNCHANGED <<now, dir, due, stat>>
  /\ \/ Info[r].FetchType = "GroupPoll" /\ GroupAnswered(r)
     \/ Info[r].FetchType # "GroupPoll" /\ Untouched(r)
PollStarts ==
  /\ \E t \in Timers : t[1] = "Poll" /\ Fire(t) /\ todo' = RecordsOf(t)
  /\ pc' = "next" /\ UNCHANGED <<now, dir, rec, told, readings, stat>>
Refreshes(r) ==
  /\ pc = "next" /\ pc' = "read" /\ UNCHANGED <<now, todo, dir, due, stat>>
  /\ rec'[r] = IF r = Current THEN Fetched(rec[r], now) ELSE rec[r]
  /\ Unheard(r)
Finishes(r) ==
  /\ pc = "read" /\ Continue /\ UNCHANGED <<now, dir, due, stat>>
  /\ IF r = Current THEN Finished(r) ELSE Untouched(r)
GroupPolls(r) ==
  /\ UNCHANGED <<now, pc, todo, dir, stat>>
  /\ \E t \in Timers : /\ t[1] = "GroupPoll" /\ Fire(t)
                       /\ IF TimerOf(r) = t THEN GroupAnswered(r) ELSE Untouched(r)
Signals(r) ==
  /\ pc = "idle" /\ UNCHANGED <<now, pc, todo, dir, due, stat>>
  /\ Signalled(r) \/ Untouched(r)
SubscribeStores(r) ==
  /\ UNCHANGED <<now, pc, todo, dir, stat>> /\ Unheard(r)
  /\ \E t \in Timers : /\ t[1] = "Store" /\ Fire(t)
                       /\ rec'[r] = IF TimerOf(r) = t THEN Store(r, rec[r], now) ELSE rec[r]
Flushes(r) ==
  /\ UNCHANGED <<now, pc, todo>> /\ dir' \in {dir, now} /\ Flushed(r)
  /\ \E t \in {<<"SubWindow", SubWindow>>, <<"Window", Window>>} : Fire(t)

RecordStep(r) ==
  \/ UNCHANGED vars \/ InitTimerEvents \/ PollStarts \/ Tick
  \/ Starts(r) \/ Refreshes(r) \/ Finishes(r) \/ GroupPolls(r) \/ Signals(r)
  \/ SubscribeStores(r) \/ Flushes(r)

TypeInv ==
  /\ TypeOK
  /\ pc \in {"start", "arm"} => due = <<>>
  /\ pc = "idle" => due \in [Timers -> Nat]
  /\ \A r \in Records :
       stat[r].dir \in Nat /\ stat[r].record.fromtime \in Nat /\ stat[r].record.totime \in Nat

LEMMA GroupSteps ==
  ASSUME TypeOK, NEW group \in SUBSET Records, RefreshAndStoreGroup(group), NEW r \in Records
  PROVE  IF r \in group THEN GroupAnswered(r) ELSE Untouched(r)
<1>1. PICK answers \in Answers(group) :
        /\ rec' = [q \in Records |->
                     IF q \in group /\ answers[q] # Missing
                     THEN Store(q, RefreshValue(q, rec[q], answers[q]), now) ELSE rec[q]]
        /\ Hear(answers, {q \in group : answers[q] \in Values}, [q \in Records |-> now])
  BY DEF RefreshAndStoreGroup
<1>2. answers \in [group -> Values \cup {Missing, Bad}]
  BY DEF Answers
<1>3. Missing \notin Values /\ Bad \notin Values /\ Bad # Missing
  BY RecordsAssumption DEF Missing, Bad
<1> DEFINE heard == {q \in group : answers[q] \in Values}
<1>4. /\ told'[r] = IF r \in heard THEN answers[r] ELSE told[r]
      /\ readings'[r] = IF r \in heard \cap Averaged
                        THEN Append(readings[r], Reading(r, answers[r], now)) ELSE readings[r]
  BY <1>1 DEF Hear
<1>5. CASE r \notin group
  BY <1>1, <1>4, <1>5 DEF Untouched, Unheard
<1>6. CASE r \in group /\ answers[r] = Missing
  BY <1>1, <1>3, <1>4, <1>6 DEF Untouched, Unheard, GroupAnswered
<1>7. CASE r \in group /\ answers[r] = Bad
  BY <1>1, <1>3, <1>4, <1>7 DEF Unheard, GroupAnswered, RefreshValue
<1>8. CASE r \in group /\ answers[r] \in Values
  <2>1. rec'[r] = Store(r, Consume(r, Fetched(rec[r], now), answers[r]), now)
    BY <1>1, <1>3, <1>8 DEF RefreshValue
  <2>2. told'[r] = answers[r] /\ Heard(r, answers[r], now)
    BY <1>4, <1>8 DEF Heard
  <2> QED  BY <1>8, <2>1, <2>2 DEF GroupAnswered
<1> QED  BY <1>2, <1>5, <1>6, <1>7, <1>8

LEMMA CurrentInRead ==
  ASSUME TypeOK, pc \in {"next", "read"}
  PROVE  Current \in todo /\ Current \in Records
<1>1. todo \subseteq Records /\ todo # {}
  BY DEF TypeOK
<1> QED  BY <1>1, CurrentIsPending

LEMMA FinishSteps ==
  ASSUME TypeOK, NEW r \in Records,
         RefreshSucceeds \/ RefreshFails \/ RefreshKeepsString \/ RefreshThrows
  PROVE  Finishes(r)
<1>0. rec \in [Records -> RecordObject] /\ told \in [Records -> Values \cup {NoValue}]
      /\ readings \in [Records -> Seq([time : Nat, value : Values \cup {0}])]
  BY DEF TypeOK
<1>c. pc = "read" => Current \in Records
  BY CurrentInRead
<1>1. CASE RefreshSucceeds
  <2> DEFINE c == Current
  <2>1. PICK v \in Values :
          /\ rec' = [rec EXCEPT ![c] = Store(c, Consume(c, rec[c], v), now)]
          /\ Hear([x \in {c} |-> v], {c}, [x \in {c} |-> rec[x].timestamp])
    BY <1>0, <1>1, <1>c DEF RefreshSucceeds
  <2>2. /\ pc = "read" /\ Continue /\ UNCHANGED <<now, dir, due, stat>>
        /\ Info[c].FetchType # "GroupPoll" /\ c \in Records
    BY <1>1, <1>c DEF RefreshSucceeds
  <2> HIDE DEF c
  <2>3. /\ told'[r] = IF r = c THEN v ELSE told[r]
        /\ readings'[r] = IF r = c /\ r \in Averaged
                          THEN Append(readings[r], Reading(r, v, rec[r].timestamp))
                          ELSE readings[r]
    <3>1. told'[r] = IF r \in {c} THEN [x \in {c} |-> v][r] ELSE told[r]
      BY <2>1 DEF Hear
    <3>2. readings'[r] = IF r \in {c} \cap Averaged
                        THEN Append(readings[r], Reading(r, [x \in {c} |-> v][r],
                                                        [x \in {c} |-> rec[x].timestamp][r]))
                        ELSE readings[r]
      BY <2>1 DEF Hear
    <3> QED  BY <3>1, <3>2
  <2>4. CASE r = c
    <3>1. rec'[r] = Store(r, Consume(r, rec[r], v), now)
      BY <1>0, <2>1, <2>4
    <3>2. Heard(r, v, rec[r].timestamp) /\ told'[r] = v
      BY <2>3, <2>4 DEF Heard
    <3>3. Finished(r)
      BY <2>2, <2>4, <3>1, <3>2 DEF Finished
    <3> QED  BY <2>2, <2>4, <3>3 DEF Finishes, c
  <2>5. CASE r # c
    <3>1. rec'[r] = rec[r]
      BY <1>0, <2>1, <2>5
    <3>2. Untouched(r)
      BY <2>3, <2>5, <3>1 DEF Untouched, Unheard
    <3> QED  BY <2>2, <2>5, <3>2 DEF Finishes, c
  <2> QED  BY <2>4, <2>5
<1>2. CASE RefreshFails
  <2> DEFINE c == Current
  <2>1. /\ pc = "read" /\ Continue /\ UNCHANGED <<now, dir, due, stat, told, readings>>
        /\ rec' = [rec EXCEPT ![c] = Store(c, rec[c], now)] /\ c \in Records
    BY <1>0, <1>2, <1>c DEF RefreshFails
  <2> HIDE DEF c
  <2>2. rec'[r] = IF r = c THEN Store(r, rec[r], now) ELSE rec[r]
    BY <1>0, <2>1
  <2>3. IF r = c THEN Finished(r) ELSE Untouched(r)
    BY <2>1, <2>2 DEF Finished, Unheard, Untouched
  <2> QED  BY <2>1, <2>3 DEF Finishes, c
<1>3. CASE RefreshKeepsString
  <2> DEFINE c == Current
  <2>1. /\ pc = "read" /\ Continue /\ UNCHANGED <<now, dir, due, stat, told>>
        /\ rec' = [rec EXCEPT ![c] = Store(c, Consume(c, rec[c], rec[c].value), now)]
        /\ readings' = IF c \in Averaged
                 THEN [readings EXCEPT ![c] = Append(readings[c], Reading(c, 0, rec[c].timestamp))]
                 ELSE readings
        /\ c \in Records /\ Info[c].FetchType # "GroupPoll" /\ Info[c].DataType = "string"
    BY <1>0, <1>3, <1>c DEF RefreshKeepsString
  <2> HIDE DEF c
  <2>2. CASE r = c
    <3>1. rec'[r] = Store(r, Consume(r, rec[r], rec[r].value), now)
      BY <1>0, <2>1, <2>2
    <3>2. Reading(r, 0, rec[r].timestamp) = Reading(r, rec[r].value, rec[r].timestamp)
      BY <2>1, <2>2 DEF Reading, currentRecValue
    <3>3. Heard(r, rec[r].value, rec[r].timestamp)
      BY <1>0, <2>1, <2>2, <3>2 DEF Heard
    <3>4. rec[r].value \in Values \cup {0}
      BY <1>0 DEF RecordObject
    <3>5. Finished(r)
      BY <2>1, <2>2, <3>1, <3>3, <3>4 DEF Finished
    <3> QED  BY <2>1, <2>2, <3>5 DEF Finishes, c
  <2>3. CASE r # c
    <3>1. Untouched(r)
      BY <1>0, <2>1, <2>3 DEF Untouched, Unheard
    <3> QED  BY <2>1, <2>3, <3>1 DEF Finishes, c
  <2> QED  BY <2>2, <2>3
<1>4. CASE RefreshThrows
  <2>1. /\ pc = "read" /\ Continue /\ UNCHANGED <<now, dir, due, stat>>
        /\ Info[Current].FetchType # "GroupPoll" /\ Untouched(r)
    BY <1>4 DEF RefreshThrows, Untouched, Unheard
  <2> QED  BY <2>1 DEF Finishes, Finished
<1> QED  BY <1>1, <1>2, <1>3, <1>4

LEMMA SignalSteps ==
  ASSUME TypeOK, NEW r \in Records, PropertiesChanged
  PROVE  Signals(r)
<1>1. pc = "idle" /\ UNCHANGED <<now, pc, todo, dir, due, readings, stat>>
  BY DEF PropertiesChanged
<1>2. PICK about \in SUBSET {q \in Records : Info[q].FetchType = "Subscribe"} :
        \E changes \in [about -> Values \cup (IF "badValue" \in Hazards THEN {Bad} ELSE {})] :
        \E seen \in SUBSET {q \in about : changes[q] # Bad} :
          /\ dbusEventHandlerCallback(changes, seen)
          /\ told' = [q \in Records |-> IF q \in seen THEN changes[q] ELSE told[q]]
  BY DEF PropertiesChanged
<1>3. PICK changes \in [about -> Values \cup (IF "badValue" \in Hazards THEN {Bad} ELSE {})] :
        \E seen \in SUBSET {q \in about : changes[q] # Bad} :
          /\ dbusEventHandlerCallback(changes, seen)
          /\ told' = [q \in Records |-> IF q \in seen THEN changes[q] ELSE told[q]]
  BY <1>2
<1>4. PICK seen \in SUBSET {q \in about : changes[q] # Bad} :
          /\ dbusEventHandlerCallback(changes, seen)
          /\ told' = [q \in Records |-> IF q \in seen THEN changes[q] ELSE told[q]]
  BY <1>3
<1>5. CASE r \in seen
  <2>1. changes[r] \in Values /\ Info[r].FetchType = "Subscribe"
    BY <1>5
  <2>2. told'[r] = changes[r]
        /\ rec'[r] = IF changes[r] # 0 THEN refreshDataCallback(rec[r], changes[r]) ELSE rec[r]
    BY <1>4, <1>5 DEF dbusEventHandlerCallback
  <2> QED  BY <1>1, <2>1, <2>2 DEF Signals, Signalled
<1>6. CASE r \notin seen
  <2>1. told'[r] = told[r] /\ rec'[r] = rec[r]
    BY <1>4, <1>6 DEF dbusEventHandlerCallback
  <2> QED  BY <1>1, <2>1 DEF Signals, Untouched, Unheard
<1> QED  BY <1>5, <1>6

LEMMA RecordSteps ==
  ASSUME TypeOK, NEW r \in Records, [Next]_vars
  PROVE  RecordStep(r)
<1>1. CASE CollectAndArchieveBirthCertificate
  <2> DEFINE group == {q \in Records : Info[q].FetchType = "GroupPoll"}
  <2>1. /\ RefreshAndStoreGroup(group) /\ pc = "start" /\ pc' = "next" /\ todo' = Records
        /\ UNCHANGED <<now, dir, due, stat>>
    BY <1>1 DEF CollectAndArchieveBirthCertificate
  <2>2. group \in SUBSET Records /\ (r \in group <=> Info[r].FetchType = "GroupPoll")
    OBVIOUS
  <2> HIDE DEF group
  <2>3. IF r \in group THEN GroupAnswered(r) ELSE Untouched(r)
    BY <2>1, <2>2, GroupSteps
  <2> QED  BY <2>1, <2>2, <2>3 DEF Starts, RecordStep
<1>2. CASE InitTimerEvents
  BY <1>2 DEF RecordStep
<1>3. CASE Refresh
  <2>1. Current \in Records
    BY <1>3, CurrentInRead DEF Refresh
  <2>2. rec'[r] = IF r = Current THEN Fetched(rec[r], now) ELSE rec[r]
    BY <1>3, <2>1 DEF Refresh, TypeOK
  <2> QED  BY <1>3, <2>2 DEF Refresh, Refreshes, RecordStep, Unheard
<1>4. CASE RefreshSucceeds \/ RefreshFails \/ RefreshKeepsString \/ RefreshThrows
  BY <1>4, FinishSteps DEF RecordStep
<1>5. ASSUME NEW t \in Timers, PollRecordTimer(t) PROVE RecordStep(r)
  BY <1>5 DEF PollRecordTimer, PollStarts, RecordStep
<1>6. ASSUME NEW t \in Timers, GroupPollRecordTimer(t) PROVE RecordStep(r)
  <2>1. /\ t[1] = "GroupPoll" /\ Fire(t) /\ RefreshAndStoreGroup(RecordsOf(t))
        /\ UNCHANGED <<now, pc, todo, dir, stat>>
    BY <1>6 DEF GroupPollRecordTimer
  <2>2. RecordsOf(t) \in SUBSET Records /\ (r \in RecordsOf(t) <=> TimerOf(r) = t)
    BY DEF RecordsOf
  <2>3. IF r \in RecordsOf(t) THEN GroupAnswered(r) ELSE Untouched(r)
    BY <2>1, <2>2, GroupSteps
  <2>4. GroupPolls(r)
    BY <2>1, <2>2, <2>3 DEF GroupPolls
  <2> QED  BY <2>4 DEF RecordStep
<1>7. ASSUME NEW t \in Timers, SubscribeStoreRecordTimer(t) PROVE RecordStep(r)
  <2>1. rec'[r] = IF TimerOf(r) = t THEN Store(r, rec[r], now) ELSE rec[r]
    BY <1>7 DEF SubscribeStoreRecordTimer
  <2>2. SubscribeStores(r)
    BY <1>7, <2>1 DEF SubscribeStoreRecordTimer, SubscribeStores, Unheard
  <2> QED  BY <2>2 DEF RecordStep
<1>8. CASE PropertiesChanged
  BY <1>8, SignalSteps DEF RecordStep
<1>9. CASE CompactionSubWindowTimer \/ CompactionWindowTimer
  <2>1. CheckCompactionSubWindowExpiry
    BY <1>9 DEF CompactionSubWindowTimer, CompactionWindowTimer
  <2>2. Flushed(r)
    BY <1>9, <2>1 DEF CheckCompactionSubWindowExpiry, Flushed, ResetRunningStat,
         CompactionSubWindowTimer, CompactionWindowTimer
  <2>3. Flushes(r)
    BY <1>9, <2>2 DEF Flushes, CompactionSubWindowTimer, CompactionWindowTimer
  <2> QED  BY <2>3 DEF RecordStep
<1>10. CASE Tick
  BY <1>10 DEF RecordStep
<1>11. CASE UNCHANGED vars
  BY <1>11 DEF RecordStep
<1> QED
  BY <1>1, <1>2, <1>3, <1>4, <1>5, <1>6, <1>7, <1>8, <1>9, <1>10, <1>11 DEF Next

-----------------------------------------------------------------------------
(* Types                                                                   *)

AReading == [time : Nat, value : Values \cup {0}]

LEMMA InitTypes == Init => TypeInv
<1> SUFFICES ASSUME Init PROVE TypeInv
  OBVIOUS
<1>1. NoStat \in Stat
  BY DEF NoStat, Stat
<1>2. rec \in [Records -> RecordObject]
  BY <1>1 DEF Init, RecordObject
<1>3. <<>> \in Seq(AReading)
  OBVIOUS
<1>4. readings \in [Records -> Seq(AReading)]
  BY <1>3 DEF Init
<1>5. told \in [Records -> Values \cup {NoValue}]
  BY DEF Init
<1>6. \A r \in Records : stat[r].dir \in Nat /\ stat[r].record.fromtime \in Nat
                         /\ stat[r].record.totime \in Nat
  BY DEF Init, NoStat
<1>7. TypeOK
  BY <1>2, <1>4, <1>5, RecordsAssumption DEF Init, TypeOK, AReading
<1> QED  BY <1>6, <1>7 DEF Init, TypeInv

(* Each of the four functions keeps its domain.                            *)
Shapes ==
  /\ rec' = [r \in Records |-> rec'[r]] /\ told' = [r \in Records |-> told'[r]]
  /\ readings' = [r \in Records |-> readings'[r]] /\ DOMAIN stat' = Records

LEMMA StepShapes ==
  ASSUME TypeOK, [Next]_vars
  PROVE  Shapes
<1>0. rec = [r \in Records |-> rec[r]] /\ told = [r \in Records |-> told[r]]
      /\ readings = [r \in Records |-> readings[r]] /\ DOMAIN stat = Records
  BY DEF TypeOK
<1>1. ASSUME NEW group, RefreshAndStoreGroup(group), stat' = stat PROVE Shapes
  BY <1>0, <1>1 DEF RefreshAndStoreGroup, Hear, Shapes
<1>2. CASE CollectAndArchieveBirthCertificate
  BY <1>1, <1>2 DEF CollectAndArchieveBirthCertificate
<1>3. CASE \E t \in Timers : GroupPollRecordTimer(t)
  BY <1>1, <1>3 DEF GroupPollRecordTimer
<1>4. CASE UNCHANGED <<rec, told, readings, stat>>
  BY <1>0, <1>4 DEF Shapes
<1>5. CASE Refresh
  BY <1>0, <1>5 DEF Refresh, Shapes
<1>6. CASE RefreshSucceeds
  <2>1. /\ rec' = [q \in Records |-> rec'[q]] /\ stat' = stat
    BY <1>0, <1>6 DEF RefreshSucceeds
  <2>2. told' = [q \in Records |-> told'[q]] /\ readings' = [q \in Records |-> readings'[q]]
    BY <1>6 DEF RefreshSucceeds, Hear
  <2> QED  BY <1>0, <2>1, <2>2 DEF Shapes
<1>7. CASE RefreshFails
  BY <1>0, <1>7 DEF RefreshFails, Shapes
<1>8. CASE RefreshKeepsString
  BY <1>0, <1>8 DEF RefreshKeepsString, Shapes
<1>9. CASE \E t \in Timers : SubscribeStoreRecordTimer(t)
  BY <1>0, <1>9 DEF SubscribeStoreRecordTimer, Shapes
<1>10. CASE PropertiesChanged
  BY <1>0, <1>10 DEF PropertiesChanged, dbusEventHandlerCallback, Shapes
<1>11. CASE CompactionSubWindowTimer \/ CompactionWindowTimer
  BY <1>0, <1>11 DEF CompactionSubWindowTimer, CompactionWindowTimer,
       CheckCompactionSubWindowExpiry, Shapes
<1>12. InitTimerEvents \/ RefreshThrows \/ Tick \/ UNCHANGED vars
       \/ (\E t \in Timers : PollRecordTimer(t)) => UNCHANGED <<rec, told, readings, stat>>
  BY DEF InitTimerEvents, RefreshThrows, Tick, vars, PollRecordTimer
<1> QED
  BY <1>2, <1>3, <1>4, <1>5, <1>6, <1>7, <1>8, <1>9, <1>10, <1>11, <1>12 DEF Next

LEMMA HeardTypes ==
  ASSUME TypeOK, NEW r \in Records, NEW v \in Values \cup {0}, NEW t \in Nat, Heard(r, v, t)
  PROVE  readings'[r] \in Seq(AReading)
<1>1. readings[r] \in Seq(AReading)
  BY DEF TypeOK, AReading
<1>2. Reading(r, v, t) \in AReading
  BY ValuesAreNatural DEF Reading, AReading
<1>3. Append(readings[r], Reading(r, v, t)) \in Seq(AReading)
  BY <1>1, <1>2
<1> QED  BY <1>1, <1>3 DEF Heard

LEMMA GroupTypes ==
  ASSUME TypeOK, NEW r \in Records, GroupAnswered(r)
  PROVE  /\ rec'[r] \in RecordObject /\ told'[r] \in Values \cup {NoValue}
         /\ readings'[r] \in Seq(AReading)
<1>0. /\ rec[r] \in RecordObject /\ told[r] \in Values \cup {NoValue}
      /\ readings[r] \in Seq(AReading) /\ now \in Nat
  BY DEF TypeOK, AReading
<1>1. Fetched(rec[r], now) \in RecordObject
  BY <1>0, FetchedFields
<1>2. CASE Untouched(r)
  BY <1>0, <1>2 DEF Untouched, Unheard
<1>3. CASE rec'[r] = Store(r, Fetched(rec[r], now), now) /\ Unheard(r)
  BY <1>0, <1>1, <1>3, StoreFields DEF Unheard
<1>4. ASSUME NEW v \in Values,
             rec'[r] = Store(r, Consume(r, Fetched(rec[r], now), v), now),
             told'[r] = v, Heard(r, v, now)
      PROVE  rec'[r] \in RecordObject /\ readings'[r] \in Seq(AReading)
  <2>1. Consume(r, Fetched(rec[r], now), v) \in RecordObject
    BY <1>1, ConsumeFields
  <2>2. rec'[r] \in RecordObject
    BY <1>0, <1>4, <2>1, StoreFields
  <2>3. readings'[r] \in Seq(AReading)
    BY <1>0, <1>4, HeardTypes
  <2> QED  BY <2>2, <2>3
<1> QED  BY <1>2, <1>3, <1>4 DEF GroupAnswered

LEMMA FinishTypes ==
  ASSUME TypeOK, NEW r \in Records, Finished(r)
  PROVE  /\ rec'[r] \in RecordObject /\ told'[r] \in Values \cup {NoValue}
         /\ readings'[r] \in Seq(AReading)
<1>0. /\ rec[r] \in RecordObject /\ told[r] \in Values \cup {NoValue}
      /\ readings[r] \in Seq(AReading) /\ now \in Nat /\ rec[r].timestamp \in Nat
  BY DEF TypeOK, AReading, RecordObject
<1>2. CASE Untouched(r)
  BY <1>0, <1>2 DEF Untouched, Unheard
<1>3. CASE rec'[r] = Store(r, rec[r], now) /\ Unheard(r)
  BY <1>0, <1>3, StoreFields DEF Unheard
<1>4. ASSUME NEW v \in Values \cup {0},
             rec'[r] = Store(r, Consume(r, rec[r], v), now),
             Heard(r, v, rec[r].timestamp)
      PROVE  rec'[r] \in RecordObject /\ readings'[r] \in Seq(AReading)
  <2>1. Consume(r, rec[r], v) \in RecordObject
    BY <1>0, ConsumeFields
  <2>2. rec'[r] \in RecordObject
    BY <1>0, <1>4, <2>1, StoreFields
  <2>3. readings'[r] \in Seq(AReading)
    BY <1>0, <1>4, HeardTypes
  <2> QED  BY <2>2, <2>3
<1> QED  BY <1>0, <1>2, <1>3, <1>4 DEF Finished

LEMMA FlushTypes ==
  ASSUME TypeInv, NEW r \in Records, Flushed(r)
  PROVE  /\ rec'[r] \in RecordObject /\ told'[r] \in Values \cup {NoValue}
         /\ readings'[r] \in Seq(AReading)
         /\ stat'[r].dir \in Nat /\ stat'[r].record.fromtime \in Nat
         /\ stat'[r].record.totime \in Nat
<1>0. /\ rec[r] \in RecordObject /\ told[r] \in Values \cup {NoValue} /\ dir \in Nat
      /\ rec[r].running \in Stat
      /\ stat[r].dir \in Nat /\ stat[r].record.fromtime \in Nat /\ stat[r].record.totime \in Nat
  BY DEF TypeInv, TypeOK, RecordObject
<1>1. NoStat \in Stat
  BY DEF NoStat, Stat
<1>2. [rec[r] EXCEPT !.running = NoStat] \in RecordObject
  BY <1>0, <1>1 DEF RecordObject
<1>3. rec'[r] \in RecordObject /\ told'[r] \in Values \cup {NoValue}
  BY <1>0, <1>2 DEF Flushed
<1>4. <<>> \in Seq(AReading)
  OBVIOUS
<1>5. readings'[r] \in Seq(AReading)
  BY <1>4 DEF Flushed
<1> DEFINE s == rec[r].running
           a == average(s)
<1>6. s \in Stat
  BY <1>0
<1>7. [s EXCEPT !.avg = a].fromtime \in Nat /\ [s EXCEPT !.avg = a].totime \in Nat
  <2> HIDE DEF s, a
  <2> QED  BY <1>6 DEF Stat
<1>8. stat'[r] \in {stat[r], [dir |-> dir, record |-> [s EXCEPT !.avg = a]]}
  BY DEF Flushed, appendRunningStatToStatfile
<1> DEFINE q == [s EXCEPT !.avg = a]
<1>9. /\ stat'[r].dir \in Nat /\ stat'[r].record.fromtime \in Nat
      /\ stat'[r].record.totime \in Nat
  <2>1. q.fromtime \in Nat /\ q.totime \in Nat
    BY <1>7
  <2>2. stat'[r] \in {stat[r], [dir |-> dir, record |-> q]}
    BY <1>8
  <2> HIDE DEF q
  <2>3. CASE stat'[r] = stat[r]
    BY <1>0, <2>3
  <2>4. CASE stat'[r] = [dir |-> dir, record |-> q]
    BY <1>0, <2>1, <2>4
  <2> QED  BY <2>2, <2>3, <2>4
<1> QED  BY <1>3, <1>5, <1>9

LEMMA StepRecordTypes ==
  ASSUME TypeInv, NEW r \in Records, RecordStep(r)
  PROVE  /\ rec'[r] \in RecordObject /\ told'[r] \in Values \cup {NoValue}
         /\ readings'[r] \in Seq(AReading)
         /\ stat'[r].dir \in Nat /\ stat'[r].record.fromtime \in Nat
         /\ stat'[r].record.totime \in Nat
<1>0. /\ TypeOK /\ rec[r] \in RecordObject /\ told[r] \in Values \cup {NoValue}
      /\ readings[r] \in Seq(AReading) /\ now \in Nat
      /\ stat[r].dir \in Nat /\ stat[r].record.fromtime \in Nat /\ stat[r].record.totime \in Nat
  BY DEF TypeInv, TypeOK, AReading
<1>1. CASE Untouched(r) /\ stat' = stat
  BY <1>0, <1>1 DEF Untouched, Unheard
<1>2. UNCHANGED vars \/ InitTimerEvents \/ PollStarts \/ Tick => Untouched(r) /\ stat' = stat
  BY DEF vars, InitTimerEvents, PollStarts, Tick, Untouched, Unheard
<1>3. CASE GroupAnswered(r) /\ stat' = stat
  BY <1>0, <1>3, GroupTypes
<1>4. CASE Starts(r) \/ GroupPolls(r)
  BY <1>1, <1>3, <1>4 DEF Starts, GroupPolls
<1>5. CASE Refreshes(r)
  BY <1>0, <1>5, FetchedFields DEF Refreshes, Unheard
<1>6. CASE Finishes(r)
  <2>1. stat' = stat
    BY <1>6 DEF Finishes
  <2>2. CASE r = Current
    BY <1>0, <1>6, <2>1, <2>2, FinishTypes DEF Finishes
  <2> QED  BY <1>1, <1>6, <2>1, <2>2 DEF Finishes
<1>7. CASE Signals(r)
  <2>1. stat' = stat
    BY <1>7 DEF Signals
  <2>2. CASE Signalled(r)
    <3>1. PICK v \in Values :
            /\ told'[r] = v
            /\ rec'[r] = IF v # 0 THEN refreshDataCallback(rec[r], v) ELSE rec[r]
      BY <2>2 DEF Signalled
    <3>2. Fetched(rec[r], now) \in RecordObject
      BY <1>0, FetchedFields
    <3>3. refreshDataCallback(rec[r], v) \in RecordObject
      BY <3>2 DEF refreshDataCallback, RecordObject
    <3> QED  BY <1>0, <2>1, <2>2, <3>1, <3>3 DEF Signalled
  <2> QED  BY <1>1, <1>7, <2>1, <2>2 DEF Signals
<1>8. CASE SubscribeStores(r)
  <2>1. Store(r, rec[r], now) \in RecordObject
    BY <1>0, StoreFields
  <2> QED  BY <1>0, <1>8, <2>1 DEF SubscribeStores, Unheard
<1>9. CASE Flushes(r)
  BY <1>9, FlushTypes DEF Flushes
<1> QED  BY <1>1, <1>2, <1>4, <1>5, <1>6, <1>7, <1>8, <1>9 DEF RecordStep

(* The records of a poll timer are never none.                             *)
LEMMA PollHasRecords ==
  ASSUME NEW t \in Timers, t[1] = "Poll"
  PROVE  RecordsOf(t) # {} /\ RecordsOf(t) \subseteq Records
<1>1. /\ <<"SubWindow", SubWindow>>[1] = "SubWindow" /\ <<"Window", Window>>[1] = "Window"
      /\ "Poll" # "SubWindow" /\ "Poll" # "Window"
  OBVIOUS
<1>2. t \notin {<<"SubWindow", SubWindow>>, <<"Window", Window>>}
  BY <1>1
<1> QED  BY <1>2 DEF Timers, RecordsOf

LEMMA ContinueFields ==
  ASSUME Continue
  PROVE  /\ todo' = todo \ {Current}
         /\ todo' # {} => pc' = "next"
         /\ todo' = {} /\ due = <<>> => pc' = "arm"
         /\ todo' = {} /\ due # <<>> => pc' = "idle"
BY DEF Continue

(* What the actions do with the clock, the timers and the poll under way.  *)
ClockTypes ==
  /\ now' \in Nat /\ dir' \in Nat
  /\ pc' \in {"start", "next", "read", "arm", "idle"}
  /\ todo' \subseteq Records /\ (todo' # {} <=> pc' \in {"next", "read"})
  /\ due' = <<>> \/ due' \in [Timers -> Nat]
  /\ pc' \in {"start", "arm"} => due' = <<>>
  /\ pc' = "idle" => due' \in [Timers -> Nat]

LEMMA FireTypes ==
  ASSUME TypeInv, NEW t \in Timers, Fire(t)
  PROVE  due \in [Timers -> Nat] /\ due' \in [Timers -> Nat]
<1>1. due \in [Timers -> Nat] /\ now \in Nat /\ t[2] \in Nat
  BY TimerPeriods DEF TypeInv, TypeOK, Fire
<1> QED  BY <1>1 DEF Fire

LEMMA StepClockTypes ==
  ASSUME TypeInv, [Next]_vars
  PROVE  ClockTypes
<1>0. /\ now \in Nat /\ dir \in Nat
      /\ pc \in {"start", "next", "read", "arm", "idle"}
      /\ todo \subseteq Records /\ (todo # {} <=> pc \in {"next", "read"})
      /\ due = <<>> \/ due \in [Timers -> Nat]
      /\ pc \in {"start", "arm"} => due = <<>>
      /\ pc = "idle" => due \in [Timers -> Nat]
  BY DEF TypeInv, TypeOK
<1>1. CASE CollectAndArchieveBirthCertificate
  BY <1>0, <1>1 DEF CollectAndArchieveBirthCertificate, ClockTypes
<1>2. CASE InitTimerEvents
  <2>1. due' \in [Timers -> Nat]
    BY <1>0, <1>2, TimerPeriods DEF InitTimerEvents
  <2> QED  BY <1>0, <1>2, <2>1 DEF InitTimerEvents, ClockTypes
<1>3. CASE Refresh
  BY <1>0, <1>3 DEF Refresh, ClockTypes
<1>4. CASE RefreshSucceeds \/ RefreshFails \/ RefreshKeepsString \/ RefreshThrows
  <2>1. Continue /\ UNCHANGED <<now, dir, due>> /\ pc = "read"
    BY <1>4 DEF RefreshSucceeds, RefreshFails, RefreshKeepsString, RefreshThrows
  <2>2. /\ todo' = todo \ {Current}
        /\ todo' # {} => pc' = "next"
        /\ todo' = {} /\ due = <<>> => pc' = "arm"
        /\ todo' = {} /\ due # <<>> => pc' = "idle"
    BY <2>1, ContinueFields
  <2> QED  BY <1>0, <2>1, <2>2 DEF ClockTypes
<1>5. ASSUME NEW t \in Timers, PollRecordTimer(t) PROVE ClockTypes
  <2>1. due' \in [Timers -> Nat]
    BY <1>5, FireTypes DEF PollRecordTimer
  <2>2. RecordsOf(t) # {} /\ RecordsOf(t) \subseteq Records
    BY <1>5, PollHasRecords DEF PollRecordTimer
  <2> QED  BY <1>0, <1>5, <2>1, <2>2 DEF PollRecordTimer, ClockTypes
<1>6. ASSUME NEW t \in Timers, Fire(t), UNCHANGED <<now, pc, todo>>, dir' \in {dir, now}
      PROVE  ClockTypes
  <2>1. due' \in [Timers -> Nat] /\ pc = "idle"
    BY <1>6, FireTypes DEF Fire
  <2> QED  BY <1>0, <1>6, <2>1 DEF ClockTypes
<1>7. CASE \E t \in Timers : GroupPollRecordTimer(t) \/ SubscribeStoreRecordTimer(t)
  BY <1>6, <1>7 DEF GroupPollRecordTimer, SubscribeStoreRecordTimer
<1>8. CASE CompactionSubWindowTimer \/ CompactionWindowTimer
  <2>1. <<"SubWindow", SubWindow>> \in Timers /\ <<"Window", Window>> \in Timers
    BY DEF Timers
  <2> QED  BY <1>6, <1>8, <2>1 DEF CompactionSubWindowTimer, CompactionWindowTimer
<1>9. CASE PropertiesChanged \/ UNCHANGED vars
  BY <1>0, <1>9 DEF PropertiesChanged, vars, ClockTypes
<1>10. CASE Tick
  BY <1>0, <1>10 DEF Tick, ClockTypes
<1> QED
  BY <1>1, <1>2, <1>3, <1>4, <1>5, <1>7, <1>8, <1>9, <1>10 DEF Next

LEMMA StepTypes == TypeInv /\ [Next]_vars => TypeInv'
<1> SUFFICES ASSUME TypeInv, [Next]_vars PROVE TypeInv'
  OBVIOUS
<1>0. TypeOK
  BY DEF TypeInv
<1>1. ClockTypes
  BY StepClockTypes
<1>2. Shapes
  BY <1>0, StepShapes
<1>3. ASSUME NEW r \in Records
      PROVE  /\ rec'[r] \in RecordObject /\ told'[r] \in Values \cup {NoValue}
             /\ readings'[r] \in Seq(AReading)
             /\ stat'[r].dir \in Nat /\ stat'[r].record.fromtime \in Nat
             /\ stat'[r].record.totime \in Nat
  BY <1>0, RecordSteps, StepRecordTypes
<1>4. /\ rec' \in [Records -> RecordObject] /\ told' \in [Records -> Values \cup {NoValue}]
      /\ readings' \in [Records -> Seq(AReading)]
  BY <1>2, <1>3 DEF Shapes
<1>5. DOMAIN stat' = Records
  BY <1>2 DEF Shapes
<1>6. TypeOK'
  BY <1>1, <1>4, <1>5 DEF TypeOK, ClockTypes, AReading
<1> QED  BY <1>1, <1>3, <1>6 DEF TypeInv, ClockTypes

LEMMA TypesHold == Spec => []TypeInv
BY InitTypes, StepTypes, PTL DEF Spec

(* Every variable keeps its type; in particular a poll is under way as     *)
(* long as records are left to refresh, and no longer (RefreshAndStore).   *)
THEOREM RecordTypes == Spec => []TypeOK
<1>1. TypeInv => TypeOK
  BY DEF TypeInv
<1> QED  BY <1>1, TypesHold, PTL

-----------------------------------------------------------------------------
(* The clock: timers fire on time, and a poll ends before it is due again  *)

Armed == due # <<>>
dueOf(r) == due[TimerOf(r)]
Period(r) == Info[r].FetchFreqSecs

ClockInv ==
  /\ now >= StartTime /\ dir >= StartTime /\ dir <= now
  /\ ~Armed => now = StartTime /\ dir = StartTime
  /\ Armed => \A t \in Timers : due[t] <= now + t[2]
  /\ Armed => \A q \in todo :
       /\ Info[q].FetchType = "Poll" /\ now < dueOf(q)
       /\ \A r \in todo : TimerOf(r) = TimerOf(q)

(* The record that is being read was given its times when its turn came.   *)
ReadOf(r) ==
  pc = "read" /\ Current = r =>
    /\ rec[r].timestamp = rec[r].lastFetchedAt
    /\ rec[r].timestamp >= dir /\ rec[r].timestamp <= now
    /\ Armed => rec[r].timestamp + Period(r) >= dueOf(r)

(* A step as the clock and the timers see it.                              *)
Quiet ==
  /\ UNCHANGED <<now, dir, due>>
  /\ todo' \subseteq todo \/ (pc = "start" /\ todo' \subseteq Records)
Fires ==
  /\ \E t \in Timers : Fire(t)
  /\ UNCHANGED <<now, pc, todo>> /\ dir' \in {dir, now}

LEMMA ClockSteps ==
  ASSUME TypeInv, [Next]_vars
  PROVE  Quiet \/ InitTimerEvents \/ PollStarts \/ Fires \/ Tick
<1>1. CASE CollectAndArchieveBirthCertificate
  BY <1>1 DEF CollectAndArchieveBirthCertificate, Quiet
<1>2. CASE Refresh
  BY <1>2 DEF Refresh, Quiet
<1>3. CASE RefreshSucceeds \/ RefreshFails \/ RefreshKeepsString \/ RefreshThrows
  <2>1. Continue /\ UNCHANGED <<now, dir, due>>
    BY <1>3 DEF RefreshSucceeds, RefreshFails, RefreshKeepsString, RefreshThrows
  <2> QED  BY <2>1, ContinueFields DEF Quiet
<1>4. CASE \E t \in Timers : PollRecordTimer(t)
  BY <1>4 DEF PollRecordTimer, PollStarts
<1>5. CASE \E t \in Timers : GroupPollRecordTimer(t) \/ SubscribeStoreRecordTimer(t)
  BY <1>5 DEF GroupPollRecordTimer, SubscribeStoreRecordTimer, Fires
<1>6. CASE CompactionSubWindowTimer \/ CompactionWindowTimer
  <2>1. <<"SubWindow", SubWindow>> \in Timers /\ <<"Window", Window>> \in Timers
    BY DEF Timers
  <2> QED  BY <1>6, <2>1 DEF CompactionSubWindowTimer, CompactionWindowTimer, Fires
<1>7. CASE PropertiesChanged \/ UNCHANGED vars
  BY <1>7 DEF PropertiesChanged, vars, Quiet
<1> QED
  BY <1>1, <1>2, <1>3, <1>4, <1>5, <1>6, <1>7 DEF Next

LEMMA TimersOfPoll ==
  ASSUME NEW t \in Timers, t[1] = "Poll", NEW q \in RecordsOf(t)
  PROVE  q \in Records /\ TimerOf(q) = t /\ Info[q].FetchType = "Poll"
BY TimerOfRecord, StringsApart DEF RecordsOf

(* A timer that fires is due again a period later, the others as before.   *)
LEMMA FireFields ==
  ASSUME TypeInv, NEW t \in Timers, Fire(t)
  PROVE  /\ pc = "idle" /\ todo = {} /\ Armed /\ Armed'
         /\ now >= due[t] /\ due'[t] = now + t[2] /\ t[2] \in Nat /\ t[2] >= 1
         /\ \A u \in Timers : u # t => due'[u] = due[u]
<1>1. /\ due \in [Timers -> Nat] /\ due' \in [Timers -> Nat] /\ now \in Nat
      /\ t[2] \in Nat /\ t[2] >= 1
  BY FireTypes, TimerPeriods DEF TypeInv, TypeOK
<1>2. pc = "idle" /\ now >= due[t] /\ due' = [due EXCEPT ![t] = now + t[2]]
  BY DEF Fire
<1>3. todo = {}
  BY <1>2 DEF TypeInv, TypeOK
<1> QED  BY <1>1, <1>2, <1>3, EmptyDue DEF Armed

LEMMA ClockStep == TypeInv /\ ClockInv /\ [Next]_vars => ClockInv'
<1> SUFFICES ASSUME TypeInv, ClockInv, [Next]_vars PROVE ClockInv'
  OBVIOUS
<1>0. /\ now \in Nat /\ dir \in Nat /\ StartTime \in Nat /\ todo \subseteq Records
      /\ due = <<>> \/ due \in [Timers -> Nat]
      /\ pc \in {"start", "arm"} => ~Armed
      /\ pc = "idle" => Armed /\ todo = {}
  BY EmptyDue, RecordsAssumption DEF TypeInv, TypeOK, Armed
<1>1. CASE Quiet
  <2>1. CASE todo' \subseteq todo
    BY <1>0, <1>1, <2>1 DEF ClockInv, Quiet, Armed, dueOf
  <2>2. CASE pc = "start"
    BY <1>0, <1>1, <2>2 DEF ClockInv, Quiet, Armed, dueOf
  <2> QED  BY <1>1, <2>1, <2>2 DEF Quiet
<1>2. CASE InitTimerEvents
  <2>1. /\ UNCHANGED <<now, dir, todo>> /\ pc = "arm"
        /\ due' = [t \in Timers |-> now + t[2]]
    BY <1>2 DEF InitTimerEvents
  <2>2. todo' = {} /\ \A t \in Timers : due'[t] <= now + t[2]
    BY <1>0, <2>1, TimerPeriods DEF TypeInv, TypeOK
  <2>3. Armed'
    BY <2>1, <1>0, TimerPeriods, EmptyDue DEF Armed
  <2> QED  BY <1>0, <2>1, <2>2, <2>3 DEF ClockInv
<1>3. ASSUME NEW t \in Timers, Fire(t), now' = now, dir' \in {dir, now}
      PROVE  /\ now' >= StartTime /\ dir' >= StartTime /\ dir' <= now' /\ Armed'
             /\ \A u \in Timers : due'[u] <= now' + u[2]
  <2>1. /\ Armed /\ Armed' /\ due'[t] = now + t[2] /\ t[2] \in Nat
        /\ \A u \in Timers : u # t => due'[u] = due[u]
    BY <1>3, FireFields
  <2>2. ASSUME NEW u \in Timers PROVE due'[u] <= now' + u[2]
    <3>1. CASE u = t
      BY <1>0, <1>3, <2>1, <3>1
    <3>2. CASE u # t
      BY <1>0, <1>3, <2>1, <3>2 DEF ClockInv
    <3> QED  BY <3>1, <3>2
  <2> QED  BY <1>0, <1>3, <2>1, <2>2 DEF ClockInv
<1>4. CASE PollStarts
  <2>1. PICK t \in Timers : t[1] = "Poll" /\ Fire(t) /\ todo' = RecordsOf(t)
    BY <1>4 DEF PollStarts
  <2>2. now' = now /\ dir' = dir
    BY <1>4 DEF PollStarts
  <2>3. due'[t] = now + t[2] /\ t[2] \in Nat /\ t[2] >= 1
    BY <2>1, FireFields
  <2>4. ASSUME NEW q \in todo'
        PROVE  Info[q].FetchType = "Poll" /\ TimerOf(q) = t /\ now' < due'[TimerOf(q)]
    BY <1>0, <2>1, <2>2, <2>3, <2>4, TimersOfPoll
  <2>5. /\ now' >= StartTime /\ dir' >= StartTime /\ dir' <= now' /\ Armed'
        /\ \A u \in Timers : due'[u] <= now' + u[2]
    BY <1>3, <2>1, <2>2
  <2> QED  BY <2>4, <2>5 DEF ClockInv, dueOf
<1>5. CASE Fires
  <2>1. PICK t \in Timers : Fire(t)
    BY <1>5 DEF Fires
  <2>2. now' = now /\ dir' \in {dir, now} /\ todo' = {}
    BY <1>0, <1>5, <2>1 DEF Fires, Fire
  <2>3. /\ now' >= StartTime /\ dir' >= StartTime /\ dir' <= now' /\ Armed'
        /\ \A u \in Timers : due'[u] <= now' + u[2]
    BY <1>3, <2>1, <2>2
  <2> QED  BY <2>2, <2>3 DEF ClockInv
<1>6. CASE Tick
  <2>1. now' = now + 1 /\ UNCHANGED <<pc, todo, dir, due>>
    BY <1>6 DEF Tick
  <2>2. Armed /\ due \in [Timers -> Nat]
    BY <1>0, <1>6 DEF Tick, Armed
  <2>3. ASSUME NEW u \in Timers PROVE due[u] <= now + 1 + u[2]
    <3>1. due[u] <= now + u[2] /\ due[u] \in Nat /\ u[2] \in Nat
      BY <2>2, TimerPeriods DEF ClockInv
    <3> QED  BY <1>0, <3>1
  <2>4. ASSUME NEW q \in todo PROVE now + 1 < dueOf(q)
    <3>1. pc = "read" /\ now + 1 < dueOf(Current)
      BY <1>0, <1>6 DEF Tick, dueOf
    <3>2. Current \in todo
      BY <1>0, CurrentIsPending
    <3>3. TimerOf(q) = TimerOf(Current)
      BY <2>2, <3>2 DEF ClockInv
    <3> QED  BY <3>1, <3>3 DEF dueOf
  <2> QED  BY <1>0, <2>1, <2>2, <2>3, <2>4 DEF ClockInv, Armed, dueOf
<1> QED  BY <1>1, <1>2, <1>4, <1>5, <1>6, ClockSteps

LEMMA ReadStep ==
  ASSUME TypeInv, ClockInv, NEW r \in Records, ReadOf(r), RecordStep(r)
  PROVE  ReadOf(r)'
<1>0. /\ now \in Nat /\ dir \in Nat /\ (due = <<>> \/ due \in [Timers -> Nat])
      /\ rec[r] \in RecordObject /\ TypeOK
      /\ rec[r].timestamp \in Nat /\ Period(r) \in Nat
  BY RecordSettings DEF TypeInv, TypeOK, RecordObject, Period
<1>1. CASE Refreshes(r)
  <2> SUFFICES ASSUME Current = r
               PROVE  /\ rec'[r].timestamp = rec'[r].lastFetchedAt
                      /\ rec'[r].timestamp >= dir' /\ rec'[r].timestamp <= now'
                      /\ Armed' => rec'[r].timestamp + Period(r) >= dueOf(r)'
    <3>1. Current' = Current
      BY <1>1 DEF Refreshes, Current
    <3>2. Current' = r <=> Current = r
      BY <3>1
    <3> QED  BY <3>2 DEF ReadOf, Period
  <2>1. rec'[r] = Fetched(rec[r], now) /\ UNCHANGED <<now, dir, due>> /\ pc = "next"
    BY <1>1 DEF Refreshes
  <2>2. rec'[r].timestamp = now /\ rec'[r].lastFetchedAt = now
    <3>1. rec[r] \in RecordObject /\ now \in Nat
      BY <1>0
    <3>2. Fetched(rec[r], now).timestamp = now /\ Fetched(rec[r], now).lastFetchedAt = now
      BY <3>1, FetchedFields
    <3> QED  BY <2>1, <3>2
  <2>3. r \in todo
    BY <1>0, <2>1, CurrentInRead
  <2>4. Armed => dueOf(r) <= now + Period(r)
    BY <2>3, TimerOfRecord DEF ClockInv, dueOf, Period
  <2>5. Armed => dueOf(r) \in Nat
    BY <1>0, TimerOfRecord DEF Armed, dueOf
  <2>6. dir <= now /\ dueOf(r)' = dueOf(r) /\ (Armed' <=> Armed)
    BY <2>1 DEF ClockInv, Armed, dueOf
  <2>7. Armed => now + Period(r) >= dueOf(r)
    BY <1>0, <2>4, <2>5
  <2> QED  BY <1>0, <2>1, <2>2, <2>6, <2>7
<1>2. CASE Tick \/ UNCHANGED vars
  <2>1. /\ now' \in {now, now + 1} /\ UNCHANGED <<pc, todo, dir, due, rec>>
    BY <1>2 DEF Tick, vars
  <2>2. Current' = Current
    BY <2>1 DEF Current
  <2>3. dueOf(r)' = dueOf(r) /\ (Armed' <=> Armed) /\ dir' = dir /\ rec'[r] = rec[r]
        /\ pc' = pc
    BY <2>1 DEF Armed, dueOf
  <2>4. ASSUME pc = "read", Current = r
        PROVE  /\ rec'[r].timestamp = rec'[r].lastFetchedAt
               /\ rec'[r].timestamp >= dir' /\ rec'[r].timestamp <= now'
               /\ Armed' => rec'[r].timestamp + Period(r) >= dueOf(r)'
    BY <1>0, <2>1, <2>3, <2>4 DEF ReadOf
  <2> QED  BY <2>2, <2>3, <2>4 DEF ReadOf, Period
<1>3. CASE pc' # "read"
  BY <1>3 DEF ReadOf
<1>4. Starts(r) \/ PollStarts \/ InitTimerEvents \/ Finishes(r) => pc' # "read"
  BY DEF Starts, PollStarts, InitTimerEvents, Finishes, Continue
<1>5. GroupPolls(r) \/ Signals(r) \/ SubscribeStores(r) \/ Flushes(r) => pc' # "read"
  BY DEF GroupPolls, Signals, SubscribeStores, Flushes, Fire
<1> QED  BY <1>1, <1>2, <1>3, <1>4, <1>5 DEF RecordStep

-----------------------------------------------------------------------------
(* How often in a row Store skips a record that stores every fetch         *)

Kept(r) ==
  rec'[r].lastStoredAt = rec[r].lastStoredAt /\ rec'[r].turnedDown = rec[r].turnedDown

(* The record goes through Store, as fetched at f.                         *)
Offered(r, f) ==
  IF Info[r].StorePolicy = "EveryFetch"
  THEN IF f - rec[r].lastStoredAt >= Period(r)
       THEN rec'[r].lastStoredAt = now /\ rec'[r].turnedDown = 0
       ELSE /\ rec'[r].lastStoredAt = rec[r].lastStoredAt
            /\ rec'[r].turnedDown = rec[r].turnedDown + 1
  ELSE rec'[r].turnedDown = 0

LEMMA EveryFetchStores ==
  ASSUME NEW r \in Records, Info[r].StorePolicy = "EveryFetch",
         NEW x \in RecordObject, NEW t
  PROVE  mustStore(r, x, t) <=> x.lastFetchedAt - x.lastStoredAt >= Period(r)
BY DEF mustStore, Period

LEMMA StoreOffers ==
  ASSUME TypeOK, NEW r \in Records, NEW x \in RecordObject, rec'[r] = Store(r, x, now),
         x.lastStoredAt = rec[r].lastStoredAt, x.turnedDown = rec[r].turnedDown
  PROVE  Offered(r, x.lastFetchedAt)
<1>0. now \in Nat
  BY DEF TypeOK
<1>1. /\ mustStore(r, x, now) => rec'[r].lastStoredAt = now /\ rec'[r].turnedDown = 0
      /\ ~mustStore(r, x, now) =>
           /\ rec'[r].lastStoredAt = x.lastStoredAt
           /\ rec'[r].turnedDown = IF Info[r].StorePolicy = "EveryFetch"
                                   THEN x.turnedDown + 1 ELSE 0
  BY <1>0, StoreFields
<1>2. CASE Info[r].StorePolicy = "EveryFetch"
  <2>1. mustStore(r, x, now) <=> x.lastFetchedAt - x.lastStoredAt >= Period(r)
    BY <1>2, EveryFetchStores
  <2> QED  BY <1>1, <1>2, <2>1 DEF Offered
<1>3. CASE Info[r].StorePolicy # "EveryFetch"
  BY <1>1, <1>3 DEF Offered
<1> QED  BY <1>2, <1>3

LEMMA GroupOffers ==
  ASSUME TypeOK, NEW r \in Records, GroupAnswered(r)
  PROVE  Kept(r) \/ Offered(r, now)
<1>0. rec[r] \in RecordObject /\ now \in Nat
  BY DEF TypeOK
<1> DEFINE x == Fetched(rec[r], now)
<1>1. /\ x \in RecordObject /\ x.lastFetchedAt = now
      /\ x.lastStoredAt = rec[r].lastStoredAt /\ x.turnedDown = rec[r].turnedDown
  BY <1>0, FetchedFields
<1> HIDE DEF x
<1>2. CASE Untouched(r)
  BY <1>2 DEF Untouched, Kept
<1>3. CASE rec'[r] = Store(r, x, now)
  BY <1>1, <1>3, StoreOffers
<1>4. ASSUME NEW v \in Values, rec'[r] = Store(r, Consume(r, x, v), now)
      PROVE  Offered(r, now)
  <2> DEFINE y == Consume(r, x, v)
  <2>1. /\ y \in RecordObject /\ y.lastFetchedAt = now
        /\ y.lastStoredAt = rec[r].lastStoredAt /\ y.turnedDown = rec[r].turnedDown
    BY <1>1, ConsumeFields
  <2> HIDE DEF y
  <2> QED  BY <1>4, <2>1, StoreOffers DEF y
<1> QED  BY <1>2, <1>3, <1>4 DEF GroupAnswered, x

LEMMA FinishOffers ==
  ASSUME TypeOK, NEW r \in Records, Finished(r)
  PROVE  \/ Kept(r) /\ Info[r].FetchType # "GroupPoll"
         \/ Offered(r, rec[r].lastFetchedAt)
<1>0. rec[r] \in RecordObject /\ now \in Nat
  BY DEF TypeOK
<1>2. CASE Untouched(r) /\ Info[r].FetchType # "GroupPoll"
  BY <1>2 DEF Untouched, Kept
<1>3. CASE rec'[r] = Store(r, rec[r], now)
  BY <1>0, <1>3, StoreOffers
<1>4. ASSUME NEW v \in Values \cup {0}, rec'[r] = Store(r, Consume(r, rec[r], v), now)
      PROVE  Offered(r, rec[r].lastFetchedAt)
  <2> DEFINE y == Consume(r, rec[r], v)
  <2>1. /\ y \in RecordObject /\ y.lastFetchedAt = rec[r].lastFetchedAt
        /\ y.lastStoredAt = rec[r].lastStoredAt /\ y.turnedDown = rec[r].turnedDown
    BY <1>0, ConsumeFields
  <2> HIDE DEF y
  <2> QED  BY <1>4, <2>1, StoreOffers DEF y
<1> QED  BY <1>2, <1>3, <1>4 DEF Finished

(* Before the timers are armed every time is zero or that of start up; a   *)
(* poll that starts finds the last store long enough ago.                  *)
SkipStart(r) ==
  /\ rec[r].lastStoredAt \in {0, StartTime}
  /\ pc = "start" => rec[r].lastStoredAt = 0
  /\ r \in todo \/ pc = "start" \/ Info[r].FetchType = "Poll" => rec[r].turnedDown = 0
  /\ r \in todo /\ Info[r].FetchType = "Poll" => rec[r].lastStoredAt = 0
SkipPoll(r) ==
  /\ rec[r].lastStoredAt < dueOf(r)
  /\ rec[r].turnedDown = 1 \/ r \in todo => rec[r].lastStoredAt + Period(r) < dueOf(r)
  /\ rec[r].turnedDown = 1 /\ r \in todo =>
       rec[r].lastStoredAt + 2 * Period(r) < dueOf(r)
SkipGroup(r) == rec[r].lastStoredAt + Period(r) <= dueOf(r)
SkipOf(r) ==
  IF Info[r].StorePolicy = "EveryFetch"
  THEN /\ rec[r].turnedDown <= 1
       /\ ~Armed => SkipStart(r)
       /\ Armed /\ Info[r].FetchType = "Poll" => SkipPoll(r)
       /\ Armed /\ Info[r].FetchType = "GroupPoll" => SkipGroup(r)
  ELSE rec[r].turnedDown = 0

LEMMA RecordTimersApart ==
  ASSUME NEW r \in Records
  PROVE  TimerOf(r) # <<"SubWindow", SubWindow>> /\ TimerOf(r) # <<"Window", Window>>
<1>1. TimerOf(r)[1] \in {"Poll", "GroupPoll", "Store"}
  BY TimerOfRecord
<1>2. <<"SubWindow", SubWindow>>[1] = "SubWindow" /\ <<"Window", Window>>[1] = "Window"
  OBVIOUS
<1>3. "SubWindow" \notin {"Poll", "GroupPoll", "Store"}
      /\ "Window" \notin {"Poll", "GroupPoll", "Store"}
  OBVIOUS
<1> QED  BY <1>1, <1>2, <1>3

(* As the clock sees it: nothing of the record's timer and turn changes.   *)
Undisturbed(r) ==
  /\ dueOf(r)' = dueOf(r) /\ (Armed' <=> Armed)
  /\ pc' = "start" => pc = "start"
  /\ r \in todo' => r \in todo

LEMMA OtherTimer ==
  ASSUME TypeInv, NEW r \in Records, NEW t \in Timers, t # TimerOf(r), Fire(t)
  PROVE  dueOf(r)' = dueOf(r) /\ Armed /\ Armed'
BY FireFields, TimerOfRecord DEF dueOf

LEMMA OwnTimer ==
  ASSUME TypeInv, NEW r \in Records, Fire(TimerOf(r))
  PROVE  /\ Armed /\ Armed' /\ dueOf(r) <= now /\ dueOf(r)' = now + TimerOf(r)[2]
         /\ pc = "idle" /\ todo = {} /\ dueOf(r) \in Nat
<1>1. TimerOf(r) \in Timers
  BY TimerOfRecord
<1>2. due \in [Timers -> Nat] /\ now \in Nat
  BY <1>1, FireTypes DEF TypeInv, TypeOK
<1>3. /\ Armed /\ Armed' /\ now >= due[TimerOf(r)] /\ pc = "idle" /\ todo = {}
      /\ due'[TimerOf(r)] = now + TimerOf(r)[2]
  BY <1>1, FireFields
<1> QED  BY <1>1, <1>2, <1>3 DEF dueOf

LEMMA SkipKept ==
  ASSUME TypeInv, NEW r \in Records, SkipOf(r), Kept(r), Undisturbed(r)
  PROVE  SkipOf(r)'
<1>1. /\ rec[r].lastStoredAt \in Nat /\ rec[r].turnedDown \in Nat
  BY DEF TypeInv, TypeOK, RecordObject
<1>2. ~Armed => (SkipStart(r) => SkipStart(r)')
  BY DEF SkipStart, Kept, Undisturbed
<1>3. SkipPoll(r) => SkipPoll(r)'
  BY DEF SkipPoll, Kept, Undisturbed, Period
<1>4. SkipGroup(r) => SkipGroup(r)'
  BY DEF SkipGroup, Kept, Undisturbed, Period
<1> QED  BY <1>1, <1>2, <1>3, <1>4 DEF SkipOf, Kept, Undisturbed

(* A step as one record sees it: it happens elsewhere, or at its turn.     *)
Elsewhere(r) ==
  /\ Untouched(r) /\ Undisturbed(r) /\ UNCHANGED <<dir, stat>> /\ now' \in {now, now + 1}
  /\ pc = "read" /\ Current = r => pc' = "read"
OwnPoll(r) ==
  /\ TimerOf(r)[1] = "Poll" /\ Fire(TimerOf(r)) /\ r \in todo' /\ pc' = "next"
  /\ Untouched(r) /\ UNCHANGED <<now, dir, stat>>
OwnFetch(r) == r = Current /\ Refreshes(r)
OwnFinish(r) == r = Current /\ Finishes(r)
OwnGroup(r) ==
  /\ TimerOf(r)[1] = "GroupPoll" /\ Fire(TimerOf(r)) /\ GroupAnswered(r)
  /\ UNCHANGED <<now, pc, todo, dir, stat>>
OwnSignal(r) == pc = "idle" /\ Signalled(r) /\ UNCHANGED <<now, pc, todo, dir, due, stat>>
OwnStore(r) ==
  /\ TimerOf(r)[1] = "Store" /\ Fire(TimerOf(r))
  /\ rec'[r] = Store(r, rec[r], now) /\ Unheard(r)
  /\ UNCHANGED <<now, pc, todo, dir, stat>>
OwnStep(r) ==
  \/ Starts(r) \/ OwnPoll(r) \/ OwnFetch(r) \/ OwnFinish(r) \/ OwnGroup(r)
  \/ OwnSignal(r) \/ OwnStore(r)
ArmStep(r) ==
  /\ pc = "arm" /\ pc' = "idle" /\ dueOf(r)' = now + TimerOf(r)[2] /\ Armed'
  /\ Untouched(r) /\ UNCHANGED <<now, todo, dir, stat>>

LEMMA TurnSteps ==
  ASSUME TypeInv, NEW r \in Records, RecordStep(r)
  PROVE  Elsewhere(r) \/ ArmStep(r) \/ OwnStep(r) \/ Flushes(r)
<1>1. CASE UNCHANGED vars
  <2>1. Untouched(r) /\ UNCHANGED <<dir, stat, now, due, pc, todo>>
    BY <1>1 DEF vars, Untouched, Unheard
  <2> QED  BY <2>1 DEF Elsewhere, Undisturbed, Armed, dueOf
<1>2. CASE Tick
  <2>1. Untouched(r) /\ UNCHANGED <<dir, stat, due, pc, todo>> /\ now' = now + 1
    BY <1>2 DEF Tick, Untouched, Unheard
  <2> QED  BY <2>1 DEF Elsewhere, Undisturbed, Armed, dueOf
<1>3. CASE InitTimerEvents
  <2>1. /\ Untouched(r) /\ UNCHANGED <<now, todo, dir, stat>> /\ pc = "arm" /\ pc' = "idle"
        /\ due' = [t \in Timers |-> now + t[2]]
    BY <1>3 DEF InitTimerEvents, Untouched, Unheard
  <2>2. now \in Nat /\ TimerOf(r) \in Timers
    BY TimerOfRecord DEF TypeInv, TypeOK
  <2>3. due' \in [Timers -> Nat] /\ dueOf(r)' = now + TimerOf(r)[2]
    BY <2>1, <2>2, TimerPeriods DEF dueOf
  <2> QED  BY <2>1, <2>3, EmptyDue DEF ArmStep, Armed
<1>4. CASE PollStarts
  <2>1. PICK t \in Timers : t[1] = "Poll" /\ Fire(t) /\ todo' = RecordsOf(t)
    BY <1>4 DEF PollStarts
  <2>2. Untouched(r) /\ UNCHANGED <<now, dir, stat>> /\ pc' = "next"
    BY <1>4 DEF PollStarts, Untouched, Unheard
  <2>3. CASE t = TimerOf(r)
    BY <2>1, <2>2, <2>3 DEF OwnPoll, OwnStep, RecordsOf
  <2>4. CASE t # TimerOf(r)
    <3>1. dueOf(r)' = dueOf(r) /\ Armed /\ Armed' /\ pc = "idle"
      BY <2>1, <2>4, OtherTimer DEF Fire
    <3>2. r \notin todo'
      BY <2>1, <2>4 DEF RecordsOf
    <3> QED  BY <2>2, <3>1, <3>2 DEF Elsewhere, Undisturbed
  <2> QED  BY <2>3, <2>4
<1>5. CASE Starts(r)
  BY <1>5 DEF OwnStep
<1>6. CASE Refreshes(r)
  <2>1. CASE r = Current
    BY <1>6, <2>1 DEF OwnStep, OwnFetch
  <2>2. CASE r # Current
    BY <1>6, <2>2 DEF Refreshes, Elsewhere, Untouched, Undisturbed, Armed, dueOf
  <2> QED  BY <2>1, <2>2
<1>7. CASE Finishes(r)
  <2>1. CASE r = Current
    BY <1>7, <2>1 DEF OwnStep, OwnFinish
  <2>2. CASE r # Current
    <3>1. todo' \subseteq todo /\ pc' # "start"
      BY <1>7 DEF Finishes, Continue
    <3> QED  BY <1>7, <2>2, <3>1 DEF Finishes, Elsewhere, Undisturbed, Armed, dueOf
  <2> QED  BY <2>1, <2>2
<1>8. CASE GroupPolls(r)
  <2>1. PICK t \in Timers : /\ t[1] = "GroupPoll" /\ Fire(t)
                            /\ IF TimerOf(r) = t THEN GroupAnswered(r) ELSE Untouched(r)
    BY <1>8 DEF GroupPolls
  <2>2. UNCHANGED <<now, pc, todo, dir, stat>>
    BY <1>8 DEF GroupPolls
  <2>3. CASE t = TimerOf(r)
    BY <2>1, <2>2, <2>3 DEF OwnGroup, OwnStep
  <2>4. CASE t # TimerOf(r)
    <3>1. dueOf(r)' = dueOf(r) /\ Armed /\ Armed'
      BY <2>1, <2>4, OtherTimer
    <3> QED  BY <2>1, <2>2, <2>4, <3>1 DEF Elsewhere, Undisturbed
  <2> QED  BY <2>3, <2>4
<1>9. CASE Signals(r)
  <2>1. CASE Signalled(r)
    BY <1>9, <2>1 DEF Signals, OwnSignal, OwnStep
  <2>2. CASE Untouched(r)
    BY <1>9, <2>2 DEF Signals, Elsewhere, Undisturbed, Armed, dueOf
  <2> QED  BY <1>9, <2>1, <2>2 DEF Signals
<1>10. CASE SubscribeStores(r)
  <2>1. PICK t \in Timers : /\ t[1] = "Store" /\ Fire(t)
                            /\ rec'[r] = IF TimerOf(r) = t THEN Store(r, rec[r], now)
                                         ELSE rec[r]
    BY <1>10 DEF SubscribeStores
  <2>2. UNCHANGED <<now, pc, todo, dir, stat>> /\ Unheard(r)
    BY <1>10 DEF SubscribeStores
  <2>3. CASE t = TimerOf(r)
    BY <2>1, <2>2, <2>3 DEF OwnStore, OwnStep
  <2>4. CASE t # TimerOf(r)
    <3>1. dueOf(r)' = dueOf(r) /\ Armed /\ Armed'
      BY <2>1, <2>4, OtherTimer
    <3> QED  BY <2>1, <2>2, <2>4, <3>1 DEF Elsewhere, Undisturbed, Untouched
  <2> QED  BY <2>3, <2>4
<1> QED
  BY <1>1, <1>2, <1>3, <1>4, <1>5, <1>6, <1>7, <1>8, <1>9, <1>10 DEF RecordStep

LEMMA FlushTimers ==
  ASSUME TypeInv, NEW r \in Records, Flushes(r)
  PROVE  Undisturbed(r) /\ Armed /\ todo = {} /\ now' = now
<1>1. PICK t \in {<<"SubWindow", SubWindow>>, <<"Window", Window>>} : Fire(t)
  BY DEF Flushes
<1>2. t \in Timers /\ t # TimerOf(r)
  BY RecordTimersApart DEF Timers
<1>3. dueOf(r)' = dueOf(r) /\ Armed /\ Armed' /\ todo = {}
  BY <1>1, <1>2, OtherTimer, FireFields
<1> QED  BY <1>3 DEF Flushes, Undisturbed

(* Every store of a record that stores each fetch, in turn.                *)
LEMMA SkipStep ==
  ASSUME TypeInv, ClockInv, NEW r \in Records, Info[r].FetchType # "Subscribe",
         ReadOf(r), SkipOf(r), RecordStep(r)
  PROVE  SkipOf(r)'
<1>0. /\ TypeOK /\ now \in Nat /\ dir \in Nat /\ StartTime \in Nat
      /\ rec[r] \in RecordObject
      /\ pc \in {"start", "arm"} => ~Armed
  BY RecordSettings DEF TypeInv, TypeOK, Armed
<1>1. /\ rec[r].lastStoredAt \in Nat /\ rec[r].turnedDown \in Nat
      /\ rec[r].lastFetchedAt \in Nat /\ rec[r].timestamp \in Nat
  BY <1>0 DEF RecordObject
<1>2. Period(r) \in Nat /\ Period(r) >= 1 /\ Period(r) <= StartTime
  BY RecordSettings DEF Period
<1>3. Info[r].FetchType \in {"Poll", "GroupPoll"} /\ TimerOf(r)[2] = Period(r)
      /\ TimerOf(r)[1] = Info[r].FetchType
  BY TimerOfRecord DEF Period
<1>4. Armed => dueOf(r) \in Nat
  BY TimerOfRecord DEF TypeInv, TypeOK, Armed, dueOf
<1>5. ~Armed => now = StartTime /\ dir = StartTime
  BY DEF ClockInv
<1>6. CASE Kept(r) /\ Undisturbed(r)
  BY <1>6, SkipKept
<1>7. Elsewhere(r) => Kept(r) /\ Undisturbed(r)
  BY DEF Elsewhere, Untouched, Kept
<1>8. OwnFetch(r) => Kept(r) /\ Undisturbed(r)
  BY <1>0, FetchedFields DEF OwnFetch, Refreshes, Kept, Undisturbed, Armed, dueOf
<1>9. Flushes(r) => Kept(r) /\ Undisturbed(r)
  BY <1>0, FlushTimers DEF Flushes, Flushed, Kept, RecordObject
<1>10. CASE Info[r].StorePolicy # "EveryFetch"
  <2>1. Kept(r) => SkipOf(r)'
    BY <1>10 DEF SkipOf, Kept
  <2>2. ASSUME NEW f, Offered(r, f) PROVE SkipOf(r)'
    BY <1>10, <2>2 DEF SkipOf, Offered
  <2>3. Starts(r) \/ OwnGroup(r) => Kept(r) \/ Offered(r, now)
    BY <1>0, GroupOffers DEF Starts, OwnGroup, Untouched, Kept
  <2>4. OwnFinish(r) => Kept(r) \/ Offered(r, rec[r].lastFetchedAt)
    BY <1>0, FinishOffers DEF OwnFinish, Finishes
  <2>5. OwnPoll(r) \/ ArmStep(r) => Kept(r)
    BY DEF OwnPoll, ArmStep, Untouched, Kept
  <2> QED
    BY <1>3, <1>7, <1>8, <1>9, <2>1, <2>2, <2>3, <2>4, <2>5, TurnSteps, StringsApart
       DEF OwnStep, OwnSignal, Signalled, OwnStore
<1>11. CASE Info[r].StorePolicy = "EveryFetch"
  <2>1. CASE Starts(r)
    <3>1. /\ pc = "start" /\ pc' = "next" /\ ~Armed /\ ~Armed' /\ r \in todo'
      BY <1>0, <2>1 DEF Starts, Armed
    <3>2. rec[r].lastStoredAt = 0 /\ rec[r].turnedDown = 0
      BY <1>11, <3>1 DEF SkipOf, SkipStart
    <3>3. CASE Kept(r)
      BY <1>11, <3>1, <3>2, <3>3 DEF SkipOf, SkipStart, Kept
    <3>4. CASE Offered(r, now) /\ Info[r].FetchType = "GroupPoll"
      <4>1. now - rec[r].lastStoredAt >= Period(r)
        BY <1>0, <1>2, <1>5, <3>1, <3>2
      <4>2. rec'[r].lastStoredAt = StartTime /\ rec'[r].turnedDown = 0
        BY <1>5, <1>11, <3>1, <3>4, <4>1 DEF Offered
      <4> QED  BY <1>11, <3>1, <3>4, <4>2, StringsApart DEF SkipOf, SkipStart
    <3> QED
      BY <1>0, <2>1, <3>3, <3>4, GroupOffers DEF Starts, Untouched, Kept
  <2>2. CASE ArmStep(r)
    <3>1. /\ ~Armed /\ Armed' /\ dueOf(r)' = StartTime + Period(r) /\ Kept(r)
          /\ todo' = {} /\ now = StartTime
      BY <1>0, <1>3, <1>5, <2>2 DEF ArmStep, Untouched, Kept, TypeOK
    <3>2. /\ rec[r].lastStoredAt <= StartTime /\ rec[r].turnedDown <= 1
          /\ Info[r].FetchType = "Poll" => rec[r].turnedDown = 0
      BY <1>0, <1>11, <3>1 DEF SkipOf, SkipStart
    <3>3. /\ rec[r].lastStoredAt < StartTime + Period(r)
          /\ rec[r].lastStoredAt + Period(r) <= StartTime + Period(r)
      BY <1>0, <1>1, <1>2, <3>2
    <3> QED
      BY <1>11, <3>1, <3>2, <3>3 DEF SkipOf, SkipPoll, SkipGroup, Kept, Period
  <2>3. CASE OwnPoll(r)
    <3>1. /\ Armed /\ Armed' /\ dueOf(r) <= now /\ dueOf(r)' = now + Period(r)
          /\ Kept(r) /\ todo = {} /\ Info[r].FetchType = "Poll"
      BY <1>3, <2>3, OwnTimer DEF OwnPoll, Untouched, Kept
    <3>2. /\ rec[r].lastStoredAt < dueOf(r) /\ rec[r].turnedDown <= 1
          /\ rec[r].turnedDown = 1 => rec[r].lastStoredAt + Period(r) < dueOf(r)
      BY <1>11, <3>1 DEF SkipOf, SkipPoll
    <3>3. /\ rec[r].lastStoredAt < now + Period(r)
          /\ rec[r].lastStoredAt + Period(r) < now + Period(r)
          /\ rec[r].turnedDown = 1 => rec[r].lastStoredAt + 2 * Period(r) < now + Period(r)
      BY <1>0, <1>1, <1>2, <1>4, <3>1, <3>2
    <3> QED
      BY <1>11, <3>1, <3>2, <3>3, StringsApart DEF SkipOf, SkipPoll, Kept, Period
  <2>4. CASE OwnFinish(r)
    <3>1. /\ pc = "read" /\ r = Current /\ UNCHANGED <<now, dir, due>> /\ Finished(r)
          /\ todo' = todo \ {r} /\ pc' # "start"
      BY <2>4, ContinueFields DEF OwnFinish, Finishes, Continue
    <3>2. r \in todo /\ r \notin todo' /\ Undisturbed(r)
      BY <1>0, <3>1, CurrentInRead DEF Undisturbed, Armed, dueOf
    <3>3. /\ rec[r].lastFetchedAt >= dir /\ rec[r].lastFetchedAt <= now
          /\ Armed => rec[r].lastFetchedAt + Period(r) >= dueOf(r)
      BY <3>1 DEF ReadOf
    <3>4. SUFFICES ASSUME Offered(r, rec[r].lastFetchedAt) PROVE SkipOf(r)'
      BY <1>0, <1>6, <3>1, <3>2, FinishOffers
    <3>5. CASE ~Armed
      <4>1. /\ rec[r].lastFetchedAt = StartTime /\ now = StartTime /\ ~Armed'
        BY <1>0, <1>1, <1>5, <3>2, <3>3, <3>5 DEF Undisturbed
      <4>2. /\ rec[r].lastStoredAt \in {0, StartTime} /\ rec[r].turnedDown = 0
            /\ Info[r].FetchType = "Poll" => rec[r].lastStoredAt = 0
        BY <1>11, <3>2, <3>5 DEF SkipOf, SkipStart
      <4>3. CASE rec[r].lastStoredAt = 0
        <5>1. rec'[r].lastStoredAt = StartTime /\ rec'[r].turnedDown = 0
          BY <1>0, <1>2, <1>11, <3>4, <4>1, <4>3 DEF Offered
        <5> QED  BY <1>11, <3>1, <3>2, <4>1, <5>1 DEF SkipOf, SkipStart
      <4>4. CASE rec[r].lastStoredAt # 0
        <5>1. /\ rec[r].lastStoredAt = StartTime /\ Info[r].FetchType = "GroupPoll"
              /\ ~(rec[r].lastFetchedAt - rec[r].lastStoredAt >= Period(r))
          BY <1>0, <1>2, <1>3, <4>1, <4>2, <4>4
        <5>2. rec'[r].lastStoredAt = StartTime /\ rec'[r].turnedDown = 1
          BY <1>11, <3>4, <4>2, <5>1 DEF Offered
        <5> QED
          BY <1>11, <3>1, <3>2, <4>1, <5>1, <5>2, StringsApart DEF SkipOf, SkipStart
      <4> QED  BY <4>3, <4>4
    <3>6. CASE Armed
      <4>1. Info[r].FetchType = "Poll" /\ now < dueOf(r) /\ Armed'
        BY <3>2, <3>6 DEF ClockInv, Undisturbed
      <4>2. /\ rec[r].lastStoredAt + Period(r) < dueOf(r) /\ rec[r].turnedDown <= 1
            /\ rec[r].turnedDown = 1 => rec[r].lastStoredAt + 2 * Period(r) < dueOf(r)
        BY <1>11, <3>2, <3>6, <4>1 DEF SkipOf, SkipPoll
      <4>3. CASE rec[r].lastFetchedAt - rec[r].lastStoredAt >= Period(r)
        <5>1. rec'[r].lastStoredAt = now /\ rec'[r].turnedDown = 0
          BY <1>11, <3>4, <4>3 DEF Offered
        <5>2. dueOf(r)' = dueOf(r)
          BY <3>2 DEF Undisturbed
        <5> QED
          BY <1>11, <3>2, <4>1, <5>1, <5>2, StringsApart DEF SkipOf, SkipPoll
      <4>4. CASE ~(rec[r].lastFetchedAt - rec[r].lastStoredAt >= Period(r))
        <5>1. rec[r].turnedDown = 0
          BY <1>1, <1>2, <1>4, <3>3, <3>6, <4>2, <4>4
        <5>2. rec'[r].lastStoredAt = rec[r].lastStoredAt /\ rec'[r].turnedDown = 1
          BY <1>11, <3>4, <4>4, <5>1 DEF Offered
        <5>3. dueOf(r)' = dueOf(r) /\ rec[r].lastStoredAt < dueOf(r)
          BY <1>1, <1>2, <1>4, <3>2, <3>6, <4>2 DEF Undisturbed
        <5> QED
          BY <1>11, <3>2, <4>1, <4>2, <5>2, <5>3, StringsApart DEF SkipOf, SkipPoll, Period
      <4> QED  BY <4>3, <4>4
    <3> QED  BY <3>5, <3>6
  <2>5. CASE OwnGroup(r)
    <3>1. /\ Armed /\ Armed' /\ dueOf(r) <= now /\ dueOf(r)' = now + Period(r)
          /\ dueOf(r) \in Nat /\ Info[r].FetchType = "GroupPoll" /\ GroupAnswered(r)
      BY <1>3, <2>5, OwnTimer DEF OwnGroup
    <3>2. rec[r].lastStoredAt + Period(r) <= dueOf(r) /\ rec[r].turnedDown <= 1
      BY <1>11, <3>1 DEF SkipOf, SkipGroup
    <3>3. CASE Kept(r)
      <4>1. rec[r].lastStoredAt + Period(r) <= now + Period(r)
        BY <1>0, <1>1, <1>2, <3>1, <3>2
      <4> QED
        BY <1>11, <3>1, <3>2, <3>3, <4>1, StringsApart DEF SkipOf, SkipGroup, Kept, Period
    <3>4. CASE Offered(r, now)
      <4>1. now - rec[r].lastStoredAt >= Period(r)
        BY <1>0, <1>1, <1>2, <3>1, <3>2
      <4>2. rec'[r].lastStoredAt = now /\ rec'[r].turnedDown = 0
        BY <1>11, <3>4, <4>1 DEF Offered
      <4>3. now + Period(r) <= now + Period(r)
        BY <1>0, <1>2
      <4> QED
        BY <1>11, <3>1, <4>2, <4>3, StringsApart DEF SkipOf, SkipGroup, Period
    <3> QED  BY <1>0, <3>1, <3>3, <3>4, GroupOffers
  <2> QED
    BY <1>3, <1>6, <1>7, <1>8, <1>9, <2>1, <2>2, <2>3, <2>4, <2>5, TurnSteps, StringsApart
       DEF OwnStep, OwnSignal, Signalled, OwnStore
<1> QED  BY <1>10, <1>11

Base == TypeInv /\ ClockInv /\ \A r \in Records : ReadOf(r)

LEMMA InitBase == Init => Base
<1> SUFFICES ASSUME Init PROVE Base
  OBVIOUS
<1>1. TypeInv
  BY InitTypes
<1>2. ClockInv
  BY RecordsAssumption DEF Init, ClockInv, Armed
<1>3. \A r \in Records : ReadOf(r)
  BY DEF Init, ReadOf
<1> QED  BY <1>1, <1>2, <1>3 DEF Base

LEMMA StepBase == Base /\ [Next]_vars => Base'
<1> SUFFICES ASSUME Base, [Next]_vars PROVE Base'
  OBVIOUS
<1>1. TypeInv' /\ ClockInv'
  BY StepTypes, ClockStep DEF Base
<1>2. ASSUME NEW r \in Records PROVE ReadOf(r)'
  BY RecordSteps, ReadStep DEF Base, TypeInv
<1> QED  BY <1>1, <1>2 DEF Base

LEMMA BaseHolds == Spec => []Base
BY InitBase, StepBase, PTL DEF Spec

SkipInv == \A r \in Records : Info[r].FetchType # "Subscribe" => SkipOf(r)

(* Record::Store compares the time of a fetch with the clock at the last   *)
(* store; slow reads make it skip a fetch that it should keep, but never   *)
(* two in a row, however the reads are delayed and whatever else fails.    *)
THEOREM NoSecondSkip == Spec => []NoTwoFetchesSkipped
<1>1. Init => SkipInv
  <2> SUFFICES ASSUME Init, NEW r \in Records PROVE SkipOf(r)
    BY DEF SkipInv
  <2>1. /\ rec[r].turnedDown = 0 /\ rec[r].lastStoredAt = 0 /\ ~Armed
        /\ pc = "start"
    BY DEF Init, Armed
  <2> QED  BY <2>1 DEF SkipOf, SkipStart
<1>2. Base /\ SkipInv /\ [Next]_vars => SkipInv'
  <2> SUFFICES ASSUME Base, SkipInv, [Next]_vars,
                      NEW r \in Records, Info[r].FetchType # "Subscribe"
               PROVE  SkipOf(r)'
    BY DEF SkipInv
  <2>1. TypeInv /\ TypeOK /\ ClockInv /\ ReadOf(r) /\ SkipOf(r)
    BY DEF Base, SkipInv, TypeInv
  <2>2. RecordStep(r)
    BY <2>1, RecordSteps
  <2> QED  BY <2>1, <2>2, SkipStep
<1>3. SkipInv => NoTwoFetchesSkipped
  <2> SUFFICES ASSUME NEW r \in Records, SkipOf(r) PROVE rec[r].turnedDown <= 1
    BY DEF SkipInv, NoTwoFetchesSkipped
  <2> QED  BY DEF SkipOf
<1> QED  BY <1>1, <1>2, <1>3, BaseHolds, PTL DEF Spec

-----------------------------------------------------------------------------
(* The latest value                                                        *)

LatestOf(r) ==
  told[r] # NoValue =>
    /\ rec[r].value = told[r]
    /\ Info[r].FetchType # "Subscribe" \/ ~Armed => rec[r].lastStored = told[r]

(* The record went through Store with the value it was told last.          *)
UpToDate(r) ==
  told'[r] # NoValue => rec'[r].value = told'[r] /\ rec'[r].lastStored = told'[r]

LEMMA StoreLatest ==
  ASSUME NEW r \in Records, Info[r].StorePolicy = "OnChange", Info[r].DataType # "Double",
         NEW x \in RecordObject, NEW t \in Nat
  PROVE  Store(r, x, t).value = x.value /\ Store(r, x, t).lastStored = x.value
<1>1. Info[r].DataType \in {"Uint64", "string"}
  BY RecordsAssumption DEF DataTypes
<1>2. mustStore(r, x, t) <=> ~same_data_values(r, x)
  BY DEF mustStore
<1>3. ~mustStore(r, x, t) => x.lastStored = x.value
  BY <1>1, <1>2 DEF same_data_values
<1> QED  BY <1>3, StoreFields

LEMMA GroupLatest ==
  ASSUME TypeOK, NEW r \in Records, GroupAnswered(r), LatestOf(r),
         Info[r].StorePolicy = "OnChange", Info[r].DataType # "Double"
  PROVE  Untouched(r) \/ UpToDate(r)
<1>0. rec[r] \in RecordObject /\ now \in Nat
  BY DEF TypeOK
<1> DEFINE x == Fetched(rec[r], now)
<1>1. x \in RecordObject /\ x.value = rec[r].value
  BY <1>0, FetchedFields
<1> HIDE DEF x
<1>2. CASE rec'[r] = Store(r, x, now) /\ Unheard(r)
  <2>1. rec'[r].value = x.value /\ rec'[r].lastStored = x.value
    BY <1>0, <1>1, <1>2, StoreLatest
  <2> QED  BY <1>1, <1>2, <2>1 DEF Unheard, LatestOf, UpToDate
<1>3. ASSUME NEW v \in Values, rec'[r] = Store(r, Consume(r, x, v), now), told'[r] = v
      PROVE  UpToDate(r)
  <2> DEFINE y == Consume(r, x, v)
  <2>1. y \in RecordObject /\ y.value = v
    BY <1>1, ConsumeFields
  <2> HIDE DEF y
  <2>2. rec'[r].value = v /\ rec'[r].lastStored = v
    BY <1>0, <1>3, <2>1, StoreLatest DEF y
  <2> QED  BY <1>3, <2>2 DEF UpToDate
<1> QED  BY <1>2, <1>3 DEF GroupAnswered, x

LEMMA FinishLatest ==
  ASSUME TypeOK, NEW r \in Records, Finished(r), LatestOf(r),
         Info[r].StorePolicy = "OnChange", Info[r].DataType # "Double"
  PROVE  Untouched(r) \/ UpToDate(r)
<1>0. rec[r] \in RecordObject /\ now \in Nat
  BY DEF TypeOK
<1>2. CASE rec'[r] = Store(r, rec[r], now) /\ Unheard(r)
  <2>1. rec'[r].value = rec[r].value /\ rec'[r].lastStored = rec[r].value
    BY <1>0, <1>2, StoreLatest
  <2> QED  BY <1>2, <2>1 DEF Unheard, LatestOf, UpToDate
<1>3. ASSUME NEW v \in Values \cup {0}, rec'[r] = Store(r, Consume(r, rec[r], v), now),
             (v \in Values /\ told'[r] = v) \/ (v = rec[r].value /\ told'[r] = told[r])
      PROVE  UpToDate(r)
  <2> DEFINE y == Consume(r, rec[r], v)
  <2>1. y \in RecordObject /\ y.value = v
    BY <1>0, ConsumeFields
  <2> HIDE DEF y
  <2>2. rec'[r].value = v /\ rec'[r].lastStored = v
    BY <1>0, <1>3, <2>1, StoreLatest DEF y
  <2> QED  BY <1>3, <2>2 DEF UpToDate, LatestOf
<1> QED  BY <1>2, <1>3 DEF Finished

(* An OnChange record that is not of type Double, and does not miss zeros. *)
WatchedForChange(r) ==
  /\ Info[r].StorePolicy = "OnChange" /\ Info[r].DataType # "Double"
  /\ Info[r].FetchType = "Subscribe" => 0 \notin Values

LEMMA LatestStep ==
  ASSUME TypeInv, ClockInv, NEW r \in Records, WatchedForChange(r),
         LatestOf(r), RecordStep(r)
  PROVE  /\ LatestOf(r)'
         /\ StoreCalled(r) /\ told'[r] # NoValue => rec'[r].lastStored = told'[r]
<1>0. /\ TypeOK /\ now \in Nat /\ rec[r] \in RecordObject
      /\ pc = "start" => ~Armed
      /\ pc = "idle" => Armed /\ todo = {}
      /\ Info[r].StorePolicy = "OnChange" /\ Info[r].DataType # "Double"
  BY EmptyDue DEF TypeInv, TypeOK, Armed, WatchedForChange
<1> DEFINE Goal == /\ LatestOf(r)'
                   /\ StoreCalled(r) /\ told'[r] # NoValue => rec'[r].lastStored = told'[r]
<1>1. UpToDate(r) => Goal
  BY DEF UpToDate, LatestOf
<1>2. Armed /\ Armed' => (Untouched(r) => LatestOf(r)')
  BY DEF LatestOf, Untouched, Unheard
<1>3. ~Armed => (Untouched(r) => LatestOf(r)')
  BY DEF LatestOf, Untouched, Unheard
<1>4. Armed => Armed'
  <2>1. Elsewhere(r) \/ Flushes(r) => (Armed => Armed')
    BY FlushTimers DEF Elsewhere, Undisturbed
  <2>2. OwnPoll(r) \/ OwnGroup(r) \/ OwnStore(r) => (Armed => Armed')
    BY OwnTimer DEF OwnPoll, OwnGroup, OwnStore
  <2>3. Starts(r) \/ OwnFetch(r) \/ OwnFinish(r) \/ OwnSignal(r) => (Armed => Armed')
    BY DEF Starts, OwnFetch, Refreshes, OwnFinish, Finishes, OwnSignal, Armed
  <2> QED  BY <2>1, <2>2, <2>3, TurnSteps DEF OwnStep, ArmStep
<1>5. Untouched(r) => LatestOf(r)'
  BY <1>2, <1>3, <1>4
<1>6. ~StoreCalled(r) /\ LatestOf(r)' => Goal
  OBVIOUS
<1>7. dueOf(r)' = dueOf(r) /\ (pc = "read" /\ Current = r => pc' = "read") => ~StoreCalled(r)
  BY DEF StoreCalled, dueOf
<1>8. CASE Elsewhere(r)
  BY <1>5, <1>6, <1>7, <1>8 DEF Elsewhere, Undisturbed
<1>9. CASE ArmStep(r)
  <2>1. pc = "arm" /\ due = <<>> /\ Untouched(r)
    BY <1>9 DEF ArmStep, TypeInv
  <2>2. ~StoreCalled(r)
    BY <2>1, EmptyDue DEF StoreCalled
  <2> QED  BY <1>5, <1>6, <2>1, <2>2
<1>10. CASE Starts(r)
  <2>1. pc = "start" /\ due = <<>> /\ (GroupAnswered(r) \/ Untouched(r))
    BY <1>10 DEF Starts, TypeInv
  <2>2. ~StoreCalled(r)
    BY <2>1, EmptyDue DEF StoreCalled
  <2> QED  BY <1>0, <1>1, <1>5, <1>6, <2>1, <2>2, GroupLatest
<1>11. CASE OwnPoll(r)
  <2>1. pc = "idle" /\ Untouched(r) /\ TimerOf(r)[1] = "Poll"
    BY <1>11 DEF OwnPoll, Fire
  <2>2. ~StoreCalled(r)
    BY <2>1 DEF StoreCalled
  <2> QED  BY <1>5, <1>6, <2>1, <2>2
<1>12. CASE OwnFetch(r)
  <2>1. /\ rec'[r] = Fetched(rec[r], now) /\ Unheard(r) /\ pc = "next" /\ due' = due
    BY <1>12 DEF OwnFetch, Refreshes
  <2>2. rec'[r].value = rec[r].value /\ rec'[r].lastStored = rec[r].lastStored
    BY <1>0, <2>1, FetchedFields
  <2>3. LatestOf(r)'
    BY <2>1, <2>2 DEF LatestOf, Unheard, Armed
  <2>4. ~StoreCalled(r)
    BY <1>7, <2>1 DEF dueOf
  <2> QED  BY <1>6, <2>3, <2>4
<1>13. CASE OwnFinish(r)
  <2>1. r = Current /\ pc = "read" /\ Finished(r) /\ due' = due
    BY <1>13 DEF OwnFinish, Finishes
  <2>2. Untouched(r) \/ UpToDate(r)
    BY <1>0, <2>1, FinishLatest
  <2>3. Info[r].FetchType # "Subscribe" \/ ~Armed
    <3>1. r \in todo
      BY <1>0, <2>1, CurrentInRead
    <3> QED  BY <3>1, StringsApart DEF ClockInv
  <2>4. Untouched(r) => UpToDate(r)
    BY <2>3 DEF Untouched, Unheard, UpToDate, LatestOf
  <2> QED  BY <1>1, <2>2, <2>4
<1>14. CASE OwnGroup(r)
  <2>1. GroupAnswered(r) /\ Info[r].FetchType # "Subscribe"
    BY <1>14, TimerOfRecord, StringsApart DEF OwnGroup
  <2>2. Untouched(r) \/ UpToDate(r)
    BY <1>0, <2>1, GroupLatest
  <2>3. Untouched(r) => UpToDate(r)
    BY <2>1 DEF Untouched, Unheard, UpToDate, LatestOf
  <2> QED  BY <1>1, <2>2, <2>3
<1>15. CASE OwnSignal(r)
  <2>1. /\ pc = "idle" /\ due' = due /\ Signalled(r)
    BY <1>15 DEF OwnSignal
  <2>2. PICK v \in Values :
          /\ told'[r] = v
          /\ rec'[r] = IF v # 0 THEN refreshDataCallback(rec[r], v) ELSE rec[r]
    BY <2>1 DEF Signalled
  <2>3. v # 0 /\ Info[r].FetchType = "Subscribe"
    BY <2>1 DEF Signalled, WatchedForChange
  <2>4. rec'[r].value = v
    <3>1. Fetched(rec[r], now) \in RecordObject
      BY <1>0, FetchedFields
    <3>2. [Fetched(rec[r], now) EXCEPT !.value = v].value = v
      BY <3>1 DEF RecordObject
    <3> QED  BY <2>2, <2>3, <3>2 DEF refreshDataCallback
  <2>5. LatestOf(r)'
    BY <1>0, <1>4, <2>1, <2>2, <2>3, <2>4 DEF LatestOf
  <2>6. ~StoreCalled(r)
    BY <1>7, <2>1 DEF dueOf
  <2> QED  BY <1>6, <2>5, <2>6
<1>16. CASE OwnStore(r)
  <2>1. rec'[r].value = rec[r].value /\ rec'[r].lastStored = rec[r].value /\ Unheard(r)
    BY <1>0, <1>16, StoreLatest DEF OwnStore
  <2>2. UpToDate(r)
    BY <2>1 DEF UpToDate, LatestOf, Unheard
  <2> QED  BY <1>1, <2>2
<1>17. CASE Flushes(r)
  <2>1. dueOf(r)' = dueOf(r) /\ pc' = pc
    BY <1>17, FlushTimers DEF Flushes, Undisturbed
  <2>2. /\ told'[r] = told[r] /\ rec'[r].value = rec[r].value
        /\ rec'[r].lastStored = rec[r].lastStored
    BY <1>0, <1>17 DEF Flushes, Flushed, RecordObject
  <2>3. LatestOf(r)'
    BY <1>4, <2>2, <1>17, FlushTimers DEF LatestOf
  <2> QED  BY <1>6, <1>7, <2>1, <2>3
<1> QED
  BY <1>8, <1>9, <1>10, <1>11, <1>12, <1>13, <1>14, <1>15, <1>16, <1>17, TurnSteps
     DEF OwnStep

LatestInv == \A r \in Records : WatchedForChange(r) => LatestOf(r)

(* In a profile without OnChange records of type Double (every two of them *)
(* compare equal, see the run Records_double) and without subscribed ones  *)
(* that may become zero (the signal handler drops it), the last value of a *)
(* record that is stored when it changes has been handed to its store      *)
(* whenever Store has been called, after failed, odd and missing answers   *)
(* too.                                                                    *)
THEOREM StoresLatest ==
  ASSUME \A r \in Records :
           Info[r].StorePolicy = "OnChange" =>
             /\ Info[r].DataType # "Double"
             /\ Info[r].FetchType = "Subscribe" => 0 \notin Values
  PROVE  Spec => FileHasLatest
<1>0. \A r \in Records : Info[r].StorePolicy = "OnChange" => WatchedForChange(r)
  BY DEF WatchedForChange
<1>1. Init => LatestInv
  BY DEF Init, LatestInv, LatestOf
<1>2. Base /\ LatestInv /\ [Next]_vars =>
        /\ LatestInv'
        /\ [\A r \in Records :
               Info[r].StorePolicy = "OnChange" /\ StoreCalled(r) /\ told'[r] # NoValue
                 => rec'[r].lastStored = told'[r]]_vars
  <2> SUFFICES ASSUME Base, LatestInv, [Next]_vars, NEW r \in Records, WatchedForChange(r)
               PROVE  /\ LatestOf(r)'
                      /\ StoreCalled(r) /\ told'[r] # NoValue =>
                           rec'[r].lastStored = told'[r]
    BY <1>0 DEF LatestInv, WatchedForChange
  <2>1. TypeInv /\ TypeOK /\ ClockInv /\ LatestOf(r)
    BY DEF Base, LatestInv, TypeInv
  <2>2. RecordStep(r)
    BY <2>1, RecordSteps
  <2> QED  BY <2>1, <2>2, LatestStep
<1> QED  BY <1>1, <1>2, BaseHolds, PTL DEF Spec, FileHasLatest

-----------------------------------------------------------------------------
(* Samples: when a record is averaged, and what its statistics say of it   *)

NoSample(r) == rec'[r].running = rec[r].running /\ readings'[r] = readings[r]
Sampled(r, v, t) ==
  /\ rec'[r].running = RunningStatisticEngine(r, rec[r].running, v, t)
  /\ readings'[r] = Append(readings[r], Reading(r, v, t))

LEMMA GroupSamples ==
  ASSUME TypeOK, NEW r \in Averaged, GroupAnswered(r)
  PROVE  NoSample(r) \/ \E v \in Values : Sampled(r, v, now)
<1>0. rec[r] \in RecordObject /\ now \in Nat /\ r \in Records
  BY DEF TypeOK, Averaged
<1> DEFINE x == Fetched(rec[r], now)
<1>1. x \in RecordObject /\ x.running = rec[r].running /\ x.timestamp = now
  BY <1>0, FetchedFields
<1> HIDE DEF x
<1>2. CASE Untouched(r)
  BY <1>2 DEF Untouched, Unheard, NoSample
<1>3. CASE rec'[r] = Store(r, x, now) /\ Unheard(r)
  BY <1>0, <1>1, <1>3, StoreFields DEF Unheard, NoSample
<1>4. ASSUME NEW v \in Values, rec'[r] = Store(r, Consume(r, x, v), now), Heard(r, v, now)
      PROVE  Sampled(r, v, now)
  <2> DEFINE y == Consume(r, x, v)
  <2>1. /\ y \in RecordObject
        /\ y.running = RunningStatisticEngine(r, rec[r].running, v, now)
    BY <1>0, <1>1, ConsumeFields
  <2> HIDE DEF y
  <2>2. rec'[r].running = y.running
    BY <1>0, <1>4, <2>1, StoreFields DEF y
  <2> QED  BY <1>4, <2>1, <2>2 DEF Sampled, Heard
<1> QED  BY <1>2, <1>3, <1>4 DEF GroupAnswered, x

LEMMA FinishSamples ==
  ASSUME TypeOK, NEW r \in Averaged, Finished(r)
  PROVE  \/ NoSample(r)
         \/ /\ Info[r].FetchType # "GroupPoll"
            /\ \E v \in Values \cup {0} : Sampled(r, v, rec[r].timestamp)
<1>0. rec[r] \in RecordObject /\ now \in Nat /\ r \in Records
  BY DEF TypeOK, Averaged
<1>2. CASE Untouched(r)
  BY <1>2 DEF Untouched, Unheard, NoSample
<1>3. CASE rec'[r] = Store(r, rec[r], now) /\ Unheard(r)
  BY <1>0, <1>3, StoreFields DEF Unheard, NoSample
<1>4. ASSUME NEW v \in Values \cup {0},
             rec'[r] = Store(r, Consume(r, rec[r], v), now), Heard(r, v, rec[r].timestamp)
      PROVE  Sampled(r, v, rec[r].timestamp)
  <2> DEFINE y == Consume(r, rec[r], v)
  <2>1. /\ y \in RecordObject
        /\ y.running = RunningStatisticEngine(r, rec[r].running, v, rec[r].timestamp)
    BY <1>0, ConsumeFields
  <2> HIDE DEF y
  <2>2. rec'[r].running = y.running
    BY <1>0, <1>4, <2>1, StoreFields DEF y
  <2> QED  BY <1>4, <2>1, <2>2 DEF Sampled, Heard
<1> QED  BY <1>2, <1>3, <1>4 DEF Finished

(* Every other step but the flush leaves the statistics alone.             *)
LEMMA OtherSamples ==
  ASSUME TypeOK, NEW r \in Averaged,
         \/ Elsewhere(r) \/ ArmStep(r) \/ OwnPoll(r) \/ OwnFetch(r)
         \/ OwnSignal(r) \/ OwnStore(r)
  PROVE  NoSample(r)
<1>0. rec[r] \in RecordObject /\ now \in Nat /\ r \in Records
  BY DEF TypeOK, Averaged
<1>1. CASE Elsewhere(r) \/ ArmStep(r) \/ OwnPoll(r)
  BY <1>1 DEF Elsewhere, ArmStep, OwnPoll, Untouched, Unheard, NoSample
<1>2. CASE OwnFetch(r)
  BY <1>0, <1>2, FetchedFields DEF OwnFetch, Refreshes, Unheard, NoSample
<1>3. CASE OwnSignal(r)
  <2>1. PICK v \in Values :
          rec'[r] = IF v # 0 THEN refreshDataCallback(rec[r], v) ELSE rec[r]
    BY <1>3 DEF OwnSignal, Signalled
  <2>2. Fetched(rec[r], now) \in RecordObject /\ Fetched(rec[r], now).running = rec[r].running
    BY <1>0, FetchedFields
  <2>3. [Fetched(rec[r], now) EXCEPT !.value = v].running = rec[r].running
    BY <2>2 DEF RecordObject
  <2> QED  BY <1>3, <2>1, <2>3 DEF OwnSignal, Signalled, refreshDataCallback, NoSample
<1>4. CASE OwnStore(r)
  BY <1>0, <1>4, StoreFields DEF OwnStore, Unheard, NoSample
<1> QED  BY <1>1, <1>2, <1>3, <1>4

(* The engine, as far as the times of the samples go.                      *)
LEMMA EngineTimes ==
  ASSUME NEW r, NEW s \in Stat, NEW v, NEW t \in Nat
  PROVE  LET y == RunningStatisticEngine(r, s, v, t) IN
         /\ y.numsamples = s.numsamples + 1 /\ y.totime = t
         /\ y.fromtime = IF s.fromtime = 0 THEN t ELSE s.fromtime
BY DEF RunningStatisticEngine

StatsOf(r) ==
  LET R == rec[r].running
      S == stat[r].record
  IN
  /\ R.numsamples = 0 => R = NoStat
  /\ R.numsamples > 0 =>
       /\ R.fromtime >= dir /\ R.fromtime > S.totime /\ R.fromtime > 0
       /\ R.fromtime <= R.totime /\ R.totime <= now
  /\ ~Armed =>
       /\ S.totime = 0
       /\ pc = "start" \/ (r \in todo /\ Info[r].FetchType # "GroupPoll") => R.numsamples = 0
  /\ Armed /\ Info[r].FetchType # "Subscribe" => R.totime < dueOf(r) /\ S.totime < dueOf(r)
  /\ Armed /\ r \in todo => R.totime + Period(r) < dueOf(r) /\ S.totime + Period(r) < dueOf(r)


(* A sample later than any before it.                                      *)
SampledLater(r) ==
  \E v \in Values \cup {0} : \E t \in Nat :
    t > rec[r].running.totime /\ Sampled(r, v, t)
StartsOver(r) == rec'[r].running = NoStat /\ readings'[r] = <<>>

(* A record of the statistics belongs to the directory it is written to.   *)
StatsInPlace(r) ==
  stat'[r] # stat[r] =>
    /\ stat'[r].record.fromtime >= stat'[r].dir
    /\ stat'[r].record.fromtime > stat[r].record.totime
    /\ stat'[r].record.totime <= now

LEMMA StatsNumbers ==
  ASSUME TypeInv, NEW r \in Averaged
  PROVE  /\ r \in Records /\ rec[r] \in RecordObject /\ rec[r].running \in Stat
         /\ rec[r].running.numsamples \in Nat /\ rec[r].running.fromtime \in Nat
         /\ rec[r].running.totime \in Nat /\ rec[r].timestamp \in Nat
         /\ stat[r].record.totime \in Nat /\ now \in Nat /\ dir \in Nat
         /\ (Armed => dueOf(r) \in Nat)
<1>1. r \in Records /\ rec[r] \in RecordObject /\ now \in Nat /\ dir \in Nat
  BY DEF Averaged, TypeInv, TypeOK
<1>2. rec[r].running \in Stat /\ rec[r].timestamp \in Nat
  BY <1>1 DEF RecordObject
<1>3. /\ rec[r].running.numsamples \in Nat /\ rec[r].running.fromtime \in Nat
      /\ rec[r].running.totime \in Nat
  BY <1>2 DEF Stat
<1>4. stat[r].record.totime \in Nat
  BY <1>1 DEF TypeInv
<1>5. Armed => dueOf(r) \in Nat
  BY <1>1, TimerOfRecord DEF TypeInv, TypeOK, Armed, dueOf
<1> QED  BY <1>1, <1>2, <1>3, <1>4, <1>5

LEMMA StatsKept ==
  ASSUME TypeInv, NEW r \in Averaged, StatsOf(r), NoSample(r), Undisturbed(r),
         dir' = dir, stat' = stat, now' >= now, now' \in Nat
  PROVE  StatsOf(r)'
<1>1. /\ rec[r].running.totime \in Nat /\ now \in Nat
  BY StatsNumbers
<1> QED  BY <1>1 DEF StatsOf, NoSample, Undisturbed, Period

LEMMA SampleStats ==
  ASSUME TypeInv, NEW r \in Averaged, StatsOf(r), NEW v, NEW t \in Nat, Sampled(r, v, t),
         t > rec[r].running.totime, t > stat[r].record.totime, t > 0, t >= dir, t <= now,
         UNCHANGED <<now, dir, stat>>
  PROVE  /\ rec'[r].running.numsamples > 0
         /\ rec'[r].running.fromtime >= dir'
         /\ rec'[r].running.fromtime > stat'[r].record.totime
         /\ rec'[r].running.fromtime > 0
         /\ rec'[r].running.fromtime <= rec'[r].running.totime
         /\ rec'[r].running.totime <= now' /\ rec'[r].running.totime = t
<1> DEFINE R == rec[r].running
<1>1. /\ R \in Stat /\ R.numsamples \in Nat /\ R.fromtime \in Nat /\ R.totime \in Nat
      /\ stat[r].record.totime \in Nat /\ now \in Nat /\ dir \in Nat
  BY StatsNumbers
<1>2. /\ rec'[r].running.numsamples = R.numsamples + 1 /\ rec'[r].running.totime = t
      /\ rec'[r].running.fromtime = IF R.fromtime = 0 THEN t ELSE R.fromtime
  BY <1>1, EngineTimes DEF Sampled
<1>3. CASE R.numsamples = 0
  <2>1. R.fromtime = 0
    BY <1>3 DEF StatsOf, NoStat
  <2> HIDE DEF R
  <2> QED  BY <1>1, <1>2, <2>1
<1>4. CASE R.numsamples > 0
  <2>1. /\ R.fromtime >= dir /\ R.fromtime > stat[r].record.totime /\ R.fromtime > 0
        /\ R.fromtime <= R.totime
    BY <1>4 DEF StatsOf
  <2>2. rec'[r].running.fromtime = R.fromtime
    BY <1>1, <1>2, <2>1
  <2>3. R.fromtime <= t
    BY <1>1, <2>1
  <2> HIDE DEF R
  <2> QED  BY <1>1, <1>2, <2>1, <2>2, <2>3
<1> QED  BY <1>1, <1>3, <1>4

LEMMA StatsStep ==
  ASSUME TypeInv, ClockInv, NEW r \in Averaged, ReadOf(r), StatsOf(r), RecordStep(r)
  PROVE  /\ StatsOf(r)' /\ StatsInPlace(r)
         /\ NoSample(r) \/ SampledLater(r) \/ StartsOver(r)
<1> DEFINE R == rec[r].running
           S == stat[r].record
<1>0. /\ TypeOK /\ StartTime \in Nat /\ StartTime >= 1
      /\ pc \in {"start", "arm"} => ~Armed
      /\ r \in Records
  BY RecordSettings DEF TypeInv, TypeOK, Armed, Averaged
<1>1. /\ R \in Stat /\ R.numsamples \in Nat /\ R.fromtime \in Nat /\ R.totime \in Nat
      /\ rec[r].timestamp \in Nat
      /\ S.totime \in Nat /\ now \in Nat /\ dir \in Nat
      /\ (Armed => dueOf(r) \in Nat)
  BY StatsNumbers
<1>2. Period(r) \in Nat /\ Period(r) >= 1 /\ Period(r) <= StartTime
  BY <1>0, RecordSettings DEF Period
<1>3. Info[r].FetchType # "Subscribe" =>
        TimerOf(r)[2] = Period(r) /\ TimerOf(r)[1] = Info[r].FetchType
  BY <1>0, TimerOfRecord DEF Period
<1>4. /\ ~Armed => now = StartTime /\ dir = StartTime
      /\ dir >= StartTime /\ dir <= now
  BY DEF ClockInv
<1>5. stat' = stat => StatsInPlace(r)
  BY DEF StatsInPlace
<1>6. CASE Elsewhere(r)
  <2>1. /\ NoSample(r) /\ Undisturbed(r) /\ dir' = dir /\ stat' = stat
        /\ now' >= now /\ now' \in Nat
    BY <1>0, <1>1, <1>6, OtherSamples DEF Elsewhere
  <2> QED  BY <1>5, <2>1, StatsKept
<1>7. CASE OwnFetch(r) \/ OwnSignal(r)
  <2>1. NoSample(r)
    BY <1>0, <1>7, OtherSamples
  <2>2. /\ UNCHANGED <<now, todo, dir, due, stat>> /\ pc' # "start"
    BY <1>7 DEF OwnFetch, Refreshes, OwnSignal
  <2>3. Undisturbed(r) /\ now' >= now
    BY <1>1, <2>2 DEF Undisturbed, Armed, dueOf
  <2> QED  BY <1>1, <1>5, <2>1, <2>2, <2>3, StatsKept
<1>8. CASE OwnStore(r)
  <2>1. NoSample(r) /\ UNCHANGED <<now, pc, todo, dir, stat>> /\ Armed /\ Armed'
    BY <1>0, <1>8, OtherSamples, OwnTimer DEF OwnStore
  <2>2. Info[r].FetchType = "Subscribe" /\ todo = {}
    BY <1>0, <1>8, TimerOfRecord, StringsApart, OwnTimer DEF OwnStore
  <2>3. StatsOf(r)'
    BY <2>1, <2>2 DEF StatsOf, NoSample
  <2> QED  BY <1>5, <2>1, <2>3
<1>9. CASE OwnPoll(r)
  <2>1. /\ NoSample(r) /\ UNCHANGED <<now, dir, stat>> /\ Armed /\ Armed'
        /\ Info[r].FetchType = "Poll" /\ dueOf(r) <= now /\ dueOf(r)' = now + Period(r)
    BY <1>0, <1>3, <1>9, OtherSamples, OwnTimer, TimerOfRecord, StringsApart DEF OwnPoll
  <2>2. R.totime < dueOf(r) /\ S.totime < dueOf(r)
    BY <2>1, StringsApart DEF StatsOf
  <2>3. /\ R.totime < now + Period(r) /\ S.totime < now + Period(r)
        /\ R.totime + Period(r) < now + Period(r) /\ S.totime + Period(r) < now + Period(r)
    <3> HIDE DEF R, S
    <3> QED  BY <1>1, <1>2, <2>1, <2>2
  <2>4. StatsOf(r)'
    BY <2>1, <2>3 DEF StatsOf, NoSample, Period
  <2> QED  BY <1>5, <2>1, <2>4
<1>10. CASE ArmStep(r)
  <2>1. /\ NoSample(r) /\ UNCHANGED <<now, dir, stat>> /\ ~Armed /\ Armed' /\ todo' = {}
        /\ dueOf(r)' = now + TimerOf(r)[2]
    BY <1>0, <1>10, OtherSamples DEF ArmStep, TypeOK
  <2>2. R.totime <= now /\ S.totime = 0
    <3>1. R.numsamples = 0 => R.totime = 0
      BY DEF StatsOf, NoStat
    <3>2. R.numsamples > 0 => R.totime <= now
      BY DEF StatsOf
    <3>3. S.totime = 0
      BY <2>1 DEF StatsOf
    <3> HIDE DEF R, S
    <3> QED  BY <1>1, <3>1, <3>2, <3>3
  <2>3. R.totime < now + Period(r) /\ S.totime < now + Period(r)
    <3> HIDE DEF R, S
    <3> QED  BY <1>1, <1>2, <2>2
  <2>4. StatsOf(r)'
    BY <1>3, <2>1, <2>3 DEF StatsOf, NoSample
  <2> QED  BY <1>5, <2>1, <2>4
<1>11. CASE Starts(r)
  <2>1. /\ pc = "start" /\ pc' = "next" /\ ~Armed /\ ~Armed' /\ UNCHANGED <<now, dir, stat>>
        /\ now = StartTime /\ dir = StartTime
    BY <1>0, <1>4, <1>11 DEF Starts, Armed
  <2>2. R.numsamples = 0 /\ R.totime = 0 /\ S.totime = 0
    BY <2>1 DEF StatsOf, NoStat
  <2>3. CASE NoSample(r)
    <3>1. StatsOf(r)'
      BY <2>1, <2>2, <2>3 DEF StatsOf, NoSample
    <3> QED  BY <1>5, <2>1, <2>3, <3>1
  <2>4. ASSUME NEW v \in Values, Sampled(r, v, now), Info[r].FetchType = "GroupPoll"
        PROVE  StatsOf(r)' /\ SampledLater(r)
    <3>1. now > R.totime /\ now > S.totime /\ now > 0 /\ now >= dir /\ now <= now
      <4> HIDE DEF R, S
      <4> QED  BY <1>0, <1>1, <2>1, <2>2
    <3>2. StatsOf(r)'
      BY <1>1, <2>1, <2>2, <2>4, <3>1, SampleStats DEF StatsOf
    <3>3. SampledLater(r)
      BY <1>1, <2>4, <3>1 DEF SampledLater
    <3> QED  BY <3>2, <3>3
  <2>5. CASE Info[r].FetchType = "GroupPoll" /\ GroupAnswered(r)
    BY <1>0, <1>5, <2>1, <2>3, <2>4, <2>5, GroupSamples
  <2>6. CASE Untouched(r)
    BY <2>3, <2>6 DEF Untouched, Unheard, NoSample
  <2> QED  BY <1>11, <2>5, <2>6 DEF Starts
<1>12. CASE OwnFinish(r)
  <2>1. /\ r = Current /\ pc = "read" /\ Finished(r) /\ UNCHANGED <<now, dir, due, stat>>
        /\ todo' = todo \ {r} /\ pc' # "start"
    BY <1>12, ContinueFields DEF OwnFinish, Finishes, Continue
  <2>2. r \in todo /\ r \notin todo' /\ Undisturbed(r)
    BY <1>0, <2>1, CurrentInRead DEF Undisturbed, Armed, dueOf
  <2>3. CASE NoSample(r)
    <3>1. now' >= now
      BY <1>1, <2>1
    <3> QED  BY <1>1, <1>5, <2>1, <2>2, <2>3, <3>1, StatsKept
  <2> DEFINE t == rec[r].timestamp
  <2>4. ASSUME NEW v \in Values \cup {0}, Sampled(r, v, t), Info[r].FetchType # "GroupPoll"
        PROVE  StatsOf(r)' /\ SampledLater(r)
    <3>1. /\ t \in Nat /\ t >= dir /\ t <= now
          /\ Armed => t + Period(r) >= dueOf(r)
      BY <1>1, <2>1 DEF ReadOf
    <3>2. CASE ~Armed
      <4>1. R.numsamples = 0 /\ R.totime = 0 /\ S.totime = 0
        BY <2>2, <2>4, <3>2 DEF StatsOf, NoStat
      <4>2. t > R.totime /\ t > S.totime /\ t > 0
        <5> HIDE DEF R, S, t
        <5> QED  BY <1>0, <1>1, <1>4, <3>1, <3>2, <4>1
      <4>3. StatsOf(r)'
        <5>1. ~Armed' /\ stat' = stat /\ S.totime = 0
          BY <2>1, <2>2, <3>2, <4>1 DEF Undisturbed
        <5> QED
          BY <1>1, <2>1, <2>2, <2>4, <3>1, <4>2, <5>1, SampleStats DEF StatsOf
      <4> QED  BY <1>1, <2>4, <4>2, <4>3 DEF SampledLater
    <3>3. CASE Armed
      <4>1. R.totime + Period(r) < dueOf(r) /\ S.totime + Period(r) < dueOf(r)
        BY <2>2, <3>3 DEF StatsOf
      <4>2. now < dueOf(r)
        BY <2>2, <3>3 DEF ClockInv
      <4>3. t > R.totime /\ t > S.totime /\ t > 0 /\ t < dueOf(r) /\ S.totime < dueOf(r)
        <5> HIDE DEF R, S, t
        <5> QED  BY <1>0, <1>1, <1>2, <1>4, <3>1, <3>3, <4>1, <4>2
      <4>4. Armed' /\ dueOf(r)' = dueOf(r)
        BY <2>2, <3>3 DEF Undisturbed
      <4>5. /\ rec'[r].running.numsamples > 0
            /\ rec'[r].running.fromtime >= dir'
            /\ rec'[r].running.fromtime > stat'[r].record.totime
            /\ rec'[r].running.fromtime > 0
            /\ rec'[r].running.fromtime <= rec'[r].running.totime
            /\ rec'[r].running.totime <= now' /\ rec'[r].running.totime = t
        BY <1>1, <2>1, <2>4, <3>1, <4>3, SampleStats
      <4>6. stat'[r].record.totime < dueOf(r)
        BY <2>1, <4>3
      <4>7. StatsOf(r)'
        <5> HIDE DEF t
        <5> QED  BY <2>2, <4>3, <4>4, <4>5, <4>6 DEF StatsOf
      <4> QED  BY <1>1, <2>4, <4>3, <4>7 DEF SampledLater
    <3> QED  BY <3>2, <3>3
  <2> QED  BY <1>0, <1>5, <2>1, <2>3, <2>4, FinishSamples
<1>13. CASE OwnGroup(r)
  <2>1. /\ Armed /\ Armed' /\ dueOf(r) <= now /\ dueOf(r)' = now + Period(r) /\ todo = {}
        /\ UNCHANGED <<now, pc, todo, dir, stat>> /\ Info[r].FetchType = "GroupPoll"
        /\ GroupAnswered(r)
    BY <1>0, <1>3, <1>13, OwnTimer, TimerOfRecord, StringsApart DEF OwnGroup
  <2>2. R.totime < dueOf(r) /\ S.totime < dueOf(r)
    BY <2>1, StringsApart DEF StatsOf
  <2>3. /\ R.totime < now /\ S.totime < now /\ now > 0
        /\ R.totime < now + Period(r) /\ S.totime < now + Period(r) /\ now < now + Period(r)
    <3> HIDE DEF R, S
    <3> QED  BY <1>0, <1>1, <1>2, <1>4, <2>1, <2>2
  <2>4. CASE NoSample(r)
    <3>1. StatsOf(r)'
      BY <2>1, <2>3, <2>4 DEF StatsOf, NoSample
    <3> QED  BY <1>5, <2>1, <2>4, <3>1
  <2>5. ASSUME NEW v \in Values, Sampled(r, v, now)
        PROVE  StatsOf(r)' /\ SampledLater(r)
    <3>1. /\ rec'[r].running.numsamples > 0
          /\ rec'[r].running.fromtime >= dir'
          /\ rec'[r].running.fromtime > stat'[r].record.totime
          /\ rec'[r].running.fromtime > 0
          /\ rec'[r].running.fromtime <= rec'[r].running.totime
          /\ rec'[r].running.totime <= now' /\ rec'[r].running.totime = now
      BY <1>1, <1>4, <2>1, <2>3, <2>5, SampleStats
    <3>2. stat'[r].record.totime < dueOf(r)' /\ rec'[r].running.totime < dueOf(r)'
      BY <2>1, <2>3, <3>1
    <3>3. StatsOf(r)'
      BY <2>1, <3>1, <3>2 DEF StatsOf
    <3> QED  BY <1>1, <2>3, <2>5, <3>3 DEF SampledLater
  <2> QED  BY <1>0, <1>5, <2>1, <2>4, <2>5, GroupSamples
<1>14. CASE Flushes(r)
  <2>1. /\ Undisturbed(r) /\ Armed /\ Armed' /\ todo' = {} /\ now' = now /\ dir' \in {dir, now}
    BY <1>0, <1>14, FlushTimers DEF Flushes, Undisturbed
  <2>2. /\ rec'[r] = [rec[r] EXCEPT !.running = NoStat] /\ readings'[r] = <<>>
        /\ stat'[r] = appendRunningStatToStatfile(R, stat[r])
    BY <1>14 DEF Flushes, Flushed
  <2>3. rec'[r].running = NoStat
    BY <1>0, <2>2, StatsNumbers DEF RecordObject
  <2> DEFINE q == [R EXCEPT !.avg = average(R)]
  <2>4. q.fromtime = R.fromtime /\ q.totime = R.totime
    BY <1>1 DEF Stat
  <2> HIDE DEF q
  <2>5. /\ R.numsamples = 0 => stat'[r] = stat[r]
        /\ R.numsamples # 0 => stat'[r] = [dir |-> dir, record |-> q]
    BY <2>2 DEF appendRunningStatToStatfile, q
  <2>6. R.numsamples # 0 =>
          /\ R.fromtime >= dir /\ R.fromtime > S.totime
          /\ R.fromtime <= R.totime /\ R.totime <= now
    BY <1>1 DEF StatsOf
  <2>7. StatsInPlace(r)
    BY <2>4, <2>5, <2>6 DEF StatsInPlace
  <2>8. stat'[r].record.totime \in {R.totime, S.totime}
    BY <2>4, <2>5
  <2>9. Info[r].FetchType # "Subscribe" =>
          0 < dueOf(r) /\ stat'[r].record.totime < dueOf(r)
    <3>1. Info[r].FetchType # "Subscribe" => R.totime < dueOf(r) /\ S.totime < dueOf(r)
      BY <2>1 DEF StatsOf
    <3> HIDE DEF R, S
    <3> QED  BY <1>1, <2>1, <2>8, <3>1
  <2>10. NoStat.numsamples = 0 /\ NoStat.totime = 0
    BY DEF NoStat
  <2>11. dueOf(r)' = dueOf(r)
    BY <2>1 DEF Undisturbed
  <2>12. StatsOf(r)'
    BY <2>1, <2>3, <2>9, <2>10, <2>11 DEF StatsOf
  <2> QED  BY <2>2, <2>3, <2>7, <2>12 DEF StartsOver
<1> QED
  BY <1>0, <1>6, <1>7, <1>8, <1>9, <1>10, <1>11, <1>12, <1>13, <1>14, TurnSteps DEF OwnStep

StatsInv == \A r \in Averaged : StatsOf(r)

LEMMA InitStats == Init => StatsInv
<1> SUFFICES ASSUME Init, NEW r \in Averaged PROVE StatsOf(r)
  BY DEF StatsInv
<1>1. /\ rec[r].running = NoStat /\ stat[r].record = NoStat /\ ~Armed /\ pc = "start"
  BY DEF Init, Armed, Averaged
<1>2. NoStat.numsamples = 0 /\ NoStat.totime = 0
  BY DEF NoStat
<1> QED  BY <1>1, <1>2 DEF StatsOf

LEMMA StatsSteps ==
  ASSUME Base, StatsInv, [Next]_vars, NEW r \in Averaged
  PROVE  /\ StatsOf(r)' /\ StatsInPlace(r)
         /\ NoSample(r) \/ SampledLater(r) \/ StartsOver(r)
<1>1. TypeInv /\ TypeOK /\ ClockInv /\ ReadOf(r) /\ StatsOf(r) /\ r \in Records
  BY DEF Base, StatsInv, TypeInv, Averaged
<1>2. RecordStep(r)
  BY <1>1, RecordSteps
<1> QED  BY <1>1, <1>2, StatsStep

(* Every record of the statistics files lies within the directory it is    *)
(* written to and behind the record before it: the two windows may end in  *)
(* any order and at the same time, and reads may be slow, but the samples  *)
(* of one directory never reach the statistics of the next.                *)
THEOREM StatsStay == Spec => StatsStayInTheirDirectory
<1>1. Base /\ StatsInv /\ [Next]_vars =>
        /\ StatsInv'
        /\ [\A r \in Averaged : stat'[r] # stat[r] =>
              /\ stat'[r].record.fromtime >= stat'[r].dir
              /\ stat'[r].record.fromtime > stat[r].record.totime
              /\ stat'[r].record.totime <= now]_vars
  <2> SUFFICES ASSUME Base, StatsInv, [Next]_vars, NEW r \in Averaged
               PROVE  StatsOf(r)' /\ StatsInPlace(r)
    BY DEF StatsInv, StatsInPlace, Averaged
  <2> QED  BY StatsSteps
<1> QED  BY <1>1, InitStats, BaseHolds, PTL DEF Spec, StatsStayInTheirDirectory

-----------------------------------------------------------------------------
(* The running statistics are the summary of the readings                  *)

valuesOf(s) == [i \in DOMAIN s |-> s[i].value]
SumOf(s) == FoldSeq(LAMBDA x, n : x.value + n, 0, s)

LEMMA ReadingsAreNatural ==
  ASSUME NEW s \in Seq(AReading)
  PROVE  /\ Len(s) \in Nat /\ DOMAIN s = 1..Len(s) /\ IsFiniteSet(DOMAIN s)
         /\ valuesOf(s) \in [DOMAIN s -> Nat]
         /\ \A i \in DOMAIN s : s[i].time \in Nat /\ s[i].value \in Nat
<1>1. Len(s) \in Nat /\ DOMAIN s = 1..Len(s)
  OBVIOUS
<1>2. IsFiniteSet(1..Len(s))
  BY <1>1, FS_Interval
<1>3. \A i \in DOMAIN s : s[i] \in AReading
  OBVIOUS
<1>4. \A i \in DOMAIN s : s[i].time \in Nat /\ s[i].value \in Nat
  <2>1. Values \cup {0} \subseteq Nat
    BY RecordsAssumption
  <2> QED  BY <1>3, <2>1 DEF AReading
<1> QED  BY <1>1, <1>2, <1>4 DEF valuesOf

LEMMA SumIsTotal ==
  ASSUME NEW s \in Seq(AReading)
  PROVE  SumOf(s) = Total(valuesOf(s), DOMAIN s)
<1> DEFINE D == DOMAIN s
           f == valuesOf(s)
           Sums(g) == g = [t \in SUBSET D |->
                 IF t = {} THEN 0
                 ELSE s[CHOOSE x \in t : TRUE].value + g[t \ {CHOOSE x \in t : TRUE}]]
           total == CHOOSE g : Sums(g)
<1>1. SumOf(s) = total[D]
  BY DEF SumOf, FoldSeq, FoldFunction, FoldFunctionOnSet, MapThenFoldSet
<1>2. \A g : Sums(g) <=> SumsUp(g, f, D)
  <2> SUFFICES ASSUME NEW g PROVE Sums(g) <=> SumsUp(g, f, D)
    OBVIOUS
  <2> DEFINE one == [t \in SUBSET D |-> IF t = {} THEN 0
                                       ELSE s[Chosen(t)].value + g[t \ {Chosen(t)}]]
             other == [t \in SUBSET D |-> IF t = {} THEN 0
                                         ELSE f[Chosen(t)] + g[t \ {Chosen(t)}]]
  <2>1. \A t \in SUBSET D : t # {} => f[Chosen(t)] = s[Chosen(t)].value
    BY ChosenIsElement DEF valuesOf
  <2>2. one = other
    BY <2>1
  <2>3. Sums(g) <=> g = one
    BY DEF Chosen
  <2>4. SumsUp(g, f, D) <=> g = other
    BY DEF SumsUp
  <2> HIDE DEF one, other, Sums
  <2> QED  BY <2>2, <2>3, <2>4
<1>3. \E g : SumsUp(g, f, D)
  BY ReadingsAreNatural, SumExists
<1>4. Sums(total)
  <2> HIDE DEF Sums
  <2> QED  BY <1>2, <1>3
<1>5. SumsUp(total, f, D)
  BY <1>2, <1>4
<1> HIDE DEF total
<1> QED  BY <1>1, <1>5, ReadingsAreNatural, TotalIs

LEMMA SumOfAppend ==
  ASSUME NEW s \in Seq(AReading), NEW x \in AReading
  PROVE  SumOf(Append(s, x)) = SumOf(s) + x.value /\ SumOf(s) \in Nat
<1> DEFINE u == Append(s, x)
           n == Len(s) + 1
           f == valuesOf(u)
           h == valuesOf(s)
<1>1. /\ u \in Seq(AReading) /\ Len(s) \in Nat /\ Len(u) = n
      /\ u[n] = x /\ \A i \in 1..Len(s) : u[i] = s[i]
  OBVIOUS
<1>2. /\ DOMAIN u = 1..n /\ DOMAIN s = 1..Len(s)
      /\ IsFiniteSet(DOMAIN u) /\ IsFiniteSet(DOMAIN s)
      /\ f \in [DOMAIN u -> Nat] /\ h \in [DOMAIN s -> Nat]
  BY <1>1, ReadingsAreNatural
<1> HIDE DEF u
<1>3. (1..n) \ {n} = 1..Len(s) /\ n \in 1..n
  BY <1>1
<1>4. Agree(f, h, 1..Len(s)) /\ f[n] = x.value
  BY <1>1, <1>2, <1>3 DEF Agree, valuesOf
<1> HIDE DEF n, f, h
<1>5. Total(f, 1..n) = f[n] + Total(h, (1..n) \ {n})
  <2> DEFINE S == 1..n
  <2>1. IsFiniteSet(S) /\ n \in S /\ f \in [S -> Nat]
    BY <1>2, <1>3
  <2>2. h \in [S \ {n} -> Nat] /\ Agree(f, h, S \ {n})
    BY <1>2, <1>3, <1>4
  <2> HIDE DEF S
  <2>3. Total(f, S) = f[n] + Total(h, S \ {n})
    BY <2>1, <2>2, TotalOfOneMore
  <2> QED  BY <2>3 DEF S
<1>6. SumOf(u) = Total(f, 1..n) /\ SumOf(s) = Total(h, 1..Len(s))
  BY <1>1, <1>2, SumIsTotal DEF f, h
<1>7. Total(h, 1..Len(s)) \in Nat
  BY <1>2, TotalIsNatural
<1>8. x.value \in Nat
  <2>1. Values \cup {0} \subseteq Nat
    BY RecordsAssumption
  <2> QED  BY <2>1 DEF AReading
<1>9. SumOf(u) = x.value + Total(h, 1..Len(s))
  BY <1>3, <1>4, <1>5, <1>6
<1>10. SumOf(u) = SumOf(s) + x.value /\ SumOf(s) \in Nat
  BY <1>6, <1>7, <1>8, <1>9
<1> QED  BY <1>10 DEF u

(* The value v is the lowest (the highest) of s, reached last at t.        *)
IsLowest(v, t, s) ==
  /\ \A i \in DOMAIN s : v <= s[i].value
  /\ \A i \in DOMAIN s : s[i].value = v => s[i].time <= t
  /\ \E i \in DOMAIN s : s[i].value = v /\ s[i].time = t
IsHighest(v, t, s) ==
  /\ \A i \in DOMAIN s : v >= s[i].value
  /\ \A i \in DOMAIN s : s[i].value = v => s[i].time <= t
  /\ \E i \in DOMAIN s : s[i].value = v /\ s[i].time = t

(* The summary, without the choices of Summary.                            *)
SummedUp(R, s) ==
  /\ R.numsamples = Len(s) /\ R.avg = SumOf(s)
  /\ \A i \in DOMAIN s : s[i].time <= R.totime
  /\ s = <<>> => R = NoStat
  /\ s # <<>> =>
       /\ R.fromtime = s[1].time /\ R.totime = s[Len(s)].time /\ R.fromtime > 0
       /\ IsLowest(R.min, R.minvaltimestamp, s) /\ R.minvaltimestamp > 0
       /\ IsHighest(R.max, R.maxvaltimestamp, s) /\ R.maxvaltimestamp > 0

LEMMA Appended ==
  ASSUME NEW s \in Seq(AReading), NEW x \in AReading
  PROVE  LET u == Append(s, x) IN
         /\ u \in Seq(AReading) /\ u # <<>> /\ Len(u) = Len(s) + 1 /\ u[Len(u)] = x
         /\ DOMAIN u = DOMAIN s \cup {Len(u)}
         /\ \A i \in DOMAIN s : u[i] = s[i]
         /\ s # <<>> => 1 \in DOMAIN s
         /\ s = <<>> => DOMAIN s = {} /\ Len(u) = 1
<1> DEFINE u == Append(s, x)
<1>1. u \in Seq(AReading) /\ Len(u) = Len(s) + 1 /\ Len(s) \in Nat
  OBVIOUS
<1>2. DOMAIN s = 1..Len(s) /\ DOMAIN u = 1..Len(u)
  BY <1>1
<1>3. u[Len(s) + 1] = x /\ \A i \in 1..Len(s) : u[i] = s[i]
  OBVIOUS
<1>4. s # <<>> <=> Len(s) > 0
  BY <1>2
<1> HIDE DEF u
<1>5. u # <<>> /\ DOMAIN u = DOMAIN s \cup {Len(u)}
  BY <1>1, <1>2
<1> QED  BY <1>1, <1>2, <1>3, <1>4, <1>5 DEF u

LEMMA ReadingFields ==
  ASSUME NEW x \in AReading
  PROVE  x.time \in Nat /\ x.value \in Nat
<1>1. Values \cup {0} \subseteq Nat
  BY RecordsAssumption
<1> QED  BY <1>1 DEF AReading

LEMMA LowestOfAppend ==
  ASSUME NEW s \in Seq(AReading), NEW x \in AReading, NEW v \in Nat, NEW t \in Nat,
         \A i \in DOMAIN s : s[i].time <= x.time,
         s # <<>> => IsLowest(v, t, s)
  PROVE  /\ s = <<>> \/ x.value <= v => IsLowest(x.value, x.time, Append(s, x))
         /\ s # <<>> /\ ~(x.value <= v) => IsLowest(v, t, Append(s, x))
<1> DEFINE u == Append(s, x)
           n == Len(u)
<1>1. /\ u[n] = x /\ DOMAIN u = DOMAIN s \cup {n} /\ \A i \in DOMAIN s : u[i] = s[i]
      /\ s = <<>> => DOMAIN s = {}
  BY Appended
<1>2. \A i \in DOMAIN s : s[i].time \in Nat /\ s[i].value \in Nat
  BY ReadingsAreNatural
<1>3. x.time \in Nat /\ x.value \in Nat
  BY ReadingFields
<1> HIDE DEF u, n
<1>4. ASSUME s = <<>> \/ x.value <= v PROVE IsLowest(x.value, x.time, u)
  <2>1. \A i \in DOMAIN s : x.value <= s[i].value
    BY <1>1, <1>2, <1>3, <1>4 DEF IsLowest
  <2>2. \A i \in DOMAIN u : x.value <= u[i].value /\ u[i].time <= x.time
    BY <1>1, <1>2, <1>3, <2>1
  <2>3. n \in DOMAIN u /\ u[n].value = x.value /\ u[n].time = x.time
    BY <1>1
  <2> QED  BY <2>2, <2>3 DEF IsLowest
<1>5. ASSUME s # <<>>, ~(x.value <= v) PROVE IsLowest(v, t, u)
  <2>1. /\ \A i \in DOMAIN s : v <= s[i].value
        /\ \A i \in DOMAIN s : s[i].value = v => s[i].time <= t
    BY <1>5 DEF IsLowest
  <2>2. PICK i \in DOMAIN s : s[i].value = v /\ s[i].time = t
    BY <1>5 DEF IsLowest
  <2>3. v <= x.value /\ x.value # v
    BY <1>3, <1>5
  <2>4. i \in DOMAIN u /\ u[i].value = v /\ u[i].time = t
    BY <1>1, <2>2
  <2>5. \A j \in DOMAIN u : v <= u[j].value /\ (u[j].value = v => u[j].time <= t)
    BY <1>1, <2>1, <2>3
  <2> QED  BY <2>4, <2>5 DEF IsLowest
<1> QED  BY <1>4, <1>5 DEF u

LEMMA HighestOfAppend ==
  ASSUME NEW s \in Seq(AReading), NEW x \in AReading, NEW v \in Nat, NEW t \in Nat,
         \A i \in DOMAIN s : s[i].time <= x.time,
         s # <<>> => IsHighest(v, t, s)
  PROVE  /\ s = <<>> \/ x.value >= v => IsHighest(x.value, x.time, Append(s, x))
         /\ s # <<>> /\ ~(x.value >= v) => IsHighest(v, t, Append(s, x))
<1> DEFINE u == Append(s, x)
           n == Len(u)
<1>1. /\ u[n] = x /\ DOMAIN u = DOMAIN s \cup {n} /\ \A i \in DOMAIN s : u[i] = s[i]
      /\ s = <<>> => DOMAIN s = {}
  BY Appended
<1>2. \A i \in DOMAIN s : s[i].time \in Nat /\ s[i].value \in Nat
  BY ReadingsAreNatural
<1>3. x.time \in Nat /\ x.value \in Nat
  BY ReadingFields
<1> HIDE DEF u, n
<1>4. ASSUME s = <<>> \/ x.value >= v PROVE IsHighest(x.value, x.time, u)
  <2>1. \A i \in DOMAIN s : x.value >= s[i].value
    BY <1>1, <1>2, <1>3, <1>4 DEF IsHighest
  <2>2. \A i \in DOMAIN u : x.value >= u[i].value /\ u[i].time <= x.time
    BY <1>1, <1>2, <1>3, <2>1
  <2>3. n \in DOMAIN u /\ u[n].value = x.value /\ u[n].time = x.time
    BY <1>1
  <2> QED  BY <2>2, <2>3 DEF IsHighest
<1>5. ASSUME s # <<>>, ~(x.value >= v) PROVE IsHighest(v, t, u)
  <2>1. /\ \A i \in DOMAIN s : v >= s[i].value
        /\ \A i \in DOMAIN s : s[i].value = v => s[i].time <= t
    BY <1>5 DEF IsHighest
  <2>2. PICK i \in DOMAIN s : s[i].value = v /\ s[i].time = t
    BY <1>5 DEF IsHighest
  <2>3. v >= x.value /\ x.value # v
    BY <1>3, <1>5
  <2>4. i \in DOMAIN u /\ u[i].value = v /\ u[i].time = t
    BY <1>1, <2>2
  <2>5. \A j \in DOMAIN u : v >= u[j].value /\ (u[j].value = v => u[j].time <= t)
    BY <1>1, <2>1, <2>3
  <2> QED  BY <2>4, <2>5 DEF IsHighest
<1> QED  BY <1>4, <1>5 DEF u

(* One more sample: the engine keeps the summary of the readings.          *)
LEMMA EngineSumsUp ==
  ASSUME NEW r \in Records, NEW R \in Stat, NEW s \in Seq(AReading), SummedUp(R, s),
         NEW v \in Values \cup {0}, NEW t \in Nat, t > R.totime
  PROVE  SummedUp(RunningStatisticEngine(r, R, v, t), Append(s, Reading(r, v, t)))
<1> DEFINE x == Reading(r, v, t)
           u == Append(s, x)
           y == RunningStatisticEngine(r, R, v, t)
           c == currentRecValue(r, v)
<1>1. x \in AReading /\ x.time = t /\ x.value = c /\ c \in Nat
  BY ValuesAreNatural DEF Reading, AReading
<1>2. /\ y.numsamples = R.numsamples + 1 /\ y.avg = R.avg + c /\ y.totime = t
      /\ y.min = IF R.minvaltimestamp = 0 \/ c <= R.min THEN c ELSE R.min
      /\ y.minvaltimestamp = IF R.minvaltimestamp = 0 \/ c <= R.min
                             THEN t ELSE R.minvaltimestamp
      /\ y.max = IF R.maxvaltimestamp = 0 \/ c >= R.max THEN c ELSE R.max
      /\ y.maxvaltimestamp = IF R.maxvaltimestamp = 0 \/ c >= R.max
                             THEN t ELSE R.maxvaltimestamp
      /\ y.fromtime = IF R.fromtime = 0 THEN t ELSE R.fromtime
  BY DEF RunningStatisticEngine
<1>3. /\ R.numsamples \in Nat /\ R.avg \in Nat /\ R.totime \in Nat /\ R.fromtime \in Nat
      /\ R.min \in Nat /\ R.max \in Nat
      /\ R.minvaltimestamp \in Nat /\ R.maxvaltimestamp \in Nat
  BY DEF Stat
<1> HIDE DEF x, y, c
<1>4. /\ u # <<>> /\ Len(u) = Len(s) + 1 /\ u[Len(u)] = x
      /\ DOMAIN u = DOMAIN s \cup {Len(u)} /\ \A i \in DOMAIN s : u[i] = s[i]
      /\ s # <<>> => 1 \in DOMAIN s
      /\ s = <<>> => DOMAIN s = {} /\ Len(u) = 1
  BY <1>1, Appended
<1>5. SumOf(u) = SumOf(s) + c
  BY <1>1, SumOfAppend
<1> HIDE DEF u
<1>6. \A i \in DOMAIN s : s[i].time \in Nat /\ s[i].time <= t
  <2>1. \A i \in DOMAIN s : s[i].time \in Nat /\ s[i].time <= R.totime
    BY ReadingsAreNatural DEF SummedUp
  <2> QED  BY <1>3, <2>1
<1>7. \A i \in DOMAIN u : u[i].time <= y.totime
  BY <1>1, <1>2, <1>4, <1>6
<1>8. y.numsamples = Len(u) /\ y.avg = SumOf(u)
  BY <1>2, <1>4, <1>5 DEF SummedUp
<1>9. t > 0
  BY <1>3
<1>10. s = <<>> => R.fromtime = 0 /\ R.minvaltimestamp = 0 /\ R.maxvaltimestamp = 0
  BY DEF SummedUp, NoStat
<1>11. s # <<>> => /\ R.fromtime = s[1].time /\ R.fromtime > 0
                   /\ R.minvaltimestamp > 0 /\ R.maxvaltimestamp > 0
                   /\ IsLowest(R.min, R.minvaltimestamp, s)
                   /\ IsHighest(R.max, R.maxvaltimestamp, s)
  BY DEF SummedUp
<1>12. y.fromtime = u[1].time /\ y.totime = u[Len(u)].time /\ y.fromtime > 0
  <2>1. CASE s = <<>>
    BY <1>1, <1>2, <1>4, <1>9, <1>10, <2>1
  <2>2. CASE s # <<>>
    <3>1. u[1] = s[1] /\ u[Len(u)].time = t
      BY <1>1, <1>4, <2>2
    <3>2. y.fromtime = R.fromtime
      BY <1>2, <1>3, <1>11, <2>2
    <3> QED  BY <1>2, <1>11, <2>2, <3>1, <3>2
  <2> QED  BY <2>1, <2>2
<1>13. IsLowest(y.min, y.minvaltimestamp, u) /\ y.minvaltimestamp > 0
  <2>1. /\ s = <<>> \/ c <= R.min => IsLowest(c, t, u)
        /\ s # <<>> /\ ~(c <= R.min) => IsLowest(R.min, R.minvaltimestamp, u)
    BY <1>1, <1>3, <1>6, <1>11, LowestOfAppend DEF u
  <2>2. R.minvaltimestamp = 0 <=> s = <<>>
    BY <1>3, <1>10, <1>11
  <2>3. CASE s = <<>> \/ c <= R.min
    BY <1>2, <1>9, <2>1, <2>2, <2>3
  <2>4. CASE s # <<>> /\ ~(c <= R.min)
    BY <1>2, <1>11, <2>1, <2>2, <2>4
  <2> QED  BY <2>3, <2>4
<1>14. IsHighest(y.max, y.maxvaltimestamp, u) /\ y.maxvaltimestamp > 0
  <2>1. /\ s = <<>> \/ c >= R.max => IsHighest(c, t, u)
        /\ s # <<>> /\ ~(c >= R.max) => IsHighest(R.max, R.maxvaltimestamp, u)
    BY <1>1, <1>3, <1>6, <1>11, HighestOfAppend DEF u
  <2>2. R.maxvaltimestamp = 0 <=> s = <<>>
    BY <1>3, <1>10, <1>11
  <2>3. CASE s = <<>> \/ c >= R.max
    BY <1>2, <1>9, <2>1, <2>2, <2>3
  <2>4. CASE s # <<>> /\ ~(c >= R.max)
    BY <1>2, <1>11, <2>1, <2>2, <2>4
  <2> QED  BY <2>3, <2>4
<1>15. SummedUp(y, u)
  BY <1>4, <1>7, <1>8, <1>12, <1>13, <1>14 DEF SummedUp
<1> QED  BY <1>15 DEF x, u, y

(* The choices Summary makes are settled by the bounds.                    *)
LEMMA SummaryIs ==
  ASSUME NEW R \in Stat, NEW s \in Seq(AReading), SummedUp(R, s)
  PROVE  R = Summary(s)
<1> DEFINE times(v) == {s[i].time : i \in {j \in DOMAIN s : s[j].value = v}}
           values == {s[i].value : i \in DOMAIN s}
           Least(v) == v \in values /\ \A w \in values : v <= w
           Most(v) == v \in values /\ \A w \in values : v >= w
           Latest(v, t) == t \in times(v) /\ \A u \in times(v) : t >= u
           least == CHOOSE v \in values : \A w \in values : v <= w
           most == CHOOSE v \in values : \A w \in values : v >= w
           latest(v) == CHOOSE t \in times(v) : \A u \in times(v) : t >= u
<1>0. \A i \in DOMAIN s : s[i].time \in Nat /\ s[i].value \in Nat
  BY ReadingsAreNatural
<1>1. \A v \in values : v \in Nat
  BY <1>0
<1>2. \A v : \A t \in times(v) : t \in Nat
  BY <1>0
<1>3. CASE s = <<>>
  BY <1>3 DEF SummedUp, Summary
<1>4. CASE s # <<>>
  <2>1. /\ R.numsamples = Len(s) /\ R.avg = SumOf(s)
        /\ R.fromtime = s[1].time /\ R.totime = s[Len(s)].time
        /\ IsLowest(R.min, R.minvaltimestamp, s) /\ IsHighest(R.max, R.maxvaltimestamp, s)
    BY <1>4 DEF SummedUp
  <2>2. Least(R.min)
    BY <2>1 DEF IsLowest
  <2>3. Most(R.max)
    BY <2>1 DEF IsHighest
  <2>4. ASSUME NEW v, NEW w, Least(v), Least(w) PROVE v = w
    <3>1. v \in Nat /\ w \in Nat /\ v <= w /\ w <= v
      BY <1>1, <2>4
    <3> QED  BY <3>1
  <2>5. ASSUME NEW v, NEW w, Most(v), Most(w) PROVE v = w
    <3>1. v \in Nat /\ w \in Nat /\ v <= w /\ w <= v
      BY <1>1, <2>5
    <3> QED  BY <3>1
  <2>6. ASSUME NEW v, NEW t, NEW u, Latest(v, t), Latest(v, u) PROVE t = u
    <3>1. t \in Nat /\ u \in Nat /\ t <= u /\ u <= t
      BY <1>2, <2>6
    <3> QED  BY <3>1
  <2>7. Latest(R.min, R.minvaltimestamp)
    <3>1. R.minvaltimestamp \in Nat
      BY DEF Stat
    <3>2. PICK i \in DOMAIN s : s[i].value = R.min /\ s[i].time = R.minvaltimestamp
      BY <2>1 DEF IsLowest
    <3>3. \A j \in DOMAIN s : s[j].value = R.min => s[j].time <= R.minvaltimestamp
      BY <2>1 DEF IsLowest
    <3> QED  BY <1>0, <3>1, <3>2, <3>3
  <2>8. Latest(R.max, R.maxvaltimestamp)
    <3>1. R.maxvaltimestamp \in Nat
      BY DEF Stat
    <3>2. PICK i \in DOMAIN s : s[i].value = R.max /\ s[i].time = R.maxvaltimestamp
      BY <2>1 DEF IsHighest
    <3>3. \A j \in DOMAIN s : s[j].value = R.max => s[j].time <= R.maxvaltimestamp
      BY <2>1 DEF IsHighest
    <3> QED  BY <1>0, <3>1, <3>2, <3>3
  <2>9. Least(least) /\ Most(most)
    BY <2>2, <2>3
  <2>10. least = R.min /\ most = R.max
    <3> HIDE DEF Least, Most, least, most
    <3> QED  BY <2>2, <2>3, <2>4, <2>5, <2>9
  <2>11. ASSUME NEW v, NEW t, Latest(v, t) PROVE latest(v) = t
    <3>1. Latest(v, latest(v))
      BY <2>11
    <3> HIDE DEF Latest, latest
    <3> QED  BY <2>6, <2>11, <3>1
  <2>12. latest(R.min) = R.minvaltimestamp /\ latest(R.max) = R.maxvaltimestamp
    <3> HIDE DEF Latest, latest
    <3> QED  BY <2>7, <2>8, <2>11
  <2>13. latest(least) = R.minvaltimestamp /\ latest(most) = R.maxvaltimestamp
    <3> HIDE DEF least, most, latest
    <3> QED  BY <2>10, <2>12
  <2>14. Summary(s) = [numsamples |-> Len(s), avg |-> SumOf(s),
                       min |-> least, minvaltimestamp |-> latest(least),
                       max |-> most, maxvaltimestamp |-> latest(most),
                       fromtime |-> s[1].time, totime |-> s[Len(s)].time]
    BY <1>4 DEF Summary, SumOf
  <2>15. R = [numsamples |-> R.numsamples, avg |-> R.avg,
              min |-> R.min, minvaltimestamp |-> R.minvaltimestamp,
              max |-> R.max, maxvaltimestamp |-> R.maxvaltimestamp,
              fromtime |-> R.fromtime, totime |-> R.totime]
    BY DEF Stat
  <2> HIDE DEF least, most, latest
  <2>16. R = [numsamples |-> Len(s), avg |-> SumOf(s),
              min |-> least, minvaltimestamp |-> latest(least),
              max |-> most, maxvaltimestamp |-> latest(most),
              fromtime |-> s[1].time, totime |-> s[Len(s)].time]
    BY <2>1, <2>10, <2>13, <2>15
  <2> QED  BY <2>14, <2>16
<1> QED  BY <1>3, <1>4

LEMMA NothingSummedUp == SummedUp(NoStat, <<>>)
<1>1. <<>> \in Seq(AReading) /\ DOMAIN <<>> = {} /\ Len(<<>>) = 0
  OBVIOUS
<1>2. SumOf(<<>>) = Total(valuesOf(<<>>), {})
  BY <1>1, SumIsTotal
<1>3. valuesOf(<<>>) \in [{} -> Nat]
  BY <1>1 DEF valuesOf
<1>4. SumOf(<<>>) = 0
  BY <1>2, <1>3, TotalOfNone
<1> QED  BY <1>1, <1>4 DEF SummedUp, NoStat

SummaryInv == \A r \in Averaged : SummedUp(rec[r].running, readings[r])

(* The running statistics of a record, kept field by field by the engine   *)
(* and cleared by two timers, are at any time the number, the sum and the  *)
(* extremes, with their latest times, of exactly the samples taken since   *)
(* the last record of the statistics.                                      *)
THEOREM StatisticsAreRight == Spec => []RunningIsSummary
<1>1. Init => SummaryInv
  <2> SUFFICES ASSUME Init, NEW r \in Averaged
               PROVE  SummedUp(rec[r].running, readings[r])
    BY DEF SummaryInv
  <2>1. rec[r].running = NoStat /\ readings[r] = <<>>
    BY DEF Init, Averaged
  <2> QED  BY <2>1, NothingSummedUp
<1>2. Base /\ StatsInv /\ SummaryInv /\ [Next]_vars => StatsInv' /\ SummaryInv'
  <2> SUFFICES ASSUME Base, StatsInv, SummaryInv, [Next]_vars, NEW r \in Averaged
               PROVE  StatsOf(r)' /\ SummedUp(rec'[r].running, readings'[r])
    BY DEF StatsInv, SummaryInv, Averaged
  <2>1. StatsOf(r)' /\ (NoSample(r) \/ SampledLater(r) \/ StartsOver(r))
    BY StatsSteps
  <2>2. /\ r \in Records /\ rec[r].running \in Stat /\ readings[r] \in Seq(AReading)
        /\ SummedUp(rec[r].running, readings[r])
    BY StatsNumbers DEF Base, SummaryInv, TypeInv, TypeOK, Averaged, AReading
  <2>3. CASE NoSample(r)
    BY <2>1, <2>2, <2>3 DEF NoSample
  <2>4. CASE SampledLater(r)
    <3>1. PICK v \in Values \cup {0} :
            \E t \in Nat : t > rec[r].running.totime /\ Sampled(r, v, t)
      BY <2>4 DEF SampledLater
    <3>2. PICK t \in Nat : t > rec[r].running.totime /\ Sampled(r, v, t)
      BY <3>1
    <3>3. SummedUp(RunningStatisticEngine(r, rec[r].running, v, t),
                   Append(readings[r], Reading(r, v, t)))
      BY <2>2, <3>2, EngineSumsUp
    <3> QED  BY <2>1, <3>2, <3>3 DEF Sampled
  <2>5. CASE StartsOver(r)
    BY <2>1, <2>5, NothingSummedUp DEF StartsOver
  <2> QED  BY <2>1, <2>3, <2>4, <2>5
<1>3. Base /\ SummaryInv => RunningIsSummary
  <2> SUFFICES ASSUME Base, SummaryInv, NEW r \in Averaged
               PROVE  rec[r].running = Summary(readings[r])
    BY DEF RunningIsSummary
  <2>1. /\ rec[r].running \in Stat /\ readings[r] \in Seq(AReading)
        /\ SummedUp(rec[r].running, readings[r])
    BY StatsNumbers DEF Base, SummaryInv, TypeInv, TypeOK, Averaged, AReading
  <2> QED  BY <2>1, SummaryIs
<1> QED  BY <1>1, <1>2, <1>3, InitStats, BaseHolds, PTL DEF Spec
================================================================================
