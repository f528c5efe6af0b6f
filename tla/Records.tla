-------------------------------- MODULE Records --------------------------------
(***************************************************************************)
(* The records: how a value of the platform is fetched, stored in the      *)
(* sample file and summed up in the running statistics (fdr_record.cpp,    *)
(* fdr_grp_update.cpp, the timers of fdr_timers.cpp and the callbacks of   *)
(* fdr.cpp they run).                                                      *)
(*                                                                         *)
(* A record is polled by a timer of its own or with its group, or it is    *)
(* told of changes by a D-Bus signal and stored by another timer.  Two     *)
(* more timers write the running statistics: the sub window and the window *)
(* that also opens the next sample directory.  All of them are callbacks   *)
(* of one event loop; a poll blocks it, so `pc' is where the poll of       *)
(* Current stands.                                                         *)
(***************************************************************************)
EXTENDS Integers, SequencesExt

CONSTANTS
  RecList,    \* the records, in the order of the profile
  Info,       \* their Info_t, and the CompactionMethod of their group
  Values,     \* what the platform may report
  SubWindow,  \* GeneralConfig.CompactionSubWindowSecs
  Window,     \* GeneralConfig.CompactionWindowSecs
  StartTime,  \* the clock at start up
  MaxTime,    \* bound: the clock stops here
  Hazards     \* what the environment may do

Records == ToSet(RecList)
HazardNames ==
  { "readFails",     \* a property cannot be read, a key is missing
    "readThrows",    \* the command or the accessor throws
    "badValue",      \* a value of the wrong type, or not a number
    "slowRead" }     \* a read blocks the loop for seconds

FetchTypes == {"Poll", "GroupPoll", "Subscribe"}
StorePolicies == {"OnChange", "EveryFetch", "Periodic", "Other"}
DataTypes == {"Uint64", "Double", "string"}

(* The clock starts late enough that a record which was never stored, at   *)
(* the epoch, counts as stored long ago.                                   *)
ASSUME RecordsAssumption ==
  /\ RecList \in Seq(Records) /\ IsInjective(RecList)
  /\ DOMAIN Info = Records
  /\ \A r \in Records :
       /\ Info[r].FetchType \in FetchTypes
       /\ Info[r].StorePolicy \in StorePolicies
       /\ Info[r].DataType \in DataTypes
       /\ Info[r].FetchFreqSecs \in 1..StartTime
       /\ Info[r].StoreFreqSecs \in 1..StartTime
       /\ Info[r].CompactionMethod \in {"Average", "Discard"}
  /\ Values \subseteq Nat
  /\ SubWindow \in Nat \ {0} /\ Window \in Nat \ {0}
  /\ StartTime \in Nat /\ MaxTime \in Nat
  /\ Hazards \subseteq HazardNames

(* Answers of the platform that are not values.                            *)
Missing == -1
Bad == -2
NoValue == -1

Averaged == {r \in Records : Info[r].CompactionMethod = "Average"}

(* The timers of InitTimerEvents, by what they do and their period.        *)
TimerOf(r) ==
  CASE Info[r].FetchType = "Poll" -> <<"Poll", Info[r].FetchFreqSecs>>
    [] Info[r].FetchType = "GroupPoll" -> <<"GroupPoll", Info[r].FetchFreqSecs>>
    [] Info[r].FetchType = "Subscribe" -> <<"Store", Info[r].StoreFreqSecs>>
Timers == {TimerOf(r) : r \in Records}
          \cup {<<"SubWindow", SubWindow>>, <<"Window", Window>>}
RecordsOf(t) == {r \in Records : TimerOf(r) = t}

VARIABLES
  now,       \* std::time(nullptr)
  pc,        \* "start", "next", "read", "arm" or "idle"
  todo,      \* the records the poll callback has still to refresh
  dir,       \* the time the current sample directory was opened
  due,       \* when each timer fires; none before they are armed
  rec,       \* the Record objects; `turnedDown' is history: how often in a
             \* row Store has skipped an EveryFetch record
  told,      \* history: what the platform reported last of each record
  readings,  \* history: what was averaged since the last statistics record
  stat       \* the last record in the statistics file of each record

vars == <<now, pc, todo, dir, due, rec, told, readings, stat>>

(* The records of a list are refreshed in the order of the profile.        *)
Current ==
  RecList[CHOOSE i \in DOMAIN RecList :
            /\ RecList[i] \in todo
            /\ \A j \in DOMAIN RecList : RecList[j] \in todo => i <= j]

-----------------------------------------------------------------------------
(* Operators whose name ends in lower case behind an underscore stand for  *)
(* a plausible mistake in the code they precede; no run uses them.         *)

(* ResetRunningStat: fdr_stat with every field cleared; avg holds the sum. *)
NoStat ==
  [numsamples |-> 0, avg |-> 0, min |-> 0, max |-> 0, minvaltimestamp |-> 0,
   maxvaltimestamp |-> 0, fromtime |-> 0, totime |-> 0]

ResetRunningStat_keepsFrom(s) == [NoStat EXCEPT !.fromtime = s.fromtime]
ResetRunningStat(s) == NoStat

(* Strings are averaged like numbers: as zeros.                            *)
currentRecValue(r, v) == IF Info[r].DataType = "string" THEN 0 ELSE v

RunningStatisticEngine(r, s, v, t) ==
  LET x == currentRecValue(r, v)
      newMin == s.minvaltimestamp = 0 \/ x <= s.min
      newMax == s.maxvaltimestamp = 0 \/ x >= s.max
  IN  [numsamples |-> s.numsamples + 1,
       avg |-> s.avg + x,
       min |-> IF newMin THEN x ELSE s.min,
       max |-> IF newMax THEN x ELSE s.max,
       minvaltimestamp |-> IF newMin THEN t ELSE s.minvaltimestamp,
       maxvaltimestamp |-> IF newMax THEN t ELSE s.maxvaltimestamp,
       fromtime |-> IF s.fromtime = 0 THEN t ELSE s.fromtime,
       totime |-> t]

(* The average, in thousandths, rounded.                                   *)
average(s) == (2000 * s.avg + s.numsamples) \div (2 * s.numsamples)

(* Only Uint64 values are compared as such; a type that is not kept as a   *)
(* string compares the empty strings of both.  The very first comparison   *)
(* of the process fails whatever it compares, and so does that with a      *)
(* record never stored, which has no type.                                 *)
same_data_values(r, x) ==
  /\ x.lastStored # NoValue
  /\ Info[r].DataType \in {"Uint64", "string"} => x.value = x.lastStored

(* Record::Store at time t.  FDRStore::append reports nothing: a sample    *)
(* that could not be written is taken for stored all the same, so these    *)
(* fields are what was handed to the store.                                *)
mustStore(r, x, t) ==
  CASE Info[r].StorePolicy = "OnChange" -> ~same_data_values(r, x)
    [] Info[r].StorePolicy = "EveryFetch" ->
         x.lastFetchedAt - x.lastStoredAt >= Info[r].FetchFreqSecs
    [] Info[r].StorePolicy = "Periodic" ->
         t - x.lastStoredAt >= Info[r].StoreFreqSecs
    [] Info[r].StorePolicy = "Other" -> TRUE
Store(r, x, t) ==
  IF mustStore(r, x, t)
  THEN [x EXCEPT !.lastStored = x.value, !.lastStoredAt = t, !.turnedDown = 0]
  ELSE [x EXCEPT !.turnedDown = IF Info[r].StorePolicy = "EveryFetch" THEN @ + 1 ELSE 0]

(* The start of every refresh: the times are taken before the value.       *)
Fetched_timestampOnly(x, t) == [x EXCEPT !.timestamp = t]
Fetched(x, t) == [x EXCEPT !.timestamp = t, !.lastFetchedAt = t]

(* A value v is there: it is kept and averaged.                            *)
Consume(r, x, v) ==
  [x EXCEPT !.value = v,
            !.running = IF r \in Averaged
                        THEN RunningStatisticEngine(r, @, v, x.timestamp) ELSE @]

-----------------------------------------------------------------------------
Init ==
  /\ now = StartTime /\ dir = StartTime
  /\ pc = "start" /\ todo = {} /\ due = <<>>
  /\ rec = [r \in Records |->
              [value |-> 0, timestamp |-> 0, lastFetchedAt |-> 0, lastStored |-> NoValue,
               lastStoredAt |-> 0, running |-> NoStat, turnedDown |-> 0]]
  /\ told = [r \in Records |-> NoValue]
  /\ readings = [r \in Records |-> <<>>]
  /\ stat = [r \in Records |-> [dir |-> 0, record |-> NoStat]]

(* Histories: the records of `heard' got these answers, as of these times. *)
Reading(r, v, t) == [time |-> t, value |-> currentRecValue(r, v)]
Hear(answers, heard, times) ==
  /\ told' = [r \in Records |-> IF r \in heard THEN answers[r] ELSE told[r]]
  /\ readings' = [r \in Records |->
       IF r \in heard \cap Averaged
       THEN Append(readings[r], Reading(r, answers[r], times[r]))
       ELSE readings[r]]

-----------------------------------------------------------------------------
(* FdrGrpUpdate::RefreshAndStore: the whole group is read at once.  A key  *)
(* that is missing is passed over; a value that is not a number leaves the *)
(* old one with a new time, and goes through Store.                        *)
Answers(group) ==
  {answers \in [group -> Values \cup {Missing, Bad}] :
     \A r \in group :
       /\ answers[r] = Missing => "readFails" \in Hazards
       /\ answers[r] = Bad => "badValue" \in Hazards /\ Info[r].DataType # "string"}
RefreshValue(r, x, v) ==
  IF v = Bad THEN Fetched(x, now) ELSE Consume(r, Fetched(x, now), v)
RefreshAndStoreGroup(group) ==
  \E answers \in Answers(group) :
    /\ rec' = [r \in Records |->
                 IF r \in group /\ answers[r] # Missing
                 THEN Store(r, RefreshValue(r, rec[r], answers[r]), now) ELSE rec[r]]
    /\ Hear(answers, {r \in group : answers[r] \in Values}, [r \in Records |-> now])

(* CollectAndArchieveBirthCertificate: every group, then every record.     *)
CollectAndArchieveBirthCertificate ==
  /\ pc = "start"
  /\ RefreshAndStoreGroup({r \in Records : Info[r].FetchType = "GroupPoll"})
  /\ todo' = Records /\ pc' = IF Records = {} THEN "arm" ELSE "next"
  /\ UNCHANGED <<now, dir, due, stat>>

InitTimerEvents ==
  /\ pc = "arm"
  /\ due' = [t \in Timers |-> now + t[2]]
  /\ pc' = "idle"
  /\ UNCHANGED <<now, todo, dir, rec, told, readings, stat>>

-----------------------------------------------------------------------------
(* The poll callback: RefreshAndStore, for one record after the other      *)

(* A timer that is due is armed again for its period and does its work.    *)
Fire(t) ==
  /\ pc = "idle" /\ t \in DOMAIN due /\ now >= due[t]
  /\ due' = [due EXCEPT ![t] = now + t[2]]

PollRecordTimer(t) ==
  /\ t[1] = "Poll" /\ Fire(t)
  /\ todo' = RecordsOf(t) /\ pc' = "next"
  /\ UNCHANGED <<now, dir, rec, told, readings, stat>>

(* Record::Refresh up to the call that reads the value                     *)
Refresh ==
  /\ pc = "next"
  /\ rec' = [rec EXCEPT ![Current] = Fetched(@, now)]
  /\ pc' = "read"
  /\ UNCHANGED <<now, todo, dir, due, told, readings, stat>>

Continue_pastEnd ==
  /\ todo' = todo \ {Current}
  /\ pc' = IF due = <<>> /\ todo' = {} THEN "arm" ELSE "next"
Continue ==
  /\ todo' = todo \ {Current}
  /\ pc' = IF todo' # {} THEN "next" ELSE IF due = <<>> THEN "arm" ELSE "idle"

(* The value is there, and the record goes through Store.                  *)
RefreshSucceeds ==
  LET r == Current IN
  /\ pc = "read" /\ Info[r].FetchType # "GroupPoll"
  /\ \E v \in Values :
       /\ rec' = [rec EXCEPT ![r] = Store(r, Consume(r, @, v), now)]
       /\ Hear([x \in {r} |-> v], {r}, [x \in {r} |-> rec[x].timestamp])
  /\ Continue
  /\ UNCHANGED <<now, dir, due, stat>>

(* It is not, as for every record of a group: the record goes through      *)
(* Store with the old value.                                               *)
RefreshFails ==
  LET r == Current IN
  /\ pc = "read" /\ (Info[r].FetchType = "GroupPoll" \/ "readFails" \in Hazards)
  /\ rec' = [rec EXCEPT ![r] = Store(r, @, now)]
  /\ Continue
  /\ UNCHANGED <<now, dir, due, told, readings, stat>>

(* A string record reads something else: it keeps the old string, which is *)
(* averaged all the same.                                                  *)
RefreshKeepsString ==
  LET r == Current IN
  /\ pc = "read" /\ "badValue" \in Hazards
  /\ Info[r].FetchType # "GroupPoll" /\ Info[r].DataType = "string"
  /\ rec' = [rec EXCEPT ![r] = Store(r, Consume(r, @, @.value), now)]
  /\ readings' = IF r \in Averaged
                 THEN [readings EXCEPT ![r] = Append(@, Reading(r, 0, rec[r].timestamp))]
                 ELSE readings
  /\ Continue
  /\ UNCHANGED <<now, dir, due, told, stat>>

(* Refresh throws; the next record follows.                                *)
RefreshThrows ==
  /\ pc = "read" /\ "readThrows" \in Hazards
  /\ Info[Current].FetchType # "GroupPoll"
  /\ Continue
  /\ UNCHANGED <<now, dir, due, rec, told, readings, stat>>

GroupPollRecordTimer(t) ==
  /\ t[1] = "GroupPoll" /\ Fire(t)
  /\ RefreshAndStoreGroup(RecordsOf(t))
  /\ UNCHANGED <<now, pc, todo, dir, stat>>

-----------------------------------------------------------------------------
(* Records that are told of changes                                        *)

(* refreshDataCallback                                                     *)
refreshDataCallback(x, v) == [Fetched(x, now) EXCEPT !.value = v]

(* dbusEventHandlerCallback, for a signal about some of the records.  Zero *)
(* and the empty string are dropped.  The properties come in the order of  *)
(* their names; one of a type that is not handled ends the loop, so that   *)
(* any of the others may have been seen to before it.                      *)
dbusEventHandlerCallback_onceOnly(changes, seen) ==
  rec' = [r \in Records |->
            IF r \in seen /\ changes[r] # 0 /\ rec[r].value = 0
            THEN refreshDataCallback(rec[r], changes[r]) ELSE rec[r]]
dbusEventHandlerCallback(changes, seen) ==
  rec' = [r \in Records |->
            IF r \in seen /\ changes[r] # 0
            THEN refreshDataCallback(rec[r], changes[r]) ELSE rec[r]]

PropertiesChanged ==
  /\ pc = "idle"
  /\ \E about \in SUBSET {r \in Records : Info[r].FetchType = "Subscribe"} :
       \E changes \in [about -> Values \cup (IF "badValue" \in Hazards THEN {Bad} ELSE {})] :
         LET good == {r \in about : changes[r] # Bad} IN
         /\ about # {}
         /\ \E seen \in SUBSET good :
              /\ good = about => seen = good
              /\ dbusEventHandlerCallback(changes, seen)
              /\ told' = [r \in Records |-> IF r \in seen THEN changes[r] ELSE told[r]]
  /\ UNCHANGED <<now, pc, todo, dir, due, readings, stat>>

(* SubscribeStoreRecordTimerCBEngine                                       *)
SubscribeStoreRecordTimer(t) ==
  /\ t[1] = "Store" /\ Fire(t)
  /\ rec' = [r \in Records |-> IF TimerOf(r) = t THEN Store(r, rec[r], now) ELSE rec[r]]
  /\ UNCHANGED <<now, pc, todo, dir, told, readings, stat>>

-----------------------------------------------------------------------------
(* Statistics                                                              *)

(* CheckCompactionSubWindowExpiry: every averaged record that has samples  *)
(* appends its statistics, and all of them start over.                     *)
appendRunningStatToStatfile(s, old) ==
  IF s.numsamples = 0 THEN old
  ELSE [dir |-> dir, record |-> [s EXCEPT !.avg = average(s)]]

CheckCompactionSubWindowExpiry ==
  /\ stat' = [r \in Records |->
       IF r \in Averaged THEN appendRunningStatToStatfile(rec[r].running, stat[r])
       ELSE stat[r]]
  /\ rec' = [r \in Records |->
       IF r \in Averaged THEN [rec[r] EXCEPT !.running = ResetRunningStat(@)]
       ELSE rec[r]]
  /\ readings' = [r \in Records |-> <<>>]

CompactionSubWindowTimer ==
  /\ Fire(<<"SubWindow", SubWindow>>)
  /\ CheckCompactionSubWindowExpiry
  /\ UNCHANGED <<now, pc, todo, dir, told>>

(* Compactor: what is left of the statistics goes to the old directory     *)
(* before the records are given files in the new one.                      *)
CompactionWindowTimer_noStatistics ==
  /\ Fire(<<"Window", Window>>)
  /\ dir' = now
  /\ UNCHANGED <<now, pc, todo, rec, told, readings, stat>>
CompactionWindowTimer ==
  /\ Fire(<<"Window", Window>>)
  /\ CheckCompactionSubWindowExpiry
  /\ dir' = now
  /\ UNCHANGED <<now, pc, todo, told>>

(* The loop is never late, but for reads that block it; all the reads of   *)
(* one poll together take less than its period.                            *)
Tick ==
  /\ now < MaxTime
  /\ \/ pc = "idle" /\ \A t \in DOMAIN due : now < due[t]
     \/ /\ pc = "read" /\ "slowRead" \in Hazards /\ due # <<>>
        /\ now + 1 < due[TimerOf(Current)]
  /\ now' = now + 1
  /\ UNCHANGED <<pc, todo, dir, due, rec, told, readings, stat>>

-----------------------------------------------------------------------------
Next ==
  \/ CollectAndArchieveBirthCertificate \/ InitTimerEvents
  \/ Refresh
  \/ RefreshSucceeds \/ RefreshFails \/ RefreshKeepsString \/ RefreshThrows
  \/ \E t \in Timers :
       PollRecordTimer(t) \/ GroupPollRecordTimer(t) \/ SubscribeStoreRecordTimer(t)
  \/ PropertiesChanged
  \/ CompactionSubWindowTimer \/ CompactionWindowTimer
  \/ Tick

Spec == Init /\ [][Next]_vars

-----------------------------------------------------------------------------
Stat == [numsamples : Nat, avg : Nat, min : Nat, max : Nat, minvaltimestamp : Nat,
         maxvaltimestamp : Nat, fromtime : Nat, totime : Nat]
RecordObject ==
  [value : Values \cup {0}, timestamp : Nat, lastFetchedAt : Nat,
   lastStored : Values \cup {0, NoValue}, lastStoredAt : Nat, running : Stat,
   turnedDown : Nat]

(* Types: what each variable may hold.                                     *)
TypeOK ==
  /\ now \in Nat /\ dir \in Nat
  /\ pc \in {"start", "next", "read", "arm", "idle"}
  /\ todo \subseteq Records /\ (todo # {} <=> pc \in {"next", "read"})
  /\ due = <<>> \/ due \in [Timers -> Nat]
  /\ rec \in [Records -> RecordObject]
  /\ told \in [Records -> Values \cup {NoValue}]
  /\ readings \in [Records -> Seq([time : Nat, value : Values \cup {0}])]
  /\ DOMAIN stat = Records

(* What a statistics record says of a series of readings.                  *)
Summary(s) ==
  LET times(v) == {s[i].time : i \in {j \in DOMAIN s : s[j].value = v}}
      values == {s[i].value : i \in DOMAIN s}
      least == CHOOSE v \in values : \A w \in values : v <= w
      most == CHOOSE v \in values : \A w \in values : v >= w
      latest(v) == CHOOSE t \in times(v) : \A u \in times(v) : t >= u
  IN  IF s = <<>> THEN NoStat
      ELSE [numsamples |-> Len(s), avg |-> FoldSeq(LAMBDA x, n : x.value + n, 0, s),
            min |-> least, minvaltimestamp |-> latest(least),
            max |-> most, maxvaltimestamp |-> latest(most),
            fromtime |-> s[1].time, totime |-> s[Len(s)].time]

(* The running statistics, kept field by field from one sample to the      *)
(* next and cleared by two different timers, always sum up exactly the     *)
(* readings since the last statistics record.                              *)
RunningIsSummary == \A r \in Averaged : rec[r].running = Summary(readings[r])

(* A statistics record goes into the directory its samples were taken for, *)
(* whichever of the two windows ends first, and does not overlap with the  *)
(* record before it.                                                       *)
StatsStayInTheirDirectory ==
  [][\A r \in Averaged : stat'[r] # stat[r] =>
        /\ stat'[r].record.fromtime >= stat'[r].dir
        /\ stat'[r].record.fromtime > stat[r].record.totime
        /\ stat'[r].record.totime <= now]_vars

(* Wherever a record is stored when it changes, the last sample handed to  *)
(* the store, which is the last one in the file unless that could not be   *)
(* written, is what the platform reported last: once Store has been called,*)
(* no change is outstanding, after failed and odd answers too.             *)
StoreCalled(r) ==
  \/ pc = "read" /\ Current = r /\ pc' # "read"
  \/ TimerOf(r)[1] # "Poll" /\ TimerOf(r) \in DOMAIN due
     /\ due'[TimerOf(r)] # due[TimerOf(r)]
FileHasLatest ==
  [][\A r \in Records :
        Info[r].StorePolicy = "OnChange" /\ StoreCalled(r) /\ told'[r] # NoValue
          => rec'[r].lastStored = told'[r]]_vars

(* EveryFetch compares the time of the fetch with that of the last store,  *)
(* which is later when the read took time.  A record that is polled may    *)
(* then skip a fetch, but never two in a row.                              *)
NoTwoFetchesSkipped ==
  \A r \in Records : Info[r].FetchType # "Subscribe" => rec[r].turnedDown <= 1
================================================================================
