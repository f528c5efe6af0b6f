------------------------------- MODULE MCRecords -------------------------------
(* Small profiles for the runs of Records.                                 *)
EXTENDS Records

InfoOf(fetch, policy, type, fetchFreq, storeFreq, method) ==
  [FetchType |-> fetch, StorePolicy |-> policy, DataType |-> type,
   FetchFreqSecs |-> fetchFreq, StoreFreqSecs |-> storeFreq,
   CompactionMethod |-> method]

(* A sensor polled by itself, a counter polled with its group, and a state *)
(* that is subscribed to.                                                  *)
MixedRecList == <<"temperature", "clock", "state">>
MixedInfo ==
  [temperature |-> InfoOf("Poll", "EveryFetch", "Double", 2, 2, "Average"),
   clock |-> InfoOf("GroupPoll", "OnChange", "Uint64", 3, 3, "Average"),
   state |-> InfoOf("Subscribe", "OnChange", "string", 3, 3, "Average")]

(* A sensor as the profiles of the newer platforms have it.                *)
DoubleRecList == <<"power">>
DoubleInfo == [power |-> InfoOf("Poll", "OnChange", "Double", 1, 1, "Average")]
================================================================================
