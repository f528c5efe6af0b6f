---------------------------- MODULE DeviceDumpStore ----------------------------
(***************************************************************************)
(* class DeviceDumpStore (fdr_device_dump_store.cpp) for one profile:      *)
(* dump files in the sample directories, the queue of them in memory, and  *)
(* the eviction that keeps them within the budget.  Profiles share nothing *)
(* but the partition, whose free space is left to the caller.              *)
(*                                                                         *)
(* The operators are the steps of store(); DeviceDumpHandler says when     *)
(* they are taken.  A file is named by the directory it is in, the device  *)
(* and the time of the event.                                              *)
(***************************************************************************)
EXTENDS Integers, SequencesExt

CONSTANTS
  Devices,     \* the components of the section the profile names
  Budget       \* Storage.BudgetMB

ASSUME StoreAssumption == IsFiniteSet(Devices) /\ Budget \in Nat

Path == [dir : Nat, device : Devices, time : Nat]

VARIABLES
  dir,         \* the number of the current sample directory
  files,       \* the dump files, as a function from Path to their size
  temps,       \* the paths P for which there is a file P.tmp
  dumpIndex    \* dumpIndex_: what the process believes, oldest first

storeVars == <<dir, files, temps, dumpIndex>>

(* m[k] = v of std::map, whether there is a k already or not.              *)
Put(m, k, v) == [j \in DOMAIN m \cup {k} |-> IF j = k THEN v ELSE m[j]]

(* Operators with a lower case ending behind an underscore stand for a      *)
(* plausible mistake in the code they precede; no run uses them.           *)
buildStoragePath(device, timestamp) ==
  [dir |-> dir, device |-> device, time |-> timestamp]

(* Entries whose file is missing count nothing.                            *)
computeUsedBytes ==
  MapThenSumSet(LAMBDA i : IF dumpIndex[i] \in DOMAIN files
                           THEN files[dumpIndex[i]] ELSE 0,
                DOMAIN dumpIndex)

(* Any order of dumps of the same second can come out of std::sort.        *)
rebuildIndex_currentOnly ==
  dumpIndex' = SetToSortSeq({p \in DOMAIN files : p.dir = dir},
                            LAMBDA a, b : a.time < b.time)
rebuildIndex_unsorted == dumpIndex' \in SetToSeqs(DOMAIN files)
rebuildIndex ==
  dumpIndex' \in {s \in SetToSeqs(DOMAIN files) :
                    IsSorted(s, LAMBDA a, b : a.time <= b.time)}

StoreInit ==
  /\ dir = 0 /\ files = <<>> /\ temps = {} /\ dumpIndex = <<>>

(* The steps of store(): the temporary file, the rename, the eviction.     *)
WriteTemp(p) ==
  /\ temps' = temps \cup {p}
  /\ UNCHANGED <<dir, files, dumpIndex>>

RenameTemp_front(p, size) ==
  /\ temps' = temps \ {p}
  /\ files' = Put(files, p, size)
  /\ dumpIndex' = <<p>> \o dumpIndex
  /\ UNCHANGED dir
RenameTemp(p, size) ==
  /\ temps' = temps \ {p}
  /\ files' = Put(files, p, size)
  /\ dumpIndex' = Append(dumpIndex, p)
  /\ UNCHANGED dir

(* One turn of the loop of enforceEviction.  A file that cannot be removed *)
(* stays, and its entry is dropped all the same.                           *)
mustEvict == dumpIndex # <<>> /\ computeUsedBytes > Budget
evictOldest(removed) ==
  /\ mustEvict
  /\ files' = IF removed THEN Restrict(files, DOMAIN files \ {Head(dumpIndex)})
              ELSE files
  /\ dumpIndex' = Tail(dumpIndex)
  /\ UNCHANGED <<dir, temps>>

RemoveTemp(p) ==
  /\ temps' = temps \ {p}
  /\ UNCHANGED <<dir, files, dumpIndex>>
================================================================================
