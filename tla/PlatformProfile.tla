---------------------------- MODULE PlatformProfile ----------------------------
(***************************************************************************)
(* The search for the profile of the platform, its sanity check and its    *)
(* preconditions (fdr.cpp, ppf_sanity.cpp).  A profile file is a record of *)
(* what the code asks of it: is it a .yaml file, can it be converted, do   *)
(* the commands of its finger print succeed on this platform, can its      *)
(* components be decoded, the ids they use, class by class in the order    *)
(* they are checked, and its preconditions.                                *)
(***************************************************************************)
EXTENDS Integers, Sequences, FiniteSets, SequencesExt

CONSTANTS
  PlatformDirectories, \* what the platforms directory may hold, files sorted
  Threshold,           \* Preconditions.Threshold, in seconds
  PreserveFiles        \* FDR_PRESERVE_PLATFORM_FILES is set

PPF ==
  [yaml : BOOLEAN, parses : BOOLEAN, matches : BOOLEAN, decodes : BOOLEAN,
   redfish : BOOLEAN,
   infos : Seq([class : STRING, id : Nat]),
   checks : Seq([retry : BOOLEAN, exit : BOOLEAN]),
   dumps : Seq([maxRetries : Nat, budget : Nat])]

ASSUME PlatformProfileAssumption ==
  /\ PlatformDirectories \subseteq Seq(PPF)
  /\ Threshold \in Nat
  /\ PreserveFiles \in BOOLEAN

VARIABLES
  files,   \* the platforms directory
  cursor,  \* the file that is tried
  profile, \* the profile converted last
  check,   \* the precondition that is tested
  left,    \* the seconds left to test it
  passed   \* history: the preconditions that this process found to hold

profileVars == <<files, cursor, profile, check, left, passed>>

NoProfile ==
  [yaml |-> FALSE, parses |-> FALSE, matches |-> FALSE, decodes |-> FALSE,
   redfish |-> FALSE,
   infos |-> <<>>, checks |-> <<>>, dumps |-> <<>>]

ProfileInit ==
  /\ files \in PlatformDirectories
  /\ cursor = 1 /\ profile = NoProfile /\ check = 1 /\ left = 0 /\ passed = {}

BeginSearch ==
  /\ cursor' = 1 /\ profile' = NoProfile /\ check' = 1 /\ left' = 0 /\ passed' = {}
  /\ UNCHANGED files

-----------------------------------------------------------------------------
(* FindAndLoadPlatformProfile, one file of the sorted list at a time.      *)
Suits(f) == f.yaml /\ f.parses /\ f.matches

TryNextFile_skipsOne ==
  /\ cursor <= Len(files) /\ ~Suits(files[cursor])
  /\ cursor' = cursor + 2
  /\ UNCHANGED <<files, profile, check, left, passed>>
TryNextFile ==
  /\ cursor <= Len(files) /\ ~Suits(files[cursor])
  /\ cursor' = cursor + 1
  /\ profile' = IF files[cursor].yaml /\ files[cursor].parses THEN files[cursor]
                ELSE profile
  /\ UNCHANGED <<files, check, left, passed>>

FindProfile ==
  /\ cursor <= Len(files) /\ Suits(files[cursor])
  /\ profile' = files[cursor]
  /\ UNCHANGED <<files, cursor, check, left, passed>>

NoProfileFound == cursor > Len(files) /\ UNCHANGED profileVars

(* UniqueParamChecker keeps the class it was last called for and the ids   *)
(* it has seen since, in static variables.  (It is called for the ParamID  *)
(* and for the ID of an info, and keeps the two apart; an id is either.)   *)
UniqueParamChecker_alwaysNew(memory, info) ==
  [class |-> info.class, seen |-> {info.id}, unique |-> memory.unique]
UniqueParamChecker(memory, info) ==
  LET seen == IF memory.class = info.class THEN memory.seen ELSE {}
  IN  [class |-> info.class, seen |-> seen \cup {info.id},
       unique |-> memory.unique /\ info.id \notin seen]

ValidatePPFComponents(p) ==
  FoldLeft(UniqueParamChecker, [class |-> "", seen |-> {}, unique |-> TRUE],
           p.infos).unique

(* The file is read once more, now with its components, which the search   *)
(* never looked at.                                                        *)
SanityTestPPF(p) == p.decodes /\ ValidatePPFComponents(p)

-----------------------------------------------------------------------------
(* ExecutePreconditionRules.  A check is repeated every second until it    *)
(* passes or Threshold seconds are over; one that is not to be retried is  *)
(* repeated only when the command could not be run.                        *)
MoreChecks == check <= Len(profile.checks)
BeginChecks == left' = Threshold /\ UNCHANGED <<files, cursor, profile, check, passed>>

NextCheck == check' = check + 1 /\ left' = Threshold

CheckPasses ==
  /\ MoreChecks /\ left > 0
  /\ NextCheck
  /\ passed' = passed \cup {check}
  /\ UNCHANGED <<files, cursor, profile>>

CheckIsRepeated ==
  /\ MoreChecks /\ left > 0
  /\ left' = left - 1
  /\ UNCHANGED <<files, cursor, profile, check, passed>>

(* The check failed for good.                                              *)
CheckFailed_neverOfRetried ==
  MoreChecks /\ ~profile.checks[check].retry
CheckFailed ==
  MoreChecks /\ (left = 0 \/ ~profile.checks[check].retry)

CheckIsIgnored_anyFailure ==
  /\ CheckFailed
  /\ NextCheck
  /\ UNCHANGED <<files, cursor, profile, passed>>
CheckIsIgnored ==
  /\ CheckFailed /\ ~profile.checks[check].exit
  /\ NextCheck
  /\ UNCHANGED <<files, cursor, profile, passed>>

CheckStopsProcess ==
  /\ CheckFailed /\ profile.checks[check].exit
  /\ UNCHANGED profileVars

ChecksDone == ~MoreChecks /\ UNCHANGED profileVars

-----------------------------------------------------------------------------
(* CleanupPlatformFiles removes the profiles, one file after another.  One *)
(* that cannot be removed stays, and an exception ends the loop.           *)
RemovePlatformFile ==
  /\ ~PreserveFiles
  /\ \E i \in 1..Len(files) : files' = RemoveAt(files, i)
  /\ UNCHANGED <<cursor, profile, check, left, passed>>

CleanupDone == UNCHANGED profileVars

(* An update of the firmware puts profiles in place.                       *)
InstallProfiles ==
  /\ files' \in PlatformDirectories
  /\ UNCHANGED <<cursor, profile, check, left, passed>>

-----------------------------------------------------------------------------
(* initDeviceDumpHandler: no profile retries more than ten times, and what *)
(* all may store fits into the partition.                                  *)
kMaxRetriesCeiling == 10
DumpConfigIsSound(p, allotment) ==
  /\ \A i \in 1..Len(p.dumps) : p.dumps[i].maxRetries <= kMaxRetriesCeiling
  /\ FoldLeft(LAMBDA total, d : total + d.budget, 0, p.dumps) <= allotment
================================================================================
