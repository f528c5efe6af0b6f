-------------------------------- MODULE StartUp --------------------------------
(***************************************************************************)
(* The start of the recorder up to the boot counter (the constructor of    *)
(* FlightDataRecorder_c, main.cpp): profile, sanity check, Redfish client, *)
(* preconditions, removal of the profiles, disk check; and the end of the  *)
(* process, by its own decision or not, and its next start.                *)
(***************************************************************************)
EXTENDS PlatformProfile, RedfishClient

CONSTANTS
  Allotment,  \* the partition less PartitionThresoldCheckMB
  MaxStarts   \* bound: how often the process is started

ASSUME StartUpAssumption == Allotment \in Nat /\ MaxStarts \in Nat

VARIABLES
  pc,      \* where the process stands
  reason,  \* why it called exit()
  starts   \* how often it was started

startVars == <<pc, reason, starts, profileVars, redfishVars>>

Reasons == {"none", "noProfile", "unreadable", "insane", "precondition",
            "diskFull", "dumpConfig"}

StartInit ==
  /\ ProfileInit /\ RedfishInit
  /\ pc = "down" /\ reason = "none" /\ starts = 0

(* What a step does to the process: it goes on at `place', or it exits.    *)
Continue(place) == pc' = place /\ UNCHANGED <<reason, starts>>
ExitFor(cause) == pc' = "exit" /\ reason' = cause /\ UNCHANGED starts

-----------------------------------------------------------------------------
StartProcess ==
  /\ pc = "down" /\ starts < MaxStarts
  /\ BeginSearch /\ ForgetClient
  /\ pc' = "search" /\ reason' = "none" /\ starts' = starts + 1

SearchProfile ==
  /\ pc = "search"
  /\ \/ TryNextFile /\ Continue("search")
     \/ FindProfile /\ Continue("sanity")
     \/ NoProfileFound /\ ExitFor("noProfile")
  /\ UNCHANGED redfishVars

(* The file is read again for the check, and may not be readable any more. *)
CheckSanity ==
  /\ pc = "sanity"
  /\ \/ SanityTestPPF(profile) /\ Continue("client")
     \/ ~SanityTestPPF(profile) /\ ExitFor("insane")
     \/ ExitFor("unreadable")
  /\ UNCHANGED <<profileVars, redfishVars>>

ConnectRedfish ==
  /\ pc = "client"
  /\ IF profile.redfish THEN CreateClient ELSE UNCHANGED redfishVars
  /\ BeginChecks
  /\ Continue("precheck")

ExecutePreconditionRules ==
  /\ pc = "precheck"
  /\ \/ (CheckPasses \/ CheckIsRepeated \/ CheckIsIgnored) /\ Continue("precheck")
     \/ CheckStopsProcess /\ ExitFor("precondition")
     \/ ChecksDone /\ Continue("cleanup")
  /\ UNCHANGED redfishVars

CleanupPlatformFiles ==
  /\ pc = "cleanup"
  /\ \/ RemovePlatformFile /\ Continue("cleanup")
     \/ CleanupDone /\ Continue("disk")
  /\ UNCHANGED redfishVars

(* Also when the compaction sub window expires.                            *)
CheckFdrPartitionDiskUsageAndExit ==
  /\ \/ pc = "disk" /\ Continue("dumps")
     \/ pc \in {"disk", "run"} /\ ExitFor("diskFull")
  /\ UNCHANGED <<profileVars, redfishVars>>

initDeviceDumpHandler ==
  /\ pc = "dumps"
  /\ IF DumpConfigIsSound(profile, Allotment) THEN Continue("run")
     ELSE ExitFor("dumpConfig")
  /\ UNCHANGED <<profileVars, redfishVars>>

RefreshRedfishRecord ==
  /\ pc = "run"
  /\ Query \/ QueryEnds \/ QueryIsRejected \/ LoginAgain
  /\ UNCHANGED <<pc, reason, starts, profileVars>>

Exit ==
  /\ pc = "exit"
  /\ pc' = "down"
  /\ UNCHANGED <<reason, starts, profileVars, redfishVars>>

-----------------------------------------------------------------------------
ProcessDies ==
  /\ pc \notin {"down", "exit"}
  /\ pc' = "down"
  /\ UNCHANGED <<reason, starts, profileVars, redfishVars>>

ServerEndsSession ==
  /\ SessionEnds
  /\ UNCHANGED <<pc, reason, starts, profileVars>>

FirmwareUpdate ==
  /\ pc = "down" /\ InstallProfiles
  /\ UNCHANGED <<pc, reason, starts, redfishVars>>

Program ==
  \/ SearchProfile \/ CheckSanity \/ ConnectRedfish \/ ExecutePreconditionRules
  \/ CleanupPlatformFiles \/ CheckFdrPartitionDiskUsageAndExit
  \/ initDeviceDumpHandler \/ Exit

StartNext ==
  \/ StartProcess \/ Program \/ RefreshRedfishRecord
  \/ ProcessDies \/ ServerEndsSession \/ FirmwareUpdate

StartSpec == StartInit /\ [][StartNext]_startVars

(* The constructor is one thread that does not stop between two steps; no  *)
(* command is assumed ever to succeed.                                     *)
FairStartSpec == StartSpec /\ WF_startVars(Program /\ pc # "run")

-----------------------------------------------------------------------------
StartTypeOK ==
  /\ pc \in {"down", "search", "sanity", "client", "precheck", "cleanup",
             "disk", "dumps", "run", "exit"}
  /\ reason \in Reasons /\ starts \in 0..MaxStarts
  /\ cursor \in 1..Len(files) + 1 \/ pc \notin {"search", "sanity"}
  /\ check \in Nat /\ left \in 0..Threshold
  /\ rfc \in BOOLEAN /\ sessions \subseteq 1..opened
  /\ token \in 0..opened /\ inherited \in 0..opened
  /\ request \in {"none", "get", "login", "again"}

accepted == pc \in {"client", "precheck", "cleanup", "disk", "dumps", "run"}

(* Two equal ids in one class with nothing of another class between them.  *)
HasDuplicate(p) ==
  \E i, j \in 1..Len(p.infos) :
    /\ i < j /\ p.infos[i] = p.infos[j]
    /\ \A k \in i..j : p.infos[k].class = p.infos[i].class

(* The recorder works with the first profile in the order of the names     *)
(* that suits the platform.  It goes past the sanity check only when all   *)
(* components can be decoded and no class uses an id twice in a row of its *)
(* own, and if the file can be read the check fails for no other reason.   *)
ProfileIsRight ==
  /\ pc \in {"sanity", "client", "precheck"} =>
       /\ Suits(profile) /\ profile = files[cursor]
       /\ \A i \in 1..(cursor - 1) : ~Suits(files[i])
  /\ accepted => profile.decodes /\ ~HasDuplicate(profile)
  /\ reason = "insane" /\ pc = "exit" => ~profile.decodes \/ HasDuplicate(profile)

(* Past the preconditions, each one whose failure is to stop the recorder  *)
(* was found to hold by this very process, whatever the retries did.       *)
RequiredChecksHeld ==
  pc \in {"cleanup", "disk", "dumps", "run"} =>
    \A i \in 1..Len(profile.checks) : profile.checks[i].exit => i \in passed

(* The client never gives up a session that is still open: every open      *)
(* session of this process is the one it uses, or one it was never told of *)
(* because the answer to its login was lost.                               *)
SessionsAreHeld ==
  \A s \in sessions :
    pc # "down" /\ s > inherited => s = token \/ s \in unanswered

(* The start comes to an end, with the recorder running or stopped, however*)
(* often the checks fail: "Each check should be tried for a threshold      *)
(* limit".                                                                 *)
StartUpEnds == pc \notin {"down", "run"} ~> pc \in {"down", "run"}
================================================================================
