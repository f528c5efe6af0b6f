----------------------------- MODULE StartUpProofs -----------------------------
(***************************************************************************)
(* What holds of every start, for every set of profiles, number of starts  *)
(* and of sessions: the required preconditions were found to hold, no      *)
(* session that is open is given up, the sanity check is exact, and the    *)
(* profile is the right one.                                               *)
(***************************************************************************)
EXTENDS StartUp, SumProofs, TLAPS

Places == {"down", "search", "sanity", "client", "precheck", "cleanup",
           "disk", "dumps", "run", "exit"}

(* Types; that the search stays within the directory is part of StartTypeOK.*)
TypeInv ==
  /\ pc \in Places /\ reason \in Reasons /\ starts \in 0..MaxStarts
  /\ files \in Seq(PPF) /\ profile \in PPF
  /\ cursor \in 1..Len(files) + 1 \/ pc \notin {"search", "sanity"}
  /\ check \in Nat /\ left \in 0..Threshold

SessionTypes ==
  /\ rfc \in BOOLEAN /\ opened \in Nat
  /\ \A s \in sessions : s \in Nat /\ 1 <= s /\ s <= opened
  /\ token \in Nat /\ token <= opened /\ inherited \in Nat /\ inherited <= opened
  /\ request \in {"none", "get", "login", "again"}

-----------------------------------------------------------------------------
(* Profile and preconditions                                               *)

LEMMA NoProfileIsPPF == NoProfile \in PPF
<1>1. /\ <<>> \in Seq([class : STRING, id : Nat])
      /\ <<>> \in Seq([retry : BOOLEAN, exit : BOOLEAN])
      /\ <<>> \in Seq([maxRetries : Nat, budget : Nat])
  OBVIOUS
<1> QED  BY <1>1 DEF NoProfile, PPF

LEMMA FewerFiles ==
  ASSUME NEW s \in Seq(PPF), NEW i \in 1..Len(s)
  PROVE  RemoveAt(s, i) \in Seq(PPF)
<1>1. SubSeq(s, 1, i - 1) \in Seq(PPF)
  OBVIOUS
<1>2. SubSeq(s, i + 1, Len(s)) \in Seq(PPF)
  OBVIOUS
<1> QED  BY <1>1, <1>2 DEF RemoveAt

(* While the process searches it has tested nothing; then the checks below *)
(* the current one are done, and past them all of them.                    *)
ChecksInv ==
  /\ TypeInv
  /\ pc \in {"search", "sanity", "client"} => check = 1
  /\ pc = "precheck" =>
       \A i \in 1..Len(profile.checks) :
         i < check /\ profile.checks[i].exit => i \in passed
  /\ RequiredChecksHeld

(* Steps that leave the profile and the checks alone.                      *)
LEMMA ChecksUntouched ==
  ASSUME ChecksInv, UNCHANGED profileVars, TypeInv',
         \/ pc' \in {"down", "exit", pc}
         \/ pc = "cleanup" /\ pc' = "disk"
         \/ pc = "disk" /\ pc' = "dumps"
         \/ pc = "dumps" /\ pc' = "run"
         \/ pc = "sanity" /\ pc' = "client"
  PROVE  ChecksInv'
  BY DEF ChecksInv, RequiredChecksHeld, profileVars

LEMMA PlainSteps ==
  ASSUME ChecksInv, UNCHANGED profileVars,
         \/ CheckSanity \/ CheckFdrPartitionDiskUsageAndExit \/ initDeviceDumpHandler
         \/ RefreshRedfishRecord \/ Exit \/ ProcessDies \/ ServerEndsSession
         \/ UNCHANGED startVars
  PROVE  ChecksInv'
<1> USE DEF TypeInv, Places, Reasons, Continue, ExitFor, profileVars
<1>0. TypeInv
  BY DEF ChecksInv
<1>1. CASE CheckSanity
  <2>1. TypeInv'
    BY <1>0, <1>1 DEF CheckSanity
  <2>2. pc = "sanity" /\ pc' \in {"client", "exit"}
    BY <1>0, <1>1 DEF CheckSanity
  <2> QED  BY <2>1, <2>2, ChecksUntouched
<1>2. CASE CheckFdrPartitionDiskUsageAndExit
  <2>1. TypeInv'
    BY <1>0, <1>2 DEF CheckFdrPartitionDiskUsageAndExit
  <2>2. pc' = "exit" \/ (pc = "disk" /\ pc' = "dumps")
    BY <1>0, <1>2 DEF CheckFdrPartitionDiskUsageAndExit
  <2> QED  BY <2>1, <2>2, ChecksUntouched
<1>3. CASE initDeviceDumpHandler
  <2>1. TypeInv'
    BY <1>0, <1>3 DEF initDeviceDumpHandler
  <2>2. pc' = "exit" \/ (pc = "dumps" /\ pc' = "run")
    BY <1>0, <1>3 DEF initDeviceDumpHandler
  <2> QED  BY <2>1, <2>2, ChecksUntouched
<1>4. CASE RefreshRedfishRecord \/ ServerEndsSession \/ UNCHANGED startVars
  <2>1. TypeInv' /\ pc' = pc
    BY <1>0, <1>4 DEF RefreshRedfishRecord, ServerEndsSession, startVars
  <2> QED  BY <2>1, ChecksUntouched
<1>5. CASE Exit \/ ProcessDies
  <2>1. TypeInv' /\ pc' = "down"
    BY <1>0, <1>5 DEF Exit, ProcessDies
  <2> QED  BY <2>1, ChecksUntouched
<1> QED  BY <1>1, <1>2, <1>3, <1>4, <1>5

LEMMA SearchSteps ==
  ASSUME ChecksInv, StartProcess \/ SearchProfile \/ ConnectRedfish
  PROVE  ChecksInv'
<1> USE DEF ChecksInv, TypeInv, Places, Reasons, Continue, ExitFor, RequiredChecksHeld
<1>1. CASE StartProcess
  <2>1. 1 \in 1..Len(files) + 1
    OBVIOUS
  <2>2. starts' \in 0..MaxStarts
    BY <1>1, StartUpAssumption DEF StartProcess
  <2> QED
    BY <1>1, <2>1, <2>2, NoProfileIsPPF, PlatformProfileAssumption
       DEF StartProcess, BeginSearch
<1>2. CASE SearchProfile
  <2>1. CASE TryNextFile /\ Continue("search")
    <3>1. cursor \in 1..Len(files) /\ files[cursor] \in PPF
      BY <1>2, <2>1 DEF SearchProfile, TryNextFile
    <3>2. cursor' \in 1..Len(files') + 1 /\ profile' \in PPF
      BY <2>1, <3>1 DEF TryNextFile
    <3>3. /\ pc = "search" /\ pc' = "search"
          /\ UNCHANGED <<files, check, left, passed, reason, starts>>
      BY <1>2, <2>1 DEF SearchProfile, TryNextFile
    <3> QED  BY <3>2, <3>3
  <2>2. CASE FindProfile /\ Continue("sanity")
    <3>1. cursor \in 1..Len(files) /\ files[cursor] \in PPF
      BY <1>2, <2>2 DEF SearchProfile, FindProfile
    <3> QED  BY <1>2, <2>2, <3>1 DEF FindProfile, SearchProfile
  <2>3. CASE NoProfileFound /\ ExitFor("noProfile")
    BY <2>3 DEF NoProfileFound, profileVars
  <2> QED  BY <1>2, <2>1, <2>2, <2>3 DEF SearchProfile
<1>3. CASE ConnectRedfish
  <2>1. \A i \in 1..Len(profile.checks) : ~(i < 1)
    OBVIOUS
  <2>2. left' \in 0..Threshold
    BY <1>3, PlatformProfileAssumption DEF ConnectRedfish, BeginChecks
  <2> QED  BY <1>3, <2>1, <2>2 DEF ConnectRedfish, BeginChecks
<1> QED  BY <1>1, <1>2, <1>3

(* One disjunct of the loop over the preconditions at a time.              *)
LEMMA PreconditionSteps ==
  ASSUME ChecksInv, ExecutePreconditionRules
  PROVE  ChecksInv'
<1> USE DEF TypeInv, Places, Reasons, Continue, ExitFor, ChecksInv, RequiredChecksHeld
<1> DEFINE n == Len(profile.checks)
<1>0. n \in Nat /\ check \in Nat /\ Threshold \in Nat /\ left \in Int
  BY PlatformProfileAssumption DEF PPF
<1>1. pc = "precheck"
  BY DEF ExecutePreconditionRules
<1>2. CASE (CheckPasses \/ CheckIsRepeated \/ CheckIsIgnored) /\ Continue("precheck")
  <2>1. ASSUME NEW i \in 1..n, i < check', profile.checks[i].exit
        PROVE  i \in passed'
    <3>1. CASE i < check
      BY <1>1, <1>2, <2>1, <3>1 DEF CheckPasses, CheckIsRepeated, CheckIsIgnored
    <3>2. CASE ~(i < check)
      <4>1. check' = check + 1 /\ i = check
        BY <1>0, <1>2, <2>1, <3>2
           DEF CheckPasses, CheckIsRepeated, CheckIsIgnored, NextCheck
      <4>2. CheckPasses
        BY <1>0, <1>2, <2>1, <4>1 DEF CheckIsRepeated, CheckIsIgnored
      <4> QED  BY <4>1, <4>2 DEF CheckPasses
    <3> QED  BY <3>1, <3>2
  <2>2. profile' = profile /\ pc' = "precheck" /\ check' \in Nat /\ left' \in 0..Threshold
    BY <1>0, <1>2 DEF CheckPasses, CheckIsRepeated, CheckIsIgnored, NextCheck
  <2>3. UNCHANGED <<files, cursor, reason, starts>>
    BY <1>2 DEF CheckPasses, CheckIsRepeated, CheckIsIgnored
  <2> QED  BY <2>1, <2>2, <2>3
<1>3. CASE CheckStopsProcess /\ ExitFor("precondition")
  BY <1>3 DEF CheckStopsProcess, profileVars
<1>4. CASE ChecksDone /\ Continue("cleanup")
  <2>1. ~(check <= n) /\ UNCHANGED profileVars
    BY <1>4 DEF ChecksDone, MoreChecks
  <2>2. \A i \in 1..n : i < check
    BY <1>0, <2>1
  <2> QED  BY <1>1, <1>4, <2>1, <2>2 DEF profileVars
<1> QED  BY <1>2, <1>3, <1>4 DEF ExecutePreconditionRules

LEMMA FileSteps ==
  ASSUME ChecksInv, CleanupPlatformFiles \/ FirmwareUpdate
  PROVE  ChecksInv'
<1> USE DEF TypeInv, Places, Reasons, Continue, ChecksInv, RequiredChecksHeld
<1>1. CASE CleanupPlatformFiles
  <2>1. files' \in Seq(PPF) /\ UNCHANGED <<cursor, profile, check, left, passed>>
    <3>1. CASE RemovePlatformFile
      BY <3>1, FewerFiles DEF RemovePlatformFile
    <3>2. CASE CleanupDone
      BY <3>2 DEF CleanupDone, profileVars
    <3> QED  BY <1>1, <3>1, <3>2 DEF CleanupPlatformFiles
  <2> QED  BY <1>1, <2>1 DEF CleanupPlatformFiles
<1>2. CASE FirmwareUpdate
  BY <1>2, PlatformProfileAssumption DEF FirmwareUpdate, InstallProfiles
<1> QED  BY <1>1, <1>2

LEMMA NextChecksInv == ASSUME ChecksInv, [StartNext]_startVars PROVE ChecksInv'
<1>1. CASE StartProcess \/ SearchProfile \/ ConnectRedfish
  BY <1>1, SearchSteps
<1>2. CASE ExecutePreconditionRules
  BY <1>2, PreconditionSteps
<1>3. CASE CleanupPlatformFiles \/ FirmwareUpdate
  BY <1>3, FileSteps
<1>4. CASE \/ CheckSanity \/ CheckFdrPartitionDiskUsageAndExit \/ initDeviceDumpHandler
           \/ RefreshRedfishRecord \/ Exit \/ ProcessDies \/ ServerEndsSession
           \/ UNCHANGED startVars
  <2>1. UNCHANGED profileVars
    BY <1>4 DEF CheckSanity, CheckFdrPartitionDiskUsageAndExit, initDeviceDumpHandler,
       RefreshRedfishRecord, Exit, ProcessDies, ServerEndsSession, startVars
  <2> QED  BY <1>4, <2>1, PlainSteps
<1> QED  BY <1>1, <1>2, <1>3, <1>4 DEF StartNext, Program

LEMMA InitChecksInv == StartInit => ChecksInv
<1> SUFFICES ASSUME StartInit PROVE ChecksInv
  OBVIOUS
<1>1. files \in Seq(PPF) /\ Threshold \in Nat /\ MaxStarts \in Nat
  BY PlatformProfileAssumption, StartUpAssumption DEF StartInit, ProfileInit
<1> QED
  BY <1>1, NoProfileIsPPF DEF StartInit, ProfileInit, ChecksInv, TypeInv, Places,
     Reasons, RequiredChecksHeld

(* A process that goes past its preconditions has itself found each one to *)
(* hold whose failure is to stop it, however often it had to try.          *)
THEOREM PreconditionsHeld == StartSpec => []RequiredChecksHeld
<1>1. ChecksInv /\ [StartNext]_startVars => ChecksInv'
  BY NextChecksInv
<1>2. ChecksInv => RequiredChecksHeld
  BY DEF ChecksInv
<1> QED  BY <1>1, <1>2, InitChecksInv, PTL DEF StartSpec

-----------------------------------------------------------------------------
(* Sessions                                                                *)

(* Before it has a client a process has no session of its own; when a query*)
(* was rejected the session it used is gone.                               *)
SessionsInv ==
  /\ SessionTypes
  /\ pc \in {"search", "sanity", "client"} =>
       request = "none" /\ \A s \in sessions : s <= inherited
  /\ request = "login" => token \notin sessions
  /\ SessionsAreHeld

LEMMA InitSessions == StartInit => SessionsInv
<1> SUFFICES ASSUME StartInit PROVE SessionsInv
  OBVIOUS
<1>1. /\ rfc = FALSE /\ token = 0 /\ request = "none"
      /\ sessions = {} /\ opened = 0 /\ inherited = 0
  BY DEF StartInit, RedfishInit
<1>2. 0 \in Nat /\ 0 <= 0
  OBVIOUS
<1>3. SessionTypes
  BY <1>1, <1>2, Zenon DEF SessionTypes
<1> QED  BY <1>1, <1>3 DEF SessionsInv, SessionsAreHeld

LEMMA LoginSteps ==
  ASSUME SessionsInv, ConnectRedfish \/ RefreshRedfishRecord
  PROVE  SessionsInv'
<1> USE DEF SessionsInv, SessionTypes, SessionsAreHeld, serverVars
<1>0. opened \in Nat /\ opened + 1 \in Nat /\ opened + 1 > opened
  OBVIOUS
<1>1. CASE ConnectRedfish
  <2>1. pc = "client" /\ pc' = "precheck"
    BY <1>1 DEF ConnectRedfish, Continue
  <2>2. CASE CreateClient
    <3>1. CASE LoginSucceeds /\ rfc' = TRUE /\ UNCHANGED <<request, inherited>>
      <4>1. /\ sessions' = sessions \cup {opened + 1} /\ token' = opened + 1
            /\ opened' = opened + 1 /\ unanswered' = unanswered
        BY <3>1 DEF LoginSucceeds
      <4>2. SessionTypes'
        BY <1>0, <3>1, <4>1
      <4>3. SessionsAreHeld'
        BY <2>1, <3>1, <4>1
      <4>4. request' = "login" => token' \notin sessions'
        BY <1>0, <2>1, <3>1
      <4> HIDE DEF SessionTypes, SessionsAreHeld
      <4> QED  BY <2>1, <4>2, <4>3, <4>4
    <3>2. CASE /\ rfc' \in BOOLEAN /\ UNCHANGED <<token, serverVars>>
               /\ UNCHANGED <<request, inherited>>
      BY <2>1, <3>2
    <3>3. CASE LoginFails /\ rfc' = FALSE /\ UNCHANGED <<request, inherited>>
      <4>1. CASE UNCHANGED <<token, serverVars>>
        BY <3>2, <3>3, <4>1
      <4>2. CASE ~UNCHANGED <<token, serverVars>>
        <5>1. /\ sessions' = sessions \cup {opened + 1} /\ token' = token
              /\ opened' = opened + 1 /\ unanswered' = unanswered \cup {opened + 1}
          BY <3>3, <4>2 DEF LoginFails
        <5>2. token <= opened + 1 /\ inherited <= opened + 1
          BY <1>0
        <5>3. \A s \in sessions' : s \in Nat /\ 1 <= s /\ s <= opened + 1
          BY <1>0, <5>1
        <5>4. rfc' \in BOOLEAN
          BY <3>3
        <5>5. SessionTypes'
          BY <1>0, <3>3, <5>1, <5>2, <5>3, <5>4, Zenon
        <5>6. SessionsAreHeld'
          BY <2>1, <3>3, <5>1
        <5>7. request' = "login" => token' \notin sessions'
          BY <1>0, <3>3, <5>1
        <5> HIDE DEF SessionTypes, SessionsAreHeld
        <5> QED  BY <2>1, <5>5, <5>6, <5>7
      <4> QED  BY <4>1, <4>2
    <3> QED  BY <2>2, <3>1, <3>2, <3>3 DEF CreateClient
  <2>3. CASE UNCHANGED redfishVars
    BY <2>1, <2>3 DEF redfishVars, clientVars
  <2> QED  BY <1>1, <2>2, <2>3 DEF ConnectRedfish
<1>2. CASE RefreshRedfishRecord
  <2>1. pc = "run" /\ pc' = "run"
    BY <1>2 DEF RefreshRedfishRecord
  <2>2. CASE Query
    BY <2>1, <2>2 DEF Query
  <2>3. CASE QueryEnds
    BY <2>1, <2>3 DEF QueryEnds
  <2>4. CASE QueryIsRejected
    BY <2>1, <2>4 DEF QueryIsRejected
  <2>5. CASE LoginAgain /\ LoginSucceeds
    BY <1>0, <2>1, <2>5 DEF LoginAgain, LoginSucceeds
  <2>6. CASE LoginAgain /\ LoginFails
    BY <1>0, <2>1, <2>6 DEF LoginAgain, LoginFails
  <2> QED  BY <1>2, <2>2, <2>3, <2>4, <2>5, <2>6 DEF RefreshRedfishRecord, LoginAgain
<1> QED  BY <1>1, <1>2

LEMMA NextSessionsInv == ASSUME SessionsInv, [StartNext]_startVars PROVE SessionsInv'
<1>1. CASE StartProcess
  <2>1. /\ rfc' = FALSE /\ token' = 0 /\ request' = "none" /\ inherited' = opened
        /\ UNCHANGED <<sessions, opened, unanswered>>
    BY <1>1 DEF StartProcess, ForgetClient, serverVars
  <2>2. opened \in Nat /\ 0 <= opened /\ opened <= opened
    BY DEF SessionsInv, SessionTypes
  <2>3. 0 \in Nat
    OBVIOUS
  <2>4. SessionTypes'
    BY <2>1, <2>2, <2>3, Zenon DEF SessionsInv, SessionTypes
  <2>5. \A s \in sessions' : s \in Nat /\ inherited' \in Nat /\ s <= inherited'
    BY <2>1 DEF SessionsInv, SessionTypes
  <2>6. SessionsAreHeld'
    BY <2>5 DEF SessionsAreHeld
  <2> QED  BY <2>1, <2>4, <2>5, <2>6 DEF SessionsInv
<1>2. CASE ConnectRedfish \/ RefreshRedfishRecord
  BY <1>2, LoginSteps
<1>3. CASE ServerEndsSession
  <2>1. PICK s \in sessions : sessions' = sessions \ {s}
    BY <1>3 DEF ServerEndsSession, SessionEnds
  <2> QED
    BY <1>3, <2>1 DEF ServerEndsSession, SessionEnds, clientVars, SessionsInv,
       SessionTypes, SessionsAreHeld
<1>4. CASE \/ SearchProfile \/ CheckSanity \/ ExecutePreconditionRules
           \/ CleanupPlatformFiles \/ CheckFdrPartitionDiskUsageAndExit
           \/ initDeviceDumpHandler \/ Exit \/ ProcessDies \/ FirmwareUpdate
           \/ UNCHANGED startVars
  <2>1. UNCHANGED redfishVars
    BY <1>4 DEF SearchProfile, CheckSanity, ExecutePreconditionRules,
       CleanupPlatformFiles, CheckFdrPartitionDiskUsageAndExit, initDeviceDumpHandler,
       Exit, ProcessDies, FirmwareUpdate, startVars
  <2>2. \/ pc' = pc \/ pc' = "down" \/ (pc # "down" /\ pc' = "exit")
        \/ pc = "search" /\ pc' \in {"search", "sanity"}
        \/ pc = "sanity" /\ pc' = "client"
        \/ pc \in {"precheck", "cleanup", "disk", "dumps"} /\ pc' \in
             {"precheck", "cleanup", "disk", "dumps", "run"}
    BY <1>4 DEF SearchProfile, CheckSanity, ExecutePreconditionRules,
       CleanupPlatformFiles, CheckFdrPartitionDiskUsageAndExit, initDeviceDumpHandler,
       Exit, ProcessDies, FirmwareUpdate, startVars, Continue, ExitFor
  <2>3. /\ UNCHANGED <<rfc, token, request, sessions, opened, unanswered, inherited>>
    BY <2>1 DEF redfishVars, clientVars, serverVars
  <2>4. SessionTypes'
    BY <2>3 DEF SessionsInv, SessionTypes
  <2>5. /\ pc' # "down" => pc # "down"
        /\ pc' \in {"search", "sanity", "client"} => pc \in {"search", "sanity", "client"}
    BY <2>2
  <2>6. SessionsAreHeld'
    BY <2>3, <2>5 DEF SessionsInv, SessionsAreHeld
  <2> QED  BY <2>3, <2>4, <2>5, <2>6 DEF SessionsInv
<1> QED  BY <1>1, <1>2, <1>3, <1>4 DEF StartNext, Program

(* The client never gives up a session that is still open, however often it*)
(* is rejected, logs in again or is started anew: the server is left with  *)
(* no sessions but the one in use, those of processes that ended, and those*)
(* whose login was never answered.                                         *)
THEOREM SessionsHeld == StartSpec => []SessionsAreHeld
<1>1. SessionsInv /\ [StartNext]_startVars => SessionsInv'
  BY NextSessionsInv
<1>2. SessionsInv => SessionsAreHeld
  BY DEF SessionsInv
<1> QED  BY <1>1, <1>2, InitSessions, PTL DEF StartSpec

(* The types; the search never goes past the end of the directory.         *)
THEOREM StartTypes == StartSpec => []StartTypeOK
<1>1. ChecksInv /\ SessionsInv => StartTypeOK
  <2>1. SessionsInv => /\ sessions \subseteq 1..opened
                       /\ token \in 0..opened /\ inherited \in 0..opened
    BY DEF SessionsInv, SessionTypes
  <2> QED
    BY <2>1 DEF ChecksInv, TypeInv, Places, SessionsInv, SessionTypes, StartTypeOK
<1>2. ChecksInv /\ [StartNext]_startVars => ChecksInv'
  BY NextChecksInv
<1>3. SessionsInv /\ [StartNext]_startVars => SessionsInv'
  BY NextSessionsInv
<1> QED  BY <1>1, <1>2, <1>3, InitSessions, InitChecksInv, PTL DEF StartSpec
-----------------------------------------------------------------------------
(* The profile                                                             *)

(* What UniqueParamChecker remembers, and what it has remembered of the    *)
(* ids before the k-th, the one it is called for.                          *)
IdInfo == [class : STRING, id : Nat]
Infos == Seq(IdInfo)
Memory == [class : {""} \cup STRING, seen : SUBSET Nat, unique : BOOLEAN]
NothingSeen == [class |-> "", seen |-> {}, unique |-> TRUE]

(* The fold over the ids of s as a function g on sets of positions, which  *)
(* takes the last position of each away.                                   *)
Remembered(g, s, t) ==
  IF t = {} THEN NothingSeen ELSE UniqueParamChecker(g[t \ {Max(t)}], s[Max(t)])
FoldOf(g, s) == g = [t \in SUBSET (DOMAIN s) |-> Remembered(g, s, t)]

LEMMA CheckIsFold ==
  ASSUME NEW p \in PPF
  PROVE  ValidatePPFComponents(p) = (CHOOSE g : FoldOf(g, p.infos))[DOMAIN p.infos].unique
BY DEF ValidatePPFComponents, FoldLeft, MapThenFoldSet, FoldOf, Remembered, NothingSeen

(* The last of some positions.                                             *)
LEMMA LastPosition ==
  ASSUME NEW n \in Nat, NEW t \in SUBSET (1..n), t # {}
  PROVE  Max(t) \in t /\ \A i \in t : i <= Max(t)
<1> DEFINE back == {n - i : i \in t}
<1>1. back \in SUBSET Nat /\ back # {}
  <2>1. \A i \in t : n - i \in Nat
    OBVIOUS
  <2>2. PICK i \in t : TRUE
    OBVIOUS
  <2>3. n - i \in back
    BY <2>2
  <2> QED  BY <2>1, <2>3
<1>2. PICK b \in back : \A c \in back : b <= c
  <2> HIDE DEF back
  <2> QED  BY <1>1, LeastNatural
<1>3. PICK last \in t : b = n - last
  OBVIOUS
<1>4. \A i \in t : n - last <= n - i
  BY <1>2, <1>3
<1>5. \A i \in t : last >= i
  BY <1>4
<1> QED  BY <1>5 DEF Max

LEMMA CheckerTypes ==
  ASSUME NEW m \in Memory, NEW info \in IdInfo
  PROVE  UniqueParamChecker(m, info) \in Memory
BY DEF UniqueParamChecker, Memory, IdInfo

LEMMA NothingIsMemory == NothingSeen \in Memory
<1>1. "" \in {""} \cup STRING /\ {} \in SUBSET Nat /\ TRUE \in BOOLEAN
  OBVIOUS
<1>2. ASSUME NEW A, NEW B, NEW C, NEW a \in A, NEW b \in B, NEW c \in C
      PROVE  [class |-> a, seen |-> b, unique |-> c] \in [class : A, seen : B, unique : C]
  OBVIOUS
<1> QED  BY <1>1, <1>2, Zenon DEF NothingSeen, Memory

(* There is such a function: it is right for positions up to k, for one k  *)
(* after the other.                                                        *)
LEMMA FoldExists ==
  ASSUME NEW s \in Infos
  PROVE  \E g : FoldOf(g, s)
<1> DEFINE n == Len(s)
           S == 1..n
           Upto(k) == {g \in [SUBSET S -> Memory] :
                         \A t \in SUBSET S : t \subseteq 1..k => g[t] = Remembered(g, s, t)}
           T == {k \in Nat : Upto(k) # {}}
<1>0. n \in Nat /\ DOMAIN s = S /\ \A i \in S : s[i] \in IdInfo
  BY DEF Infos
<1>1. NothingSeen \in Memory
  BY NothingIsMemory
<1>2. 0 \in T
  <2> DEFINE none == [t \in SUBSET S |-> NothingSeen]
  <2>1. none \in [SUBSET S -> Memory]
    BY <1>1
  <2>2. ASSUME NEW t \in SUBSET S, t \subseteq 1..0 PROVE none[t] = Remembered(none, s, t)
    <3>1. t = {}
      BY <2>2
    <3> QED  BY <3>1 DEF Remembered
  <2>3. none \in Upto(0)
    <3> HIDE DEF none
    <3> QED  BY <2>1, <2>2
  <2> QED  BY <2>3
<1> HIDE DEF S, n
<1>3. ASSUME NEW k \in Nat, k \in T PROVE k + 1 \in T
  <2>1. PICK g \in Upto(k) : TRUE
    BY <1>3
  <2>2. g \in [SUBSET S -> Memory] /\ \A t \in SUBSET S : t \subseteq 1..k => g[t] = Remembered(g, s, t)
    BY <2>1
  <2> HIDE DEF Upto
  <2>3. ASSUME NEW t \in SUBSET S, t # {}
        PROVE  /\ Max(t) \in t /\ \A i \in t : i <= Max(t)
               /\ t \ {Max(t)} \in SUBSET S
               /\ s[Max(t)] \in IdInfo
    BY <1>0, <2>3, LastPosition DEF S
  <2>4. ASSUME NEW t \in SUBSET S PROVE Remembered(g, s, t) \in Memory
    <3>1. CASE t = {}
      BY <1>1, <3>1 DEF Remembered
    <3>2. CASE t # {}
      <4>1. g[t \ {Max(t)}] \in Memory
        BY <2>2, <2>3, <3>2
      <4> QED  BY <2>3, <3>2, <4>1, CheckerTypes DEF Remembered
    <3> QED  BY <3>1, <3>2
  <2> DEFINE h == [t \in SUBSET S |->
                     IF t \subseteq 1..k + 1 THEN Remembered(g, s, t) ELSE g[t]]
  <2>5. h \in [SUBSET S -> Memory]
    BY <2>2, <2>4
  <2>6. \A t \in SUBSET S : t \subseteq 1..k => h[t] = g[t]
    BY <2>2
  <2>7. \A t \in SUBSET S : t \subseteq 1..k + 1 => h[t] = Remembered(g, s, t)
    OBVIOUS
  <2> HIDE DEF h
  <2>8. ASSUME NEW t \in SUBSET S, t \subseteq 1..k + 1 PROVE h[t] = Remembered(h, s, t)
    <3>1. CASE t = {}
      BY <2>7, <3>1 DEF Remembered
    <3>2. CASE t # {}
      <4>1. t \ {Max(t)} \subseteq 1..k /\ t \ {Max(t)} \in SUBSET S
        <5>1. \A i \in t : i \in 1..k + 1 /\ i <= Max(t) /\ Max(t) \in 1..k + 1
          BY <2>3, <2>8, <3>2
        <5>2. \A i \in t \ {Max(t)} : i \in 1..k
          BY <5>1
        <5> QED  BY <2>3, <3>2, <5>2
      <4>2. h[t \ {Max(t)}] = g[t \ {Max(t)}]
        BY <2>6, <4>1
      <4> QED  BY <2>7, <2>8, <4>2 DEF Remembered
    <3> QED  BY <3>1, <3>2
  <2>9. h \in Upto(k + 1)
    BY <2>5, <2>8 DEF Upto
  <2> QED  BY <2>9
<1>4. n \in T
  <2> HIDE DEF T
  <2>1. Nat \subseteq T
    BY <1>2, <1>3, InductionOnNat
  <2> QED  BY <1>0, <2>1
<1>5. PICK g \in [SUBSET S -> Memory] :
        \A t \in SUBSET S : t \subseteq 1..n => g[t] = Remembered(g, s, t)
  BY <1>4
<1>6. \A t \in SUBSET S : g[t] = Remembered(g, s, t)
  BY <1>5 DEF S
<1> QED  BY <1>0, <1>5, <1>6 DEF FoldOf

(* The ids seen are those of the run of one class that ends at k, and they *)
(* are unique as long as no run up to k has one twice.                     *)
SameClass(s, i, j) == \A l \in i..j : s[l].class = s[i].class
RunIds(s, k) == {s[j].id : j \in {i \in 1..k : SameClass(s, i, k)}}
Repeats(s, k) == \E i, j \in 1..k : i < j /\ s[i] = s[j] /\ SameClass(s, i, j)

(* One id more: the run goes on, or a new one begins.                      *)
LEMMA RunGrows ==
  ASSUME NEW s \in Infos, NEW k \in Nat, k + 1 <= Len(s)
  PROVE  /\ k > 0 /\ s[k].class = s[k + 1].class =>
              RunIds(s, k + 1) = RunIds(s, k) \cup {s[k + 1].id}
         /\ k = 0 \/ s[k].class # s[k + 1].class => RunIds(s, k + 1) = {s[k + 1].id}
         /\ Repeats(s, k + 1) <=>
              \/ Repeats(s, k)
              \/ k > 0 /\ s[k].class = s[k + 1].class /\ s[k + 1].id \in RunIds(s, k)
<1>0. Len(s) \in Nat /\ \A i \in 1..Len(s) : s[i] \in IdInfo
  BY DEF Infos
<1>1. SameClass(s, k + 1, k + 1)
  BY DEF SameClass
<1>2. ASSUME NEW i \in 1..k
      PROVE  SameClass(s, i, k + 1) <=> SameClass(s, i, k) /\ s[k].class = s[k + 1].class
  <2>1. i..k + 1 = (i..k) \cup {k + 1} /\ k \in i..k /\ i \in i..k
    OBVIOUS
  <2> QED  BY <2>1 DEF SameClass
<1>3. CASE k > 0 /\ s[k].class = s[k + 1].class
  <2>1. \A i \in 1..k + 1 : SameClass(s, i, k + 1) <=> i = k + 1 \/ (i \in 1..k /\ SameClass(s, i, k))
    BY <1>1, <1>2, <1>3
  <2>2. RunIds(s, k + 1) = RunIds(s, k) \cup {s[k + 1].id}
    BY <2>1 DEF RunIds
  <2>3. ASSUME NEW i \in 1..k, s[i] = s[k + 1], SameClass(s, i, k + 1)
        PROVE  s[k + 1].id \in RunIds(s, k)
    BY <1>2, <2>3 DEF RunIds
  <2>4. ASSUME s[k + 1].id \in RunIds(s, k) PROVE Repeats(s, k + 1)
    <3>1. PICK i \in 1..k : SameClass(s, i, k) /\ s[i].id = s[k + 1].id
      BY <2>4 DEF RunIds
    <3>2. s[i].class = s[k].class
      BY <3>1 DEF SameClass
    <3>3. s[i] = s[k + 1]
      BY <1>0, <1>3, <3>1, <3>2 DEF IdInfo
    <3> QED  BY <1>2, <1>3, <3>1, <3>3 DEF Repeats
  <2>5. Repeats(s, k) => Repeats(s, k + 1)
    BY DEF Repeats
  <2>6. Repeats(s, k + 1) => Repeats(s, k) \/ s[k + 1].id \in RunIds(s, k)
    BY <2>3 DEF Repeats
  <2> QED  BY <1>3, <2>2, <2>4, <2>5, <2>6
<1>4. CASE ~(k > 0 /\ s[k].class = s[k + 1].class)
  <2>1. \A i \in 1..k + 1 : SameClass(s, i, k + 1) <=> i = k + 1
    BY <1>1, <1>2, <1>4
  <2>2. RunIds(s, k + 1) = {s[k + 1].id}
    BY <2>1 DEF RunIds
  <2>3. Repeats(s, k) => Repeats(s, k + 1)
    BY DEF Repeats
  <2>4. Repeats(s, k + 1) => Repeats(s, k)
    BY <2>1 DEF Repeats
  <2> QED  BY <1>4, <2>2, <2>3, <2>4
<1> QED  BY <1>3, <1>4

(* What is remembered after the first k ids.                               *)
LEMMA FoldStep ==
  ASSUME NEW s \in Infos, NEW g, FoldOf(g, s)
  PROVE  /\ g[1..0] = NothingSeen
         /\ \A k \in Nat : k + 1 <= Len(s) =>
              g[1..k + 1] = UniqueParamChecker(g[1..k], s[k + 1])
<1>0. Len(s) \in Nat /\ DOMAIN s = 1..Len(s)
  BY DEF Infos
<1>1. \A t \in SUBSET (1..Len(s)) : g[t] = Remembered(g, s, t)
  BY <1>0 DEF FoldOf
<1>2. g[1..0] = NothingSeen
  <2>1. 1..0 = {} /\ {} \in SUBSET (1..Len(s))
    OBVIOUS
  <2> QED  BY <1>1, <2>1 DEF Remembered
<1>3. ASSUME NEW k \in Nat, k + 1 <= Len(s)
      PROVE  g[1..k + 1] = UniqueParamChecker(g[1..k], s[k + 1])
  <2>1. 1..k + 1 \in SUBSET (1..Len(s)) /\ k + 1 \in 1..k + 1
    BY <1>0, <1>3
  <2>2. Max(1..k + 1) \in 1..k + 1 /\ k + 1 <= Max(1..k + 1)
    BY <1>0, <2>1, LastPosition
  <2>3. Max(1..k + 1) = k + 1
    BY <2>2
  <2>4. (1..k + 1) \ {k + 1} = 1..k /\ 1..k + 1 # {}
    BY <2>1
  <2>5. g[1..k + 1] = Remembered(g, s, 1..k + 1)
    BY <1>1, <2>1
  <2> QED  BY <2>3, <2>4, <2>5 DEF Remembered
<1> QED  BY <1>2, <1>3

LEMMA MemoryAfter ==
  ASSUME NEW s \in Infos, NEW g, FoldOf(g, s), NEW k \in 0..Len(s)
  PROVE  /\ k > 0 => g[1..k].class = s[k].class
         /\ g[1..k].seen = RunIds(s, k)
         /\ g[1..k].unique <=> ~Repeats(s, k)
<1> DEFINE After(n) == /\ n > 0 => g[1..n].class = s[n].class
                       /\ g[1..n].seen = RunIds(s, n)
                       /\ g[1..n].unique <=> ~Repeats(s, n)
           T == {n \in Nat : n <= Len(s) => After(n)}
<1>0. Len(s) \in Nat
  BY DEF Infos
<1>1. 0 \in T
  <2>1. 1..0 = {}
    OBVIOUS
  <2>2. RunIds(s, 0) = {} /\ ~Repeats(s, 0)
    BY <2>1 DEF RunIds, Repeats
  <2>3. g[1..0] = NothingSeen
    BY FoldStep
  <2>4. NothingSeen.seen = {} /\ NothingSeen.unique
    BY DEF NothingSeen
  <2>5. After(0)
    BY <2>2, <2>3, <2>4
  <2> HIDE DEF After
  <2> QED  BY <2>5
<1>2. ASSUME NEW n \in Nat, n \in T PROVE n + 1 \in T
  <2> SUFFICES ASSUME n + 1 <= Len(s) PROVE After(n + 1)
    OBVIOUS
  <2>1. After(n)
    BY <1>0, <1>2
  <2> DEFINE m == g[1..n]
             info == s[n + 1]
             seen == IF m.class = info.class THEN m.seen ELSE {}
  <2>2. g[1..n + 1] = UniqueParamChecker(m, info)
    BY FoldStep
  <2>3. /\ g[1..n + 1].class = info.class
        /\ g[1..n + 1].seen = seen \cup {info.id}
        /\ g[1..n + 1].unique <=> m.unique /\ info.id \notin seen
    <3> HIDE DEF m, info
    <3>1. UniqueParamChecker(m, info) =
            [class |-> info.class, seen |-> seen \cup {info.id},
             unique |-> m.unique /\ info.id \notin seen]
      BY Zenon DEF UniqueParamChecker
    <3>2. ASSUME NEW a, NEW b, NEW c
          PROVE  LET r == [class |-> a, seen |-> b, unique |-> c]
                 IN  r.class = a /\ r.seen = b /\ r.unique = c
      OBVIOUS
    <3> DEFINE fresh == m.unique /\ info.id \notin seen
    <3> HIDE DEF seen
    <3>3. /\ g[1..n + 1].class = info.class
          /\ g[1..n + 1].seen = seen \cup {info.id}
          /\ g[1..n + 1].unique = fresh
      <4> HIDE DEF fresh
      <4>1. g[1..n + 1] = [class |-> info.class, seen |-> seen \cup {info.id}, unique |-> fresh]
        BY <2>2, <3>1 DEF fresh
      <4> QED  BY <3>2, <4>1
    <3>4. g[1..n + 1].unique <=> fresh
      BY <3>3
    <3> QED  BY <3>3, <3>4
  <2>4. /\ n > 0 => m.class = s[n].class
        /\ m.seen = RunIds(s, n)
        /\ m.unique <=> ~Repeats(s, n)
    BY <2>1
  <2>5. seen = IF n > 0 /\ s[n].class = info.class THEN RunIds(s, n) ELSE {}
    <3>1. n = 0 => RunIds(s, n) = {}
      <4>1. 1..0 = {}
        OBVIOUS
      <4> QED  BY <4>1 DEF RunIds
    <3> HIDE DEF m, info
    <3>2. CASE n = 0
      BY <2>4, <3>1, <3>2
    <3>3. CASE n > 0
      BY <2>4, <3>3
    <3> QED  BY <3>2, <3>3
  <2>6. RunIds(s, n + 1) = seen \cup {info.id}
    <3> HIDE DEF m, seen
    <3> QED  BY <2>5, RunGrows
  <2>7. Repeats(s, n + 1) <=> Repeats(s, n) \/ info.id \in seen
    <3> HIDE DEF m, seen
    <3> QED  BY <2>5, RunGrows
  <2> HIDE DEF m, seen, info
  <2>8. g[1..n + 1].unique <=> ~Repeats(s, n + 1)
    BY <2>3, <2>4, <2>7
  <2> QED  BY <2>3, <2>6, <2>8 DEF info
<1>3. k \in T
  <2> HIDE DEF T
  <2>1. Nat \subseteq T
    BY <1>1, <1>2, InductionOnNat
  <2> QED  BY <1>0, <2>1
<1> QED  BY <1>0, <1>3

(* The sanity check of a file that can be read finds a profile wrong       *)
(* exactly when its components cannot be decoded, or when it uses an id    *)
(* twice within a run of ids of one class: the memory of                   *)
(* UniqueParamChecker, which is emptied at every change of the class and   *)
(* never between two calls, neither confuses two classes nor forgets one.  *)
THEOREM SanityCheckIsExact ==
  ASSUME NEW p \in PPF
  PROVE  SanityTestPPF(p) <=> p.decodes /\ ~HasDuplicate(p)
<1> DEFINE s == p.infos
           n == Len(s)
           g == CHOOSE h : FoldOf(h, s)
<1>1. s \in Infos /\ n \in Nat /\ DOMAIN s = 1..n
  BY DEF PPF, Infos, IdInfo
<1> HIDE DEF s
<1>2. FoldOf(g, s)
  BY <1>1, FoldExists
<1> HIDE DEF g
<1>3. g[1..n].unique <=> ~Repeats(s, n)
  BY <1>1, <1>2, MemoryAfter
<1>4. ValidatePPFComponents(p) = g[1..n].unique
  BY <1>1, CheckIsFold DEF g, s
<1>5. ASSUME NEW i \in 1..n, NEW j \in 1..n, s[i] = s[j]
      PROVE  SameClass(s, i, j) <=> \A k \in i..j : s[k].class = s[i].class
  BY <1>5 DEF SameClass
<1>6. Repeats(s, n) <=> HasDuplicate(p)
  BY <1>5 DEF Repeats, HasDuplicate, s
<1> QED  BY <1>3, <1>4, <1>6 DEF SanityTestPPF

(* While it searches the process has passed over no profile that suits.    *)
RightInv ==
  /\ pc = "search" => \A i \in 1..(cursor - 1) : ~Suits(files[i])
  /\ ProfileIsRight

(* Steps after the search that keep the profile and do not judge it.       *)
LEMMA RightKept ==
  ASSUME RightInv, profile' = profile,
         pc' \in {"sanity", "client", "precheck"} =>
           pc \in {"sanity", "client", "precheck"} /\ UNCHANGED <<files, cursor>>,
         accepted' => accepted,
         pc' # "search" \/ UNCHANGED <<pc, files, cursor>>,
         pc' = "exit" /\ reason' = "insane" => pc = "exit" /\ reason = "insane"
  PROVE  RightInv'
<1>1. HasDuplicate(profile)' <=> HasDuplicate(profile)
  BY DEF HasDuplicate
<1>2. (\A i \in 1..(cursor - 1) : ~Suits(files[i])) /\ UNCHANGED <<files, cursor>>
        => (\A i \in 1..(cursor - 1) : ~Suits(files[i]))'
  BY DEF Suits
<1>3. pc' \in {"sanity", "client", "precheck"} =>
        /\ Suits(profile)' /\ (profile = files[cursor])'
        /\ (\A i \in 1..(cursor - 1) : ~Suits(files[i]))'
  BY <1>2 DEF RightInv, ProfileIsRight, Suits
<1>4. accepted' => (profile.decodes)' /\ ~HasDuplicate(profile)'
  BY <1>1 DEF RightInv, ProfileIsRight
<1>5. (reason = "insane" /\ pc = "exit")' => ~(profile.decodes)' \/ HasDuplicate(profile)'
  BY <1>1 DEF RightInv, ProfileIsRight
<1>6. pc' = "search" => (\A i \in 1..(cursor - 1) : ~Suits(files[i]))'
  BY <1>2 DEF RightInv
<1> QED  BY <1>3, <1>4, <1>5, <1>6 DEF RightInv, ProfileIsRight

LEMMA NextRightInv ==
  ASSUME ChecksInv, RightInv, [StartNext]_startVars
  PROVE  RightInv'
<1> USE DEF Continue, ExitFor
<1>0. /\ files \in Seq(PPF) /\ profile \in PPF
      /\ pc = "search" => cursor \in 1..Len(files) + 1
  BY DEF ChecksInv, TypeInv
<1>1. CASE StartProcess
  <2>1. pc' = "search" /\ cursor' = 1 /\ reason' = "none"
    BY <1>1 DEF StartProcess, BeginSearch
  <2>2. \A i : i \notin 1..(cursor' - 1)
    BY <2>1
  <2> QED  BY <2>1, <2>2 DEF RightInv, ProfileIsRight, accepted
<1>2. CASE SearchProfile
  <2>1. pc = "search" /\ \A i \in 1..(cursor - 1) : ~Suits(files[i])
    BY <1>2 DEF SearchProfile, RightInv
  <2>2. CASE TryNextFile /\ Continue("search")
    <3>1. /\ cursor' = cursor + 1 /\ files' = files /\ ~Suits(files[cursor])
          /\ pc' = "search"
      BY <2>2 DEF TryNextFile
    <3>2. \A i \in 1..(cursor' - 1) : ~Suits(files'[i])
      BY <1>0, <2>1, <3>1
    <3>3. (\A i \in 1..(cursor - 1) : ~Suits(files[i]))'
      BY <3>2 DEF Suits
    <3> QED  BY <3>1, <3>3 DEF RightInv, ProfileIsRight, accepted
  <2>3. CASE FindProfile /\ Continue("sanity")
    <3>1. /\ Suits(files[cursor]) /\ profile' = files[cursor] /\ pc' = "sanity"
          /\ UNCHANGED <<files, cursor>>
      BY <2>3 DEF FindProfile
    <3>2. /\ Suits(profile)' /\ (profile = files[cursor])'
          /\ (\A i \in 1..(cursor - 1) : ~Suits(files[i]))'
      BY <2>1, <3>1 DEF Suits
    <3> QED  BY <3>1, <3>2 DEF RightInv, ProfileIsRight, accepted
  <2>4. CASE NoProfileFound /\ ExitFor("noProfile")
    BY <2>4 DEF RightInv, ProfileIsRight, accepted
  <2> QED  BY <1>2, <2>2, <2>3, <2>4 DEF SearchProfile
<1>3. CASE CheckSanity
  <2>1. pc = "sanity" /\ UNCHANGED <<files, cursor, profile>>
    BY <1>3 DEF CheckSanity, profileVars
  <2>2. HasDuplicate(profile)' <=> HasDuplicate(profile)
    BY <2>1 DEF HasDuplicate
  <2>3. /\ Suits(profile)' /\ (profile = files[cursor])'
        /\ (\A i \in 1..(cursor - 1) : ~Suits(files[i]))'
    BY <2>1 DEF RightInv, ProfileIsRight, Suits
  <2>4. CASE SanityTestPPF(profile) /\ pc' = "client"
    <3>1. profile.decodes /\ ~HasDuplicate(profile)
      BY <1>0, <2>4, SanityCheckIsExact
    <3> QED  BY <2>1, <2>2, <2>3, <2>4, <3>1 DEF RightInv, ProfileIsRight
  <2>5. CASE ~SanityTestPPF(profile) /\ pc' = "exit"
    <3>1. ~profile.decodes \/ HasDuplicate(profile)
      BY <1>0, <2>5, SanityCheckIsExact
    <3> QED  BY <2>1, <2>2, <2>5, <3>1 DEF RightInv, ProfileIsRight, accepted
  <2>6. CASE pc' = "exit" /\ reason' = "unreadable"
    BY <2>6 DEF RightInv, ProfileIsRight, accepted
  <2> QED  BY <1>3, <2>4, <2>5, <2>6 DEF CheckSanity
<1>4. CASE ConnectRedfish
  BY <1>4, RightKept DEF ConnectRedfish, BeginChecks, accepted
<1>5. CASE ExecutePreconditionRules
  <2>1. UNCHANGED <<files, cursor, profile>>
    BY <1>5 DEF ExecutePreconditionRules, CheckPasses, CheckIsRepeated, CheckIsIgnored,
       CheckStopsProcess, ChecksDone, profileVars
  <2>2. /\ pc = "precheck" /\ pc' \in {"precheck", "exit", "cleanup"}
        /\ pc' = "exit" => reason' = "precondition"
    BY <1>5 DEF ExecutePreconditionRules
  <2> QED  BY <2>1, <2>2, RightKept DEF accepted
<1>6. CASE CleanupPlatformFiles
  <2>1. profile' = profile /\ pc = "cleanup" /\ pc' \in {"cleanup", "disk"}
    BY <1>6 DEF CleanupPlatformFiles, RemovePlatformFile, CleanupDone, profileVars
  <2> QED  BY <2>1, RightKept DEF accepted
<1>7. CASE CheckFdrPartitionDiskUsageAndExit \/ initDeviceDumpHandler
  <2>1. /\ UNCHANGED profileVars /\ pc \in {"disk", "dumps", "run"}
        /\ pc' \in {"dumps", "run", "exit"}
        /\ pc' = "exit" => reason' \in {"diskFull", "dumpConfig"}
    BY <1>7 DEF CheckFdrPartitionDiskUsageAndExit, initDeviceDumpHandler
  <2> QED  BY <2>1, RightKept DEF accepted, profileVars
<1>8. CASE Exit \/ ProcessDies
  <2>1. UNCHANGED profileVars /\ pc' = "down"
    BY <1>8 DEF Exit, ProcessDies
  <2> QED  BY <2>1, RightKept DEF accepted, profileVars
<1>9. CASE FirmwareUpdate
  <2>1. profile' = profile /\ pc = "down" /\ pc' = "down"
    BY <1>9 DEF FirmwareUpdate, InstallProfiles
  <2> QED  BY <2>1, RightKept DEF accepted
<1>10. CASE RefreshRedfishRecord \/ ServerEndsSession \/ UNCHANGED startVars
  <2>1. UNCHANGED <<pc, reason, files, cursor, profile>>
    BY <1>10 DEF RefreshRedfishRecord, ServerEndsSession, startVars, profileVars
  <2> QED  BY <2>1, RightKept DEF accepted
<1> QED
  BY <1>1, <1>2, <1>3, <1>4, <1>5, <1>6, <1>7, <1>8, <1>9, <1>10 DEF StartNext, Program

(* The recorder runs with the first profile that suits the platform, and   *)
(* goes past the sanity check only with a profile whose components can be  *)
(* decoded and whose ids are unique; it stops there only because of one    *)
(* for which that is not so, or because the file could not be read again.  *)
THEOREM RightProfile == StartSpec => []ProfileIsRight
<1>1. StartInit => RightInv
  BY DEF StartInit, RightInv, ProfileIsRight, accepted
<1>2. ChecksInv /\ [StartNext]_startVars => ChecksInv'
  BY NextChecksInv
<1>3. ChecksInv /\ RightInv /\ [StartNext]_startVars => RightInv'
  BY NextRightInv
<1>4. RightInv => ProfileIsRight
  BY DEF RightInv
<1> QED  BY <1>1, <1>2, <1>3, <1>4, InitChecksInv, PTL DEF StartSpec
================================================================================
