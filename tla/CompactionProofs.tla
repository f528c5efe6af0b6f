--------------------------- MODULE CompactionProofs ---------------------------
(***************************************************************************)
(* Proofs about Compaction: its types, the invariant that makes compaction *)
(* safe, that it implements SampleRetention, that the list of directories  *)
(* is complete and short, and that errors keep their samples.              *)
(***************************************************************************)
EXTENDS Compaction, SequenceTheorems, WellFoundedInduction, TLAPS

(* A non-empty set of positions has a first one.                           *)
LEMMA FirstPosition ==
  ASSUME NEW n \in Nat, NEW S \in SUBSET (1..n), S # {}
  PROVE  \E i \in S : \A j \in S : i <= j
<1>1. S \subseteq Nat
  OBVIOUS
<1>2. PICK i \in S : \A j \in S : <<j, i>> \notin OpToRel(<, Nat)
  <2> HIDE DEF OpToRel
  <2> QED  BY <1>1, NatLessThanWellFounded, WFMin
<1>3. \A j \in S : ~(j < i)
  BY <1>1, <1>2 DEF OpToRel
<1> QED  BY <1>1, <1>3

(* What newCompactor.dat is given: entries of the old list, in their order, *)
(* each of them further back than an entry that names d.                   *)
LEMMA EntriesAfterProperties ==
  ASSUME NEW s \in Seq(Directory), NEW d \in Directory
  PROVE  /\ EntriesAfter(s, d) \in Seq(Directory)
         /\ \E k \in 0..Len(s) :
              /\ Len(EntriesAfter(s, d)) + k <= Len(s)
              /\ \A i \in 1..Len(EntriesAfter(s, d)) :
                   EntriesAfter(s, d)[i] = s[i + k]
<1> DEFINE hits == {i \in 1..Len(s) : s[i] = d}
           first == CHOOSE i \in hits : \A j \in hits : i <= j
<1>0. Len(s) \in Nat
  OBVIOUS
<1>1. CASE hits = {}
  <2>1. EntriesAfter(s, d) = <<>>
    BY <1>1 DEF EntriesAfter
  <2> QED  BY <2>1, <1>0
<1>2. CASE hits # {}
  <2>1. first \in 1..Len(s)
    <3>1. hits \in SUBSET (1..Len(s))
      OBVIOUS
    <3>2. \E i \in hits : \A j \in hits : i <= j
      <4> HIDE DEF hits
      <4> QED  BY <1>0, <1>2, <3>1, FirstPosition
    <3> QED  BY <3>2
  <2>2. EntriesAfter(s, d) = SubSeq(s, first + 1, Len(s))
    BY <1>2 DEF EntriesAfter
  <2> HIDE DEF first
  <2>3. \A i \in first + 1 .. Len(s) : s[i] \in Directory
    BY <2>1
  <2>4. /\ SubSeq(s, first + 1, Len(s)) \in Seq(Directory)
        /\ Len(SubSeq(s, first + 1, Len(s))) =
             IF first + 1 <= Len(s) THEN Len(s) - (first + 1) + 1 ELSE 0
        /\ \A i \in 1 .. Len(s) - (first + 1) + 1 :
             SubSeq(s, first + 1, Len(s))[i] = s[first + 1 + i - 1]
    BY <1>0, <2>1, <2>3, SubSeqProperties
  <2>5. Len(EntriesAfter(s, d)) = Len(s) - first
    BY <1>0, <2>1, <2>2, <2>4
  <2>6. \A i \in 1..Len(EntriesAfter(s, d)) : EntriesAfter(s, d)[i] = s[i + first]
    BY <1>0, <2>1, <2>2, <2>4, <2>5
  <2> QED  BY <1>0, <2>1, <2>2, <2>4, <2>5, <2>6
<1> QED  BY <1>1, <1>2

-----------------------------------------------------------------------------
(* Types                                                                   *)

LEMMA NoEntries == <<>> \in Seq(Directory)
  OBVIOUS

LEMMA InitTypeOK == Init => TypeOK
<1> SUFFICES ASSUME Init PROVE TypeOK
  OBVIOUS
<1> USE ConstantsAssumption DEF Init, Directory, Sample, RawFile, BookOfErrorsEntry,
        BootEvent, NoDirectory, legacy, Legacy
<1>0. now \in Nat /\ boot \in Nat /\ stamp \in Nat /\ due \in Nat
  <2>1. StartTime - 1 \in Nat
    OBVIOUS
  <2>2. legacy.boot = 1 /\ legacy.stamp = StartTime - 1
    OBVIOUS
  <2> QED  BY <2>1, <2>2
<1>5. victim \in Directory
  OBVIOUS
<1>1. /\ pc = "down" /\ phase = "boot" /\ hmcAlive \in BOOLEAN
      /\ writers = {} /\ todo = {} /\ errorTimes = {}
      /\ book = {} /\ reported = {} /\ torn = {} /\ tornRaw = {}
      /\ hifi = {} /\ taken = {}
  BY DEF Init
<1>2. draft \in Seq(Directory) /\ compactor \in Seq(Directory)
  <2>1. legacy \in Directory
    OBVIOUS
  <2>2. <<legacy>> \in Seq(Directory)
    BY <2>1
  <2>3. draft = <<>> /\ (compactor = <<>> \/ compactor = <<legacy>>)
    OBVIOUS
  <2> HIDE DEF Init, legacy, Directory
  <2> QED  BY <2>2, <2>3, NoEntries
<1>3. events \subseteq BootEvent
  OBVIOUS
<1>4. raw \subseteq Sample
  OBVIOUS
<1> QED  BY <1>0, <1>1, <1>2, <1>3, <1>4, <1>5 DEF TypeOK

(* The errors a directory is searched for are seconds, and the iterator of *)
(* a directory visits files.                                               *)
LEMMA EngineTypes ==
  ASSUME TypeOK, NEW d \in Directory
  PROVE  ErrorsAround(d) \subseteq Nat /\ RawFilesOf(d) \subseteq Files
<1>1. ErrorsAround(d) \subseteq Nat
  BY DEF ErrorsAround, TypeOK, BookOfErrorsEntry
<1>2. RawFilesOf(d) \subseteq Files
  BY DEF RawFilesOf, TypeOK, Sample, RawFile
<1> QED  BY <1>1, <1>2

LEMMA CompactorEngineTypes ==
  ASSUME TypeOK, NEW d \in Directory, CompactorEngine(d)
  PROVE  /\ victim' \in Directory
         /\ todo' \subseteq Files
         /\ errorTimes' \subseteq Nat
         /\ book' \subseteq book
         /\ torn' \subseteq torn
         /\ pc' \in {"remove", "extract"}
  BY EngineTypes DEF CompactorEngine

LEMMA CurrentType == TypeOK => current \in Directory /\ NoDirectory \in Directory
  BY DEF TypeOK, current, NoDirectory, Directory

LEMMA HeadType ==
  ASSUME TypeOK, Len(compactor) >= 1
  PROVE  Head(compactor) = compactor[1] /\ Head(compactor) \in Directory
  BY DEF TypeOK

(* Every step keeps the types.                                             *)
LEMMA NextTypeOK == TypeOK /\ [Next]_vars => TypeOK'
<1> SUFFICES ASSUME TypeOK, [Next]_vars PROVE TypeOK'
  OBVIOUS
<1> USE ConstantsAssumption, CurrentType
<1> USE DEF TypeOK, localVars, memoryVars, keeperVars, sampleVars, historyVars
<1>1. CASE StartUp
  BY <1>1 DEF StartUp
<1>2. CASE RecordBootEvent
  BY <1>2 DEF RecordBootEvent, BootEvent, currentDataFormatVersion
<1>3. CASE CleanEntry
  <2> USE <1>3
  <2>1. Head(compactor) \in Directory
    BY HeadType DEF CleanEntry, BOOT_TIME_DIR_COUNT
  <2>2. CASE CompactorEngine(Head(compactor)) /\ UNCHANGED events
    BY <2>1, <2>2, CompactorEngineTypes DEF CleanEntry
  <2>3. CASE ~(CompactorEngine(Head(compactor)) /\ UNCHANGED events)
    BY <2>1, <2>3 DEF CleanEntry
  <2> QED  BY <2>2, <2>3
<1>4. CASE CleanEntriesDone
  BY <1>4 DEF CleanEntriesDone
<1>5. CASE InitTimerEvents
  BY <1>5 DEF InitTimerEvents
<1>6. CASE AppendEntry
  BY <1>6 DEF AppendEntry
<1>7. ASSUME NEW f \in Files, CreateHighFidelityFile(f) PROVE TypeOK'
  <2>1. SamplesIn(raw, victim, f) \subseteq Sample
    BY DEF SamplesIn
  <2> QED  BY <1>7, <2>1 DEF CreateHighFidelityFile
<1>8. CASE HighFidelityFilesDone
  BY <1>8, EngineTypes DEF HighFidelityFilesDone
<1>9. ASSUME NEW f \in Files, RemoveSamplesLogfile(f) PROVE TypeOK'
  BY <1>9 DEF RemoveSamplesLogfile
<1>10. CASE RemoveSamplesLogfilesDone
  BY <1>10 DEF RemoveSamplesLogfilesDone
<1>11. CASE EngineThrows
  BY <1>11 DEF EngineThrows
<1>12. CASE DeleteBookKeeper
  BY <1>12 DEF DeleteBookKeeper, LeaveRemoveEntry
<1>13. CASE StartCopy
  <2>1. EntriesAfter(compactor, victim) \in Seq(Directory)
    BY EntriesAfterProperties
  <2> QED  BY <1>13, <2>1 DEF StartCopy
<1>14. CASE FinishCopy
  BY <1>14 DEF FinishCopy, LeaveRemoveEntry
<1>15. CASE CopyFails
  BY <1>15 DEF CopyFails, LeaveRemoveEntry
<1>16. ASSUME NEW f \in Files, Store(f) PROVE TypeOK'
  BY <1>16 DEF Store, Sample
<1>17. ASSUME NEW f \in Files, StoreWithoutWriter(f) PROVE TypeOK'
  BY <1>17 DEF StoreWithoutWriter
<1>18. ASSUME NEW f \in Files, BookOfErrorEngine(f) PROVE TypeOK'
  BY <1>18 DEF BookOfErrorEngine, BookOfErrorsEntry
<1>19. CASE CompactionWindowExpiry
  <2> USE <1>19
  <2>1. CASE /\ Len(compactor) >= RUN_TIME_DIR_COUNT
             /\ CompactorEngine(Head(compactor)) /\ UNCHANGED compactor
    <3>1. Head(compactor) \in Directory
      BY <2>1, HeadType DEF RUN_TIME_DIR_COUNT
    <3> QED  BY <2>1, <3>1, CompactorEngineTypes DEF CompactionWindowExpiry
  <2>2. CASE ~(/\ Len(compactor) >= RUN_TIME_DIR_COUNT
               /\ CompactorEngine(Head(compactor)) /\ UNCHANGED compactor)
    <3>1. pc' = "rotate" /\ (torn' = torn \ {"Compactor"} \/ torn' = torn)
      BY <2>2 DEF CompactionWindowExpiry
    <3>4. compactor' = <<>> \/ compactor' = compactor
      BY <2>2 DEF CompactionWindowExpiry
    <3>2. due' \in Nat
      BY DEF CompactionWindowExpiry
    <3>3. UNCHANGED <<now, phase, boot, stamp, writers, draft, hmcAlive, events,
                      sampleVars, historyVars, victim, errorTimes, todo, book>>
      BY <2>2 DEF CompactionWindowExpiry
    <3>5. compactor' \in Seq(Directory)
      BY <3>4, NoEntries
    <3> HIDE <1>19
    <3> QED  BY <3>1, <3>2, <3>3, <3>5
  <2> QED  BY <2>1, <2>2
<1>20. CASE ExpiryCleanUp
  BY <1>20 DEF ExpiryCleanUp
<1>21. CASE ExpiryCleanUpThrows
  BY <1>21 DEF ExpiryCleanUpThrows
<1>22. ASSUME NEW cause \in {"powerLoss", "processDeath"}, Die(cause) PROVE TypeOK'
  <2>1. hifi' \subseteq Sample
    BY <1>22 DEF Die, SamplesIn
  <2> QED  BY <1>22, <2>1 DEF Die, LoseMemory
<1>23. CASE DieInAppend
  <2>1. torn' \subseteq Keepers
    BY <1>23 DEF DieInAppend, Keepers
  <2>2. tornRaw' \subseteq RawFile
    BY <1>23 DEF DieInAppend, RawFile
  <2>3. /\ pc' = "down" /\ phase' = "boot" /\ due' = 0 /\ writers' = {}
        /\ victim' = NoDirectory /\ errorTimes' = {} /\ todo' = {} /\ draft' = <<>>
        /\ hmcAlive' = FALSE
        /\ UNCHANGED <<now, boot, stamp, historyVars, compactor, book, events,
                       raw, hifi>>
    BY <1>23 DEF DieInAppend, LoseMemory
  <2> QED  BY <2>1, <2>2, <2>3, NoEntries
<1>24. CASE Tick
  BY <1>24 DEF Tick
<1>25. CASE UNCHANGED vars
  BY <1>25 DEF vars
<1> HIDE DEF TypeOK
<1> QED
  BY <1>1, <1>2, <1>3, <1>4, <1>5, <1>6, <1>7, <1>8, <1>9, <1>10, <1>11, <1>12,
     <1>13, <1>14, <1>15, <1>16, <1>17, <1>18, <1>19, <1>20, <1>21, <1>22, <1>23,
     <1>24, <1>25
     DEF Next, Boot, Engine, RemoveEntry, Loop, Environment

(* Every variable stays in its type, for any number of files, any window   *)
(* and any of the hazards.                                                 *)
THEOREM TypeCorrect == Spec => []TypeOK
<1> QED  BY InitTypeOK, NextTypeOK, PTL DEF Spec

-----------------------------------------------------------------------------
(* The invariant.  One lemma for each of its parts says that every step    *)
(* keeps that part; each of them needs the types and the parts before it.  *)

LEMMA EngineHazards ==
  ASSUME Hazards \subseteq OrderlyHazards
  PROVE  /\ "sameSecond" \notin Hazards /\ "slowBoot" \notin Hazards
         /\ "tornKeeper" \notin Hazards /\ "tornSample" \notin Hazards
  BY DEF OrderlyHazards

LEMMA InitRetentionInv == Init => RetentionInv
<1> SUFFICES ASSUME Init PROVE RetentionInv
  OBVIOUS
<1>1. TypeOK
  BY InitTypeOK
<1>2. PhaseInv
  <2>1. now = StartTime /\ pc = "down" /\ phase = "boot" /\ stamp <= now
    BY ConstantsAssumption DEF Init, legacy
  <2> QED  BY <2>1 DEF PhaseInv
<1>3. OrderInv
  <2>1. pc = "down" /\ phase = "boot" /\ draft = <<>>
    BY DEF Init
  <2>2. CASE compactor = <<>>
    BY <2>1, <2>2 DEF OrderInv, InOrder, UpTo
  <2>3. CASE compactor # <<>>
    <3>1. compactor = <<legacy>> /\ stamp = legacy.stamp
      BY <2>3 DEF Init
    <3>2. Len(compactor) = 1 /\ compactor[1] = legacy
      BY <3>1
    <3>3. legacy.stamp <= stamp
      BY <1>1, <3>1 DEF TypeOK
    <3> HIDE DEF legacy
    <3> QED  BY <2>1, <3>2, <3>3 DEF OrderInv, InOrder, UpTo
  <2> QED  BY <2>2, <2>3
<1>4. SamplesInv
  <2>1. hifi = {}
    BY DEF Init
  <2>2. ASSUME NEW s \in raw
        PROVE  /\ s.dir.stamp <= stamp
               /\ s.dir.stamp <= s.time /\ s.time <= s.dir.stamp + Window
    <3>1. s.dir = legacy /\ s.time = StartTime - 1 /\ stamp = legacy.stamp
      BY <2>2 DEF Init, Legacy
    <3>2. legacy.stamp = StartTime - 1
      BY DEF legacy
    <3> QED  BY <3>1, <3>2, ConstantsAssumption
  <2> QED  BY <2>1, <2>2 DEF SamplesInv
<1>5. EngineInv
  BY DEF Init, EngineInv
<1> QED  BY <1>1, <1>2, <1>3, <1>4, <1>5 DEF RetentionInv

(* The clock, the window timer and the program counter agree.  The step    *)
(* that matters is InitTimerEvents: the first window is as long as the     *)
(* range of the first directory only if no second passed since start up.   *)
LEMMA NextPhaseInv ==
  ASSUME Hazards \subseteq OrderlyHazards, TypeOK, PhaseInv, [Next]_vars
  PROVE  PhaseInv'
<1> USE ConstantsAssumption, EngineHazards
<1> USE DEF TypeOK, PhaseInv, localVars, memoryVars, keeperVars, sampleVars,
        historyVars
<1>1. CASE StartUp
  BY <1>1 DEF StartUp
<1>2. CASE RecordBootEvent
  BY <1>2 DEF RecordBootEvent
<1>3. CASE CleanEntry
  BY <1>3 DEF CleanEntry, CompactorEngine
<1>4. CASE CleanEntriesDone
  BY <1>4 DEF CleanEntriesDone
<1>5. CASE InitTimerEvents
  BY <1>5 DEF InitTimerEvents
<1>6. CASE AppendEntry
  BY <1>6 DEF AppendEntry
<1>7. ASSUME NEW f \in Files, CreateHighFidelityFile(f) PROVE PhaseInv'
  BY <1>7 DEF CreateHighFidelityFile
<1>8. CASE HighFidelityFilesDone
  BY <1>8 DEF HighFidelityFilesDone
<1>9. ASSUME NEW f \in Files, RemoveSamplesLogfile(f) PROVE PhaseInv'
  BY <1>9 DEF RemoveSamplesLogfile
<1>10. CASE RemoveSamplesLogfilesDone
  BY <1>10 DEF RemoveSamplesLogfilesDone
<1>11. CASE EngineThrows
  BY <1>11 DEF EngineThrows
<1>12. CASE DeleteBookKeeper
  BY <1>12 DEF DeleteBookKeeper, LeaveRemoveEntry
<1>13. CASE StartCopy
  BY <1>13 DEF StartCopy
<1>14. CASE FinishCopy
  BY <1>14 DEF FinishCopy, LeaveRemoveEntry
<1>15. CASE CopyFails
  BY <1>15 DEF CopyFails, LeaveRemoveEntry
<1>16. ASSUME NEW f \in Files, Store(f) PROVE PhaseInv'
  BY <1>16 DEF Store
<1>17. ASSUME NEW f \in Files, StoreWithoutWriter(f) PROVE PhaseInv'
  BY <1>17 DEF StoreWithoutWriter
<1>18. ASSUME NEW f \in Files, BookOfErrorEngine(f) PROVE PhaseInv'
  BY <1>18 DEF BookOfErrorEngine
<1>19. CASE CompactionWindowExpiry
  BY <1>19 DEF CompactionWindowExpiry, CompactorEngine
<1>20. CASE ExpiryCleanUp
  BY <1>20 DEF ExpiryCleanUp
<1>21. CASE ExpiryCleanUpThrows
  BY <1>21 DEF ExpiryCleanUpThrows
<1>22. ASSUME NEW cause \in {"powerLoss", "processDeath"}, Die(cause) PROVE PhaseInv'
  BY <1>22 DEF Die, LoseMemory
<1>23. CASE DieInAppend
  BY <1>23 DEF DieInAppend, LoseMemory
<1>24. CASE Tick
  BY <1>24 DEF Tick
<1>25. CASE UNCHANGED vars
  BY <1>25 DEF vars
<1> HIDE DEF TypeOK, PhaseInv
<1> QED
  BY <1>1, <1>2, <1>3, <1>4, <1>5, <1>6, <1>7, <1>8, <1>9, <1>10, <1>11, <1>12,
     <1>13, <1>14, <1>15, <1>16, <1>17, <1>18, <1>19, <1>20, <1>21, <1>22, <1>23,
     <1>24, <1>25
     DEF Next, Boot, Engine, RemoveEntry, Loop, Environment

LEMMA EntryStamp ==
  ASSUME NEW s \in Seq(Directory), NEW i \in 1..Len(s)
  PROVE  s[i].stamp \in Nat
<1>1. s[i] \in Directory
  OBVIOUS
<1> QED  BY <1>1 DEF Directory

LEMMA UpToLater ==
  ASSUME NEW s \in Seq(Directory), NEW t \in Int, UpTo(s, t), NEW u \in Int, t <= u
  PROVE  UpTo(s, u)
<1> SUFFICES ASSUME NEW i \in 1..Len(s) PROVE s[i].stamp <= u
  BY DEF UpTo
<1>1. s[i].stamp <= t /\ s[i].stamp \in Nat
  BY EntryStamp DEF UpTo
<1> QED  BY <1>1

LEMMA NoEntriesInOrder ==
  ASSUME NEW t PROVE InOrder(<<>>) /\ UpTo(<<>>, t)
  BY DEF InOrder, UpTo

(* Removing the entries up to the victim keeps the order.                  *)
LEMMA EntriesAfterInOrder ==
  ASSUME NEW s \in Seq(Directory), NEW d \in Directory, InOrder(s)
  PROVE  /\ InOrder(EntriesAfter(s, d))
         /\ \A t : UpTo(s, t) => UpTo(EntriesAfter(s, d), t)
<1> DEFINE r == EntriesAfter(s, d)
<1>1. PICK k \in 0..Len(s) :
        /\ Len(r) + k <= Len(s)
        /\ \A i \in 1..Len(r) : r[i] = s[i + k]
  BY EntriesAfterProperties
<1>2. r \in Seq(Directory) /\ Len(r) \in Nat /\ Len(s) \in Nat
  BY EntriesAfterProperties
<1> HIDE DEF r
<1>3. \A i \in 1..Len(r) : i + k \in 1..Len(s) /\ r[i] = s[i + k]
  BY <1>1, <1>2
<1>4. InOrder(r)
  <2> SUFFICES ASSUME NEW i \in 1..Len(r), NEW j \in 1..Len(r), i < j
               PROVE  r[i].stamp < r[j].stamp
    BY DEF InOrder
  <2>1. i + k \in 1..Len(s) /\ j + k \in 1..Len(s) /\ i + k < j + k
    BY <1>2, <1>3
  <2>2. s[i + k].stamp < s[j + k].stamp
    BY <2>1 DEF InOrder
  <2> QED  BY <1>3, <2>2
<1>5. \A t : UpTo(s, t) => UpTo(r, t)
  BY <1>3 DEF UpTo
<1> QED  BY <1>4, <1>5 DEF r

LEMMA AppendInOrder ==
  ASSUME NEW s \in Seq(Directory), NEW d \in Directory, InOrder(s), UpTo(s, d.stamp - 1)
  PROVE  InOrder(Append(s, d)) /\ UpTo(Append(s, d), d.stamp)
<1> DEFINE r == Append(s, d)
<1>1. /\ Len(r) = Len(s) + 1 /\ Len(s) \in Nat
      /\ \A i \in 1..Len(s) : r[i] = s[i]
      /\ r[Len(s) + 1] = d
  OBVIOUS
<1>2. d.stamp \in Nat
  BY DEF Directory
<1>3. \A i \in 1..Len(s) : s[i].stamp \in Nat /\ s[i].stamp <= d.stamp - 1
  BY EntryStamp DEF UpTo
<1> HIDE DEF r
<1>4. \A i \in 1..Len(r) : i \in 1..Len(s) \/ i = Len(s) + 1
  BY <1>1
<1>5. UpTo(r, d.stamp)
  BY <1>1, <1>2, <1>3, <1>4 DEF UpTo
<1>6. ASSUME NEW i \in 1..Len(r), NEW j \in 1..Len(r), i < j
      PROVE  r[i].stamp < r[j].stamp
  <2>1. i \in 1..Len(s)
    BY <1>1, <1>6
  <2>2. CASE j \in 1..Len(s)
    BY <1>1, <1>6, <2>1, <2>2 DEF InOrder
  <2>3. CASE j = Len(s) + 1
    BY <1>1, <1>2, <1>3, <2>1, <2>3
  <2> QED  BY <1>4, <2>2, <2>3
<1> QED  BY <1>5, <1>6 DEF InOrder, r

(* The directories stay in order, and what is listed when a directory is   *)
(* opened is older than it: a start up and a new window take a later stamp. *)
LEMMA NextOrderInv ==
  ASSUME Hazards \subseteq OrderlyHazards, TypeOK, PhaseInv, OrderInv, [Next]_vars
  PROVE  OrderInv'
<1> USE EngineHazards, NoEntriesInOrder
<1> USE DEF TypeOK, OrderInv, localVars, memoryVars, keeperVars, sampleVars,
        historyVars
<1>1. CASE StartUp
  <2>1. stamp < now /\ stamp' = now
    BY <1>1 DEF StartUp
  <2>2. UpTo(compactor, stamp' - 1) /\ UpTo(draft, stamp' - 1)
    BY <2>1, UpToLater
  <2>3. UpTo(compactor, stamp') /\ UpTo(draft, stamp')
    BY <2>1, UpToLater
  <2>4. UNCHANGED <<compactor, draft>> /\ pc' = "bootEvent"
    BY <1>1 DEF StartUp
  <2> QED  BY <2>2, <2>3, <2>4
<1>2. CASE RecordBootEvent
  BY <1>2 DEF RecordBootEvent, PhaseInv
<1>3. CASE CleanEntry
  <2>1. Head(compactor) = compactor[1] /\ 1 \in 1..Len(compactor)
    BY <1>3, HeadType DEF CleanEntry, BOOT_TIME_DIR_COUNT
  <2>2. UpTo(compactor, stamp - 1) /\ UpTo(draft, stamp - 1)
    BY <1>3 DEF CleanEntry, PhaseInv
  <2>3. compactor[1].stamp <= stamp - 1 /\ compactor[1].stamp \in Nat
    BY <2>1, <2>2, HeadType DEF UpTo, Directory
  <2>4. /\ victim' = Head(compactor) /\ pc' \in {"extract", "remove", "forget"}
        /\ UNCHANGED <<compactor, draft, stamp, phase>>
    BY <1>3 DEF CleanEntry, CompactorEngine
  <2>5. victim'.stamp < stamp'
    BY <2>1, <2>3, <2>4
  <2> QED  BY <2>2, <2>4, <2>5
<1>4. CASE CleanEntriesDone
  BY <1>4 DEF CleanEntriesDone, PhaseInv
<1>5. CASE InitTimerEvents
  BY <1>5 DEF InitTimerEvents
<1>6. CASE AppendEntry
  <2>1. UpTo(compactor, current.stamp - 1) /\ current \in Directory
    BY <1>6, CurrentType DEF AppendEntry, current
  <2>2. compactor' = Append(compactor, current) /\ current.stamp = stamp
    BY <1>6 DEF AppendEntry, current
  <2>3. InOrder(compactor') /\ UpTo(compactor', stamp)
    BY <2>1, <2>2, AppendInOrder
  <2>4. /\ pc' = IF phase = "boot" THEN "arm" ELSE "run"
        /\ UNCHANGED <<draft, stamp, phase>>
    BY <1>6 DEF AppendEntry
  <2> QED  BY <2>3, <2>4
<1>7. ASSUME NEW f \in Files, CreateHighFidelityFile(f) PROVE OrderInv'
  BY <1>7 DEF CreateHighFidelityFile
<1>8. CASE HighFidelityFilesDone
  BY <1>8 DEF HighFidelityFilesDone
<1>9. ASSUME NEW f \in Files, RemoveSamplesLogfile(f) PROVE OrderInv'
  BY <1>9 DEF RemoveSamplesLogfile
<1>10. CASE RemoveSamplesLogfilesDone
  BY <1>10 DEF RemoveSamplesLogfilesDone
<1>11. CASE EngineThrows
  BY <1>11 DEF EngineThrows
<1>12. CASE DeleteBookKeeper
  BY <1>12 DEF DeleteBookKeeper, LeaveRemoveEntry
<1>13. CASE StartCopy
  <2>1. /\ draft' = EntriesAfter(compactor, victim) /\ compactor' = <<>>
        /\ pc = "forget" /\ pc' = "copy" /\ UNCHANGED <<stamp, phase>>
    BY <1>13 DEF StartCopy
  <2>2. InOrder(draft') /\ UpTo(draft', stamp)
    BY <2>1, EntriesAfterInOrder
  <2>3. phase = "boot" => UpTo(draft', stamp - 1)
    BY <2>1, EntriesAfterInOrder
  <2> QED  BY <2>1, <2>2, <2>3
<1>14. CASE FinishCopy
  BY <1>14 DEF FinishCopy, LeaveRemoveEntry
<1>15. CASE CopyFails
  BY <1>15 DEF CopyFails, LeaveRemoveEntry
<1>16. ASSUME NEW f \in Files, Store(f) PROVE OrderInv'
  BY <1>16 DEF Store
<1>17. ASSUME NEW f \in Files, StoreWithoutWriter(f) PROVE OrderInv'
  BY <1>17 DEF StoreWithoutWriter
<1>18. ASSUME NEW f \in Files, BookOfErrorEngine(f) PROVE OrderInv'
  BY <1>18 DEF BookOfErrorEngine
<1>19. CASE CompactionWindowExpiry
  <2>1. phase = "timer" /\ UNCHANGED <<draft, stamp, phase>>
    BY <1>19 DEF CompactionWindowExpiry, PhaseInv
  <2>2. CASE Len(compactor) >= RUN_TIME_DIR_COUNT /\ CompactorEngine(Head(compactor))
    <3>1. /\ Head(compactor) = compactor[1] /\ 1 \in 1..Len(compactor)
          /\ 2 \in 1..Len(compactor)
      BY <2>2, HeadType DEF RUN_TIME_DIR_COUNT
    <3>2. compactor[1].stamp < compactor[2].stamp /\ compactor[2].stamp <= stamp
      BY <3>1 DEF InOrder, UpTo
    <3>3. compactor[1].stamp \in Nat /\ compactor[2].stamp \in Nat
      BY <3>1, EntryStamp
    <3>4. victim' = Head(compactor) /\ compactor' = compactor
          /\ pc' \in {"extract", "remove"}
      BY <1>19, <2>2 DEF CompactionWindowExpiry, CompactorEngine
    <3> QED  BY <2>1, <3>1, <3>2, <3>3, <3>4
  <2>3. CASE ~(Len(compactor) >= RUN_TIME_DIR_COUNT /\ CompactorEngine(Head(compactor)))
    <3>1. pc' = "rotate" /\ (compactor' = <<>> \/ compactor' = compactor)
      BY <1>19, <2>3 DEF CompactionWindowExpiry
    <3> QED  BY <2>1, <3>1
  <2> QED  BY <2>2, <2>3
<1>20. CASE ExpiryCleanUp
  <2>1. /\ stamp < now /\ stamp' = now /\ phase = "timer" /\ pc' = "append"
        /\ UNCHANGED <<compactor, draft, phase>>
    BY <1>20 DEF ExpiryCleanUp, PhaseInv
  <2>2. UpTo(compactor, stamp') /\ UpTo(draft, stamp') /\ UpTo(compactor, stamp' - 1)
    BY <2>1, UpToLater
  <2> QED  BY <2>1, <2>2
<1>21. CASE ExpiryCleanUpThrows
  <2>1. /\ stamp < now /\ stamp' = now /\ phase = "timer" /\ pc' = "run"
        /\ UNCHANGED <<compactor, draft, phase>>
    BY <1>21 DEF ExpiryCleanUpThrows, PhaseInv
  <2>2. UpTo(compactor, stamp') /\ UpTo(draft, stamp')
    BY <2>1, UpToLater
  <2> QED  BY <2>1, <2>2
<1>22. ASSUME NEW cause \in {"powerLoss", "processDeath"}, Die(cause) PROVE OrderInv'
  BY <1>22 DEF Die, LoseMemory
<1>23. CASE DieInAppend
  BY <1>23 DEF DieInAppend, LoseMemory
<1>24. CASE Tick
  BY <1>24 DEF Tick
<1>25. CASE UNCHANGED vars
  BY <1>25 DEF vars
<1> HIDE DEF TypeOK, OrderInv
<1> QED
  BY <1>1, <1>2, <1>3, <1>4, <1>5, <1>6, <1>7, <1>8, <1>9, <1>10, <1>11, <1>12,
     <1>13, <1>14, <1>15, <1>16, <1>17, <1>18, <1>19, <1>20, <1>21, <1>22, <1>23,
     <1>24, <1>25
     DEF Next, Boot, Engine, RemoveEntry, Loop, Environment

(* A sample lies in the window of its directory, and a high fidelity file  *)
(* holds nothing that is not in its raw file, while that is there.  The    *)
(* step that matters is Store: the clock is not past the window of the     *)
(* current directory, and no high fidelity file exists for it yet.         *)
LEMMA NextSamplesInv ==
  ASSUME Hazards \subseteq OrderlyHazards, TypeOK, PhaseInv, OrderInv, SamplesInv,
         EngineInv, [Next]_vars
  PROVE  SamplesInv'
<1> USE EngineHazards
<1> USE DEF localVars, memoryVars, keeperVars, sampleVars, historyVars
<1>1. CASE UNCHANGED <<stamp, raw, hifi>>
  BY <1>1 DEF SamplesInv, SamplesIn
<1>2. ASSUME stamp' \in Nat, stamp < stamp', UNCHANGED <<raw, hifi>> PROVE SamplesInv'
  <2>1. ASSUME NEW s \in raw PROVE s.dir.stamp <= stamp'
    <3>1. s.dir.stamp <= stamp /\ s.dir.stamp \in Nat /\ stamp \in Nat
      BY DEF SamplesInv, TypeOK, Sample, Directory
    <3> QED  BY <1>2, <3>1
  <2>2. ASSUME NEW s \in hifi PROVE s.dir.stamp < stamp'
    <3>1. s.dir.stamp < stamp /\ s.dir.stamp \in Nat /\ stamp \in Nat
      BY DEF SamplesInv, TypeOK, Sample, Directory
    <3> QED  BY <1>2, <3>1
  <2> QED  BY <1>2, <2>1, <2>2 DEF SamplesInv, SamplesIn
<1>3. CASE StartUp
  BY <1>2, <1>3 DEF StartUp, TypeOK
<1>4. CASE ExpiryCleanUp
  BY <1>2, <1>4 DEF ExpiryCleanUp, TypeOK, PhaseInv
<1>5. CASE ExpiryCleanUpThrows
  BY <1>2, <1>5 DEF ExpiryCleanUpThrows, TypeOK, PhaseInv
<1>6. ASSUME NEW f \in Files, NEW part \in SUBSET SamplesIn(raw, victim, f),
             victim.stamp < stamp,
             hifi' = (hifi \ SamplesIn(hifi, victim, f)) \cup part,
             UNCHANGED <<stamp, raw>>
      PROVE  SamplesInv'
  <2>1. ASSUME NEW s \in hifi' PROVE s.dir.stamp < stamp
    BY <1>6, <2>1 DEF SamplesInv, SamplesIn
  <2>2. ASSUME NEW s \in hifi', SamplesIn(raw, s.dir, s.file) # {} PROVE s \in raw
    BY <1>6, <2>2 DEF SamplesInv, SamplesIn
  <2> QED  BY <1>6, <2>1, <2>2 DEF SamplesInv
<1>7. ASSUME NEW f \in Files, CreateHighFidelityFile(f) PROVE SamplesInv'
  <2> DEFINE near == {s \in SamplesIn(raw, victim, f) : InHiFiRange(s.time, errorTimes)}
  <2>1. near \in SUBSET SamplesIn(raw, victim, f)
    OBVIOUS
  <2>2. hifi' = (hifi \ SamplesIn(hifi, victim, f)) \cup near
    BY <1>7 DEF CreateHighFidelityFile
  <2>3. victim.stamp < stamp /\ UNCHANGED <<stamp, raw>>
    BY <1>7 DEF CreateHighFidelityFile, OrderInv, EngineInv
  <2> HIDE DEF near
  <2> QED  BY <1>6, <2>1, <2>2, <2>3
<1>8. ASSUME NEW cause \in {"powerLoss", "processDeath"}, Die(cause) PROVE SamplesInv'
  <2>1. UNCHANGED <<stamp, raw>>
    BY <1>8 DEF Die, LoseMemory
  <2>2. CASE UNCHANGED hifi
    BY <1>1, <2>1, <2>2
  <2>3. CASE ~UNCHANGED hifi
    <3>0. PICK f \in todo : \E p \in SUBSET SamplesIn(raw, victim, f) :
            hifi' = (hifi \ SamplesIn(hifi, victim, f)) \cup
                    {s \in p : InHiFiRange(s.time, errorTimes)}
      BY <1>8, <2>3 DEF Die
    <3>1. PICK p \in SUBSET SamplesIn(raw, victim, f) :
            hifi' = (hifi \ SamplesIn(hifi, victim, f)) \cup
                    {s \in p : InHiFiRange(s.time, errorTimes)}
      BY <3>0
    <3>6. f \in Files
      BY DEF TypeOK
    <3>2. pc = "extract"
      BY <1>8, <2>3 DEF Die
    <3>3. victim.stamp < stamp
      BY <3>2 DEF OrderInv
    <3> DEFINE part == {s \in p : InHiFiRange(s.time, errorTimes)}
    <3>4. part \in SUBSET SamplesIn(raw, victim, f)
      OBVIOUS
    <3>5. hifi' = (hifi \ SamplesIn(hifi, victim, f)) \cup part
      BY <3>1
    <3> HIDE DEF part
    <3> QED  BY <1>6, <2>1, <3>3, <3>4, <3>5, <3>6
  <2> QED  BY <2>2, <2>3
<1>9. ASSUME NEW f \in Files, RemoveSamplesLogfile(f) PROVE SamplesInv'
  <2>1. /\ raw' = raw \ SamplesIn(raw, victim, f)
        /\ UNCHANGED <<hifi, stamp>>
    BY <1>9 DEF RemoveSamplesLogfile
  <2>2. ASSUME NEW s \in hifi, SamplesIn(raw', s.dir, s.file) # {} PROVE s \in raw'
    BY <2>1, <2>2 DEF SamplesInv, SamplesIn
  <2> QED  BY <2>1, <2>2 DEF SamplesInv
<1>10. ASSUME NEW f \in Files, Store(f) PROVE SamplesInv'
  <2> DEFINE new == [dir |-> current, file |-> f, time |-> now]
  <2>1. raw' = raw \cup {new} /\ UNCHANGED <<hifi, stamp>> /\ pc = "run"
    BY <1>10 DEF Store
  <2>2. /\ new.dir = current /\ new.dir.stamp = stamp /\ new.time = now
        /\ stamp <= now /\ now <= stamp + Window
    BY <2>1, ConstantsAssumption DEF current, PhaseInv, TypeOK
  <2>3. stamp \in Nat /\ stamp <= stamp
    BY DEF TypeOK
  <2>4. ASSUME NEW s \in hifi PROVE s.dir # current
    <3>1. s.dir.stamp < stamp /\ current.stamp = stamp
      BY DEF SamplesInv, current
    <3> QED  BY <2>3, <3>1
  <2> HIDE DEF new
  <2>5. ASSUME NEW s \in hifi, SamplesIn(raw', s.dir, s.file) # {} PROVE s \in raw'
    BY <2>1, <2>2, <2>4, <2>5 DEF SamplesInv, SamplesIn
  <2> QED  BY <2>1, <2>2, <2>3, <2>5 DEF SamplesInv
<1>11. CASE Boot
  BY <1>1, <1>3, <1>11 DEF Boot, RecordBootEvent, CleanEntry, CleanEntriesDone,
     InitTimerEvents, CompactorEngine
<1>12. CASE AppendEntry
  BY <1>1, <1>12 DEF AppendEntry
<1>13. CASE Engine
  BY <1>1, <1>7, <1>9, <1>13 DEF Engine, HighFidelityFilesDone,
     RemoveSamplesLogfilesDone, EngineThrows, RemoveEntry, DeleteBookKeeper,
     StartCopy, FinishCopy, CopyFails, LeaveRemoveEntry
<1>14. CASE Loop
  BY <1>1, <1>4, <1>5, <1>10, <1>14 DEF Loop, StoreWithoutWriter,
     BookOfErrorEngine, CompactionWindowExpiry
<1>15. CASE Environment
  BY <1>1, <1>8, <1>15 DEF Environment, DieInAppend, LoseMemory, Tick
<1>16. CASE UNCHANGED vars
  BY <1>1, <1>16 DEF vars
<1> QED  BY <1>11, <1>12, <1>13, <1>14, <1>15, <1>16 DEF Next

(* The engine is started on a directory: every sample that has to be kept  *)
(* is in a file the iterator will come to.                                 *)
LEMMA CompactorEngineStarts ==
  ASSUME TypeOK, EngineInv, NEW d \in Directory, CompactorEngine(d),
         UNCHANGED <<raw, hifi, tornRaw, reported>>
  PROVE  EngineInv'
<1>1. /\ torn = {} /\ tornRaw = {} /\ book = reported
  BY DEF EngineInv
<1>2. /\ UNCHANGED <<book, torn>> /\ victim' = d /\ errorTimes' = ErrorsAround(d)
      /\ todo' = RawFilesOf(d)
      /\ pc' = IF errorTimes' = {} THEN "remove" ELSE "extract"
  BY <1>1 DEF CompactorEngine, Corrupt
<1>3. errorTimes' = ErrorsAround(victim)'
  BY <1>2 DEF ErrorsAround, leastWindowTimestamp, farWindowTimestamp
<1>4. \A f \in todo' : SamplesIn(raw, d, f) # {}
  BY <1>1, <1>2 DEF RawFilesOf, SamplesIn
<1>5. ASSUME NEW s \in raw, s.dir = d, InHiFiRange(s.time, errorTimes')
      PROVE  pc' = "extract" /\ s.file \in todo'
  <2>1. errorTimes' # {}
    BY <1>5 DEF InHiFiRange
  <2>2. s.file \in RawFilesOf(d)
    BY <1>5 DEF RawFilesOf
  <2> QED  BY <1>2, <2>1, <2>2
<1>6. (\A f \in todo : SamplesIn(raw, victim, f) # {})'
  BY <1>2, <1>4 DEF SamplesIn
<1>7. (\A s \in raw :
         s.dir = victim /\ InHiFiRange(s.time, errorTimes) /\ s \notin hifi =>
           pc = "extract" /\ s.file \in todo)'
  BY <1>2, <1>5 DEF InHiFiRange
<1> QED  BY <1>1, <1>2, <1>3, <1>6, <1>7 DEF EngineInv

(* A step that leaves the engine leaves nothing to be said of it.          *)
LEMMA EngineLeft ==
  ASSUME EngineInv, UNCHANGED <<torn, tornRaw, book, reported>>,
         pc' \notin {"extract", "remove"}
  PROVE  EngineInv'
  BY DEF EngineInv

LEMMA EngineUntouched ==
  ASSUME EngineInv,
         UNCHANGED <<pc, victim, errorTimes, todo, book, reported, torn, tornRaw,
                     raw, hifi>>
  PROVE  EngineInv'
<1>1. ErrorsAround(victim)' = ErrorsAround(victim)
  BY DEF ErrorsAround, leastWindowTimestamp, farWindowTimestamp
<1>2. /\ (pc = "extract" => \A f \in todo : SamplesIn(raw, victim, f) # {})'
      /\ (pc \in {"extract", "remove"} =>
            \A s \in raw :
              s.dir = victim /\ InHiFiRange(s.time, errorTimes) /\ s \notin hifi =>
                pc = "extract" /\ s.file \in todo)'
  BY DEF EngineInv, SamplesIn, InHiFiRange
<1> QED  BY <1>1, <1>2 DEF EngineInv

(* While the engine runs, a sample near an error is in its high fidelity   *)
(* file or in a file that is still to be read; once the raw files are      *)
(* being removed it is in its high fidelity file.                          *)
LEMMA NextEngineInv ==
  ASSUME Hazards \subseteq OrderlyHazards, TypeOK, PhaseInv, OrderInv, SamplesInv,
         EngineInv, [Next]_vars
  PROVE  EngineInv'
<1> USE EngineHazards
<1> USE DEF localVars, memoryVars, keeperVars, sampleVars, historyVars
<1>0. torn = {} /\ tornRaw = {} /\ book = reported
  BY DEF EngineInv
<1>1. CASE StartUp
  BY <1>1, EngineLeft DEF StartUp
<1>2. CASE RecordBootEvent
  BY <1>2, EngineLeft DEF RecordBootEvent
<1>3. CASE CleanEntry
  <2>1. Head(compactor) \in Directory
    BY <1>3, HeadType DEF CleanEntry, BOOT_TIME_DIR_COUNT
  <2>2. UNCHANGED <<raw, hifi, tornRaw, reported>>
    BY <1>3 DEF CleanEntry
  <2>3. CASE CompactorEngine(Head(compactor))
    BY <2>1, <2>2, <2>3, CompactorEngineStarts
  <2>4. CASE ~CompactorEngine(Head(compactor))
    BY <1>0, <1>3, <2>4, EngineLeft DEF CleanEntry
  <2> QED  BY <2>3, <2>4
<1>4. CASE CleanEntriesDone
  BY <1>0, <1>4, EngineLeft DEF CleanEntriesDone
<1>5. CASE InitTimerEvents
  BY <1>5, EngineLeft DEF InitTimerEvents
<1>6. CASE AppendEntry
  BY <1>6, EngineLeft DEF AppendEntry
<1>7. ASSUME NEW f \in Files, CreateHighFidelityFile(f) PROVE EngineInv'
  <2> DEFINE near == {s \in SamplesIn(raw, victim, f) : InHiFiRange(s.time, errorTimes)}
  <2>1. /\ pc = "extract" /\ todo' = todo \ {f} /\ tornRaw' = {}
        /\ hifi' = (hifi \ SamplesIn(hifi, victim, f)) \cup near
        /\ UNCHANGED <<pc, victim, errorTimes, torn, book, reported, raw>>
    BY <1>0, <1>7 DEF CreateHighFidelityFile
  <2>2. errorTimes' = ErrorsAround(victim)'
    BY <2>1 DEF EngineInv, ErrorsAround, leastWindowTimestamp, farWindowTimestamp
  <2>3. (\A g \in todo : SamplesIn(raw, victim, g) # {})'
    BY <2>1 DEF EngineInv, SamplesIn
  <2>4. ASSUME NEW s \in raw, s.dir = victim, InHiFiRange(s.time, errorTimes),
               s \notin hifi'
        PROVE  s.file \in todo'
    <3>1. s.file # f
      BY <2>1, <2>4 DEF SamplesIn
    <3>2. s \notin hifi
      BY <2>1, <2>4, <3>1 DEF SamplesIn
    <3>3. s.file \in todo
      BY <2>1, <2>4, <3>2 DEF EngineInv
    <3> QED  BY <2>1, <3>1, <3>3
  <2>5. (\A s \in raw :
           s.dir = victim /\ InHiFiRange(s.time, errorTimes) /\ s \notin hifi =>
             pc = "extract" /\ s.file \in todo)'
    BY <2>1, <2>4 DEF InHiFiRange
  <2> HIDE DEF near
  <2> QED  BY <1>0, <2>1, <2>2, <2>3, <2>5 DEF EngineInv
<1>8. CASE HighFidelityFilesDone
  <2>1. /\ pc = "extract" /\ pc' = "remove" /\ todo = {}
        /\ UNCHANGED <<victim, errorTimes, torn, tornRaw, book, reported, raw, hifi>>
    BY <1>8 DEF HighFidelityFilesDone
  <2>2. errorTimes' = ErrorsAround(victim)'
    BY <2>1 DEF EngineInv, ErrorsAround, leastWindowTimestamp, farWindowTimestamp
  <2>3. \A s \in raw :
          s.dir = victim /\ InHiFiRange(s.time, errorTimes) => s \in hifi
    BY <2>1 DEF EngineInv
  <2>4. (\A s \in raw :
           s.dir = victim /\ InHiFiRange(s.time, errorTimes) => s \in hifi)'
    BY <2>1, <2>3 DEF InHiFiRange
  <2> QED  BY <1>0, <2>1, <2>2, <2>4 DEF EngineInv
<1>9. ASSUME NEW f \in Files, RemoveSamplesLogfile(f) PROVE EngineInv'
  <2>1. /\ pc = "remove" /\ raw' \subseteq raw /\ tornRaw' = {}
        /\ UNCHANGED <<pc, victim, errorTimes, torn, book, reported, hifi>>
    BY <1>0, <1>9 DEF RemoveSamplesLogfile
  <2>2. errorTimes' = ErrorsAround(victim)'
    BY <2>1 DEF EngineInv, ErrorsAround, leastWindowTimestamp, farWindowTimestamp
  <2>3. \A s \in raw :
          s.dir = victim /\ InHiFiRange(s.time, errorTimes) => s \in hifi
    BY <2>1 DEF EngineInv
  <2>4. (\A s \in raw :
           s.dir = victim /\ InHiFiRange(s.time, errorTimes) => s \in hifi)'
    BY <2>1, <2>3 DEF InHiFiRange
  <2> QED  BY <1>0, <2>1, <2>2, <2>4 DEF EngineInv
<1>10. CASE RemoveSamplesLogfilesDone
  BY <1>10, EngineLeft DEF RemoveSamplesLogfilesDone
<1>11. CASE EngineThrows
  BY <1>11, EngineLeft DEF EngineThrows
<1>12. CASE DeleteBookKeeper
  BY <1>0, <1>12, EngineLeft DEF DeleteBookKeeper, LeaveRemoveEntry
<1>13. CASE StartCopy
  BY <1>13, EngineLeft DEF StartCopy
<1>14. CASE FinishCopy
  BY <1>14, EngineLeft DEF FinishCopy, LeaveRemoveEntry
<1>15. CASE CopyFails
  BY <1>15, EngineLeft DEF CopyFails, LeaveRemoveEntry
<1>16. ASSUME NEW f \in Files, Store(f) PROVE EngineInv'
  BY <1>16, EngineLeft DEF Store
<1>17. ASSUME NEW f \in Files, StoreWithoutWriter(f) PROVE EngineInv'
  BY <1>17, EngineLeft DEF StoreWithoutWriter
<1>18. ASSUME NEW f \in Files, BookOfErrorEngine(f) PROVE EngineInv'
  BY <1>0, <1>18 DEF BookOfErrorEngine, EngineInv, Corrupt, CompareMessageWithLog,
     OrderlyHazards
<1>19. CASE CompactionWindowExpiry
  <2>1. UNCHANGED <<raw, hifi, tornRaw, reported>>
    BY <1>19 DEF CompactionWindowExpiry
  <2>2. CASE Len(compactor) >= RUN_TIME_DIR_COUNT /\ CompactorEngine(Head(compactor))
    <3>1. Head(compactor) \in Directory
      BY <2>2, HeadType DEF RUN_TIME_DIR_COUNT
    <3> QED  BY <2>1, <2>2, <3>1, CompactorEngineStarts
  <2>3. CASE ~(Len(compactor) >= RUN_TIME_DIR_COUNT /\ CompactorEngine(Head(compactor)))
    BY <1>0, <1>19, <2>1, <2>3, EngineLeft DEF CompactionWindowExpiry
  <2> QED  BY <2>2, <2>3
<1>20. CASE ExpiryCleanUp
  BY <1>20, EngineLeft DEF ExpiryCleanUp
<1>21. CASE ExpiryCleanUpThrows
  BY <1>21, EngineLeft DEF ExpiryCleanUpThrows
<1>22. ASSUME NEW cause \in {"powerLoss", "processDeath"}, Die(cause) PROVE EngineInv'
  BY <1>22, EngineLeft DEF Die, LoseMemory
<1>23. CASE DieInAppend
  BY <1>23 DEF DieInAppend
<1>24. CASE Tick
  BY <1>24, EngineUntouched DEF Tick
<1>25. CASE UNCHANGED vars
  BY <1>25, EngineUntouched DEF vars
<1> QED
  BY <1>1, <1>2, <1>3, <1>4, <1>5, <1>6, <1>7, <1>8, <1>9, <1>10, <1>11, <1>12,
     <1>13, <1>14, <1>15, <1>16, <1>17, <1>18, <1>19, <1>20, <1>21, <1>22, <1>23,
     <1>24, <1>25
     DEF Next, Boot, Engine, RemoveEntry, Loop, Environment

(* The invariant holds for any number of files and errors and any length   *)
(* of the window, as long as no record is half written, no two directories *)
(* are opened in one second, and the timers are armed in the second of     *)
(* start up.                                                               *)
THEOREM RetentionInvariant ==
  ASSUME Hazards \subseteq OrderlyHazards
  PROVE  Spec => []RetentionInv
<1>1. RetentionInv /\ [Next]_vars => RetentionInv'
  BY NextTypeOK, NextPhaseInv, NextOrderInv, NextSamplesInv, NextEngineInv
     DEF RetentionInv
<1> QED  BY <1>1, InitRetentionInv, PTL DEF Spec

-----------------------------------------------------------------------------
(* Compaction implements SampleRetention.                                  *)

kept == raw \cup hifi

(* A sample of the directory being compacted that lies near an error is    *)
(* one the compactor looks for: the range in which errors are searched is  *)
(* the window of the directory, extended by Preserve on both sides.        *)
LEMMA NearIsInHiFiRange ==
  ASSUME RetentionInv, pc \in {"extract", "remove"}, NEW s \in raw, s.dir = victim,
         NEW e \in reported, Retention!Near(s, e)
  PROVE  InHiFiRange(s.time, errorTimes)
<1>1. /\ e.boot = victim.boot
      /\ e.time - Preserve <= s.time /\ s.time <= e.time + Preserve
  BY DEF Retention!Near
<1>2. victim.stamp <= s.time /\ s.time <= victim.stamp + Window
  BY DEF RetentionInv, SamplesInv
<1>3. e.time \in Nat /\ s.time \in Nat /\ victim.stamp \in Nat
  BY DEF RetentionInv, TypeOK, Sample, Directory, BookOfErrorsEntry
<1>4. CheckIsInRange(leastWindowTimestamp(victim) - Preserve,
                     farWindowTimestamp(victim) + Preserve, e.time)
  BY <1>1, <1>2, <1>3, ConstantsAssumption
     DEF CheckIsInRange, leastWindowTimestamp, farWindowTimestamp
<1>5. e.time \in errorTimes
  BY <1>1, <1>4 DEF RetentionInv, EngineInv, ErrorsAround
<1> QED  BY <1>1, <1>5 DEF InHiFiRange, CheckIsInRange

(* Making a high fidelity file, or dying while doing so, loses nothing:    *)
(* what the old one held is still in the raw file.                         *)
LEMMA HiFiKeepsEverything ==
  ASSUME RetentionInv, pc = "extract", NEW f \in todo,
         NEW part \in SUBSET SamplesIn(raw, victim, f),
         hifi' = (hifi \ SamplesIn(hifi, victim, f)) \cup part, UNCHANGED raw
  PROVE  kept' = kept
<1>1. SamplesIn(raw, victim, f) # {}
  BY DEF RetentionInv, EngineInv
<1>2. SamplesIn(hifi, victim, f) \subseteq raw
  BY <1>1 DEF SamplesIn, RetentionInv, SamplesInv
<1>3. part \subseteq raw
  BY DEF SamplesIn
<1> QED  BY <1>2, <1>3 DEF kept

(* Every step of the recorder is a step of the promise or changes nothing  *)
(* it speaks of.                                                           *)
LEMMA NextRetention ==
  ASSUME Hazards \subseteq OrderlyHazards, RetentionInv, [Next]_vars
  PROVE  [Retention!Next]_<<current, kept, reported>>
<1> DEFINE Step == [Retention!Next]_<<current, kept, reported>>
<1> USE EngineHazards
<1> USE DEF localVars, memoryVars, keeperVars, sampleVars, historyVars
<1>0. now \in Nat /\ stamp \in Nat /\ tornRaw = {}
  BY DEF RetentionInv, TypeOK, EngineInv
<1>1. CASE UNCHANGED <<boot, stamp, raw, hifi, reported>>
  BY <1>1 DEF current, kept
<1>2. ASSUME stamp' # stamp, UNCHANGED <<raw, hifi, reported>> PROVE Step
  BY <1>2 DEF current, kept, Retention!Next, Retention!OpenNext
<1>3. CASE StartUp
  BY <1>0, <1>2, <1>3 DEF StartUp
<1>4. CASE ExpiryCleanUp
  BY <1>0, <1>2, <1>4 DEF ExpiryCleanUp, RetentionInv, PhaseInv
<1>5. CASE ExpiryCleanUpThrows
  BY <1>0, <1>2, <1>5 DEF ExpiryCleanUpThrows, RetentionInv, PhaseInv
<1>6. ASSUME NEW f \in Files, CreateHighFidelityFile(f) PROVE Step
  <2> DEFINE near == {s \in SamplesIn(raw, victim, f) : InHiFiRange(s.time, errorTimes)}
  <2>1. near \in SUBSET SamplesIn(raw, victim, f)
    OBVIOUS
  <2>2. /\ hifi' = (hifi \ SamplesIn(hifi, victim, f)) \cup near
        /\ UNCHANGED <<raw, boot, stamp, reported>> /\ pc = "extract" /\ f \in todo
    BY <1>0, <1>6 DEF CreateHighFidelityFile
  <2> HIDE DEF near
  <2>3. kept' = kept
    BY <2>1, <2>2, HiFiKeepsEverything
  <2> QED  BY <2>2, <2>3 DEF current
<1>7. ASSUME NEW cause \in {"powerLoss", "processDeath"}, Die(cause) PROVE Step
  <2>1. UNCHANGED <<boot, stamp, raw, reported>>
    BY <1>7 DEF Die, LoseMemory
  <2>2. CASE UNCHANGED hifi
    BY <1>1, <2>1, <2>2
  <2>3. CASE ~UNCHANGED hifi
    <3>1. PICK f \in todo : \E p \in SUBSET SamplesIn(raw, victim, f) :
            hifi' = (hifi \ SamplesIn(hifi, victim, f)) \cup
                    {s \in p : InHiFiRange(s.time, errorTimes)}
      BY <1>7, <2>3 DEF Die
    <3>2. PICK p \in SUBSET SamplesIn(raw, victim, f) :
            hifi' = (hifi \ SamplesIn(hifi, victim, f)) \cup
                    {s \in p : InHiFiRange(s.time, errorTimes)}
      BY <3>1
    <3>3. pc = "extract"
      BY <1>7, <2>3 DEF Die
    <3> DEFINE part == {s \in p : InHiFiRange(s.time, errorTimes)}
    <3>4. part \in SUBSET SamplesIn(raw, victim, f)
      OBVIOUS
    <3>5. hifi' = (hifi \ SamplesIn(hifi, victim, f)) \cup part
      BY <3>2
    <3> HIDE DEF part
    <3>6. kept' = kept
      BY <2>1, <3>3, <3>4, <3>5, HiFiKeepsEverything
    <3> QED  BY <2>1, <3>6 DEF current
  <2> QED  BY <2>2, <2>3
<1>8. ASSUME NEW f \in Files, RemoveSamplesLogfile(f) PROVE Step
  <2>1. /\ pc = "remove" /\ raw' = raw \ SamplesIn(raw, victim, f)
        /\ UNCHANGED <<hifi, boot, stamp, reported>>
    BY <1>8 DEF RemoveSamplesLogfile
  <2>2. kept' \subseteq kept
    BY <2>1 DEF kept
  <2>3. ASSUME NEW s \in kept \ kept'
        PROVE  s.dir # current /\ \A e \in reported : ~Retention!Near(s, e)
    <3>1. s \in raw /\ s \notin hifi /\ s.dir = victim
      BY <2>1, <2>3 DEF kept, SamplesIn
    <3>2. victim.stamp < stamp /\ victim.stamp \in Nat
      BY <2>1 DEF RetentionInv, OrderInv, TypeOK, Directory
    <3>3. s.dir # current
      <4>1. victim.stamp # stamp /\ current.stamp = stamp
        BY <1>0, <3>2 DEF current
      <4> QED  BY <3>1, <4>1
    <3>4. ~InHiFiRange(s.time, errorTimes)
      BY <2>1, <3>1 DEF RetentionInv, EngineInv
    <3>5. \A e \in reported : ~Retention!Near(s, e)
      BY <2>1, <3>1, <3>4, NearIsInHiFiRange
    <3> QED  BY <3>3, <3>5
  <2>4. UNCHANGED <<current, reported>>
    BY <2>1 DEF current
  <2>5. Retention!Forget
    BY <2>2, <2>3, <2>4 DEF Retention!Forget, kept
  <2> QED  BY <2>5 DEF Retention!Next
<1>9. ASSUME NEW f \in Files, Store(f) PROVE Step
  <2> DEFINE new == [dir |-> current, file |-> f, time |-> now]
  <2>1. raw' = raw \cup {new} /\ UNCHANGED <<hifi, boot, stamp, reported>>
    BY <1>9 DEF Store
  <2>2. kept' = kept \cup {new} /\ new.dir = current
    BY <2>1 DEF kept
  <2> HIDE DEF new
  <2>3. UNCHANGED <<current, reported>>
    BY <2>1 DEF current
  <2>4. Retention!Take
    BY <2>2, <2>3 DEF Retention!Take, kept
  <2> QED  BY <2>4 DEF Retention!Next
<1>10. ASSUME NEW f \in Files, BookOfErrorEngine(f) PROVE Step
  <2> DEFINE e == [boot |-> boot, device |-> f, time |-> now]
  <2>1. reported' = reported \cup {e} /\ UNCHANGED <<raw, hifi, boot, stamp>>
    BY <1>10 DEF BookOfErrorEngine
  <2>2. e.boot = current.boot
    BY DEF current
  <2> HIDE DEF e
  <2>3. UNCHANGED <<current, kept>>
    BY <2>1 DEF current, kept
  <2>4. Retention!Report
    BY <2>1, <2>2, <2>3 DEF Retention!Report, kept
  <2> QED  BY <2>4 DEF Retention!Next
<1>11. CASE Boot
  BY <1>1, <1>3, <1>11 DEF Boot, RecordBootEvent, CleanEntry, CleanEntriesDone,
     InitTimerEvents, CompactorEngine
<1>12. CASE AppendEntry
  BY <1>1, <1>12 DEF AppendEntry
<1>13. CASE Engine
  BY <1>1, <1>6, <1>8, <1>13 DEF Engine, HighFidelityFilesDone,
     RemoveSamplesLogfilesDone, EngineThrows, RemoveEntry, DeleteBookKeeper,
     StartCopy, FinishCopy, CopyFails, LeaveRemoveEntry
<1>14. CASE Loop
  BY <1>1, <1>4, <1>5, <1>9, <1>10, <1>14 DEF Loop, StoreWithoutWriter,
     CompactionWindowExpiry
<1>15. CASE Environment
  BY <1>1, <1>7, <1>15 DEF Environment, DieInAppend, LoseMemory, Tick
<1>16. CASE UNCHANGED vars
  BY <1>1, <1>16 DEF vars
<1> QED  BY <1>11, <1>12, <1>13, <1>14, <1>15, <1>16 DEF Next

(* The recorder keeps its promise: a sample is thrown away only when its   *)
(* directory is closed and no error reported until then lies within        *)
(* Preserve seconds of it, whatever steps the compactor is interrupted at. *)
THEOREM CompactionImplementsRetention ==
  ASSUME Hazards \subseteq OrderlyHazards
  PROVE  Spec => RetentionSpec
<1>1. Init => Retention!Init
  BY DEF Init, Retention!Init
<1>2. RetentionInv /\ [Next]_vars => [Retention!Next]_<<current, raw \cup hifi, reported>>
  BY NextRetention DEF kept
<1> QED
  BY <1>1, <1>2, RetentionInvariant, PTL DEF Spec, RetentionSpec, Retention!Spec

-----------------------------------------------------------------------------
(* Two more consequences of the invariant.                                 *)

(* The engine is never started on the directory the records write to.      *)
THEOREM CurrentStaysOpen ==
  ASSUME Hazards \subseteq OrderlyHazards
  PROVE  Spec => []CurrentIsNotCompacted
<1>1. RetentionInv => CurrentIsNotCompacted
  <2> SUFFICES ASSUME RetentionInv, pc \in {"extract", "remove"} PROVE victim # current
    BY DEF CurrentIsNotCompacted
  <2>1. victim.stamp < stamp /\ stamp \in Nat /\ current.stamp = stamp
    BY DEF RetentionInv, OrderInv, TypeOK, current
  <2> QED  BY <2>1
<1> QED  BY <1>1, RetentionInvariant, PTL

(* A compaction that is done again after a crash finds no raw file where   *)
(* the high fidelity file is complete, and leaves that file alone.         *)
THEOREM HiFiFilesAreFinal ==
  ASSUME Hazards \subseteq OrderlyHazards
  PROVE  Spec => HiFiIsFinal
<1> DEFINE Final(s) ==
      /\ SamplesIn(raw, s.dir, s.file) = {}
      /\ [dir |-> s.dir, file |-> s.file] \notin tornRaw
      => s \in hifi'
<1> USE DEF localVars, memoryVars, keeperVars, sampleVars, historyVars
<1>1. ASSUME RetentionInv, pc = "extract", NEW f \in todo, NEW s \in hifi,
             SamplesIn(raw, s.dir, s.file) = {}
      PROVE  s \notin SamplesIn(hifi, victim, f)
  BY <1>1 DEF RetentionInv, EngineInv, SamplesIn
<1>2. ASSUME RetentionInv, [Next]_vars, NEW s \in hifi PROVE Final(s)
  <2>1. CASE UNCHANGED hifi
    BY <2>1
  <2>2. ASSUME NEW f \in Files, CreateHighFidelityFile(f) PROVE Final(s)
    BY <1>1, <1>2, <2>2 DEF CreateHighFidelityFile
  <2>3. ASSUME NEW cause \in {"powerLoss", "processDeath"}, Die(cause) PROVE Final(s)
    <3>1. CASE UNCHANGED hifi
      BY <3>1
    <3>2. CASE ~UNCHANGED hifi
      <4>1. PICK f \in todo : hifi \ SamplesIn(hifi, victim, f) \subseteq hifi'
        BY <2>3, <3>2 DEF Die
      <4>2. pc = "extract"
        BY <2>3, <3>2 DEF Die
      <4> QED  BY <1>1, <1>2, <4>1, <4>2
    <3> QED  BY <3>1, <3>2
  <2>4. CASE Boot
    BY <2>1, <2>4 DEF Boot, StartUp, RecordBootEvent, CleanEntry, CleanEntriesDone,
       InitTimerEvents
  <2>5. CASE AppendEntry
    BY <2>1, <2>5 DEF AppendEntry
  <2>6. CASE Engine
    BY <2>1, <2>2, <2>6 DEF Engine, HighFidelityFilesDone, RemoveSamplesLogfile,
       RemoveSamplesLogfilesDone, EngineThrows, RemoveEntry, DeleteBookKeeper,
       StartCopy, FinishCopy, CopyFails, LeaveRemoveEntry
  <2>7. CASE Loop
    BY <2>1, <2>7 DEF Loop, Store, StoreWithoutWriter, BookOfErrorEngine,
       CompactionWindowExpiry, ExpiryCleanUp, ExpiryCleanUpThrows
  <2>8. CASE Environment
    BY <2>1, <2>3, <2>8 DEF Environment, DieInAppend, Tick
  <2>9. CASE UNCHANGED vars
    BY <2>1, <2>9 DEF vars
  <2> QED  BY <1>2, <2>4, <2>5, <2>6, <2>7, <2>8, <2>9 DEF Next
<1>3. RetentionInv /\ [Next]_vars => [\A s \in hifi : Final(s)]_vars
  BY <1>2
<1> QED  BY <1>3, RetentionInvariant, PTL DEF Spec, HiFiIsFinal

-----------------------------------------------------------------------------
(* Start up ends with nothing pending, and data of the old format is left  *)
(* alone: under every hazard.                                              *)

(* The loop is entered by InitTimerEvents only, and newCompactor.dat is    *)
(* read right after it was written.                                        *)
PlaceInv ==
  /\ pc \in {"down", "bootEvent", "clean", "arm"} => phase = "boot"
  /\ pc \in {"run", "rotate"} => phase = "timer"
  /\ pc # "copy" => draft = <<>>

CleanInv == PlaceInv /\ NothingPendingAfterClean

LEMMA NextCleanInv == ASSUME TypeOK, CleanInv, [Next]_vars PROVE CleanInv'
<1> USE DEF CleanInv, PlaceInv, NothingPendingAfterClean, Corrupt, localVars,
        memoryVars, keeperVars, sampleVars, historyVars
<1>1. CASE StartUp
  BY <1>1 DEF StartUp
<1>2. CASE RecordBootEvent
  BY <1>2 DEF RecordBootEvent
<1>3. CASE CleanEntry
  BY <1>3 DEF CleanEntry, CompactorEngine
<1>4. CASE CleanEntriesDone
  <2>1. compactor \in Seq(Directory) /\ Len(compactor) = 0
    BY <1>4 DEF CleanEntriesDone, BOOT_TIME_DIR_COUNT, TypeOK
  <2>2. compactor = <<>>
    BY <2>1, EmptySeq
  <2> QED  BY <1>4, <2>2 DEF CleanEntriesDone
<1>5. CASE InitTimerEvents
  BY <1>5 DEF InitTimerEvents
<1>6. CASE AppendEntry
  BY <1>6 DEF AppendEntry, TypeOK
<1>7. ASSUME NEW f \in Files, CreateHighFidelityFile(f) PROVE CleanInv'
  BY <1>7 DEF CreateHighFidelityFile
<1>8. CASE HighFidelityFilesDone
  BY <1>8 DEF HighFidelityFilesDone
<1>9. ASSUME NEW f \in Files, RemoveSamplesLogfile(f) PROVE CleanInv'
  BY <1>9 DEF RemoveSamplesLogfile
<1>10. CASE RemoveSamplesLogfilesDone
  BY <1>10 DEF RemoveSamplesLogfilesDone
<1>11. CASE EngineThrows
  BY <1>11 DEF EngineThrows
<1>12. CASE DeleteBookKeeper
  BY <1>12 DEF DeleteBookKeeper, LeaveRemoveEntry, TypeOK
<1>13. CASE StartCopy
  BY <1>13 DEF StartCopy
<1>14. CASE FinishCopy
  BY <1>14 DEF FinishCopy, LeaveRemoveEntry, TypeOK
<1>15. CASE CopyFails
  BY <1>15 DEF CopyFails, LeaveRemoveEntry, TypeOK
<1>16. ASSUME NEW f \in Files, Store(f) PROVE CleanInv'
  BY <1>16 DEF Store
<1>17. ASSUME NEW f \in Files, StoreWithoutWriter(f) PROVE CleanInv'
  BY <1>17 DEF StoreWithoutWriter
<1>18. ASSUME NEW f \in Files, BookOfErrorEngine(f) PROVE CleanInv'
  BY <1>18 DEF BookOfErrorEngine
<1>19. CASE CompactionWindowExpiry
  BY <1>19 DEF CompactionWindowExpiry, CompactorEngine
<1>20. CASE ExpiryCleanUp
  BY <1>20 DEF ExpiryCleanUp
<1>21. CASE ExpiryCleanUpThrows
  BY <1>21 DEF ExpiryCleanUpThrows
<1>22. ASSUME NEW cause \in {"powerLoss", "processDeath"}, Die(cause) PROVE CleanInv'
  BY <1>22 DEF Die, LoseMemory
<1>23. CASE DieInAppend
  BY <1>23 DEF DieInAppend, LoseMemory
<1>24. CASE Tick
  BY <1>24 DEF Tick
<1>25. CASE UNCHANGED vars
  BY <1>25 DEF vars
<1> HIDE DEF CleanInv
<1> QED
  BY <1>1, <1>2, <1>3, <1>4, <1>5, <1>6, <1>7, <1>8, <1>9, <1>10, <1>11, <1>12,
     <1>13, <1>14, <1>15, <1>16, <1>17, <1>18, <1>19, <1>20, <1>21, <1>22, <1>23,
     <1>24, <1>25
     DEF Next, Boot, Engine, RemoveEntry, Loop, Environment

LEMMA CleanInvariant == Spec => [](TypeOK /\ CleanInv)
<1>1. Init => TypeOK /\ CleanInv
  <2> SUFFICES ASSUME Init PROVE CleanInv
    BY InitTypeOK
  <2>1. pc = "down" /\ phase = "boot" /\ draft = <<>>
    BY DEF Init
  <2> QED  BY <2>1 DEF CleanInv, PlaceInv, NothingPendingAfterClean
<1>2. (TypeOK /\ CleanInv) /\ [Next]_vars => (TypeOK /\ CleanInv)'
  BY NextTypeOK, NextCleanInv
<1> QED  BY <1>1, <1>2, PTL DEF Spec

(* CompactorBookKeeperCleanEntries leaves an empty and intact Compactor.dat *)
(* whatever it found, half written records and failing copies included.    *)
THEOREM CleanLeavesNothing == Spec => []NothingPendingAfterClean
<1>1. CleanInv => NothingPendingAfterClean
  BY DEF CleanInv
<1> QED  BY <1>1, CleanInvariant, PTL

-----------------------------------------------------------------------------
(* Boot events of the old format are the one an old recorder left, and the *)
(* directories of this recorder are younger than it.  In the event loop,   *)
(* where formats are not looked at, only the latter are listed.            *)
legacyEvent == [boot |-> legacy.boot, time |-> legacy.stamp, version |-> 1]
FromStart(entries) == \A i \in 1..Len(entries) : entries[i].stamp >= StartTime
EventsInv ==
  /\ now >= StartTime
  /\ pc # "down" => stamp >= StartTime
  /\ \A e \in events : e = legacyEvent \/ (e.version = 2 /\ e.time >= StartTime)
FromStartInv ==
  phase = "timer" \/ pc \in {"append", "arm"} => FromStart(compactor) /\ FromStart(draft)
UntouchedInv ==
  legacyEvent \in events =>
    /\ \A f \in Files : Legacy(f) \in raw
    /\ pc \in {"extract", "remove"} => victim # legacy

LegacyInv == EventsInv /\ FromStartInv /\ UntouchedInv

LEMMA LegacyIs ==
  /\ legacy.boot = 1 /\ legacy.stamp = StartTime - 1 /\ legacy \in Directory
  /\ legacyEvent.boot = 1 /\ legacyEvent.time = StartTime - 1 /\ legacyEvent.version = 1
  /\ \A f : Legacy(f).dir = legacy /\ Legacy(f).file = f
BY ConstantsAssumption DEF legacy, legacyEvent, Legacy, Directory

LEMMA FromStartLists ==
  ASSUME NEW s \in Seq(Directory), FromStart(s), NEW d \in Directory
  PROVE  /\ FromStart(EntriesAfter(s, d))
         /\ d.stamp >= StartTime => FromStart(Append(s, d))
<1>1. d.stamp >= StartTime => FromStart(Append(s, d))
  BY DEF FromStart
<1> DEFINE r == EntriesAfter(s, d)
<1>2. PICK k \in 0..Len(s) : /\ Len(r) + k <= Len(s)
                             /\ \A i \in 1..Len(r) : r[i] = s[i + k]
  BY EntriesAfterProperties
<1>3. Len(r) \in Nat /\ Len(s) \in Nat
  BY EntriesAfterProperties
<1> HIDE DEF r
<1>4. FromStart(r)
  BY <1>2, <1>3 DEF FromStart
<1> QED  BY <1>1, <1>4 DEF r

(* The directory of the old recorder is found to be of the old format.     *)
LEMMA LegacyFormat ==
  ASSUME TypeOK, EventsInv, legacyEvent \in events
  PROVE  DataFormat(legacy) # currentDataFormatVersion
<1> DEFINE before == {e \in events : e.boot = legacy.boot /\ e.time <= legacy.stamp}
           last == {e \in before : \A o \in before : o.time <= e.time}
<1>1. before = {legacyEvent}
  <2>1. ASSUME NEW e \in before PROVE e = legacyEvent
    BY <2>1, LegacyIs, ConstantsAssumption DEF EventsInv, TypeOK, BootEvent
  <2>2. legacyEvent \in before
    BY LegacyIs, ConstantsAssumption
  <2> QED  BY <2>1, <2>2
<1>2. last = {legacyEvent}
  BY <1>1, LegacyIs, ConstantsAssumption
<1>3. DataFormat(legacy) =
        IF Corrupt("BootEvent") \/ last = {} THEN 0
        ELSE (CHOOSE e \in last : \A o \in last : o.version <= e.version).version
  BY DEF DataFormat
<1> HIDE DEF before, last
<1>4. (CHOOSE e \in last : \A o \in last : o.version <= e.version) = legacyEvent
  BY <1>2, LegacyIs
<1>5. DataFormat(legacy) \in {0, 1}
  BY <1>3, <1>4, LegacyIs
<1> QED  BY <1>5 DEF currentDataFormatVersion


(* Samples are added, and taken away only in the victim's directory.       *)
LEMMA RawShrinks ==
  ASSUME [Next]_vars
  PROVE  \A s \in raw : s \in raw' \/ (pc \in {"extract", "remove"} /\ s.dir = victim)
<1> USE DEF localVars, memoryVars, keeperVars, sampleVars, historyVars
<1>1. CASE UNCHANGED raw
  BY <1>1
<1>2. ASSUME NEW f \in Files, CreateHighFidelityFile(f) \/ RemoveSamplesLogfile(f)
      PROVE  \A s \in raw : s \in raw' \/ (pc \in {"extract", "remove"} /\ s.dir = victim)
  BY <1>2 DEF CreateHighFidelityFile, RemoveSamplesLogfile, SamplesIn
<1>3. ASSUME NEW f \in Files, Store(f) PROVE raw \subseteq raw'
  BY <1>3 DEF Store
<1>4. CASE Boot
  BY <1>1, <1>4 DEF Boot, StartUp, RecordBootEvent, CleanEntry, CleanEntriesDone,
     InitTimerEvents
<1>5. CASE AppendEntry
  BY <1>1, <1>5 DEF AppendEntry
<1>6. CASE Engine
  BY <1>1, <1>2, <1>6 DEF Engine, HighFidelityFilesDone, RemoveSamplesLogfilesDone,
     EngineThrows, RemoveEntry, DeleteBookKeeper, StartCopy, FinishCopy, CopyFails,
     LeaveRemoveEntry
<1>7. CASE Loop
  BY <1>1, <1>3, <1>7 DEF Loop, StoreWithoutWriter, BookOfErrorEngine,
     CompactionWindowExpiry, ExpiryCleanUp, ExpiryCleanUpThrows
<1>8. CASE Environment
  BY <1>1, <1>8 DEF Environment, Die, DieInAppend, Tick
<1>9. CASE UNCHANGED vars
  BY <1>1, <1>9 DEF vars
<1> QED  BY <1>4, <1>5, <1>6, <1>7, <1>8, <1>9 DEF Next

(* An event of this recorder is written at or after StartTime.             *)
LEMMA NextEventsInv == ASSUME TypeOK, EventsInv, [Next]_vars PROVE EventsInv'
<1> USE ConstantsAssumption
<1> USE DEF EventsInv, localVars, memoryVars, keeperVars, sampleVars, historyVars
<1>0. now \in Nat /\ stamp \in Nat
  BY DEF TypeOK
<1>1. ASSUME UNCHANGED <<now, stamp, events>>, pc # "down" \/ pc' = "down"
      PROVE  EventsInv'
  BY <1>1 DEF legacyEvent, legacy
<1>2. CASE StartUp
  BY <1>2 DEF StartUp, legacyEvent, legacy
<1>3. CASE RecordBootEvent
  BY <1>3 DEF RecordBootEvent, legacyEvent, legacy, currentDataFormatVersion
<1>4. CASE CleanEntry
  <2>1. /\ UNCHANGED <<now, stamp>> /\ pc = "clean"
        /\ events' = {} \/ events' = events
    BY <1>4 DEF CleanEntry
  <2> QED  BY <2>1 DEF legacyEvent, legacy
<1>5. CASE CleanEntriesDone \/ InitTimerEvents
  BY <1>1, <1>5 DEF CleanEntriesDone, InitTimerEvents
<1>6. CASE AppendEntry
  BY <1>1, <1>6 DEF AppendEntry
<1>7. CASE Engine
  BY <1>1, <1>7 DEF Engine, CreateHighFidelityFile, HighFidelityFilesDone,
     RemoveSamplesLogfile, RemoveSamplesLogfilesDone, EngineThrows, RemoveEntry,
     DeleteBookKeeper, StartCopy, FinishCopy, CopyFails, LeaveRemoveEntry
<1>8. CASE ExpiryCleanUp \/ ExpiryCleanUpThrows
  BY <1>8 DEF ExpiryCleanUp, ExpiryCleanUpThrows, legacyEvent, legacy
<1>9. CASE CompactionWindowExpiry
  BY <1>1, <1>9 DEF CompactionWindowExpiry
<1>10. ASSUME NEW f \in Files, Store(f) \/ StoreWithoutWriter(f) \/ BookOfErrorEngine(f)
       PROVE  EventsInv'
  BY <1>1, <1>10 DEF Store, StoreWithoutWriter, BookOfErrorEngine
<1>11. ASSUME NEW cause \in {"powerLoss", "processDeath"}, Die(cause) PROVE EventsInv'
  BY <1>1, <1>11 DEF Die, LoseMemory
<1>12. CASE DieInAppend
  BY <1>1, <1>12 DEF DieInAppend, LoseMemory
<1>13. CASE Tick
  BY <1>0, <1>13 DEF Tick, legacyEvent, legacy
<1>14. CASE UNCHANGED vars
  BY <1>1, <1>14 DEF vars
<1> HIDE DEF EventsInv
<1> QED
  BY <1>2, <1>3, <1>4, <1>5, <1>6, <1>7, <1>8, <1>9, <1>10, <1>11, <1>12, <1>13, <1>14
     DEF Next, Boot, Loop, Environment

(* At start up the list is emptied before the phase changes; from then on  *)
(* the current directory is the only one that is added.                    *)
LEMMA NextFromStartInv ==
  ASSUME TypeOK, CleanInv, EventsInv, FromStartInv, [Next]_vars
  PROVE  FromStartInv'
<1> USE DEF localVars, memoryVars, keeperVars, sampleVars, historyVars
<1>0. /\ FromStart(<<>>) /\ compactor \in Seq(Directory) /\ victim \in Directory
      /\ current \in Directory
      /\ phase \in {"boot", "timer"}
  BY CurrentType DEF TypeOK, FromStart
<1>1. ASSUME FromStart(compactor) => FromStart(compactor'),
             FromStart(draft) => FromStart(draft'),
             phase' = phase, pc = "append" \/ pc' \notin {"append", "arm"} \/ phase = "timer"
      PROVE  FromStartInv'
  BY <1>0, <1>1 DEF FromStartInv
<1>2. CASE UNCHANGED <<compactor, draft, pc, phase>>
  BY <1>2 DEF FromStartInv, FromStart
<1>3. ASSUME phase' = "boot", pc' \notin {"append", "arm"} PROVE FromStartInv'
  BY <1>3 DEF FromStartInv
<1>4. CASE StartUp
  BY <1>3, <1>4 DEF StartUp
<1>5. CASE RecordBootEvent
  BY <1>3, <1>5 DEF RecordBootEvent, CleanInv, PlaceInv
<1>6. CASE CleanEntry
  BY <1>3, <1>6 DEF CleanEntry, CompactorEngine, CleanInv, PlaceInv
<1>7. CASE CleanEntriesDone
  <2>1. pc = "clean" /\ pc' = "append" /\ phase' = phase /\ draft' = draft
    BY <1>7 DEF CleanEntriesDone
  <2>2. compactor' = <<>> /\ draft' = <<>>
    <3>1. CleanInv'
      BY NextCleanInv
    <3> QED  BY <2>1, <3>1 DEF CleanInv, PlaceInv, NothingPendingAfterClean
  <2> QED  BY <1>0, <2>2 DEF FromStartInv
<1>8. CASE InitTimerEvents
  BY <1>8 DEF InitTimerEvents, FromStartInv, FromStart
<1>9. CASE AppendEntry
  <2>1. /\ compactor' = Append(compactor, current) /\ UNCHANGED <<draft, phase>>
        /\ pc = "append" /\ current.stamp >= StartTime
    BY <1>9 DEF AppendEntry, EventsInv, current
  <2>2. FromStart(compactor) => FromStart(compactor')
    BY <1>0, <2>1, FromStartLists
  <2> QED  BY <1>1, <2>1, <2>2 DEF FromStart
<1>10. ASSUME NEW f \in Files, CreateHighFidelityFile(f) \/ RemoveSamplesLogfile(f)
       PROVE  FromStartInv'
  BY <1>2, <1>10 DEF CreateHighFidelityFile, RemoveSamplesLogfile
<1>11. CASE HighFidelityFilesDone \/ RemoveSamplesLogfilesDone \/ EngineThrows
  BY <1>0, <1>1, <1>11 DEF HighFidelityFilesDone, RemoveSamplesLogfilesDone,
     EngineThrows, FromStart
<1>12. CASE DeleteBookKeeper
  BY <1>0, <1>1, <1>12 DEF DeleteBookKeeper, LeaveRemoveEntry
<1>13. CASE StartCopy
  <2>1. /\ draft' = EntriesAfter(compactor, victim) /\ compactor' = <<>>
        /\ pc' = "copy" /\ phase' = phase
    BY <1>13 DEF StartCopy
  <2>2. FromStart(compactor) => FromStart(draft')
    BY <1>0, <2>1, FromStartLists
  <2> QED  BY <1>0, <2>1, <2>2 DEF FromStartInv
<1>14. CASE FinishCopy
  <2>1. /\ compactor' = draft /\ draft' = <<>> /\ phase' = phase
        /\ pc' \in {"clean", "rotate"}
    BY <1>14 DEF FinishCopy, LeaveRemoveEntry
  <2> QED  BY <1>0, <2>1 DEF FromStartInv, FromStart
<1>15. CASE CopyFails
  BY <1>0, <1>1, <1>15 DEF CopyFails, LeaveRemoveEntry, FromStart
<1>16. ASSUME NEW f \in Files, Store(f) \/ BookOfErrorEngine(f) PROVE FromStartInv'
  BY <1>2, <1>16 DEF Store, BookOfErrorEngine
<1>17. ASSUME NEW f \in Files, StoreWithoutWriter(f) PROVE FromStartInv'
  BY <1>3, <1>17 DEF StoreWithoutWriter
<1>18. CASE CompactionWindowExpiry
  <2>1. /\ phase' = phase /\ draft' = draft /\ pc' \in {"extract", "remove", "rotate"}
        /\ compactor' = <<>> \/ compactor' = compactor
    BY <1>18 DEF CompactionWindowExpiry, CompactorEngine
  <2> QED  BY <1>0, <1>1, <2>1 DEF FromStart
<1>19. CASE ExpiryCleanUp \/ ExpiryCleanUpThrows
  <2>1. phase' = "timer" /\ phase = "timer" /\ UNCHANGED <<compactor, draft>>
    BY <1>19 DEF ExpiryCleanUp, ExpiryCleanUpThrows, CleanInv, PlaceInv
  <2> QED  BY <2>1 DEF FromStartInv, FromStart
<1>20. ASSUME NEW cause \in {"powerLoss", "processDeath"}, Die(cause) PROVE FromStartInv'
  BY <1>3, <1>20 DEF Die, LoseMemory
<1>21. CASE DieInAppend
  BY <1>3, <1>21 DEF DieInAppend, LoseMemory
<1>22. CASE Tick
  BY <1>2, <1>22 DEF Tick
<1>23. CASE UNCHANGED vars
  BY <1>2, <1>23 DEF vars
<1> QED
  BY <1>4, <1>5, <1>6, <1>7, <1>8, <1>9, <1>10, <1>11, <1>12, <1>13, <1>14, <1>15,
     <1>16, <1>17, <1>18, <1>19, <1>20, <1>21, <1>22, <1>23
     DEF Next, Boot, Engine, RemoveEntry, Loop, Environment

(* The engine is never started on the directory of the old recorder while  *)
(* its boot event is there: start up looks at the format, and in the event *)
(* loop the directory is not listed.                                       *)
LEMMA NextUntouchedInv ==
  ASSUME TypeOK, CleanInv, LegacyInv, [Next]_vars
  PROVE  UntouchedInv'
<1> SUFFICES ASSUME legacyEvent \in events'
             PROVE  /\ \A f \in Files : Legacy(f) \in raw'
                    /\ pc' \in {"extract", "remove"} => victim' # legacy
  BY DEF UntouchedInv, legacyEvent, legacy, Legacy
<1> USE DEF localVars, memoryVars, keeperVars, sampleVars, historyVars
<1>1. legacyEvent \in events
  <2>1. CASE RecordBootEvent
    BY <2>1, LegacyIs DEF RecordBootEvent, currentDataFormatVersion
  <2>2. CASE CleanEntry
    BY <2>2 DEF CleanEntry
  <2>3. CASE UNCHANGED events
    BY <2>3
  <2> QED
    BY <2>1, <2>2, <2>3 DEF Next, vars, Boot, StartUp, CleanEntriesDone,
       InitTimerEvents, AppendEntry, Engine, CreateHighFidelityFile,
       HighFidelityFilesDone, RemoveSamplesLogfile, RemoveSamplesLogfilesDone,
       EngineThrows, RemoveEntry, DeleteBookKeeper, StartCopy, FinishCopy, CopyFails,
       LeaveRemoveEntry, Loop, Store, StoreWithoutWriter, BookOfErrorEngine,
       CompactionWindowExpiry, ExpiryCleanUp, ExpiryCleanUpThrows, Environment, Die,
       DieInAppend, LoseMemory, Tick
<1>2. /\ \A f \in Files : Legacy(f) \in raw
      /\ pc \in {"extract", "remove"} => victim # legacy
  BY <1>1 DEF LegacyInv, UntouchedInv
<1>3. \A f \in Files : Legacy(f) \in raw'
  BY <1>2, RawShrinks, LegacyIs
<1>4. ASSUME pc' \in {"extract", "remove"} PROVE victim' # legacy
  <2>1. CASE CleanEntry
    <3>1. victim' = Head(compactor)
      BY <2>1 DEF CleanEntry, CompactorEngine
    <3>2. DataFormat(Head(compactor)) = currentDataFormatVersion
      BY <1>4, <2>1 DEF CleanEntry
    <3> QED  BY <1>1, <3>1, <3>2, LegacyFormat DEF LegacyInv
  <2>2. CASE CompactionWindowExpiry
    <3>1. Len(compactor) >= RUN_TIME_DIR_COUNT /\ CompactorEngine(Head(compactor))
      BY <1>4, <2>2 DEF CompactionWindowExpiry
    <3>2. victim' = Head(compactor) /\ phase = "timer"
      BY <2>2, <3>1 DEF CompactionWindowExpiry, CompactorEngine, CleanInv, PlaceInv
    <3>3. Head(compactor) = compactor[1] /\ 1 \in 1..Len(compactor)
          /\ compactor[1] \in Directory
      BY <3>1, HeadType DEF RUN_TIME_DIR_COUNT
    <3>4. compactor[1].stamp >= StartTime /\ compactor[1].stamp \in Nat
      BY <3>2, <3>3 DEF LegacyInv, FromStartInv, FromStart, Directory
    <3> QED  BY <3>2, <3>3, <3>4, LegacyIs, ConstantsAssumption
  <2>3. CASE pc \in {"extract", "remove"} /\ victim' = victim
    BY <1>2, <2>3
  <2> QED
    BY <1>4, <2>1, <2>2, <2>3 DEF Next, vars, Boot, StartUp, RecordBootEvent,
       CleanEntriesDone, InitTimerEvents, AppendEntry, Engine, CreateHighFidelityFile,
       HighFidelityFilesDone, RemoveSamplesLogfile, RemoveSamplesLogfilesDone,
       EngineThrows, RemoveEntry, DeleteBookKeeper, StartCopy, FinishCopy, CopyFails,
       LeaveRemoveEntry, Loop, Store, StoreWithoutWriter, BookOfErrorEngine,
       ExpiryCleanUp, ExpiryCleanUpThrows, Environment, Die,
       DieInAppend, LoseMemory, Tick
<1> QED  BY <1>3, <1>4

LEMMA LegacyInvariant == Spec => [](TypeOK /\ CleanInv /\ LegacyInv)
<1>1. Init => LegacyInv
  <2> SUFFICES ASSUME Init PROVE LegacyInv
    OBVIOUS
  <2>1. /\ now = StartTime /\ pc = "down" /\ phase = "boot"
        /\ events = {} \/ (events = {legacyEvent} /\ raw = {Legacy(f) : f \in Files})
    BY LegacyIs DEF Init, legacyEvent, legacy
  <2>2. EventsInv /\ FromStartInv
    BY <2>1, ConstantsAssumption DEF EventsInv, FromStartInv
  <2>3. UntouchedInv
    BY <2>1 DEF UntouchedInv
  <2> QED  BY <2>2, <2>3 DEF LegacyInv
<1>2. TypeOK /\ CleanInv /\ LegacyInv /\ [Next]_vars => LegacyInv'
  BY NextEventsInv, NextFromStartInv, NextUntouchedInv DEF LegacyInv
<1> QED  BY <1>1, <1>2, CleanInvariant, PTL DEF Spec

(* Data of an older format is never compacted: as long as the boot event   *)
(* that tells the format is there, all raw files of its directory are.     *)
THEOREM OldDataStays == Spec => []LegacyIsLeftAlone
<1>1. LegacyInv => LegacyIsLeftAlone
  <2> SUFFICES ASSUME LegacyInv, NEW e \in events, e.version = 1
               PROVE  \A f \in Files : Legacy(f) \in raw
    BY DEF LegacyIsLeftAlone
  <2>1. e = legacyEvent
    BY DEF LegacyInv, EventsInv
  <2> QED  BY <2>1 DEF LegacyInv, UntouchedInv
<1> QED  BY <1>1, LegacyInvariant, PTL


-----------------------------------------------------------------------------
(* No backlog of directories.                                              *)

(* Removing the first entry leaves the others.                             *)
LEMMA EntriesAfterFirst ==
  ASSUME NEW s \in Seq(Directory), Len(s) > 0, NEW d \in Directory, d = s[1]
  PROVE  /\ EntriesAfter(s, d) \in Seq(Directory)
         /\ Len(EntriesAfter(s, d)) = Len(s) - 1
         /\ \A i \in 1..Len(s) - 1 : EntriesAfter(s, d)[i] = s[i + 1]
<1> DEFINE hits == {i \in 1..Len(s) : s[i] = d}
           first == CHOOSE i \in hits : \A j \in hits : i <= j
           r == EntriesAfter(s, d)
<1>1. Len(s) \in Nat
  OBVIOUS
<1>2. 1 \in hits /\ \A j \in hits : 1 <= j /\ j \in Nat
  BY <1>1
<1>3. r = SubSeq(s, first + 1, Len(s))
  BY <1>2 DEF EntriesAfter
<1> HIDE DEF hits, r
<1>4. first = 1
  BY <1>2
<1> HIDE DEF first
<1>5. \A i \in first + 1 .. Len(s) : s[i] \in Directory
  BY <1>1, <1>4
<1>6. /\ SubSeq(s, first + 1, Len(s)) \in Seq(Directory)
      /\ Len(SubSeq(s, first + 1, Len(s))) =
           IF first + 1 <= Len(s) THEN Len(s) - (first + 1) + 1 ELSE 0
      /\ \A i \in 1 .. Len(s) - (first + 1) + 1 :
           SubSeq(s, first + 1, Len(s))[i] = s[first + 1 + i - 1]
  BY <1>1, <1>4, <1>5, SubSeqProperties
<1>7. r \in Seq(Directory)
  BY <1>3, <1>6
<1>8. Len(r) = Len(s) - 1
  <2> DEFINE q == SubSeq(s, first + 1, Len(s))
  <2>1. Len(q) = IF first + 1 <= Len(s) THEN Len(s) - (first + 1) + 1 ELSE 0
    BY <1>6
  <2>2. r = q
    BY <1>3
  <2> HIDE DEF q
  <2>3. Len(q) = Len(s) - 1
    BY <1>1, <1>4, <2>1
  <2> QED  BY <2>2, <2>3
<1>9. ASSUME NEW i \in 1..Len(s) - 1 PROVE r[i] = s[i + 1]
  BY <1>1, <1>3, <1>4, <1>6
<1> QED  BY <1>7, <1>8, <1>9 DEF r

(* What the engine is about to do with Compactor.dat: in the event loop it *)
(* is started with two entries and leaves one.                             *)
BacklogInv ==
  /\ pc = "arm" \/ phase = "timer" => ~Corrupt("Compactor")
  /\ pc \in {"append", "rotate"} => ~Corrupt("Compactor") /\ Len(compactor) <= 1
  /\ pc \in {"arm", "run"} =>
       Len(compactor) \in 1..RUN_TIME_DIR_COUNT /\ compactor[Len(compactor)] = current
  /\ phase = "timer" /\ pc \in {"extract", "remove", "forget"} =>
       Len(compactor) = RUN_TIME_DIR_COUNT /\ victim = Head(compactor)
  /\ phase = "timer" /\ pc = "copy" => Len(draft) = 1

LEMMA NextBacklogInv ==
  ASSUME Hazards \cap {"copyFails", "throws"} = {}, TypeOK, CleanInv, BacklogInv,
         [Next]_vars
  PROVE  BacklogInv'
<1> USE DEF BacklogInv, Corrupt, current, RUN_TIME_DIR_COUNT, localVars, memoryVars,
        keeperVars, sampleVars, historyVars
<1>0. /\ compactor \in Seq(Directory) /\ draft \in Seq(Directory)
      /\ victim \in Directory
      /\ Len(compactor) \in Nat /\ Len(draft) \in Nat /\ Len(<<>>) = 0
      /\ phase \in {"boot", "timer"} /\ current \in Directory
  BY CurrentType DEF TypeOK
<1>1. ASSUME pc' \in {"down", "bootEvent", "clean"}, phase' = "boot" PROVE BacklogInv'
  BY <1>1
<1>2. CASE UNCHANGED <<pc, phase, boot, stamp, victim, draft, compactor, torn>>
  BY <1>2
<1>3. CASE StartUp \/ RecordBootEvent
  BY <1>1, <1>3 DEF StartUp, RecordBootEvent, CleanInv, PlaceInv
<1>4. CASE CleanEntry
  <2>1. phase' = "boot" /\ pc' \in {"extract", "remove", "forget"}
    BY <1>4 DEF CleanEntry, CompactorEngine, CleanInv, PlaceInv
  <2> QED  BY <2>1
<1>5. CASE CleanEntriesDone
  <2>1. phase' = "boot" /\ pc' = "append"
    BY <1>5 DEF CleanEntriesDone, CleanInv, PlaceInv
  <2>2. CleanInv'
    BY NextCleanInv
  <2>3. compactor' = <<>> /\ ~Corrupt("Compactor")'
    BY <2>1, <2>2 DEF CleanInv, NothingPendingAfterClean
  <2> QED  BY <1>0, <2>1, <2>3
<1>6. CASE InitTimerEvents
  BY <1>6 DEF InitTimerEvents
<1>7. CASE AppendEntry
  <2>1. /\ pc = "append" /\ compactor' = Append(compactor, current)
        /\ pc' = IF phase = "boot" THEN "arm" ELSE "run"
        /\ UNCHANGED <<boot, stamp, torn, phase>>
    BY <1>7 DEF AppendEntry
  <2>2. Len(compactor') = Len(compactor) + 1 /\ compactor'[Len(compactor) + 1] = current
    BY <1>0, <2>1
  <2> HIDE DEF current
  <2>3. current' = current /\ Len(compactor) <= 1 /\ ~Corrupt("Compactor")
    BY <2>1 DEF current
  <2> QED  BY <1>0, <2>1, <2>2, <2>3
<1>8. ASSUME NEW f \in Files, CreateHighFidelityFile(f) \/ RemoveSamplesLogfile(f)
      PROVE  BacklogInv'
  BY <1>2, <1>8 DEF CreateHighFidelityFile, RemoveSamplesLogfile
<1>9. CASE HighFidelityFilesDone \/ RemoveSamplesLogfilesDone
  BY <1>9 DEF HighFidelityFilesDone, RemoveSamplesLogfilesDone
<1>10. CASE DeleteBookKeeper
  BY <1>0, <1>1, <1>10 DEF DeleteBookKeeper, LeaveRemoveEntry
<1>11. CASE StartCopy
  <2>1. /\ pc = "forget" /\ draft' = EntriesAfter(compactor, victim) /\ compactor' = <<>>
        /\ pc' = "copy" /\ UNCHANGED <<phase, torn>>
    BY <1>11 DEF StartCopy
  <2>2. ASSUME phase = "timer" PROVE Len(draft') = 1
    <3>1. Len(compactor) = 2 /\ victim = compactor[1]
      BY <2>1, <2>2, HeadType
    <3> HIDE DEF BacklogInv
    <3>2. Len(EntriesAfter(compactor, victim)) = Len(compactor) - 1
      <4>1. compactor \in Seq(Directory) /\ victim \in Directory /\ Len(compactor) > 0
        BY <1>0, <3>1
      <4> HIDE DEF TypeOK, current
      <4> QED  BY <4>1, <3>1, EntriesAfterFirst
    <3> QED  BY <2>1, <3>1, <3>2
  <2> QED  BY <2>1, <2>2
<1>12. CASE FinishCopy
  <2>1. /\ pc = "copy" /\ compactor' = draft /\ UNCHANGED <<phase, torn>>
        /\ pc' = IF phase = "boot" THEN "clean" ELSE "rotate"
    BY <1>12 DEF FinishCopy, LeaveRemoveEntry
  <2>2. CASE phase = "boot"
    BY <1>1, <2>1, <2>2
  <2>3. CASE phase = "timer"
    <3>1. pc' = "rotate" /\ phase' = "timer" /\ Len(compactor') = 1
      BY <2>1, <2>3
    <3>2. "Compactor" \notin torn'
      BY <2>1, <2>3
    <3> QED  BY <3>1, <3>2
  <2> QED  BY <1>0, <2>2, <2>3
<1>13. ASSUME NEW f \in Files, Store(f) \/ BookOfErrorEngine(f) PROVE BacklogInv'
  <2>1. pc = "run" /\ phase = "timer" /\ torn' \subseteq torn
        /\ UNCHANGED <<pc, phase, boot, stamp, victim, draft, compactor>>
    BY <1>13 DEF Store, BookOfErrorEngine, CleanInv, PlaceInv
  <2> QED  BY <2>1
<1>14. ASSUME NEW f \in Files, StoreWithoutWriter(f) PROVE BacklogInv'
  BY <1>1, <1>14 DEF StoreWithoutWriter
<1>15. CASE CompactionWindowExpiry
  <2>1. pc = "run" /\ phase = "timer" /\ phase' = "timer"
    BY <1>15 DEF CompactionWindowExpiry, CleanInv, PlaceInv
  <2>2. CASE Len(compactor) >= RUN_TIME_DIR_COUNT
    <3>1. /\ victim' = Head(compactor) /\ compactor' = compactor /\ torn' \subseteq torn
          /\ pc' \in {"extract", "remove"}
      BY <1>15, <2>2 DEF CompactionWindowExpiry, CompactorEngine
    <3> QED  BY <2>1, <2>2, <3>1
  <2>3. CASE ~(Len(compactor) >= RUN_TIME_DIR_COUNT)
    <3>1. /\ pc' = "rotate" /\ torn' \subseteq torn
          /\ compactor' = <<>> \/ compactor' = compactor
      BY <1>15, <2>3 DEF CompactionWindowExpiry
    <3> QED  BY <1>0, <2>1, <2>3, <3>1
  <2> QED  BY <2>2, <2>3
<1>16. CASE ExpiryCleanUp
  BY <1>16 DEF ExpiryCleanUp, CleanInv, PlaceInv
<1>17. ASSUME NEW cause \in {"powerLoss", "processDeath"}, Die(cause) PROVE BacklogInv'
  BY <1>1, <1>17 DEF Die, LoseMemory
<1>18. CASE DieInAppend
  BY <1>1, <1>18 DEF DieInAppend, LoseMemory
<1>19. CASE Tick
  BY <1>2, <1>19 DEF Tick
<1>20. CASE UNCHANGED vars
  BY <1>2, <1>20 DEF vars
<1>21. ~EngineThrows /\ ~CopyFails /\ ~ExpiryCleanUpThrows
  BY DEF EngineThrows, CopyFails, ExpiryCleanUpThrows
<1> HIDE DEF BacklogInv
<1> QED
  BY <1>3, <1>4, <1>5, <1>6, <1>7, <1>8, <1>9, <1>10, <1>11, <1>12, <1>13, <1>14,
     <1>15, <1>16, <1>17, <1>18, <1>19, <1>20, <1>21
     DEF Next, Boot, Engine, RemoveEntry, Loop, Environment

(* In the event loop the current directory is listed last and at most one  *)
(* before it, although the engine takes only one directory in a window: as *)
(* long as no copy fails and no exception skips the removal of an entry or *)
(* the append of the next, each of which leaves one entry too many or few. *)
THEOREM BacklogStaysShort ==
  ASSUME Hazards \cap {"copyFails", "throws"} = {}
  PROVE  Spec => []NoBacklog
<1>1. Init => BacklogInv
  BY DEF Init, BacklogInv
<1>2. TypeOK /\ CleanInv /\ BacklogInv /\ [Next]_vars => BacklogInv'
  BY NextBacklogInv
<1>3. BacklogInv => NoBacklog
  BY DEF BacklogInv, NoBacklog
<1> QED  BY <1>1, <1>2, <1>3, CleanInvariant, PTL DEF Spec


-----------------------------------------------------------------------------
(* Every directory with raw samples can be found again.                    *)

(* A directory that this recorder lists has a boot event that says so; the *)
(* event is not younger than the directory, since nothing takes time       *)
(* between the naming of the first directory of a boot and the event.      *)
HasEvent(d) ==
  \E e \in events : e.boot = d.boot /\ e.time <= d.stamp /\ e.version = 2
Announced(d) == d = legacy \/ HasEvent(d)
AllAnnounced(entries) == \A i \in 1..Len(entries) : Announced(entries[i])
AnnouncedInv ==
  /\ stamp <= now
  /\ pc = "bootEvent" => stamp = now
  /\ pc \notin {"down", "bootEvent"} => HasEvent(current)
  /\ AllAnnounced(compactor) /\ AllAnnounced(draft)
  /\ torn \cap {"BootEvent", "Compactor"} = {}

(* Such a directory is found to be of the current format: of the events of *)
(* its boot that are not younger, those that count are not younger than    *)
(* one of this recorder, and so not the one of the old format.             *)
LEMMA AnnouncedFormat ==
  ASSUME TypeOK, EventsInv, AnnouncedInv, NEW d \in Directory, Announced(d), d # legacy
  PROVE  DataFormat(d) = currentDataFormatVersion
<1> DEFINE before == {e \in events : e.boot = d.boot /\ e.time <= d.stamp}
           last == {e \in before : \A o \in before : o.time <= e.time}
           ages == {d.stamp + 1 - e.time : e \in before}
<1>1. DataFormat(d) =
        IF Corrupt("BootEvent") \/ last = {} THEN 0
        ELSE (CHOOSE e \in last : \A o \in last : o.version <= e.version).version
  BY DEF DataFormat
<1>2. d.stamp \in Nat /\ \A e \in before : e.time \in Nat /\ e.time <= d.stamp /\ e \in events
  BY DEF Directory, TypeOK, BootEvent
<1>3. PICK own \in before : own.version = 2
  BY DEF Announced, HasEvent
<1>4. own.time >= StartTime
  BY <1>2, <1>3, LegacyIs DEF EventsInv
<1> HIDE DEF before
<1>5. ages \in SUBSET (1..d.stamp + 1) /\ ages # {}
  BY <1>2, <1>3
<1>6. PICK age \in ages : \A other \in ages : age <= other
  <2>1. d.stamp + 1 \in Nat
    BY <1>2
  <2> HIDE DEF ages
  <2> QED  BY <1>5, <2>1, FirstPosition
<1>7. last # {}
  <2>1. PICK e \in before : age = d.stamp + 1 - e.time
    OBVIOUS
  <2>2. ASSUME NEW o \in before PROVE o.time <= e.time
    <3>1. d.stamp + 1 - e.time <= d.stamp + 1 - o.time
      BY <1>6, <2>1
    <3> QED  BY <1>2, <3>1
  <2> QED  BY <2>2
<1>8. ASSUME NEW e \in last PROVE e.version = 2
  <2>1. e \in events /\ e.time >= StartTime
    BY <1>2, <1>3, <1>4, ConstantsAssumption
  <2>2. e # legacyEvent
    BY <1>2, <2>1, LegacyIs, ConstantsAssumption
  <2> QED  BY <2>1, <2>2 DEF EventsInv
<1> HIDE DEF last
<1>9. (CHOOSE e \in last : \A o \in last : o.version <= e.version) \in last
  BY <1>7, <1>8
<1>10. ~Corrupt("BootEvent")
  BY DEF AnnouncedInv, Corrupt
<1> QED  BY <1>1, <1>7, <1>8, <1>9, <1>10 DEF currentDataFormatVersion

LEMMA AnnouncedLists ==
  ASSUME NEW s \in Seq(Directory), AllAnnounced(s), NEW d \in Directory
  PROVE  /\ AllAnnounced(EntriesAfter(s, d))
         /\ Announced(d) => AllAnnounced(Append(s, d))
<1>1. Announced(d) => AllAnnounced(Append(s, d))
  <2> DEFINE r == Append(s, d)
  <2>1. /\ Len(r) = Len(s) + 1 /\ Len(s) \in Nat
        /\ \A i \in 1..Len(s) : r[i] = s[i]
        /\ r[Len(s) + 1] = d
    OBVIOUS
  <2> HIDE DEF r
  <2>2. Announced(d) => AllAnnounced(r)
    BY <2>1 DEF AllAnnounced
  <2> QED  BY <2>2 DEF r
<1> DEFINE r == EntriesAfter(s, d)
<1>2. PICK k \in 0..Len(s) : /\ Len(r) + k <= Len(s)
                             /\ \A i \in 1..Len(r) : r[i] = s[i + k]
  BY EntriesAfterProperties
<1>3. Len(r) \in Nat /\ Len(s) \in Nat
  BY EntriesAfterProperties
<1> HIDE DEF r
<1>4. AllAnnounced(r)
  <2> SUFFICES ASSUME NEW i \in 1..Len(r) PROVE Announced(r[i])
    BY DEF AllAnnounced
  <2>1. i + k \in 1..Len(s) /\ r[i] = s[i + k]
    BY <1>2, <1>3
  <2> QED  BY <2>1 DEF AllAnnounced
<1> QED  BY <1>1, <1>4 DEF r

(* Boot events are never taken away while the file is intact.              *)
LEMMA EventsGrow ==
  ASSUME AnnouncedInv, [Next]_vars
  PROVE  events \subseteq events'
<1> USE DEF localVars, memoryVars, keeperVars, sampleVars, historyVars
<1>1. CASE RecordBootEvent
  BY <1>1 DEF RecordBootEvent
<1>2. CASE CleanEntry
  BY <1>2 DEF CleanEntry, AnnouncedInv, Corrupt
<1>3. CASE UNCHANGED events
  BY <1>3
<1> QED
  BY <1>1, <1>2, <1>3 DEF Next, vars, Boot, StartUp, CleanEntriesDone,
     InitTimerEvents, AppendEntry, Engine, CreateHighFidelityFile,
     HighFidelityFilesDone, RemoveSamplesLogfile, RemoveSamplesLogfilesDone,
     EngineThrows, RemoveEntry, DeleteBookKeeper, StartCopy, FinishCopy, CopyFails,
     LeaveRemoveEntry, Loop, Store, StoreWithoutWriter, BookOfErrorEngine,
     CompactionWindowExpiry, ExpiryCleanUp, ExpiryCleanUpThrows, Environment, Die,
     DieInAppend, LoseMemory, Tick

LEMMA NextAnnouncedInv ==
  ASSUME Hazards \cap {"tornKeeper", "slowBoot"} = {}, TypeOK, CleanInv, AnnouncedInv,
         [Next]_vars
  PROVE  AnnouncedInv'
<1> USE DEF localVars, memoryVars, keeperVars, sampleVars, historyVars
<1>0. /\ now \in Nat /\ stamp \in Nat /\ compactor \in Seq(Directory)
      /\ victim \in Directory /\ current \in Directory
  BY CurrentType DEF TypeOK
<1>1. \A d : (Announced(d) => Announced(d)') /\ (HasEvent(d) => HasEvent(d)')
  BY EventsGrow DEF Announced, HasEvent, legacy
<1>2. ASSUME NEW s, AllAnnounced(s) PROVE \A i \in 1..Len(s) : Announced(s[i])'
  BY <1>1, <1>2 DEF AllAnnounced
<1>3. AllAnnounced(compactor) /\ AllAnnounced(draft) /\ stamp <= now
      /\ torn \cap {"BootEvent", "Compactor"} = {} /\ AllAnnounced(<<>>)
  BY DEF AnnouncedInv, AllAnnounced
<1>4. ASSUME AllAnnounced(compactor'), AllAnnounced(draft')
      PROVE  AllAnnounced(compactor)' /\ AllAnnounced(draft)'
  BY <1>2, <1>4 DEF AllAnnounced
(* A step that names no directory and copies or drops lists.               *)
<1>5. ASSUME compactor' \in {compactor, draft, <<>>}, draft' \in {draft, <<>>},
             torn' \subseteq torn, stamp' = stamp /\ boot' = boot,
             now' >= now, now' \in Nat,
             pc' = "bootEvent" => pc = "bootEvent" /\ now' = now,
             pc \in {"down", "bootEvent"} => pc' \in {"down", "bootEvent"}
      PROVE  AnnouncedInv'
  <2>1. AllAnnounced(compactor)' /\ AllAnnounced(draft)'
    BY <1>3, <1>4, <1>5
  <2>2. pc' \notin {"down", "bootEvent"} => HasEvent(current)'
    <3>1. current' = current
      BY <1>5 DEF current
    <3>2. pc' \notin {"down", "bootEvent"} => HasEvent(current)
      BY <1>5 DEF AnnouncedInv
    <3> QED  BY <1>1, <3>1, <3>2 DEF HasEvent
  <2>3. stamp' <= now' /\ (pc' = "bootEvent" => stamp' = now')
    BY <1>0, <1>3, <1>5 DEF AnnouncedInv
  <2> QED  BY <1>3, <1>5, <2>1, <2>2, <2>3 DEF AnnouncedInv
<1>6. CASE StartUp
  <2>1. /\ stamp' = now /\ now' = now /\ pc' = "bootEvent"
        /\ UNCHANGED <<compactor, draft, torn>>
    BY <1>6 DEF StartUp
  <2>2. AllAnnounced(compactor)' /\ AllAnnounced(draft)'
    BY <1>3, <1>4, <2>1
  <2> QED  BY <1>0, <1>3, <2>1, <2>2 DEF AnnouncedInv
<1>7. CASE RecordBootEvent
  <2> DEFINE e == [boot |-> boot, time |-> now, version |-> currentDataFormatVersion]
  <2>1. /\ pc = "bootEvent" /\ pc' = "clean" /\ events' = events \cup {e}
        /\ UNCHANGED <<now, boot, stamp, compactor, draft, torn>>
    BY <1>7 DEF RecordBootEvent
  <2>2. e.boot = boot /\ e.time = now /\ e.version = 2
    BY DEF currentDataFormatVersion
  <2> HIDE DEF e
  <2>3. now <= stamp
    BY <1>0, <2>1 DEF AnnouncedInv
  <2>4. HasEvent(current)'
    BY <2>1, <2>2, <2>3 DEF HasEvent, current
  <2>5. AllAnnounced(compactor)' /\ AllAnnounced(draft)'
    BY <1>3, <1>4, <2>1
  <2> QED  BY <1>3, <2>1, <2>4, <2>5 DEF AnnouncedInv
<1>8. CASE CleanEntry
  BY <1>0, <1>5, <1>8 DEF CleanEntry, CompactorEngine
<1>9. CASE CleanEntriesDone \/ InitTimerEvents
  BY <1>0, <1>5, <1>9 DEF CleanEntriesDone, InitTimerEvents
<1>10. CASE AppendEntry
  <2>1. /\ pc = "append" /\ compactor' = Append(compactor, current)
        /\ pc' \in {"arm", "run"}
        /\ UNCHANGED <<now, boot, stamp, draft, torn>>
    BY <1>10 DEF AppendEntry
  <2>2. HasEvent(current)
    BY <2>1 DEF AnnouncedInv
  <2>3. AllAnnounced(compactor')
    BY <1>0, <1>3, <2>1, <2>2, AnnouncedLists DEF Announced
  <2>4. AllAnnounced(compactor)' /\ AllAnnounced(draft)'
    BY <1>3, <1>4, <2>1, <2>3
  <2>5. HasEvent(current)'
    BY <1>1, <2>1, <2>2 DEF HasEvent, current
  <2> QED  BY <1>3, <2>1, <2>4, <2>5 DEF AnnouncedInv
<1>11. ASSUME NEW f \in Files, CreateHighFidelityFile(f) \/ RemoveSamplesLogfile(f)
       PROVE  AnnouncedInv'
  BY <1>0, <1>5, <1>11 DEF CreateHighFidelityFile, RemoveSamplesLogfile
<1>12. CASE HighFidelityFilesDone \/ RemoveSamplesLogfilesDone \/ EngineThrows
  BY <1>0, <1>5, <1>12 DEF HighFidelityFilesDone, RemoveSamplesLogfilesDone, EngineThrows
<1>13. CASE DeleteBookKeeper \/ FinishCopy \/ CopyFails
  BY <1>0, <1>5, <1>13 DEF DeleteBookKeeper, FinishCopy, CopyFails, LeaveRemoveEntry
<1>14. CASE StartCopy
  <2>1. /\ pc = "forget" /\ pc' = "copy" /\ compactor' = <<>>
        /\ draft' = EntriesAfter(compactor, victim)
        /\ UNCHANGED <<now, boot, stamp, torn>>
    BY <1>14 DEF StartCopy
  <2>2. AllAnnounced(draft')
    BY <1>0, <1>3, <2>1, AnnouncedLists
  <2>3. AllAnnounced(compactor)' /\ AllAnnounced(draft)'
    BY <1>3, <1>4, <2>1, <2>2
  <2>4. HasEvent(current)'
    BY <1>1, <2>1 DEF AnnouncedInv, HasEvent, current
  <2> QED  BY <1>3, <2>1, <2>3, <2>4 DEF AnnouncedInv
<1>15. ASSUME NEW f \in Files, Store(f) \/ StoreWithoutWriter(f) \/ BookOfErrorEngine(f)
       PROVE  AnnouncedInv'
  BY <1>0, <1>5, <1>15 DEF Store, StoreWithoutWriter, BookOfErrorEngine
<1>16. CASE CompactionWindowExpiry
  BY <1>0, <1>5, <1>16 DEF CompactionWindowExpiry, CompactorEngine
<1>17. CASE ExpiryCleanUp \/ ExpiryCleanUpThrows
  <2>1. /\ pc = "rotate" /\ stamp' = now /\ pc' \in {"append", "run"}
        /\ UNCHANGED <<now, boot, compactor, draft, torn>>
    BY <1>17 DEF ExpiryCleanUp, ExpiryCleanUpThrows
  <2>2. PICK e \in events : e.boot = boot /\ e.time <= stamp /\ e.version = 2
    BY <2>1 DEF AnnouncedInv, HasEvent, current
  <2>3. e.time <= stamp' /\ e \in events'
    BY <1>0, <1>3, <2>1, <2>2, EventsGrow DEF TypeOK, BootEvent
  <2>4. HasEvent(current)'
    BY <2>1, <2>2, <2>3 DEF HasEvent, current
  <2>5. AllAnnounced(compactor)' /\ AllAnnounced(draft)'
    BY <1>3, <1>4, <2>1
  <2> QED  BY <1>0, <1>3, <2>1, <2>4, <2>5 DEF AnnouncedInv
<1>18. ASSUME NEW cause \in {"powerLoss", "processDeath"}, Die(cause) PROVE AnnouncedInv'
  BY <1>0, <1>5, <1>18 DEF Die, LoseMemory
<1>19. CASE DieInAppend
  BY <1>0, <1>5, <1>19 DEF DieInAppend, LoseMemory
<1>20. CASE Tick
  <2>1. /\ now' = now + 1 /\ pc # "bootEvent"
        /\ UNCHANGED <<pc, boot, stamp, compactor, draft, torn>>
    BY <1>20 DEF Tick, CleanInv, PlaceInv
  <2> QED  BY <1>0, <1>5, <2>1
<1>21. CASE UNCHANGED vars
  BY <1>0, <1>5, <1>21 DEF vars
<1> QED
  BY <1>6, <1>7, <1>8, <1>9, <1>10, <1>11, <1>12, <1>13, <1>14, <1>15, <1>16, <1>17,
     <1>18, <1>19, <1>20, <1>21
     DEF Next, Boot, Engine, RemoveEntry, Loop, Environment


(* A directory is named by a list of entries.                              *)
Names(entries, d) == \E i \in 1..Len(entries) : entries[i] = d

LEMMA NamesOf ==
  ASSUME NEW s \in Seq(Directory), NEW d \in Directory
  PROVE  /\ Names(Append(s, d), d)
         /\ \A x : Names(s, x) => Names(Append(s, d), x)
         /\ Len(s) > 0 /\ d = Head(s) =>
              /\ \A x : Names(s, x) => x = d \/ Names(EntriesAfter(s, d), x)
              /\ EntriesAfter(s, d) = <<>> => \A x : Names(s, x) => x = d
<1>1. Names(Append(s, d), d) /\ \A x : Names(s, x) => Names(Append(s, d), x)
  <2> DEFINE r == Append(s, d)
  <2>1. /\ Len(r) = Len(s) + 1 /\ Len(s) \in Nat
        /\ \A i \in 1..Len(s) : r[i] = s[i]
        /\ r[Len(s) + 1] = d
    OBVIOUS
  <2> HIDE DEF r
  <2>2. Names(r, d) /\ \A x : Names(s, x) => Names(r, x)
    BY <2>1 DEF Names
  <2> QED  BY <2>2 DEF r
<1>2. ASSUME Len(s) > 0, d = Head(s), NEW x, Names(s, x), x # d
      PROVE  Names(EntriesAfter(s, d), x) /\ EntriesAfter(s, d) # <<>>
  <2> DEFINE r == EntriesAfter(s, d)
  <2>1. d = s[1] /\ Len(s) \in Nat
    BY <1>2
  <2>2. Len(r) = Len(s) - 1 /\ \A i \in 1..Len(s) - 1 : r[i] = s[i + 1]
    BY <1>2, <2>1, EntriesAfterFirst
  <2>3. PICK i \in 1..Len(s) : s[i] = x
    BY <1>2 DEF Names
  <2> HIDE DEF r
  <2>4. i # 1
    BY <1>2, <2>1, <2>3
  <2>5. i - 1 \in 1..Len(r) /\ r[i - 1] = x
    BY <2>1, <2>2, <2>3, <2>4
  <2>6. Names(r, x) /\ r # <<>>
    BY <2>5 DEF Names
  <2> QED  BY <2>6 DEF r
<1> QED  BY <1>1, <1>2

(* The engine works on the first entry, and its entry is removed only when *)
(* no raw sample is left in the directory.                                 *)
TrackedInv ==
  /\ \A s \in raw : s.dir = legacy \/ Names(compactor, s.dir) \/ Names(draft, s.dir)
  /\ pc \in {"extract", "remove", "forget"} => Len(compactor) > 0 /\ victim = Head(compactor)
  /\ pc = "remove" => \A s \in raw : s.dir = victim => s.file \in todo
  /\ pc = "forget" => \A s \in raw : s.dir = victim => s.dir = legacy
  /\ pc = "copy" => compactor = <<>>
  /\ pc \in {"arm", "run"} => Names(compactor, current)

(* The engine starts on the first entry with all its raw files to go.      *)
LEMMA EngineTracks ==
  ASSUME TypeOK, TrackedInv, Len(compactor) > 0, CompactorEngine(Head(compactor)),
         UNCHANGED <<raw, tornRaw, compactor, draft>>
  PROVE  TrackedInv'
<1>1. /\ victim' = Head(compactor) /\ todo' = RawFilesOf(victim')
      /\ pc' \in {"extract", "remove"}
  BY DEF CompactorEngine
<1>2. \A s \in raw : s.dir = victim' => s.file \in todo'
  BY <1>1 DEF RawFilesOf
<1>3. Len(compactor') > 0 /\ victim' = Head(compactor')
  BY <1>1
<1> QED  BY <1>1, <1>2, <1>3 DEF TrackedInv, Names, legacy

LEMMA NextTrackedInv ==
  ASSUME Hazards \cap {"tornCopy", "tornKeeper", "copyFails", "throws"} = {},
         TypeOK, CleanInv, EventsInv, AnnouncedInv, TrackedInv, [Next]_vars
  PROVE  TrackedInv'
<1> USE DEF localVars, memoryVars, keeperVars, sampleVars, historyVars
<1>0. /\ compactor \in Seq(Directory) /\ draft \in Seq(Directory)
      /\ victim \in Directory /\ current \in Directory
      /\ torn \cap {"Compactor", "BootEvent"} = {}
      /\ pc # "copy" => draft = <<>>
  BY CurrentType DEF TypeOK, AnnouncedInv, CleanInv, PlaceInv
<1>1. \A s \in raw : s.dir = legacy \/ Names(compactor, s.dir) \/ Names(draft, s.dir)
  BY DEF TrackedInv
<1>2. \A x : ~Names(<<>>, x)
  BY DEF Names
(* A step that leaves lists and samples alone and is not in the engine.    *)
<1>3. ASSUME raw' \subseteq raw, compactor' = compactor, draft' = draft,
             pc' \notin {"extract", "remove", "forget", "copy"},
             pc' \in {"arm", "run"} => pc \in {"arm", "run"} /\ UNCHANGED <<boot, stamp>>
      PROVE  TrackedInv'
  <2>1. pc' \in {"arm", "run"} => Names(compactor', current')
    BY <1>3 DEF TrackedInv, current
  <2> QED  BY <1>1, <1>3, <2>1 DEF TrackedInv, Names, legacy, current
<1>4. CASE StartUp \/ RecordBootEvent
  BY <1>3, <1>4 DEF StartUp, RecordBootEvent
<1>5. CASE CleanEntry
  <2>1. /\ Len(compactor) > 0 /\ Head(compactor) \in Directory /\ Names(compactor, Head(compactor))
        /\ Head(compactor) = compactor[1] /\ 1 \in 1..Len(compactor)
    BY <1>5, HeadType DEF CleanEntry, BOOT_TIME_DIR_COUNT, Names
  <2>2. CASE DataFormat(Head(compactor)) = currentDataFormatVersion
    BY <1>5, <2>1, <2>2, EngineTracks DEF CleanEntry
  <2>3. CASE DataFormat(Head(compactor)) # currentDataFormatVersion
    <3>1. /\ pc' = "forget" /\ victim' = Head(compactor)
          /\ UNCHANGED <<raw, compactor, draft>>
      BY <1>5, <2>3 DEF CleanEntry
    <3>2. Announced(Head(compactor))
      BY <2>1 DEF AnnouncedInv, AllAnnounced
    <3>3. Head(compactor) = legacy
      BY <2>1, <2>3, <3>2, AnnouncedFormat
    <3>4. \A s \in raw' : s.dir = victim' => s.dir = legacy
      BY <3>1, <3>3
    <3> QED  BY <1>1, <2>1, <3>1, <3>4 DEF TrackedInv, Names, legacy
  <2> QED  BY <2>2, <2>3
<1>6. CASE CleanEntriesDone
  BY <1>0, <1>3, <1>6 DEF CleanEntriesDone, CorruptWithin, Corrupt
<1>7. CASE InitTimerEvents
  BY <1>3, <1>7 DEF InitTimerEvents
<1>8. CASE AppendEntry
  <2>1. /\ compactor' = Append(compactor, current) /\ pc' \in {"arm", "run"}
        /\ UNCHANGED <<raw, draft, boot, stamp>>
    BY <1>8 DEF AppendEntry
  <2>2. Names(compactor', current) /\ \A x : Names(compactor, x) => Names(compactor', x)
    BY <1>0, <2>1, NamesOf
  <2>3. \A s \in raw' : s.dir = legacy \/ Names(compactor', s.dir) \/ Names(draft', s.dir)
    BY <1>1, <2>1, <2>2
  <2>4. current' = current
    BY <2>1 DEF current
  <2> QED  BY <2>1, <2>2, <2>3, <2>4 DEF TrackedInv, Names, legacy
<1>9. ASSUME NEW f \in Files, CreateHighFidelityFile(f) PROVE TrackedInv'
  <2>1. pc = "extract" /\ raw' \subseteq raw /\ UNCHANGED <<pc, victim, compactor, draft>>
    BY <1>9 DEF CreateHighFidelityFile
  <2> QED  BY <1>1, <2>1 DEF TrackedInv, Names, legacy
<1>10. CASE HighFidelityFilesDone
  <2>1. /\ pc = "extract" /\ pc' = "remove" /\ todo' = RawFilesOf(victim)
        /\ UNCHANGED <<victim, compactor, draft, raw>>
    BY <1>10 DEF HighFidelityFilesDone
  <2>2. \A s \in raw' : s.dir = victim' => s.file \in todo'
    BY <2>1 DEF RawFilesOf
  <2> QED  BY <1>1, <2>1, <2>2 DEF TrackedInv, Names, legacy
<1>11. ASSUME NEW f \in Files, RemoveSamplesLogfile(f) PROVE TrackedInv'
  <2>1. /\ pc = "remove" /\ raw' = raw \ SamplesIn(raw, victim, f) /\ todo' = todo \ {f}
        /\ UNCHANGED <<pc, victim, compactor, draft>>
    BY <1>11 DEF RemoveSamplesLogfile
  <2>2. ASSUME NEW s \in raw', s.dir = victim' PROVE s.file \in todo'
    BY <2>1, <2>2 DEF TrackedInv, SamplesIn
  <2> QED  BY <1>1, <2>1, <2>2 DEF TrackedInv, Names, legacy
<1>12. CASE RemoveSamplesLogfilesDone
  <2>1. /\ pc = "remove" /\ todo = {} /\ pc' = "forget"
        /\ UNCHANGED <<victim, compactor, draft, raw>>
    BY <1>12 DEF RemoveSamplesLogfilesDone
  <2>2. \A s \in raw' : s.dir # victim'
    BY <2>1 DEF TrackedInv
  <2> QED  BY <1>1, <2>1, <2>2 DEF TrackedInv, Names, legacy
(* The entry that is removed names no raw sample but one of the old format. *)
<1>13. ASSUME pc = "forget", NEW s \in raw, s.dir # legacy
       PROVE  /\ Names(EntriesAfter(compactor, victim), s.dir)
              /\ EntriesAfter(compactor, victim) # <<>>
  <2>1. Len(compactor) > 0 /\ victim = Head(compactor) /\ s.dir # victim
    BY <1>13 DEF TrackedInv
  <2>2. Names(compactor, s.dir)
    BY <1>0, <1>1, <1>2, <1>13
  <2> QED  BY <1>0, <2>1, <2>2, NamesOf
<1>14. CASE DeleteBookKeeper
  <2>1. /\ pc = "forget" /\ EntriesAfter(compactor, victim) = <<>>
        /\ UNCHANGED raw /\ pc' \in {"clean", "rotate"}
    BY <1>0, <1>14 DEF DeleteBookKeeper, LeaveRemoveEntry, Corrupt
  <2>2. \A s \in raw' : s.dir = legacy
    BY <1>13, <2>1
  <2> QED  BY <2>1, <2>2 DEF TrackedInv, legacy
<1>15. CASE StartCopy
  <2>1. /\ pc = "forget" /\ draft' = EntriesAfter(compactor, victim)
        /\ pc' = "copy" /\ UNCHANGED raw /\ compactor' = <<>>
    BY <1>15 DEF StartCopy
  <2>2. \A s \in raw' : s.dir = legacy \/ Names(draft', s.dir)
    BY <1>13, <2>1
  <2> QED  BY <2>1, <2>2 DEF TrackedInv, Names, legacy
<1>16. CASE FinishCopy
  <2>1. /\ pc = "copy" /\ compactor' = draft /\ UNCHANGED raw /\ pc' \in {"clean", "rotate"}
    BY <1>16 DEF FinishCopy, LeaveRemoveEntry
  <2>2. compactor = <<>>
    BY <2>1 DEF TrackedInv
  <2>3. \A s \in raw' : s.dir = legacy \/ Names(compactor', s.dir)
    BY <1>1, <1>2, <2>1, <2>2
  <2> QED  BY <2>1, <2>3 DEF TrackedInv, Names, legacy
<1>17. ASSUME NEW f \in Files, Store(f) PROVE TrackedInv'
  <2> DEFINE new == [dir |-> current, file |-> f, time |-> now]
  <2>1. /\ pc = "run" /\ pc' = "run" /\ raw' = raw \cup {new} /\ current' = current
        /\ compactor' = compactor /\ draft' = draft
    BY <1>17 DEF Store, current
  <2>2. new.dir = current /\ Names(compactor, current)
    BY <2>1 DEF TrackedInv
  <2> HIDE DEF new
  <2>3. \A s \in raw' : s.dir = legacy \/ Names(compactor', s.dir) \/ Names(draft', s.dir)
    BY <1>1, <2>1, <2>2
  <2> QED  BY <2>1, <2>2, <2>3 DEF TrackedInv, Names, legacy
<1>18. ASSUME NEW f \in Files, StoreWithoutWriter(f) \/ BookOfErrorEngine(f)
       PROVE  TrackedInv'
  BY <1>3, <1>18 DEF StoreWithoutWriter, BookOfErrorEngine
<1>19. CASE CompactionWindowExpiry
  <2>1. UNCHANGED <<raw, tornRaw, draft, boot, stamp>> /\ pc = "run"
    BY <1>19 DEF CompactionWindowExpiry
  <2>2. CASE /\ Len(compactor) >= RUN_TIME_DIR_COUNT
             /\ CompactorEngine(Head(compactor)) /\ UNCHANGED compactor
    <3>1. Len(compactor) > 0
      BY <1>0, <2>2 DEF RUN_TIME_DIR_COUNT
    <3> QED  BY <2>1, <2>2, <3>1, EngineTracks
  <2>3. CASE ~(/\ Len(compactor) >= RUN_TIME_DIR_COUNT
               /\ CompactorEngine(Head(compactor)) /\ UNCHANGED compactor)
    <3>1. pc' = "rotate" /\ compactor' = compactor
      BY <1>0, <1>19, <2>3 DEF CompactionWindowExpiry, CorruptWithin, Corrupt
    <3> QED  BY <1>3, <2>1, <3>1
  <2> QED  BY <2>2, <2>3
<1>20. CASE ExpiryCleanUp
  BY <1>3, <1>20 DEF ExpiryCleanUp
<1>21. ASSUME NEW cause \in {"powerLoss", "processDeath"}, Die(cause) PROVE TrackedInv'
  <2>1. pc # "copy" /\ pc' = "down" /\ UNCHANGED <<raw, compactor>> /\ draft' = <<>>
    BY <1>21 DEF Die, LoseMemory
  <2> QED  BY <1>0, <1>3, <2>1
<1>22. CASE DieInAppend
  <2>1. pc # "copy" /\ pc' = "down" /\ UNCHANGED <<raw, compactor>> /\ draft' = <<>>
    BY <1>22 DEF DieInAppend, LoseMemory
  <2> QED  BY <1>0, <1>3, <2>1
<1>23. CASE Tick \/ UNCHANGED vars
  <2>1. UNCHANGED <<pc, boot, stamp, victim, todo, draft, compactor, raw>>
    BY <1>23 DEF Tick, vars
  <2> QED  BY <2>1 DEF TrackedInv, Names, legacy, current
<1>24. ~EngineThrows /\ ~CopyFails /\ ~ExpiryCleanUpThrows
  BY DEF EngineThrows, CopyFails, ExpiryCleanUpThrows
<1> QED
  BY <1>4, <1>5, <1>6, <1>7, <1>8, <1>9, <1>10, <1>11, <1>12, <1>14, <1>15, <1>16,
     <1>17, <1>18, <1>19, <1>20, <1>21, <1>22, <1>23, <1>24
     DEF Next, Boot, Engine, RemoveEntry, Loop, Environment

(* Every directory with raw samples of this recorder stays listed until    *)
(* its samples are gone, also when the process dies or the HMC resets      *)
(* between any two writes but two: while newCompactor.dat is copied back.  *)
(* For each of the other hazards left out TLC finds a behaviour that       *)
(* forgets a directory.                                                    *)
THEOREM RawSamplesAreTracked ==
  ASSUME Hazards \cap {"tornCopy", "tornKeeper", "copyFails", "throws", "slowBoot"} = {}
  PROVE  Spec => []RawIsTracked
<1> DEFINE Inv == TypeOK /\ CleanInv /\ LegacyInv /\ AnnouncedInv /\ TrackedInv
<1>1. Init => AnnouncedInv /\ TrackedInv
  <2> SUFFICES ASSUME Init PROVE AnnouncedInv /\ TrackedInv
    OBVIOUS
  <2>1. /\ pc = "down" /\ draft = <<>> /\ torn = {} /\ now = StartTime
        /\ stamp <= now
    BY ConstantsAssumption DEF Init, legacy
  <2>2. \/ compactor = <<>> /\ raw = {}
        \/ compactor = <<legacy>> /\ \A s \in raw : s.dir = legacy
    BY LegacyIs DEF Init
  <2>3. AllAnnounced(compactor) /\ AllAnnounced(draft)
    <3>1. Len(<<>>) = 0 /\ Len(<<legacy>>) = 1 /\ <<legacy>>[1] = legacy
      OBVIOUS
    <3>2. AllAnnounced(<<>>) /\ AllAnnounced(<<legacy>>)
      BY <3>1 DEF AllAnnounced, Announced
    <3> QED  BY <2>1, <2>2, <3>2
  <2> QED  BY <2>1, <2>2, <2>3 DEF AnnouncedInv, TrackedInv
<1>2. AnnouncedInv /\ TrackedInv /\ (TypeOK /\ CleanInv /\ LegacyInv) /\ [Next]_vars
        => AnnouncedInv' /\ TrackedInv'
  BY NextAnnouncedInv, NextTrackedInv DEF LegacyInv
<1>3. TrackedInv => RawIsTracked
  BY DEF TrackedInv, RawIsTracked, Names
<1> QED  BY <1>1, <1>2, <1>3, LegacyInvariant, PTL DEF Spec

-----------------------------------------------------------------------------
(* Errors keep their samples, also those that are reported later.          *)

(* The samples of a process are no younger than its clock, and it dies     *)
(* only with the HMC, so that the next one has a boot of its own.          *)
TakenInv ==
  /\ pc \notin {"down", "bootEvent"} => writers = Files
  /\ \A s \in taken : s.dir.boot <= boot /\ s.time <= now
  /\ pc = "down" /\ taken # {} => ~hmcAlive
  /\ phase = "boot" /\ pc # "down" => \A s \in taken : s.dir.boot < boot

(* The timer fires on a grid, however long a compaction takes.  What is in *)
(* a closed directory was stored before the last expiry and, while the     *)
(* engine runs, before the one before.                                     *)
GridInv ==
  phase = "timer" =>
    IF pc \in {"run", "append"}
    THEN \A s \in taken : s.dir # current => s.time + Window <= due
    ELSE \A s \in taken : /\ s.time + Window <= due
                          /\ s.dir # current => s.time + 2 * Window <= due

(* What is lost is too old for an error that comes now.                    *)
LostInv ==
  \A s \in Lost : pc # "down" /\ s.dir.boot = boot => s.time + Preserve < now

KeepHazards == OrderlyHazards \ {"processDeath", "throws"}

(* What a step loses it forgets as SampleRetention allows, while the       *)
(* engine or RemoveEntry is at work.                                       *)
LEMMA LostByForgetting ==
  ASSUME Hazards \subseteq OrderlyHazards, RetentionInv, [Next]_vars,
         NEW s \in Lost', s \notin Lost
  PROVE  /\ s \in taken /\ s.dir # current
         /\ \A e \in reported : ~Retention!Near(s, e)
         /\ UNCHANGED <<boot, stamp, reported>>
         /\ pc \notin {"down", "run", "append"}
<1> USE DEF localVars, memoryVars, keeperVars, sampleVars, historyVars
<1>1. taken' \subseteq taken \cup raw'
  <2>1. CASE UNCHANGED taken
    BY <2>1
  <2>2. ASSUME NEW f \in Files, Store(f) PROVE taken' \subseteq taken \cup raw'
    BY <2>2 DEF Store
  <2> QED
    BY <2>1, <2>2 DEF Next, vars, Boot, StartUp, RecordBootEvent, CleanEntry,
       CleanEntriesDone, InitTimerEvents, AppendEntry, Engine, CreateHighFidelityFile,
       HighFidelityFilesDone, RemoveSamplesLogfile, RemoveSamplesLogfilesDone,
       EngineThrows, RemoveEntry, DeleteBookKeeper, StartCopy, FinishCopy, CopyFails,
       LeaveRemoveEntry, Loop, StoreWithoutWriter, BookOfErrorEngine,
       CompactionWindowExpiry, ExpiryCleanUp, ExpiryCleanUpThrows, Environment, Die,
       DieInAppend, LoseMemory, Tick
<1>2. s \in taken /\ s \in kept /\ s \notin kept'
  BY <1>1 DEF Lost, kept
<1>3. Retention!Forget
  BY <1>2, NextRetention DEF Retention!Next, Retention!Take, Retention!Report,
     Retention!OpenNext, kept
<1>4. boot' = boot /\ stamp' = stamp
  BY <1>3 DEF Retention!Forget, current
<1>5. pc \in {"down", "run", "append"} => raw \subseteq raw' /\ hifi' = hifi
  BY DEF Next, vars, Boot, StartUp, RecordBootEvent, CleanEntry, CleanEntriesDone,
     InitTimerEvents, AppendEntry, Engine, CreateHighFidelityFile,
     HighFidelityFilesDone, RemoveSamplesLogfile, RemoveSamplesLogfilesDone,
     EngineThrows, RemoveEntry, DeleteBookKeeper, StartCopy, FinishCopy, CopyFails,
     LeaveRemoveEntry, Loop, Store, StoreWithoutWriter, BookOfErrorEngine,
     CompactionWindowExpiry, ExpiryCleanUp, ExpiryCleanUpThrows, Environment, Die,
     DieInAppend, LoseMemory, Tick
<1>6. pc \notin {"down", "run", "append"}
  BY <1>2, <1>5 DEF kept
<1> QED  BY <1>2, <1>3, <1>4, <1>6 DEF Retention!Forget, kept

LEMMA NextTakenInv ==
  ASSUME Hazards \subseteq KeepHazards, TypeOK, PhaseInv, TakenInv, [Next]_vars
  PROVE  TakenInv'
<1> USE DEF localVars, memoryVars, keeperVars, sampleVars, historyVars
<1>0. /\ boot \in Nat /\ now \in Nat
      /\ \A s \in taken : s.dir.boot \in Nat /\ s.time \in Nat
      /\ Hazards \cap {"processDeath", "throws", "tornKeeper", "tornSample"} = {}
  BY DEF TypeOK, Sample, Directory, KeepHazards, OrderlyHazards
<1> USE DEF TakenInv, PhaseInv
<1>1. CASE StartUp
  BY <1>0, <1>1 DEF StartUp
<1>2. CASE RecordBootEvent
  BY <1>0, <1>2 DEF RecordBootEvent
<1>3. CASE CleanEntry
  BY <1>3 DEF CleanEntry, CompactorEngine
<1>4. CASE CleanEntriesDone
  BY <1>4 DEF CleanEntriesDone
<1>5. CASE InitTimerEvents
  BY <1>5 DEF InitTimerEvents
<1>6. CASE AppendEntry
  BY <1>6 DEF AppendEntry
<1>7. ASSUME NEW f \in Files, CreateHighFidelityFile(f) PROVE TakenInv'
  BY <1>7 DEF CreateHighFidelityFile
<1>8. CASE HighFidelityFilesDone
  BY <1>8 DEF HighFidelityFilesDone
<1>9. ASSUME NEW f \in Files, RemoveSamplesLogfile(f) PROVE TakenInv'
  BY <1>9 DEF RemoveSamplesLogfile
<1>10. CASE RemoveSamplesLogfilesDone
  BY <1>10 DEF RemoveSamplesLogfilesDone
<1>11. CASE DeleteBookKeeper
  BY <1>11 DEF DeleteBookKeeper, LeaveRemoveEntry
<1>12. CASE StartCopy
  BY <1>12 DEF StartCopy
<1>13. CASE FinishCopy
  BY <1>13 DEF FinishCopy, LeaveRemoveEntry
<1>14. CASE CopyFails
  BY <1>14 DEF CopyFails, LeaveRemoveEntry
<1>15. ASSUME NEW f \in Files, Store(f) PROVE TakenInv'
  <2> DEFINE new == [dir |-> current, file |-> f, time |-> now]
  <2>1. new.dir.boot = boot /\ new.time = now
    BY DEF current
  <2>2. /\ pc = "run" /\ pc' = "run" /\ taken' = taken \cup {new}
        /\ UNCHANGED <<now, phase, boot, writers, hmcAlive>>
    BY <1>15 DEF Store
  <2> HIDE DEF new
  <2> QED  BY <1>0, <2>1, <2>2
<1>16. ASSUME NEW f \in Files, StoreWithoutWriter(f) PROVE TakenInv'
  BY <1>16 DEF StoreWithoutWriter
<1>17. ASSUME NEW f \in Files, BookOfErrorEngine(f) PROVE TakenInv'
  BY <1>17 DEF BookOfErrorEngine
<1>18. CASE CompactionWindowExpiry
  BY <1>18 DEF CompactionWindowExpiry, CompactorEngine
<1>19. CASE ExpiryCleanUp
  BY <1>19 DEF ExpiryCleanUp
<1>20. ASSUME NEW cause \in {"powerLoss", "processDeath"}, Die(cause) PROVE TakenInv'
  <2>1. cause = "powerLoss"
    BY <1>0, <1>20 DEF Die
  <2> QED  BY <1>20, <2>1 DEF Die, LoseMemory
<1>21. CASE Tick
  BY <1>0, <1>21 DEF Tick
<1>22. CASE UNCHANGED vars
  BY <1>22 DEF vars
<1>23. ~DieInAppend /\ ~EngineThrows /\ ~ExpiryCleanUpThrows
  BY <1>0 DEF DieInAppend, EngineThrows, ExpiryCleanUpThrows
<1> HIDE DEF TakenInv, PhaseInv
<1> QED
  BY <1>1, <1>2, <1>3, <1>4, <1>5, <1>6, <1>7, <1>8, <1>9, <1>10, <1>11, <1>12,
     <1>13, <1>14, <1>15, <1>16, <1>17, <1>18, <1>19, <1>20, <1>21, <1>22, <1>23
     DEF Next, Boot, Engine, RemoveEntry, Loop, Environment

LEMMA NextGridInv ==
  ASSUME Hazards \subseteq KeepHazards, TypeOK, PhaseInv, TakenInv, GridInv, [Next]_vars
  PROVE  GridInv'
<1> USE DEF localVars, memoryVars, keeperVars, sampleVars, historyVars
<1>0. /\ now \in Nat /\ due \in Nat /\ Window \in Nat
      /\ \A s \in taken : s.time \in Nat /\ s.dir.boot \in Nat /\ s.time <= now
      /\ Hazards \cap {"throws", "tornKeeper", "tornSample"} = {}
  BY ConstantsAssumption
     DEF TypeOK, Sample, Directory, KeepHazards, OrderlyHazards, TakenInv
(* A step that does not move the program past an expiry.                   *)
<1>1. ASSUME UNCHANGED <<taken, due, boot, stamp, phase>>,
             pc \in {"run", "append"} <=> pc' \in {"run", "append"}
      PROVE  GridInv'
  BY <1>1 DEF GridInv, current
<1>2. ASSUME phase' = "boot" PROVE GridInv'
  BY <1>2 DEF GridInv
<1>3. CASE StartUp \/ RecordBootEvent \/ CleanEntry \/ CleanEntriesDone
  BY <1>2, <1>3
     DEF StartUp, RecordBootEvent, CleanEntry, CleanEntriesDone, PhaseInv
<1>4. CASE InitTimerEvents
  <2>1. /\ phase = "boot" /\ pc = "arm" /\ pc' = "run" /\ due' = now + Window
        /\ UNCHANGED <<taken, boot, stamp>>
    BY <1>4 DEF InitTimerEvents, PhaseInv
  <2> QED  BY <1>0, <2>1 DEF GridInv, current
<1>5. CASE AppendEntry
  <2>1. phase \in {"boot", "timer"}
    BY DEF TypeOK
  <2> QED  BY <1>1, <1>2, <1>5, <2>1 DEF AppendEntry
<1>6. ASSUME NEW f \in Files, CreateHighFidelityFile(f) \/ RemoveSamplesLogfile(f)
      PROVE  GridInv'
  BY <1>1, <1>6 DEF CreateHighFidelityFile, RemoveSamplesLogfile
<1>7. CASE HighFidelityFilesDone \/ RemoveSamplesLogfilesDone \/ StartCopy
  BY <1>1, <1>7 DEF HighFidelityFilesDone, RemoveSamplesLogfilesDone, StartCopy
<1>8. CASE DeleteBookKeeper \/ FinishCopy \/ CopyFails
  BY <1>1, <1>8 DEF DeleteBookKeeper, FinishCopy, CopyFails, LeaveRemoveEntry
<1>9. ASSUME NEW f \in Files, Store(f) PROVE GridInv'
  <2> DEFINE new == [dir |-> current, file |-> f, time |-> now]
  <2>1. /\ pc = "run" /\ pc' = "run" /\ taken' = taken \cup {new}
        /\ current' = current /\ UNCHANGED <<due, phase>> /\ new.dir = current
    BY <1>9 DEF Store, current
  <2> HIDE DEF new
  <2> QED  BY <2>1 DEF GridInv
<1>10. ASSUME NEW f \in Files, StoreWithoutWriter(f) PROVE GridInv'
  BY <1>2, <1>10 DEF StoreWithoutWriter
<1>11. ASSUME NEW f \in Files, BookOfErrorEngine(f) PROVE GridInv'
  BY <1>1, <1>11 DEF BookOfErrorEngine
<1>12. CASE CompactionWindowExpiry
  <2>1. /\ pc = "run" /\ pc' \in {"extract", "remove", "rotate"} /\ now >= due
        /\ due' = due + Window /\ phase = "timer"
        /\ UNCHANGED <<taken, boot, stamp, phase>>
    BY <1>12 DEF CompactionWindowExpiry, CompactorEngine, PhaseInv
  <2>2. now <= due
    BY <2>1 DEF PhaseInv
  <2>3. ASSUME NEW s \in taken
        PROVE  /\ s.time + Window <= due'
               /\ s.dir # current => s.time + 2 * Window <= due'
    <3>1. s.time <= due /\ s.time \in Nat
      BY <1>0, <2>1, <2>2
    <3>2. s.dir # current => s.time + Window <= due
      BY <2>1 DEF GridInv
    <3> QED  BY <1>0, <2>1, <3>1, <3>2
  <2> QED  BY <2>1, <2>3 DEF GridInv, current
<1>13. CASE ExpiryCleanUp
  <2>1. /\ phase = "timer" /\ pc = "rotate" /\ pc' = "append"
        /\ UNCHANGED <<taken, due, phase>>
    BY <1>13 DEF ExpiryCleanUp, PhaseInv
  <2> QED  BY <2>1 DEF GridInv
<1>14. ASSUME NEW cause \in {"powerLoss", "processDeath"}, Die(cause) PROVE GridInv'
  BY <1>2, <1>14 DEF Die, LoseMemory
<1>15. CASE Tick \/ UNCHANGED vars
  BY <1>1, <1>15 DEF Tick, vars
<1>16. ~DieInAppend /\ ~EngineThrows /\ ~ExpiryCleanUpThrows
  BY <1>0 DEF DieInAppend, EngineThrows, ExpiryCleanUpThrows
<1> QED
  BY <1>3, <1>4, <1>5, <1>6, <1>7, <1>8, <1>9, <1>10, <1>11, <1>12, <1>13, <1>14,
     <1>15, <1>16
     DEF Next, Boot, Engine, RemoveEntry, Loop, Environment

(* The boot counter changes at start up only.                              *)
LEMMA BootStays ==
  ASSUME TypeOK, [Next]_vars, pc # "down"
  PROVE  boot' = boot /\ now' \in Nat /\ now <= now'
<1> USE DEF localVars, memoryVars, keeperVars, sampleVars, historyVars
<1>0. now \in Nat /\ boot \in Nat
  BY DEF TypeOK
<1>1. CASE Tick
  BY <1>0, <1>1 DEF Tick
<1>2. CASE UNCHANGED <<now, boot>>
  BY <1>0, <1>2
<1>3. ~StartUp
  BY DEF StartUp
<1> QED
  BY <1>1, <1>2, <1>3 DEF Next, vars, Boot, RecordBootEvent, CleanEntry,
     CleanEntriesDone, InitTimerEvents, AppendEntry, Engine, CreateHighFidelityFile,
     HighFidelityFilesDone, RemoveSamplesLogfile, RemoveSamplesLogfilesDone,
     EngineThrows, RemoveEntry, DeleteBookKeeper, StartCopy, FinishCopy, CopyFails,
     LeaveRemoveEntry, Loop, Store, StoreWithoutWriter, BookOfErrorEngine,
     CompactionWindowExpiry, ExpiryCleanUp, ExpiryCleanUpThrows, Environment, Die,
     DieInAppend, LoseMemory

(* Where a new process, or none, is there to speak of lost samples.        *)
LEMMA StartFromDown ==
  ASSUME [Next]_vars, pc = "down", pc' # "down"
  PROVE  StartUp
BY DEF localVars, memoryVars, keeperVars, sampleVars, historyVars, Next, vars,
   Boot, RecordBootEvent, CleanEntry, CleanEntriesDone, InitTimerEvents,
   AppendEntry, Engine, CreateHighFidelityFile, HighFidelityFilesDone,
   RemoveSamplesLogfile, RemoveSamplesLogfilesDone, EngineThrows, RemoveEntry,
   DeleteBookKeeper, StartCopy, FinishCopy, CopyFails, LeaveRemoveEntry, Loop, Store,
   StoreWithoutWriter, BookOfErrorEngine, CompactionWindowExpiry, ExpiryCleanUp,
   ExpiryCleanUpThrows, Environment, Die, DieInAppend, LoseMemory, Tick

LEMMA NextLostInv ==
  ASSUME Hazards \subseteq KeepHazards, Preserve < Window, RetentionInv, TakenInv,
         GridInv, LostInv, [Next]_vars
  PROVE  LostInv'
<1> SUFFICES ASSUME NEW s \in Lost', pc' # "down", s.dir.boot = boot'
             PROVE  s.time + Preserve < now'
  BY DEF LostInv
<1>0. /\ Hazards \subseteq OrderlyHazards /\ TypeOK /\ PhaseInv
      /\ now \in Nat /\ due \in Nat /\ boot \in Nat
      /\ Window \in Nat /\ Preserve \in Nat
      /\ \A x \in taken : x.time \in Nat /\ x.dir.boot \in Nat
  BY ConstantsAssumption
     DEF KeepHazards, RetentionInv, TypeOK, Sample, Directory
<1>1. CASE pc = "down"
  <2>1. StartUp
    BY <1>1, StartFromDown
  <2>2. boot' = (IF hmcAlive THEN boot ELSE boot + 1) /\ Lost' = Lost
    BY <2>1 DEF StartUp, Lost, sampleVars, historyVars
  <2>3. s \in taken /\ s.dir.boot <= boot /\ ~hmcAlive
    BY <1>1, <2>2 DEF Lost, TakenInv
  <2> QED  BY <1>0, <2>2, <2>3
<1>2. CASE pc # "down" /\ s \in Lost
  <2>1. boot' = boot /\ now' \in Nat /\ now <= now'
    BY <1>0, <1>2, BootStays
  <2>2. s.time + Preserve < now /\ s.time \in Nat
    BY <1>0, <1>2, <2>1 DEF LostInv, Lost
  <2> QED  BY <1>0, <2>1, <2>2
<1>3. CASE pc # "down" /\ s \notin Lost
  <2>1. boot' = boot /\ now' \in Nat /\ now <= now'
    BY <1>0, <1>3, BootStays
  <2>2. s \in taken /\ s.dir # current /\ pc \notin {"run", "append"} /\ s.time \in Nat
    BY <1>0, <1>3, LostByForgetting
  <2>3. phase = "timer"
    <3>1. phase \in {"boot", "timer"}
      BY <1>0 DEF TypeOK
    <3>2. phase = "boot" => s.dir.boot < boot
      BY <1>3, <2>2 DEF TakenInv
    <3> QED  BY <1>0, <2>1, <2>2, <3>1, <3>2
  <2>4. due <= now + Window /\ s.time + 2 * Window <= due
    BY <1>0, <2>2, <2>3 DEF PhaseInv, GridInv
  <2> QED  BY <1>0, <2>1, <2>2, <2>4
<1> QED  BY <1>1, <1>2, <1>3

(* An error is new only where it is reported: now, and in the current boot. *)
LEMMA NewErrors ==
  ASSUME [Next]_vars
  PROVE  \A e \in reported' : \/ e \in reported
                              \/ pc = "run" /\ e.boot = boot /\ e.time = now
<1> USE DEF localVars, memoryVars, keeperVars, sampleVars, historyVars
<1>1. ASSUME NEW f \in Files, BookOfErrorEngine(f), NEW e \in reported'
      PROVE  e \in reported \/ (pc = "run" /\ e.boot = boot /\ e.time = now)
  BY <1>1 DEF BookOfErrorEngine
<1>2. CASE UNCHANGED reported
  BY <1>2
<1> QED
  BY <1>1, <1>2 DEF Next, vars, Boot, StartUp, RecordBootEvent, CleanEntry,
     CleanEntriesDone, InitTimerEvents, AppendEntry, Engine, CreateHighFidelityFile,
     HighFidelityFilesDone, RemoveSamplesLogfile, RemoveSamplesLogfilesDone,
     EngineThrows, RemoveEntry, DeleteBookKeeper, StartCopy, FinishCopy, CopyFails,
     LeaveRemoveEntry, Loop, Store, StoreWithoutWriter, CompactionWindowExpiry,
     ExpiryCleanUp, ExpiryCleanUpThrows, Environment, Die, DieInAppend, LoseMemory, Tick

LEMMA NextErrorsKeep ==
  ASSUME Hazards \subseteq OrderlyHazards, RetentionInv, LostInv,
         ErrorsKeepTheirSamples, [Next]_vars
  PROVE  ErrorsKeepTheirSamples'
<1> SUFFICES ASSUME NEW s \in Lost', NEW e \in reported' PROVE ~Retention!Near(s, e)
  BY DEF ErrorsKeepTheirSamples, Retention!Near
<1>1. CASE s \notin Lost
  BY <1>1, LostByForgetting
<1>2. CASE s \in Lost /\ e \in reported
  BY <1>2 DEF ErrorsKeepTheirSamples
<1>3. CASE s \in Lost /\ e \notin reported
  <2>1. pc = "run" /\ e.boot = boot /\ e.time = now
    BY <1>3, NewErrors
  <2>2. s.dir.boot = boot => s.time + Preserve < now
    BY <1>3, <2>1 DEF LostInv
  <2>3. s.time \in Nat /\ now \in Nat /\ Preserve \in Nat
    BY <1>3, ConstantsAssumption DEF Lost, RetentionInv, TypeOK, Sample
  <2> QED  BY <2>1, <2>2, <2>3 DEF Retention!Near
<1> QED  BY <1>1, <1>2, <1>3

(* No error ever misses a sample taken within Preserve seconds of it in    *)
(* its boot, whether it was reported before the compaction or after it.    *)
(* The recorder keeps the previous directory for one window more, so that  *)
(* what is lost is a whole window old.  A process that died within its     *)
(* boot would compact its own last samples at start up, and so would one   *)
(* that ended because an exception left a record without a writer.         *)
THEOREM ErrorsKeepSamples ==
  ASSUME Hazards \subseteq KeepHazards, Preserve < Window
  PROVE  Spec => []ErrorsKeepTheirSamples
<1> DEFINE Inv == TakenInv /\ GridInv /\ LostInv /\ ErrorsKeepTheirSamples
<1>0. Hazards \subseteq OrderlyHazards
  BY DEF KeepHazards
<1>1. Init => Inv
  BY DEF Init, TakenInv, GridInv, LostInv, ErrorsKeepTheirSamples, Lost
<1>2. RetentionInv /\ Inv /\ [Next]_vars => Inv'
  BY <1>0, NextTakenInv, NextGridInv, NextLostInv, NextErrorsKeep DEF RetentionInv
<1> QED  BY <1>0, <1>1, <1>2, RetentionInvariant, PTL DEF Spec
===============================================================================
