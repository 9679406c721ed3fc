------------------------ MODULE ParallelUploadProofs ------------------------
(***************************************************************************)
(* Proofs about s3-upload for every number of jobs, of retries and every   *)
(* size of the file.                                                       *)
(***************************************************************************)
EXTENDS ParallelUpload, FiniteSetTheorems, TLAPS

-----------------------------------------------------------------------------
\* The inductive invariant, part by part.

\* Where the main thread stands, and what it must have done to be there.
MainInv ==
  /\ pc \in {"put", "begin", "spawn", "gather", "complete", "unwind"} => ValidConfig
  /\ pc \in {"begin", "spawn", "gather", "complete"} => config.jobs > 1
  /\ spawned <= config.jobs
  /\ pc \in {"configure", "put", "begin"} => spawned = 0
  /\ pc \in {"gather", "complete"} => spawned = config.jobs /\ endSignature # "none"
  /\ pc = "exited" <=> exitCode # -1
  /\ printedETag => pc = "exited"
  /\ pc = "exited" => \A i \in Parts : worker[i] \notin Running
  /\ \A i \in Parts : worker[i] = "killed" => exitCode = Crashed
  /\ pc # "exited" => object = <<>>

\* What a thread has done, and what the server may know of its part.
PartInv(i) ==
  /\ worker[i] = "unstarted" <=> i >= spawned
  /\ worker[i] = "unstarted" =>
       tryNum[i] = 0 /\ late[i] = {} /\ stored[i + 1].etag = NoETag
  /\ worker[i] # "unstarted" =>
       /\ extent[i] = PartExtent(i)
       /\ tryNum[i] \in 1 .. config.maxRetries
       /\ late[i] \subseteq 1 .. tryNum[i]
       /\ stored[i + 1].etag <= tryNum[i]
  /\ worker[i] \in Running => tryNum[i] \notin late[i] /\ stored[i + 1].etag < tryNum[i]
  /\ worker[i] = "done" =>
       /\ etags[i] = tryNum[i]
       /\ tryNum[i] \notin late[i]
       /\ stored[i + 1].etag # NoETag
  /\ stored[i + 1].etag # NoETag =>
       /\ stored[i + 1].etag \notin late[i]
       /\ stored[i + 1].extent = extent[i]

WorkerInv == \A i \in Parts : PartInv(i)

\* The manifest names finished parts in order, as many as were gathered.
ManifestInv ==
  /\ manifest # <<>> => pc \in {"gather", "complete", "unwind", "exited"}
  /\ pc = "gather" => Len(manifest) < config.jobs
  /\ pc = "complete" => Len(manifest) = config.jobs
  /\ Len(manifest) <= config.jobs
  /\ \A k \in 1 .. Len(manifest) :
       /\ worker[k - 1] = "done"
       /\ manifest[k] = [etag |-> tryNum[k - 1], partNumber |-> k]

\* Without a fault of the environment every part is sent once and stored.
CauseInv ==
  /\ pc = "unwind" => faulty
  /\ pc \in {"spawn", "gather", "complete"} /\ uploadId = "none" => faulty
  /\ ~faulty => \A i \in Parts :
       /\ worker[i] \notin Failed
       /\ late[i] = {}
       /\ worker[i] = "done" => stored[i + 1].etag = tryNum[i]

IInv ==
  /\ TypeOK
  /\ MainInv
  /\ WorkerInv
  /\ ManifestInv
  /\ CauseInv
  /\ NothingTorn
  /\ FailureHasCause

-----------------------------------------------------------------------------
\* How the file is cut.

LEMMA Division ==
  ASSUME NEW F \in Nat, NEW J \in Nat \ {0}
  PROVE  F \div J \in Nat /\ F % J \in Nat /\ F = J * (F \div J) + (F % J)
<1>1. F \div J \in Nat
  BY SMT
<1>2. F % J \in Nat
  BY SMT
<1>3. F = J * (F \div J) + (F % J)
  BY SMT
<1> QED
  BY <1>1, <1>2, <1>3

LEMMA ConfigTypes ==
  ASSUME config \in Configs
  PROVE  config.jobs \in Nat /\ config.fileSize \in Nat
<1>1. config.jobs \in 0 .. MaxJobs /\ config.fileSize \in FileSizes
  BY DEF Configs
<1>2. config.jobs \in Nat
  BY <1>1, BoundsAssumption
<1>3. config.fileSize \in Nat
  BY <1>1, BoundsAssumption, Zenon
<1> QED
  BY <1>2, <1>3

\* The extents are pairs of naturals.
LEMMA PartExtentType ==
  ASSUME config \in Configs, config.jobs >= 1, NEW i \in Parts
  PROVE  PartExtent(i) \in Extents
<1>1. config.jobs \in Nat /\ config.fileSize \in Nat /\ i \in Nat
  BY ConfigTypes DEF Parts
<1>2. ChunkSize \in Nat /\ config.fileSize % config.jobs \in Nat
  BY <1>1, Division DEF ChunkSize
<1>3. LastChunkSize \in Nat
  BY <1>2 DEF LastChunkSize
<1>4. ChunkSize * i \in Nat
  BY <1>1, <1>2
<1> QED
  BY <1>2, <1>3, <1>4 DEF PartExtent, Extents

\* Part after part, the extents cover the file with no gap and no overlap.
LEMMA PartExtentsCover ==
  ASSUME config \in Configs, config.jobs >= 1
  PROVE  /\ PartExtent(0).offset = 0
         /\ \A i \in Nat : i < config.jobs - 1 =>
              PartExtent(i + 1).offset = PartExtent(i).offset + PartExtent(i).size
         /\ LET l == PartExtent(config.jobs - 1)
            IN  l.offset + l.size = config.fileSize
<1> DEFINE J == config.jobs
           F == config.fileSize
           C == ChunkSize
<1>1. J \in Nat \ {0} /\ F \in Nat
  BY ConfigTypes
<1>2. C \in Nat /\ F % J \in Nat /\ F = J * C + (F % J)
  BY <1>1, Division DEF ChunkSize
<1>3. PartExtent(0).offset = 0
  BY <1>2 DEF PartExtent
<1>4. ASSUME NEW i \in Nat, i < J - 1
      PROVE  PartExtent(i + 1).offset = PartExtent(i).offset + PartExtent(i).size
  <2>1. C * (i + 1) = C * i + C
    BY <1>2
  <2> QED
    BY <1>1, <1>4, <2>1 DEF PartExtent
<1>5. LastChunkSize = (F % J) + C
  BY <1>2 DEF LastChunkSize
<1>6. C * (J - 1) + C = J * C
  BY <1>1, <1>2
<1>7. C * (J - 1) \in Nat
  BY <1>1, <1>2
<1>8. PartExtent(J - 1).offset + PartExtent(J - 1).size = F
  BY <1>1, <1>2, <1>5, <1>6, <1>7 DEF PartExtent
<1> QED
  BY <1>3, <1>4, <1>8

-----------------------------------------------------------------------------
\* Type correctness.

LEMMA TypeInit == Init => TypeOK
<1> SUFFICES ASSUME Init PROVE TypeOK
  OBVIOUS
<1>1. 0 \in 0 .. MaxJobs /\ 0 \in ETags
  BY BoundsAssumption DEF ETags
<1>2. /\ config \in Configs /\ exitCode \in {-1, 0, 1, Crashed}
      /\ printedETag \in BOOLEAN /\ printedError \in BOOLEAN
      /\ numRetriesG \in Nat /\ faulty \in BOOLEAN /\ spawned \in 0 .. MaxJobs
  BY <1>1 DEF Init
<1>3. /\ worker \in [Parts -> WorkerStates] /\ extent \in [Parts -> Extents]
      /\ tryNum \in [Parts -> ETags] /\ etags \in [Parts -> ETags]
      /\ late \in [Parts -> SUBSET ETags]
  BY <1>1 DEF Init, WorkerStates, Extents, NoExtent, NoETag
<1>4. stored \in [PartNumbers -> [etag : ETags, extent : Extents]]
  BY <1>1 DEF Init, Extents, NoExtent, NoETag
<1>5. manifest \in Seq(PartEntries) /\ object \in Seq(Extents)
  BY DEF Init
<1> QED
  BY <1>2, <1>3, <1>4, <1>5 DEF Init, TypeOK

\* The uses of exitCode, printedETag and printedError in every way out.
LEMMA ExitType ==
  ASSUME TypeOK, ExitWithETag \/ ExitWithError
  PROVE  exitCode' \in {-1, 0, 1, Crashed} /\ printedETag' \in BOOLEAN /\ printedError' \in BOOLEAN
  BY DEF TypeOK, ExitWithETag, ExitWithError

LEMMA WholeFileExtent ==
  ASSUME config \in Configs
  PROVE  /\ <<[offset |-> 0, size |-> config.fileSize]>> \in Seq(Extents)
         /\ <<>> \in Seq(Extents)
<1>1. config.fileSize \in Nat
  BY ConfigTypes
<1> QED
  BY <1>1 DEF Extents

LEMMA StoreType ==
  ASSUME TypeOK, NEW i \in Parts, Store(i)
  PROVE  stored' \in [PartNumbers -> [etag : ETags, extent : Extents]]
  BY DEF TypeOK, Store

LEMMA MayLandType ==
  ASSUME TypeOK, NEW i \in Parts, MayLand(i)
  PROVE  /\ stored' \in [PartNumbers -> [etag : ETags, extent : Extents]]
         /\ late' \in [Parts -> SUBSET ETags]
<1>1. CASE UNCHANGED <<stored, late>>
  BY <1>1 DEF TypeOK
<1>2. CASE Store(i) /\ UNCHANGED late
  BY <1>2, StoreType DEF TypeOK
<1>3. CASE late' = [late EXCEPT ![i] = @ \cup {tryNum[i]}] /\ UNCHANGED stored
  BY <1>3 DEF TypeOK
<1> QED
  BY <1>1, <1>2, <1>3 DEF MayLand

LEMMA AssembledType ==
  ASSUME TypeOK
  PROVE  Assembled \in Seq(Extents)
<1>1. ASSUME NEW k \in 1 .. Len(manifest)
      PROVE  stored[manifest[k].partNumber].extent \in Extents
  <2>1. manifest[k] \in PartEntries
    BY DEF TypeOK
  <2>2. manifest[k].partNumber \in PartNumbers
    BY <2>1 DEF PartEntries
  <2>3. stored[manifest[k].partNumber] \in [etag : ETags, extent : Extents]
    BY <2>2 DEF TypeOK
  <2> QED
    BY <2>3
<1> QED
  BY <1>1 DEF Assembled, TypeOK

LEMMA TypeStep ==
  ASSUME TypeOK, MainInv, WorkerInv, ManifestInv, [Next]_vars
  PROVE  TypeOK'
<1> USE DEF TypeOK
<1>1. CASE RejectConfig
  BY <1>1, ExitType DEF RejectConfig, ExitWithError, uploadVars, workerVars, serverVars
<1>2. CASE StartFails
  BY <1>2, ExitType DEF StartFails, ExitWithError, uploadVars, workerVars, serverVars
<1>3. CASE ChooseMode
  BY <1>3 DEF ChooseMode, uploadVars, workerVars, exitVars, serverVars
<1>4. CASE PutAccepted
  BY <1>4, ExitType, WholeFileExtent DEF PutAccepted, ExitWithETag, uploadVars, workerVars
<1>5. CASE PutFails
  <2>1. object' \in Seq(Extents)
    BY <1>5, WholeFileExtent DEF PutFails
  <2> QED
    BY <1>5, <2>1, ExitType DEF PutFails, ExitWithError, uploadVars, workerVars
<1>6. ASSUME NEW id \in {"none", "id"}, BeginAnswered(id)
      PROVE  TypeOK'
  BY <1>6 DEF BeginAnswered, workerVars, exitVars, serverVars
<1>7. CASE BeginFails
  BY <1>7, ExitType DEF BeginFails, ExitWithError, uploadVars, workerVars, serverVars
<1>8. CASE Spawn
  <2>1. spawned \in Parts /\ config.jobs >= 1 /\ spawned + 1 \in 0 .. MaxJobs
    BY <1>8, BoundsAssumption DEF Spawn, Parts, Configs
  <2>2. PartExtent(spawned) \in Extents
    BY <2>1, PartExtentType
  <2>3. 1 \in ETags
    BY BoundsAssumption DEF ETags
  <2> QED
    BY <1>8, <2>1, <2>2, <2>3 DEF Spawn, WorkerStates, exitVars, serverVars
<1>9. CASE SetupFails
  BY <1>9 DEF SetupFails, uploadVars, workerVars, exitVars, serverVars
<1>10. CASE SignCompletion
  BY <1>10 DEF SignCompletion, workerVars, exitVars, serverVars
<1>11. CASE Gather
  <2> DEFINE i == Len(manifest)
             entry == [etag |-> etags[i], partNumber |-> i + 1]
  <2>1. i \in Parts
    <3>1. i < config.jobs
      BY <1>11 DEF Gather, ManifestInv
    <3>2. i \in Nat /\ config.jobs \in 0 .. MaxJobs
      BY DEF Configs
    <3> QED
      BY <3>1, <3>2, BoundsAssumption DEF Parts
  <2>2. entry \in PartEntries
    <3>1. etags[i] \in ETags
      BY <2>1
    <3>2. i + 1 \in PartNumbers
      BY <2>1, BoundsAssumption DEF Parts, PartNumbers
    <3> QED
      BY <3>1, <3>2 DEF PartEntries
  <2>3. manifest' \in Seq(PartEntries)
    <3>1. manifest' = Append(manifest, entry)
      BY <1>11 DEF Gather
    <3>2. manifest \in Seq(PartEntries)
      OBVIOUS
    <3> HIDE DEF entry, TypeOK
    <3> QED
      BY <2>2, <3>1, <3>2
  <2> QED
    BY <1>11, <2>3 DEF Gather, workerVars, exitVars, serverVars
<1>12. CASE GatherThrows
  BY <1>12 DEF GatherThrows, uploadVars, workerVars, exitVars, serverVars
<1>13. CASE CompleteAccepted
  BY <1>13, ExitType, AssembledType DEF CompleteAccepted, ExitWithETag, uploadVars, workerVars
<1>14. CASE CompleteUnanswered
  <2>1. object' \in Seq(Extents)
    BY <1>14, AssembledType DEF CompleteUnanswered, MayAssemble
  <2> QED
    BY <1>14, <2>1, ExitType DEF CompleteUnanswered, ExitWithError, uploadVars, workerVars
<1>15. CASE CompleteRejected
  <2>1. faulty' \in BOOLEAN
    BY <1>15 DEF CompleteRejected, Acceptable
  <2> QED
    BY <1>15, <2>1, ExitType DEF CompleteRejected, ExitWithError, uploadVars, workerVars, serverVars
<1>16. CASE CompleteWithoutETag
  <2>1. object' \in Seq(Extents)
    BY <1>16, AssembledType DEF CompleteWithoutETag, MayAssemble
  <2> QED
    BY <1>16, <2>1 DEF CompleteWithoutETag, uploadVars, workerVars
<1>17. CASE Unwind
  BY <1>17, ExitType DEF Unwind, ExitWithError, uploadVars, workerVars, serverVars
<1>18. ASSUME NEW i \in Parts, SignPart(i)
       PROVE  TypeOK'
  BY <1>18 DEF SignPart, WorkerStates, uploadVars, exitVars, serverVars
<1>19. ASSUME NEW i \in Parts, PartAccepted(i)
       PROVE  TypeOK'
  BY <1>19, StoreType DEF PartAccepted, WorkerStates, uploadVars, exitVars
<1>20. ASSUME NEW i \in Parts, PartWithoutETag(i)
       PROVE  TypeOK'
  <2>1. tryNum' \in [Parts -> ETags] /\ numRetriesG' \in Nat
    <3>1. CASE LastTry(i)
      BY <1>20, <3>1 DEF PartWithoutETag
    <3>2. CASE ~LastTry(i)
      <4>1. tryNum[i] \in 1 .. config.maxRetries /\ tryNum[i] # config.maxRetries
        BY <1>20, <3>2 DEF PartWithoutETag, LastTry, WorkerInv, PartInv
      <4>2. config.maxRetries \in 0 .. MaxRetries
        BY DEF Configs
      <4>3. tryNum[i] + 1 \in ETags
        BY <4>1, <4>2, BoundsAssumption DEF ETags
      <4> QED
        BY <1>20, <3>2, <4>3 DEF PartWithoutETag, CountRetry
    <3> QED
      BY <3>1, <3>2
  <2>2. worker' \in [Parts -> WorkerStates]
    BY <1>20 DEF PartWithoutETag, WorkerStates
  <2> QED
    BY <1>20, <2>1, <2>2, MayLandType DEF PartWithoutETag, uploadVars, exitVars
<1>21. ASSUME NEW i \in Parts, PartThrows(i)
       PROVE  TypeOK'
  <2>1. /\ stored' \in [PartNumbers -> [etag : ETags, extent : Extents]]
        /\ late' \in [Parts -> SUBSET ETags]
    BY <1>21, MayLandType DEF PartThrows
  <2> QED
    BY <1>21, <2>1 DEF PartThrows, WorkerStates, uploadVars, exitVars
<1>22. ASSUME NEW i \in Parts, LateArrival(i)
       PROVE  TypeOK'
  <2>1. PICK a \in late[i] :
          /\ stored' = [stored EXCEPT ![i + 1] = [etag |-> a, extent |-> extent[i]]]
          /\ late' = [late EXCEPT ![i] = @ \ {a}]
    BY <1>22 DEF LateArrival
  <2>2. a \in ETags
    OBVIOUS
  <2>3. /\ stored' \in [PartNumbers -> [etag : ETags, extent : Extents]]
        /\ late' \in [Parts -> SUBSET ETags]
    BY <2>1, <2>2
  <2> QED
    BY <1>22, <2>3 DEF LateArrival, processVars
<1>23. CASE ExpireSignature
  BY <1>23 DEF ExpireSignature, workerVars, exitVars, serverVars
<1>24. CASE RandomIndexCrashes
  BY <1>24 DEF RandomIndexCrashes, KillThreads, WorkerStates, uploadVars, serverVars
<1>25. CASE UNCHANGED vars
  BY <1>25 DEF vars, processVars, serverVars
<1> QED
  BY <1>1, <1>2, <1>3, <1>4, <1>5, <1>6, <1>7, <1>8, <1>9, <1>10, <1>11, <1>12,
     <1>13, <1>14, <1>15, <1>16, <1>17, <1>18, <1>19, <1>20, <1>21, <1>22, <1>23,
     <1>24, <1>25
     DEF Next, MainStep, WorkerStep, Terminated

-----------------------------------------------------------------------------
\* What a step may change.

LEMMA ConfigFixed ==
  ASSUME [Next]_vars
  PROVE  config' = config
  BY DEF Next, vars, processVars, MainStep, WorkerStep, RejectConfig, StartFails,
     ChooseMode, RandomIndexCrashes, PutAccepted, PutFails, BeginAnswered, BeginFails, Spawn, SetupFails,
     SignCompletion, Gather, GatherThrows, CompleteAccepted, CompleteUnanswered,
     CompleteRejected, CompleteWithoutETag, Unwind, SignPart, PartAccepted,
     PartWithoutETag, PartThrows, LateArrival, ExpireSignature, Terminated

LEMMA ExtentFixed ==
  ASSUME config' = config
  PROVE  /\ \A i : PartExtent(i)' = PartExtent(i)
         /\ \A s : IsWholeFile(s)' = IsWholeFile(s)
         /\ ValidConfig' = ValidConfig
  BY DEF PartExtent, ChunkSize, LastChunkSize, IsWholeFile, ValidConfig

\* The parts are disturbed only by the spawning loop, their own threads, data
\* that arrives late and the end of the process.
LEMMA PartsFixed ==
  ASSUME [Next]_vars
  PROVE  \/ Spawn \/ RandomIndexCrashes
         \/ \E i \in Parts : WorkerStep(i) \/ LateArrival(i)
         \/ UNCHANGED <<spawned, workerVars, stored, late>>
<1> DEFINE Fixed == UNCHANGED <<spawned, workerVars, stored, late>>
<1>1. ASSUME RejectConfig \/ StartFails \/ ChooseMode
      PROVE  Fixed
  BY <1>1 DEF RejectConfig, StartFails, ChooseMode, uploadVars, serverVars
<1>2. ASSUME PutAccepted \/ PutFails
      PROVE  Fixed
  BY <1>2 DEF PutAccepted, PutFails, uploadVars
<1>3. ASSUME BeginAnswered("none") \/ BeginAnswered("id") \/ BeginFails
      PROVE  Fixed
  BY <1>3 DEF BeginAnswered, BeginFails, uploadVars, serverVars
<1>4. ASSUME SetupFails \/ SignCompletion
      PROVE  Fixed
  BY <1>4 DEF SetupFails, SignCompletion, uploadVars, serverVars
<1>5. ASSUME Gather \/ GatherThrows
      PROVE  Fixed
  BY <1>5 DEF Gather, GatherThrows, uploadVars, serverVars
<1>6. ASSUME CompleteAccepted \/ CompleteUnanswered
      PROVE  Fixed
  BY <1>6 DEF CompleteAccepted, CompleteUnanswered, uploadVars
<1>7. ASSUME CompleteRejected \/ CompleteWithoutETag
      PROVE  Fixed
  BY <1>7 DEF CompleteRejected, CompleteWithoutETag, uploadVars, serverVars
<1>8. ASSUME Unwind \/ ExpireSignature
      PROVE  Fixed
  BY <1>8 DEF Unwind, ExpireSignature, uploadVars, serverVars
<1>9. ASSUME UNCHANGED vars
      PROVE  Fixed
  <2>1. UNCHANGED <<worker, extent, tryNum, etags, numRetriesG>>
    BY <1>9 DEF vars, processVars
  <2>2. UNCHANGED <<spawned, stored, late>>
    BY <1>9 DEF vars, processVars, serverVars
  <2> QED
    BY <2>1, <2>2 DEF workerVars
<1> HIDE DEF Fixed
<1>10. Spawn \/ RandomIndexCrashes \/ (\E i \in Parts : WorkerStep(i) \/ LateArrival(i)) \/ Fixed
  BY <1>1, <1>2, <1>3, <1>4, <1>5, <1>6, <1>7, <1>8, <1>9
     DEF Next, MainStep, Terminated
<1> QED
  BY <1>10 DEF Fixed

\* The end of the process cuts off the threads that run and touches nothing
\* else of the parts.
LEMMA CrashKills ==
  ASSUME TypeOK, RandomIndexCrashes
  PROVE  /\ \A j \in Parts :
              worker'[j] = IF worker[j] \in Running THEN "killed" ELSE worker[j]
         /\ UNCHANGED <<spawned, extent, tryNum, etags, stored, late>>
  BY DEF RandomIndexCrashes, KillThreads, uploadVars, serverVars

\* A thread or its late data leaves the main thread where it is.
LEMMA MainFixed ==
  ASSUME NEW i \in Parts, WorkerStep(i) \/ LateArrival(i)
  PROVE  UNCHANGED <<config, pc, uploadVars, exitVars, object>>
<1>1. CASE SignPart(i) \/ PartAccepted(i)
  BY <1>1 DEF SignPart, PartAccepted, serverVars
<1>2. CASE PartWithoutETag(i) \/ PartThrows(i)
  BY <1>2 DEF PartWithoutETag, PartThrows
<1>3. CASE LateArrival(i)
  BY <1>3 DEF LateArrival, processVars, uploadVars, exitVars
<1> QED
  BY <1>1, <1>2, <1>3 DEF WorkerStep

LEMMA PartTypes ==
  ASSUME TypeOK, NEW i \in Parts
  PROVE  /\ i \in Nat
         /\ i + 1 \in PartNumbers
         /\ tryNum[i] \in Nat
         /\ stored[i + 1].etag \in Nat
         /\ late[i] \subseteq Nat
         /\ config.maxRetries \in Nat
         /\ spawned \in Nat
<1>1. i \in Nat /\ i + 1 \in PartNumbers
  BY BoundsAssumption DEF Parts, PartNumbers
<1>2. tryNum[i] \in Nat /\ late[i] \subseteq Nat /\ config.maxRetries \in Nat /\ spawned \in Nat
  BY BoundsAssumption DEF TypeOK, ETags, Configs
<1>3. stored[i + 1] \in [etag : ETags, extent : Extents]
  BY <1>1 DEF TypeOK
<1> QED
  BY <1>1, <1>2, <1>3, BoundsAssumption DEF ETags

\* A step of one part leaves the others as they are.
LEMMA OtherParts ==
  ASSUME TypeOK, NEW i \in Parts, NEW j \in Parts, i # j,
         WorkerStep(i) \/ LateArrival(i)
  PROVE  /\ worker'[j] = worker[j] /\ extent'[j] = extent[j] /\ tryNum'[j] = tryNum[j]
         /\ etags'[j] = etags[j] /\ late'[j] = late[j]
         /\ stored'[j + 1] = stored[j + 1]
<1>0. i + 1 \in PartNumbers /\ j + 1 \in PartNumbers /\ i + 1 # j + 1
  BY PartTypes DEF Parts
<1>1. CASE SignPart(i)
  BY <1>1 DEF SignPart, TypeOK, serverVars
<1>2. CASE PartAccepted(i)
  BY <1>0, <1>2 DEF PartAccepted, Store, TypeOK
<1>3. ASSUME MayLand(i)
      PROVE  late'[j] = late[j] /\ stored'[j + 1] = stored[j + 1]
  BY <1>0, <1>3 DEF MayLand, Store, TypeOK
<1>4. CASE PartWithoutETag(i)
  BY <1>3, <1>4 DEF PartWithoutETag, TypeOK
<1>5. CASE PartThrows(i)
  BY <1>3, <1>5 DEF PartThrows, TypeOK
<1>6. CASE LateArrival(i)
  BY <1>0, <1>6 DEF LateArrival, TypeOK, processVars
<1> QED
  BY <1>1, <1>2, <1>4, <1>5, <1>6 DEF WorkerStep

-----------------------------------------------------------------------------
\* The main thread.

\* No thread runs where the main thread can leave without waiting.
LEMMA NoneRunning ==
  ASSUME TypeOK, MainInv, WorkerInv, ManifestInv,
         pc \in {"configure", "put", "begin", "complete"}
  PROVE  \A i \in Parts : worker[i] \notin Running
<1> SUFFICES ASSUME NEW i \in Parts
             PROVE  worker[i] \notin Running
  OBVIOUS
<1>1. i \in Nat /\ spawned \in Nat
  BY DEF Parts, TypeOK
<1>2. CASE i >= spawned
  BY <1>2 DEF WorkerInv, PartInv, Running
<1>3. CASE i < spawned
  <2>1. pc = "complete" /\ i + 1 \in 1 .. Len(manifest)
    BY <1>1, <1>3 DEF MainInv, ManifestInv
  <2>2. worker[(i + 1) - 1] = "done"
    BY <2>1 DEF ManifestInv
  <2> QED
    BY <1>1, <2>2 DEF Running
<1> QED
  BY <1>1, <1>2, <1>3

LEMMA MainStepInv ==
  ASSUME TypeOK, MainInv, WorkerInv, ManifestInv, [Next]_vars
  PROVE  MainInv'
<1> USE DEF MainInv, Crashed
<1>0. config' = config /\ ValidConfig' = ValidConfig
  BY ConfigFixed, ExtentFixed
<1>1. CASE RejectConfig \/ StartFails
  BY <1>0, <1>1, NoneRunning DEF RejectConfig, StartFails, ExitWithError, uploadVars,
     workerVars, serverVars
<1>2. CASE ChooseMode
  BY <1>0, <1>2 DEF ChooseMode, ValidConfig, uploadVars, workerVars, exitVars, serverVars
<1>3. CASE PutAccepted \/ PutFails
  BY <1>0, <1>3, NoneRunning DEF PutAccepted, PutFails, ExitWithETag, ExitWithError,
     uploadVars, workerVars
<1>4. CASE BeginAnswered("none") \/ BeginAnswered("id")
  BY <1>0, <1>4 DEF BeginAnswered, workerVars, exitVars, serverVars
<1>5. CASE BeginFails
  BY <1>0, <1>5, NoneRunning DEF BeginFails, ExitWithError, uploadVars, workerVars, serverVars
<1>6. CASE Spawn
  BY <1>0, <1>6 DEF Spawn, exitVars, serverVars, TypeOK, Configs
<1>7. CASE SetupFails
  BY <1>0, <1>7 DEF SetupFails, uploadVars, workerVars, exitVars, serverVars
<1>8. CASE SignCompletion
  BY <1>0, <1>8 DEF SignCompletion, workerVars, exitVars, serverVars
<1>9. CASE Gather
  BY <1>0, <1>9 DEF Gather, workerVars, exitVars, serverVars
<1>10. CASE GatherThrows
  BY <1>0, <1>10 DEF GatherThrows, uploadVars, workerVars, exitVars, serverVars
<1>11. CASE CompleteAccepted
  BY <1>0, <1>11, NoneRunning DEF CompleteAccepted, ExitWithETag, uploadVars, workerVars
<1>12. CASE CompleteUnanswered \/ CompleteRejected
  BY <1>0, <1>12, NoneRunning DEF CompleteUnanswered, CompleteRejected, ExitWithError,
     uploadVars, workerVars, serverVars
<1>13. CASE CompleteWithoutETag
  BY <1>0, <1>13, NoneRunning DEF CompleteWithoutETag, uploadVars, workerVars
<1>14. CASE Unwind
  BY <1>0, <1>14 DEF Unwind, Joined, ExitWithError, uploadVars, workerVars, serverVars
<1>15. ASSUME NEW i \in Parts, WorkerStep(i) \/ LateArrival(i)
       PROVE  MainInv'
  <2>1. UNCHANGED <<pc, spawned, endSignature, exitCode, printedETag, object>>
    BY <1>15, MainFixed DEF uploadVars, exitVars
  <2>2. pc = "exited" => worker' = worker
    BY <1>15 DEF WorkerStep, SignPart, PartAccepted, PartWithoutETag, PartThrows, Running,
       LateArrival
  <2>3. ASSUME NEW j \in Parts, worker'[j] = "killed"
        PROVE  worker[j] = "killed"
    <3>1. CASE i = j
      BY <1>15, <2>3, <3>1 DEF WorkerStep, SignPart, PartAccepted, PartWithoutETag,
         PartThrows, LateArrival, processVars, TypeOK
    <3> QED
      BY <1>15, <2>3, <3>1, OtherParts
  <2> QED
    BY <1>0, <2>1, <2>2, <2>3
<1>16. CASE ExpireSignature
  BY <1>0, <1>16 DEF ExpireSignature, workerVars, exitVars, serverVars
<1>17. CASE RandomIndexCrashes
  BY <1>0, <1>17, CrashKills DEF RandomIndexCrashes, Running, uploadVars, serverVars
<1>18. CASE UNCHANGED vars
  BY <1>0, <1>18 DEF vars, processVars, serverVars
<1> QED
  BY <1>1, <1>2, <1>3, <1>4, <1>5, <1>6, <1>7, <1>8, <1>9, <1>10, <1>11, <1>12,
     <1>13, <1>14, <1>15, <1>16, <1>17, <1>18
     DEF Next, MainStep, Terminated

-----------------------------------------------------------------------------
\* The threads and the server.

\* What an unconfirmed request of part i leaves behind.
LEMMA MayLandPart ==
  ASSUME TypeOK, NEW i \in Parts, MayLand(i)
  PROVE  \/ late'[i] = late[i] /\ stored'[i + 1] = stored[i + 1]
         \/ /\ late'[i] = late[i]
            /\ stored'[i + 1] = [etag |-> tryNum[i], extent |-> extent[i]]
         \/ late'[i] = late[i] \cup {tryNum[i]} /\ stored'[i + 1] = stored[i + 1]
  BY PartTypes DEF MayLand, Store, TypeOK

\* It keeps what the server knows of part i within what was sent.
LEMMA MayLandKept ==
  ASSUME TypeOK, NEW i \in Parts, PartInv(i), worker[i] = "sending",
         MayLand(i) \/ UNCHANGED <<stored, late>>
  PROVE  /\ late'[i] \subseteq 1 .. tryNum[i]
         /\ stored'[i + 1].etag \in 0 .. tryNum[i]
         /\ stored'[i + 1].etag # NoETag =>
              /\ stored'[i + 1].etag \notin late'[i]
              /\ stored'[i + 1].extent = extent[i]
<1>1. /\ tryNum[i] \in Nat \ {0} /\ late[i] \subseteq 1 .. tryNum[i]
      /\ stored[i + 1].etag \in 0 .. tryNum[i] /\ stored[i + 1].etag # tryNum[i]
      /\ tryNum[i] \notin late[i]
      /\ stored[i + 1].etag # NoETag =>
           stored[i + 1].etag \notin late[i] /\ stored[i + 1].extent = extent[i]
  BY PartTypes DEF PartInv, Running
<1>2. CASE late'[i] = late[i] /\ stored'[i + 1] = stored[i + 1]
  BY <1>1, <1>2
<1>3. CASE /\ late'[i] = late[i]
           /\ stored'[i + 1] = [etag |-> tryNum[i], extent |-> extent[i]]
  BY <1>1, <1>3
<1>4. CASE late'[i] = late[i] \cup {tryNum[i]} /\ stored'[i + 1] = stored[i + 1]
  BY <1>1, <1>4
<1> QED
  BY <1>2, <1>3, <1>4, MayLandPart

LEMMA WorkerStepInv ==
  ASSUME TypeOK, MainInv, WorkerInv, [Next]_vars
  PROVE  WorkerInv'
<1>0. config' = config /\ \A i : PartExtent(i)' = PartExtent(i)
  BY ConfigFixed, ExtentFixed
<1>1. CASE Spawn
  <2> SUFFICES ASSUME NEW j \in Parts
               PROVE  PartInv(j)'
    BY DEF WorkerInv, Parts
  <2>1. PartInv(j) /\ spawned \in Nat /\ j \in Nat /\ spawned' = spawned + 1
    BY <1>1, PartTypes DEF WorkerInv, Spawn
  <2>2. UNCHANGED <<etags, stored, late>>
    BY <1>1 DEF Spawn, serverVars
  <2>3. CASE j = spawned
    <3>1. worker'[j] = "signing" /\ extent'[j] = PartExtent(j) /\ tryNum'[j] = 1
      BY <1>1, <2>3 DEF Spawn, TypeOK
    <3>2. worker[j] = "unstarted" /\ config.maxRetries >= 1
      BY <1>1, <2>1, <2>3 DEF PartInv, Spawn, MainInv, ValidConfig
    <3> QED
      BY <1>0, <2>1, <2>2, <2>3, <3>1, <3>2, PartTypes DEF PartInv, NoETag
  <2>4. CASE j # spawned
    <3>1. worker'[j] = worker[j] /\ extent'[j] = extent[j] /\ tryNum'[j] = tryNum[j]
      BY <1>1, <2>4 DEF Spawn, TypeOK
    <3> QED
      BY <1>0, <2>1, <2>2, <2>4, <3>1 DEF PartInv
  <2> QED
    BY <2>3, <2>4
<1>2. ASSUME NEW i \in Parts, WorkerStep(i) \/ LateArrival(i)
      PROVE  WorkerInv'
  <2> SUFFICES ASSUME NEW j \in Parts
               PROVE  PartInv(j)'
    BY DEF WorkerInv, Parts
  <2>1. PartInv(j) /\ PartInv(i) /\ spawned' = spawned
    BY <1>2, MainFixed DEF WorkerInv, uploadVars
  <2>2. CASE j # i
    BY <1>0, <1>2, <2>1, <2>2, OtherParts DEF PartInv
  <2>3. CASE j = i /\ SignPart(i)
    <3>1. worker[i] = "signing" /\ worker'[i] = "sending"
      BY <2>3 DEF SignPart, TypeOK
    <3>2. UNCHANGED <<extent, tryNum, etags, stored, late>>
      BY <2>3 DEF SignPart, serverVars
    <3> QED
      BY <1>0, <2>1, <2>3, <3>1, <3>2 DEF PartInv, Running
  <2>4. CASE j = i /\ PartAccepted(i)
    <3>1. /\ worker[i] = "sending" /\ worker'[i] = "done"
          /\ etags'[i] = tryNum[i]
          /\ stored'[i + 1] = [etag |-> tryNum[i], extent |-> extent[i]]
      BY <2>4, PartTypes DEF PartAccepted, Store, TypeOK
    <3>2. UNCHANGED <<extent, tryNum, late>>
      BY <2>4 DEF PartAccepted
    <3> QED
      BY <1>0, <2>1, <2>4, <3>1, <3>2, PartTypes DEF PartInv, Running, NoETag
  <2>5. CASE j = i /\ PartWithoutETag(i)
    <3>1. worker[i] = "sending" /\ extent' = extent /\ etags' = etags
      BY <2>5 DEF PartWithoutETag
    <3> DEFINE Kept ==
          /\ late'[i] \subseteq 1 .. tryNum[i]
          /\ stored'[i + 1].etag \in 0 .. tryNum[i]
          /\ stored'[i + 1].etag # NoETag =>
               /\ stored'[i + 1].etag \notin late'[i]
               /\ stored'[i + 1].extent = extent[i]
    <3>0. Kept
      BY <2>1, <2>5, <3>1, MayLandKept DEF PartWithoutETag
    <3>2. CASE LastTry(i)
      <4>1. worker'[i] = "exhausted" /\ tryNum'[i] = tryNum[i]
        BY <2>5, <3>2 DEF PartWithoutETag, TypeOK
      <4> QED
        BY <1>0, <2>1, <2>5, <3>0, <3>1, <4>1, PartTypes DEF PartInv, Running
    <3>3. CASE ~LastTry(i)
      <4>1. worker'[i] = "signing" /\ tryNum'[i] = tryNum[i] + 1
        BY <2>5, <3>3 DEF PartWithoutETag, TypeOK
      <4>2. tryNum[i] # config.maxRetries
        BY <3>3 DEF LastTry
      <4> QED
        BY <1>0, <2>1, <2>5, <3>0, <3>1, <4>1, <4>2, PartTypes DEF PartInv, Running
    <3> QED
      BY <3>2, <3>3
  <2>6. CASE j = i /\ PartThrows(i)
    <3>1. /\ worker[i] \in Running /\ worker'[i] = "threw"
          /\ UNCHANGED <<extent, tryNum, etags>>
      BY <2>6 DEF PartThrows, TypeOK, Running
    <3>2. CASE worker[i] = "signing" /\ UNCHANGED <<stored, late>>
      BY <1>0, <2>1, <2>6, <3>1, <3>2, PartTypes DEF PartInv, Running
    <3>3. CASE worker[i] = "sending" /\ MayLand(i)
      <4>1. /\ late'[i] \subseteq 1 .. tryNum[i]
            /\ stored'[i + 1].etag \in 0 .. tryNum[i]
            /\ stored'[i + 1].etag # NoETag =>
                 /\ stored'[i + 1].etag \notin late'[i]
                 /\ stored'[i + 1].extent = extent[i]
        BY <2>1, <3>3, MayLandKept
      <4> QED
        BY <1>0, <2>1, <2>6, <3>1, <3>3, <4>1, PartTypes DEF PartInv, Running
    <3> QED
      BY <2>6, <3>2, <3>3 DEF PartThrows
  <2>7. CASE j = i /\ LateArrival(i)
    <3>1. PICK a \in late[i] :
            /\ stored'[i + 1] = [etag |-> a, extent |-> extent[i]]
            /\ late'[i] = late[i] \ {a}
      BY <2>7, PartTypes DEF LateArrival, TypeOK
    <3>2. UNCHANGED <<worker, extent, tryNum, etags>>
      BY <2>7 DEF LateArrival, processVars
    <3> QED
      BY <1>0, <2>1, <2>7, <3>1, <3>2, PartTypes DEF PartInv, Running, NoETag
  <2> QED
    BY <1>2, <2>2, <2>3, <2>4, <2>5, <2>6, <2>7 DEF WorkerStep
<1>3. CASE UNCHANGED <<spawned, workerVars, stored, late>>
  BY <1>0, <1>3 DEF WorkerInv, PartInv, workerVars
<1>4. CASE RandomIndexCrashes
  <2> SUFFICES ASSUME NEW j \in Parts
               PROVE  PartInv(j)'
    BY DEF WorkerInv, Parts
  <2>1. PartInv(j) /\ UNCHANGED <<spawned, extent, tryNum, etags, stored, late>>
    BY <1>4, CrashKills DEF WorkerInv
  <2>2. worker'[j] = IF worker[j] \in Running THEN "killed" ELSE worker[j]
    BY <1>4, CrashKills
  <2> QED
    BY <1>0, <2>1, <2>2 DEF PartInv, Running
<1> QED
  BY <1>1, <1>2, <1>3, <1>4, PartsFixed

-----------------------------------------------------------------------------
\* The manifest.

\* A finished part stays as it finished.
LEMMA DoneStays ==
  ASSUME TypeOK, WorkerInv, [Next]_vars, NEW j \in Parts, worker[j] = "done"
  PROVE  worker'[j] = "done" /\ tryNum'[j] = tryNum[j]
<1>1. CASE Spawn
  <2>1. worker[spawned] = "unstarted"
    BY <1>1, BoundsAssumption DEF Spawn, WorkerInv, PartInv, TypeOK, Parts, Configs
  <2> QED
    BY <1>1, <2>1 DEF Spawn, TypeOK
<1>2. ASSUME NEW i \in Parts, WorkerStep(i) \/ LateArrival(i)
      PROVE  worker'[j] = "done" /\ tryNum'[j] = tryNum[j]
  <2>1. CASE i = j
    BY <1>2, <2>1 DEF WorkerStep, SignPart, PartAccepted, PartWithoutETag, PartThrows,
       LateArrival, processVars
  <2> QED
    BY <1>2, <2>1, OtherParts
<1>3. CASE UNCHANGED <<spawned, workerVars, stored, late>>
  BY <1>3 DEF workerVars
<1>4. CASE RandomIndexCrashes
  BY <1>4, CrashKills DEF Running
<1> QED
  BY <1>1, <1>2, <1>3, <1>4, PartsFixed

\* Only Gather writes the manifest, and pc follows its length.
LEMMA ManifestFixed ==
  ASSUME [Next]_vars
  PROVE  Gather \/ manifest' = manifest
<1>1. CASE UNCHANGED uploadVars
  BY <1>1 DEF uploadVars
<1>2. ASSUME NEW i \in Parts, WorkerStep(i) \/ LateArrival(i)
      PROVE  manifest' = manifest
  BY <1>2, MainFixed DEF uploadVars
<1>3. CASE BeginAnswered("none") \/ BeginAnswered("id") \/ Spawn \/ SignCompletion
  BY <1>3 DEF BeginAnswered, Spawn, SignCompletion
<1>4. CASE ExpireSignature
  BY <1>4 DEF ExpireSignature
<1>5. CASE UNCHANGED vars
  BY <1>5 DEF vars, processVars
<1> QED
  BY <1>1, <1>2, <1>3, <1>4, <1>5
     DEF Next, MainStep, Terminated, RejectConfig, StartFails, ChooseMode,
     RandomIndexCrashes, PutAccepted, PutFails, BeginFails, SetupFails, GatherThrows, CompleteAccepted,
     CompleteUnanswered, CompleteRejected, CompleteWithoutETag, Unwind

\* The ways of the main thread, in the order of main.
LEMMA PcMoves ==
  ASSUME [Next]_vars, ~Gather
  PROVE  \/ pc' = pc
         \/ pc' \in {"unwind", "exited"}
         \/ pc \in {"configure", "begin"} /\ pc' \in {"begin", "put", "spawn"}
         \/ pc = "spawn" /\ pc' = "gather"
<1>1. ASSUME NEW i \in Parts, WorkerStep(i) \/ LateArrival(i)
      PROVE  pc' = pc
  BY <1>1, MainFixed
<1>2. CASE UNCHANGED vars
  BY <1>2 DEF vars, processVars
<1> QED
  BY <1>1, <1>2
     DEF Next, MainStep, Terminated, RejectConfig, StartFails, ChooseMode,
     RandomIndexCrashes, PutAccepted, PutFails, BeginAnswered, BeginFails, Spawn,
     SetupFails, SignCompletion,
     GatherThrows, CompleteAccepted, CompleteUnanswered, CompleteRejected,
     CompleteWithoutETag, Unwind, ExpireSignature, ExitWithETag, ExitWithError

LEMMA ManifestStepInv ==
  ASSUME TypeOK, MainInv, WorkerInv, ManifestInv, [Next]_vars
  PROVE  ManifestInv'
<1>0. config' = config
  BY ConfigFixed
<1>t. manifest \in Seq(PartEntries) /\ config.jobs \in Nat /\ Len(manifest) \in Nat
  BY BoundsAssumption DEF TypeOK, Configs
<1>1. CASE Gather
  <2> DEFINE i == Len(manifest)
             entry == [etag |-> etags[i], partNumber |-> i + 1]
  <2>1. /\ i < config.jobs /\ worker[i] = "done" /\ manifest' = Append(manifest, entry)
        /\ pc' = IF i + 1 = config.jobs THEN "complete" ELSE "gather"
        /\ UNCHANGED <<worker, tryNum>>
    BY <1>1 DEF Gather, Ready, ManifestInv, workerVars
  <2>2. i \in Parts
    BY <1>t, <2>1, BoundsAssumption DEF Parts, TypeOK, Configs
  <2>3. entry = [etag |-> tryNum[i], partNumber |-> i + 1]
    BY <2>1, <2>2 DEF WorkerInv, PartInv
  <2>4. /\ Len(manifest') = i + 1
        /\ \A k \in 1 .. i : manifest'[k] = manifest[k]
        /\ manifest'[i + 1] = entry
    <3> HIDE DEF entry
    <3> QED
      BY <1>t, <2>1
  <2>5. ASSUME NEW k \in 1 .. i + 1
        PROVE  worker'[k - 1] = "done" /\ manifest'[k] = [etag |-> tryNum'[k - 1], partNumber |-> k]
    <3>1. CASE k = i + 1
      BY <1>t, <2>1, <2>3, <2>4, <3>1
    <3>2. CASE k \in 1 .. i
      BY <2>1, <2>4, <3>2 DEF ManifestInv
    <3> QED
      BY <1>t, <3>1, <3>2
  <2> QED
    BY <1>0, <1>t, <2>1, <2>4, <2>5 DEF ManifestInv
<1>2. CASE ~Gather
  <2>1. manifest' = manifest
    BY <1>2, ManifestFixed
  <2>2. ASSUME NEW k \in 1 .. Len(manifest)
        PROVE  worker'[k - 1] = "done" /\ manifest'[k] = [etag |-> tryNum'[k - 1], partNumber |-> k]
    <3>1. worker[k - 1] = "done" /\ manifest[k] = [etag |-> tryNum[k - 1], partNumber |-> k]
      BY DEF ManifestInv
    <3>2. k - 1 \in Parts
      BY <1>t, BoundsAssumption DEF Parts, ManifestInv, TypeOK, Configs
    <3> QED
      BY <2>1, <3>1, <3>2, DoneStays
  <2>3. pc = "spawn" /\ pc' = "gather" => manifest = <<>> /\ config.jobs > 1
    BY DEF ManifestInv, MainInv
  <2> QED
    BY <1>0, <1>2, <1>t, <2>1, <2>2, <2>3, PcMoves DEF ManifestInv
<1> QED
  BY <1>1, <1>2

-----------------------------------------------------------------------------
\* The object.

\* An accepted completion assembles the file: the parts are those of the
\* spawning loop, in order and to the last.
LEMMA AssembledWhole ==
  ASSUME TypeOK, MainInv, WorkerInv, ManifestInv, pc = "complete", Acceptable
  PROVE  Assembled # <<>> /\ IsWholeFile(Assembled)
<1> DEFINE n == Len(manifest)
<1>1. n = config.jobs /\ n \in Nat /\ n > 1 /\ config \in Configs /\ config.jobs \in 0 .. MaxJobs
  BY DEF ManifestInv, MainInv, TypeOK, Configs
<1>2. Assembled = [k \in 1 .. n |-> stored[manifest[k].partNumber].extent]
  BY DEF Assembled
<1>3. ASSUME NEW k \in 1 .. n
      PROVE  Assembled[k] = PartExtent(k - 1)
  <2>1. /\ worker[k - 1] = "done"
        /\ manifest[k].etag = tryNum[k - 1] /\ manifest[k].partNumber = k
    <3>1. worker[k - 1] = "done" /\ manifest[k] = [etag |-> tryNum[k - 1], partNumber |-> k]
      BY DEF ManifestInv
    <3> QED
      BY <3>1
  <2>2. k - 1 \in Parts /\ (k - 1) + 1 = k
    BY <1>1, BoundsAssumption DEF Parts
  <2>3. PartInv(k - 1)
    BY <2>2 DEF WorkerInv
  <2>4. stored[k].etag # NoETag /\ extent[k - 1] = PartExtent(k - 1)
    BY <2>1, <2>2, <2>3 DEF PartInv
  <2>5. stored[k].extent = extent[k - 1]
    BY <2>2, <2>3, <2>4 DEF PartInv
  <2> QED
    BY <1>2, <2>1, <2>4, <2>5
<1>4. Len(Assembled) = n
  BY <1>1, <1>2
<1>5. /\ PartExtent(0).offset = 0
      /\ \A i \in Nat : i < n - 1 =>
           PartExtent(i + 1).offset = PartExtent(i).offset + PartExtent(i).size
      /\ PartExtent(n - 1).offset + PartExtent(n - 1).size = config.fileSize
  BY <1>1, PartExtentsCover
<1>6. Assembled[1] = PartExtent(0) /\ Assembled[n] = PartExtent(n - 1)
  BY <1>1, <1>3
<1>7. ASSUME NEW k \in 1 .. n - 1
      PROVE  Assembled[k + 1].offset = Assembled[k].offset + Assembled[k].size
  <2>1. Assembled[k] = PartExtent(k - 1) /\ Assembled[k + 1] = PartExtent((k + 1) - 1)
    BY <1>1, <1>3
  <2>2. (k + 1) - 1 = (k - 1) + 1 /\ k - 1 \in Nat /\ k - 1 < n - 1
    BY <1>1
  <2> QED
    BY <1>5, <2>1, <2>2
<1>8. Assembled # <<>>
  BY <1>1, <1>4
<1> HIDE DEF n
<1> QED
  BY <1>4, <1>5, <1>6, <1>7, <1>8 DEF IsWholeFile

LEMMA OnePutWhole ==
  ASSUME config \in Configs
  PROVE  IsWholeFile(<<[offset |-> 0, size |-> config.fileSize]>>)
<1>1. config.fileSize \in Nat
  BY BoundsAssumption DEF Configs
<1> QED
  BY <1>1 DEF IsWholeFile

\* What a step makes of the object.
LEMMA ObjectMoves ==
  ASSUME TypeOK, MainInv, WorkerInv, ManifestInv, [Next]_vars
  PROVE  object' = object \/ (pc' = "exited" /\ exitCode' # -1 /\ IsWholeFile(object'))
<1>1. CASE PutAccepted \/ PutFails
  BY <1>1, OnePutWhole DEF PutAccepted, PutFails, ExitWithETag, ExitWithError, TypeOK, MainInv
<1>2. CASE CompleteAccepted
  BY <1>2, AssembledWhole DEF CompleteAccepted, ExitWithETag
<1>3. CASE CompleteUnanswered \/ CompleteWithoutETag
  BY <1>3, AssembledWhole DEF CompleteUnanswered, CompleteWithoutETag, MayAssemble, ExitWithError
<1>4. ASSUME NEW i \in Parts, WorkerStep(i) \/ LateArrival(i)
      PROVE  object' = object
  BY <1>4, MainFixed
<1>5. CASE UNCHANGED vars
  BY <1>5 DEF vars, serverVars
<1> QED
  BY <1>1, <1>2, <1>3, <1>4, <1>5
     DEF Next, MainStep, Terminated, RejectConfig, StartFails, ChooseMode,
     RandomIndexCrashes, BeginAnswered, BeginFails, Spawn, SetupFails, SignCompletion, Gather,
     GatherThrows, CompleteRejected, Unwind, ExpireSignature, serverVars

LEMMA NothingTornStep ==
  ASSUME TypeOK, MainInv, WorkerInv, ManifestInv, NothingTorn, [Next]_vars
  PROVE  NothingTorn'
<1>1. (IsWholeFile(object))' <=> IsWholeFile(object')
  BY ConfigFixed DEF IsWholeFile
<1>2. CASE object' = object
  BY <1>1, <1>2 DEF NothingTorn
<1> QED
  BY <1>1, <1>2, ObjectMoves DEF NothingTorn

-----------------------------------------------------------------------------
\* The causes of failure.

\* Where nothing went wrong a completion is acceptable until its signature
\* runs out.
LEMMA AcceptableUnlessFaulty ==
  ASSUME TypeOK, MainInv, WorkerInv, ManifestInv, CauseInv, pc = "complete", ~faulty
  PROVE  Acceptable \/ endSignature = "stale"
<1>1. uploadId # "none" /\ endSignature \in {"fresh", "stale"}
  BY DEF CauseInv, MainInv, TypeOK
<1>2. ASSUME NEW k \in 1 .. Len(manifest)
      PROVE  manifest[k].etag = stored[manifest[k].partNumber].etag
  <2>1. worker[k - 1] = "done" /\ manifest[k] = [etag |-> tryNum[k - 1], partNumber |-> k]
    BY DEF ManifestInv
  <2>2. k - 1 \in Parts /\ (k - 1) + 1 = k
    BY BoundsAssumption DEF ManifestInv, Parts, TypeOK, Configs
  <2>3. stored[k].etag = tryNum[k - 1]
    BY <2>1, <2>2 DEF CauseInv
  <2> QED
    BY <2>1, <2>3
<1> QED
  BY <1>1, <1>2 DEF Acceptable

LEMMA CauseStepInv ==
  ASSUME TypeOK, MainInv, WorkerInv, ManifestInv, CauseInv, [Next]_vars
  PROVE  CauseInv'
<1> DEFINE Clean(j) == /\ worker[j] \notin Failed
                       /\ late[j] = {}
                       /\ worker[j] = "done" => stored[j + 1].etag = tryNum[j]
<1>1. ASSUME ~faulty' PROVE ~faulty /\ \A j \in Parts : Clean(j)
  <2>1. ~faulty
    BY <1>1 DEF Next, vars, processVars, MainStep, WorkerStep, RejectConfig, StartFails,
       ChooseMode, RandomIndexCrashes, PutAccepted, PutFails, BeginAnswered, BeginFails,
       Spawn, SetupFails, SignCompletion, Gather, GatherThrows, CompleteAccepted, CompleteUnanswered,
       CompleteRejected, CompleteWithoutETag, Unwind, SignPart, PartAccepted,
       PartWithoutETag, PartThrows, LateArrival, ExpireSignature, Terminated
  <2> QED
    BY <2>1 DEF CauseInv
<1>2. ASSUME ~faulty', NEW j \in Parts
      PROVE  Clean(j)'
  <2>1. Clean(j)
    BY <1>1, <1>2
  <2>2. CASE Spawn
    BY <2>1, <2>2 DEF Spawn, TypeOK, serverVars, Failed
  <2>3. ASSUME NEW i \in Parts, WorkerStep(i) \/ LateArrival(i)
        PROVE  Clean(j)'
    <3>1. CASE i # j
      BY <2>1, <2>3, <3>1, OtherParts
    <3>2. CASE i = j /\ SignPart(i)
      BY <2>1, <3>2 DEF SignPart, TypeOK, serverVars, Failed
    <3>3. CASE i = j /\ PartAccepted(i)
      <4>1. worker'[j] = "done" /\ stored'[j + 1].etag = tryNum[j] /\ UNCHANGED <<tryNum, late>>
        BY <3>3, PartTypes DEF PartAccepted, Store, TypeOK
      <4> QED
        BY <2>1, <4>1 DEF Failed
    <3>4. CASE i = j /\ (PartWithoutETag(i) \/ PartThrows(i))
      BY <1>2, <3>4 DEF PartWithoutETag, PartThrows
    <3>5. CASE i = j /\ LateArrival(i)
      BY <2>1, <3>5 DEF LateArrival
    <3> QED
      BY <2>3, <3>1, <3>2, <3>3, <3>4, <3>5 DEF WorkerStep
  <2>4. CASE UNCHANGED <<spawned, workerVars, stored, late>>
    BY <2>1, <2>4 DEF workerVars
  <2>5. CASE RandomIndexCrashes
    BY <2>1, <2>5, CrashKills DEF Failed, Running
  <2> QED
    BY <2>2, <2>3, <2>4, <2>5, PartsFixed
<1> HIDE DEF Clean
<1>3. ASSUME pc' = "unwind" PROVE faulty'
  <2>1. CASE GatherThrows
    <3>1. Len(manifest) \in Parts
      BY <2>1, BoundsAssumption DEF GatherThrows, ManifestInv, TypeOK, Configs, Parts
    <3>2. worker[Len(manifest)] \in Failed /\ faulty' = faulty
      BY <2>1 DEF GatherThrows
    <3> QED
      BY <3>1, <3>2 DEF CauseInv
  <2>2. CASE SetupFails
    BY <2>2 DEF SetupFails
  <2>3. CASE ~GatherThrows /\ ~SetupFails
    <3>1. pc = "unwind"
      BY <1>3, <2>3, MainFixed
         DEF Next, vars, processVars, MainStep, RejectConfig, StartFails, ChooseMode,
             RandomIndexCrashes, PutAccepted, PutFails, BeginAnswered, BeginFails,
             Spawn, SignCompletion,
             Gather, CompleteAccepted, CompleteUnanswered, CompleteRejected,
             CompleteWithoutETag, Unwind, ExpireSignature, Terminated, ExitWithETag,
             ExitWithError
    <3> QED
      BY <1>1, <3>1 DEF CauseInv
  <2> QED
    BY <2>1, <2>2, <2>3
<1>4. ASSUME pc' \in {"spawn", "gather", "complete"}, uploadId' = "none", ~faulty'
      PROVE  FALSE
  <2>1. CASE BeginAnswered("none") \/ BeginAnswered("id")
    BY <1>4, <2>1 DEF BeginAnswered
  <2>2. CASE ~(BeginAnswered("none") \/ BeginAnswered("id"))
    <3>1. pc \in {"spawn", "gather", "complete"} /\ uploadId = "none"
      BY <1>4, <2>2, MainFixed
         DEF Next, vars, processVars, uploadVars, MainStep, RejectConfig, StartFails,
             ChooseMode, RandomIndexCrashes, PutAccepted, PutFails, BeginFails,
             Spawn, SetupFails,
             SignCompletion, Gather, GatherThrows, CompleteAccepted,
             CompleteUnanswered, CompleteRejected, CompleteWithoutETag, Unwind,
             ExpireSignature, Terminated, ExitWithETag, ExitWithError
    <3> QED
      BY <1>1, <1>4, <3>1 DEF CauseInv
  <2> QED
    BY <2>1, <2>2
<1> QED
  BY <1>2, <1>3, <1>4 DEF CauseInv, Clean

LEMMA FailureHasCauseStep ==
  ASSUME TypeOK, MainInv, WorkerInv, ManifestInv, CauseInv, FailureHasCause, [Next]_vars
  PROVE  FailureHasCause'
<1> USE DEF FailureHasCause
<1>0. config' = config /\ config.jobs \in Nat /\ config.maxRetries \in Nat
  BY ConfigFixed, BoundsAssumption DEF TypeOK, Configs
<1>1. CASE RejectConfig
  BY <1>0, <1>1 DEF RejectConfig, ValidConfig
<1>2. CASE StartFails \/ PutFails \/ BeginFails \/ CompleteUnanswered \/ CompleteWithoutETag
  BY <1>0, <1>2 DEF StartFails, PutFails, BeginFails, CompleteUnanswered, CompleteWithoutETag
<1>3. CASE PutAccepted \/ CompleteAccepted
  BY <1>0, <1>3 DEF PutAccepted, CompleteAccepted, ExitWithETag
<1>4. CASE CompleteRejected
  BY <1>0, <1>4, AcceptableUnlessFaulty DEF CompleteRejected, uploadVars
<1>5. CASE Unwind
  BY <1>0, <1>5 DEF Unwind, CauseInv
<1>6. CASE ChooseMode \/ Spawn \/ SetupFails \/ GatherThrows
  BY <1>0, <1>6 DEF ChooseMode, Spawn, SetupFails, GatherThrows, exitVars, uploadVars
<1>7. CASE BeginAnswered("none") \/ BeginAnswered("id") \/ Gather
  BY <1>0, <1>7 DEF BeginAnswered, Gather, exitVars
<1>8. CASE SignCompletion \/ ExpireSignature
  BY <1>0, <1>8 DEF SignCompletion, ExpireSignature, exitVars, MainInv
<1>9. ASSUME NEW i \in Parts, WorkerStep(i) \/ LateArrival(i)
      PROVE  FailureHasCause'
  <2>1. exitCode' = exitCode /\ endSignature' = endSignature
    BY <1>9, MainFixed DEF exitVars, uploadVars
  <2>2. faulty => faulty'
    BY <1>9 DEF WorkerStep, SignPart, PartAccepted, PartWithoutETag, PartThrows, LateArrival
  <2> QED
    BY <1>0, <2>1, <2>2
<1>10. CASE RandomIndexCrashes
  BY <1>10 DEF RandomIndexCrashes, Crashed
<1>11. CASE UNCHANGED vars
  BY <1>0, <1>11 DEF vars, processVars
<1> QED
  BY <1>1, <1>2, <1>3, <1>4, <1>5, <1>6, <1>7, <1>8, <1>9, <1>10, <1>11
     DEF Next, MainStep, Terminated

-----------------------------------------------------------------------------
\* The theorems.

LEMMA InvInit == Init => IInv
<1> SUFFICES ASSUME Init
             PROVE  IInv
  OBVIOUS
<1>1. TypeOK
  BY TypeInit
<1>2. config.jobs \in Nat
  BY BoundsAssumption DEF Init, Configs
<1>3. MainInv
  BY <1>2 DEF Init, MainInv, Running
<1>4. WorkerInv
  <2> SUFFICES ASSUME NEW i \in Parts
               PROVE  PartInv(i)
    BY DEF WorkerInv
  <2>1. i \in Nat /\ i + 1 \in PartNumbers
    BY <1>1, PartTypes
  <2> QED
    BY <2>1 DEF Init, PartInv, NoETag, Running
<1>5. ManifestInv
  BY <1>2 DEF Init, ManifestInv
<1>6. CauseInv
  BY DEF Init, CauseInv, Failed
<1>7. NothingTorn /\ FailureHasCause
  BY DEF Init, NothingTorn, FailureHasCause
<1> QED
  BY <1>1, <1>3, <1>4, <1>5, <1>6, <1>7 DEF IInv

LEMMA InvStep == IInv /\ [Next]_vars => IInv'
  BY TypeStep, MainStepInv, WorkerStepInv, ManifestStepInv, CauseStepInv,
     NothingTornStep, FailureHasCauseStep DEF IInv

\* The inductive invariant holds throughout.
THEOREM Invariance == Spec => []IInv
  BY InvInit, InvStep, PTL DEF Spec

\* Every variable keeps its type: no attempt passes the bound on retries, and
\* no offset or size computed from the file's size is negative.
THEOREM TypeCorrect == Spec => []TypeOK
<1>1. IInv => TypeOK
  BY DEF IInv
<1> QED
  BY <1>1, Invariance, PTL

\* The object in the store is the whole file or nothing, for any number of
\* jobs and retries and any size of the file.
THEOREM NeverTorn == Spec => []NothingTorn
<1>1. IInv => NothingTorn
  BY DEF IInv
<1> QED
  BY <1>1, Invariance, PTL

\* A gathered ETag is that of its part's last attempt, and the store holds
\* that attempt or an older one of the same bytes.
THEOREM ManifestFinal == Spec => []ManifestIsFinal
<1>1. IInv => ManifestIsFinal
  <2> SUFFICES ASSUME IInv, NEW k \in 1 .. Len(manifest)
               PROVE  /\ worker[k - 1] = "done"
                      /\ manifest[k] = [etag |-> tryNum[k - 1], partNumber |-> k]
                      /\ stored[k].etag \in 1 .. tryNum[k - 1]
                      /\ stored[k].etag # tryNum[k - 1] =>
                           /\ stored[k].etag \notin late[k - 1]
                           /\ stored[k].extent = extent[k - 1]
    BY DEF ManifestIsFinal
  <2> USE DEF IInv
  <2>1. worker[k - 1] = "done" /\ manifest[k] = [etag |-> tryNum[k - 1], partNumber |-> k]
    BY DEF ManifestInv
  <2>2. k - 1 \in Parts /\ (k - 1) + 1 = k
    BY BoundsAssumption DEF ManifestInv, Parts, TypeOK, Configs
  <2>3. PartInv(k - 1) /\ tryNum[k - 1] \in Nat /\ stored[(k - 1) + 1].etag \in Nat
    BY <2>2, PartTypes DEF WorkerInv
  <2>4. stored[k].etag # NoETag /\ stored[k].etag <= tryNum[k - 1]
    BY <2>1, <2>2, <2>3 DEF PartInv
  <2>5. stored[k].etag \in 1 .. tryNum[k - 1]
    BY <2>2, <2>3, <2>4 DEF NoETag
  <2>6. stored[k].etag \notin late[k - 1] /\ stored[k].extent = extent[k - 1]
    BY <2>2, <2>3, <2>4 DEF PartInv
  <2> QED
    BY <2>1, <2>5, <2>6
<1> QED
  BY <1>1, Invariance, PTL

\* The process does not end under a running thread, but by a crash.
THEOREM Joins == Spec => []JoinedOnExit
<1>1. IInv => JoinedOnExit
  BY DEF IInv, MainInv, JoinedOnExit
<1> QED
  BY <1>1, Invariance, PTL

\* Status 1 has a cause outside the program's own order of events, or is the
\* completion request that outlived its signature.
THEOREM FailuresHaveCauses == Spec => []FailureHasCause
<1>1. IInv => FailureHasCause
  BY DEF IInv
<1> QED
  BY <1>1, Invariance, PTL

-----------------------------------------------------------------------------
\* Retries: the counter moves with the attempts.

LEMMA RetriesFinite == IsFiniteSet(Retries)
<1>1. IsFiniteSet(0 .. MaxJobs - 1) /\ IsFiniteSet(0 .. MaxRetries)
  BY FS_Interval, BoundsAssumption
<1>2. IsFiniteSet(Parts \X ETags)
  BY <1>1, FS_Product DEF Parts, ETags
<1>3. Retries \in SUBSET (Parts \X ETags)
  BY DEF Retries
<1> QED
  BY <1>2, <1>3, FS_Subset

\* The first attempt of a part is none.
LEMMA RetriesStay ==
  ASSUME IInv, [Next]_vars, ~ (\E i \in Parts : PartWithoutETag(i) /\ ~LastTry(i))
  PROVE  numRetriesG' = numRetriesG /\ Retries' = Retries
<1>1. CASE Spawn
  <2>1. tryNum \in [Parts -> ETags] /\ spawned \in Nat
    BY DEF IInv, TypeOK
  <2>2. spawned \in Parts => tryNum[spawned] = 0
    <3> SUFFICES ASSUME spawned \in Parts
                 PROVE  tryNum[spawned] = 0
      OBVIOUS
    <3>1. PartInv(spawned)
      BY DEF IInv, WorkerInv
    <3> QED
      BY <2>1, <3>1 DEF PartInv
  <2>3. numRetriesG' = numRetriesG /\ tryNum' = [tryNum EXCEPT ![spawned] = 1]
    BY <1>1 DEF Spawn
  <2>4. ASSUME NEW a \in Parts \X ETags
        PROVE  (a[2] > 1 /\ a[2] <= tryNum'[a[1]]) <=> (a[2] > 1 /\ a[2] <= tryNum[a[1]])
    <3>1. a[1] \in Parts /\ a[2] \in Nat
      BY DEF ETags
    <3>2. CASE a[1] = spawned
      BY <2>1, <2>2, <2>3, <3>1, <3>2
    <3>3. CASE a[1] # spawned
      BY <2>1, <2>3, <3>1, <3>3
    <3> QED
      BY <3>2, <3>3
  <2>5. Retries' = {a \in Parts \X ETags : a[2] > 1 /\ a[2] <= tryNum'[a[1]]}
    BY DEF Retries
  <2> QED
    BY <2>3, <2>4, <2>5 DEF Retries
<1>2. CASE ~Spawn
  <2>1. UNCHANGED <<tryNum, numRetriesG>>
    <3>1. ASSUME NEW i \in Parts, WorkerStep(i) \/ LateArrival(i)
          PROVE  UNCHANGED <<tryNum, numRetriesG>>
      <4>1. CASE PartWithoutETag(i)
        <5>1. LastTry(i)
          BY <4>1
        <5> QED
          BY <4>1, <5>1 DEF PartWithoutETag
      <4>2. CASE SignPart(i) \/ PartAccepted(i) \/ PartThrows(i) \/ LateArrival(i)
        BY <4>2 DEF SignPart, PartAccepted, PartThrows, LateArrival, processVars
      <4> QED
        BY <3>1, <4>1, <4>2 DEF WorkerStep
    <3>2. CASE MainStep
      BY <1>2, <3>2 DEF MainStep, RejectConfig, StartFails, ChooseMode, PutAccepted, PutFails,
         BeginAnswered, BeginFails, SetupFails, SignCompletion, Gather, GatherThrows,
         CompleteAccepted, CompleteUnanswered, CompleteRejected, CompleteWithoutETag, Unwind,
         RandomIndexCrashes, workerVars
    <3>3. CASE ExpireSignature
      BY <3>3 DEF ExpireSignature, workerVars
    <3>4. CASE UNCHANGED vars
      BY <3>4 DEF vars, processVars
    <3> QED
      BY <3>1, <3>2, <3>3, <3>4 DEF Next, Terminated
  <2> QED
    BY <2>1 DEF Retries
<1> QED
  BY <1>1, <1>2

\* Another attempt is one retry more.
LEMMA RetriesGrow ==
  ASSUME IInv, NEW i \in Parts, PartWithoutETag(i), ~LastTry(i)
  PROVE  /\ numRetriesG' = numRetriesG + 1
         /\ Cardinality(Retries') = Cardinality(Retries) + 1
<1> DEFINE retry == <<i, tryNum[i] + 1>>
<1>1. tryNum \in [Parts -> ETags] /\ config.maxRetries \in 0 .. MaxRetries
  BY DEF IInv, TypeOK, Configs
<1>2. tryNum[i] \in 1 .. config.maxRetries /\ tryNum[i] # config.maxRetries
  <2>1. PartInv(i) /\ worker[i] = "sending"
    BY DEF IInv, WorkerInv, PartWithoutETag
  <2> QED
    BY <2>1 DEF PartInv, LastTry
<1>3. tryNum[i] \in Nat /\ tryNum[i] >= 1 /\ retry \in Parts \X ETags
  BY <1>1, <1>2, BoundsAssumption DEF ETags
<1>4. tryNum' = [tryNum EXCEPT ![i] = tryNum[i] + 1] /\ numRetriesG' = numRetriesG + 1
  BY DEF PartWithoutETag, CountRetry
<1>5. Retries' = {a \in Parts \X ETags : a[2] > 1 /\ a[2] <= tryNum'[a[1]]}
  BY DEF Retries
<1>6. ASSUME NEW a \in Parts \X ETags
      PROVE  (a[2] > 1 /\ a[2] <= tryNum'[a[1]])
               <=> (a = retry \/ (a[2] > 1 /\ a[2] <= tryNum[a[1]]))
  <2>1. a[1] \in Parts /\ a[2] \in Nat /\ a = <<a[1], a[2]>>
    BY DEF ETags
  <2>2. CASE a[1] = i
    <3>1. tryNum'[a[1]] = tryNum[i] + 1
      BY <1>1, <1>4, <2>2
    <3>2. a = retry <=> a[2] = tryNum[i] + 1
      BY <2>1, <2>2
    <3> QED
      BY <1>3, <2>1, <2>2, <3>1, <3>2
  <2>3. CASE a[1] # i
    <3>1. tryNum'[a[1]] = tryNum[a[1]]
      BY <1>1, <1>4, <2>1, <2>3
    <3>2. a # retry
      BY <2>3
    <3> QED
      BY <3>1, <3>2
  <2> QED
    BY <2>2, <2>3
<1>7. Retries' = Retries \cup {retry}
  <2> HIDE DEF retry
  <2> QED
    BY <1>3, <1>5, <1>6 DEF Retries
<1>8. retry \notin Retries
  BY <1>3 DEF Retries
<1> QED
  BY <1>4, <1>7, <1>8, RetriesFinite, FS_AddElement

\* The number printed at the end is that of the attempts after each part's
\* first, for any number of threads that count at the same time.
THEOREM RetriesAreCounted == Spec => []RetriesCounted
<1>1. Init => RetriesCounted
  <2> SUFFICES ASSUME Init
               PROVE  RetriesCounted
    OBVIOUS
  <2>1. ASSUME NEW a \in Retries
        PROVE  FALSE
    BY <2>1 DEF Retries, Init, ETags
  <2>2. Retries = {}
    BY <2>1
  <2> QED
    BY <2>2, FS_EmptySet DEF Init, RetriesCounted
<1>2. ASSUME IInv, RetriesCounted, [Next]_vars
      PROVE  RetriesCounted'
  <2>1. CASE \E i \in Parts : PartWithoutETag(i) /\ ~LastTry(i)
    BY <1>2, <2>1, RetriesGrow DEF RetriesCounted
  <2>2. CASE ~ (\E i \in Parts : PartWithoutETag(i) /\ ~LastTry(i))
    <3>1. numRetriesG' = numRetriesG /\ Retries' = Retries
      BY <1>2, <2>2, RetriesStay
    <3> QED
      BY <1>2, <3>1 DEF RetriesCounted
  <2> QED
    BY <2>1, <2>2
<1> QED
  BY <1>1, <1>2, Invariance, PTL DEF Spec

-----------------------------------------------------------------------------
\* s3-upload implements ObjectPut.

\* A step leaves what the caller sees, or ends the program with a verdict: an
\* ETag comes with a whole object, and a failure with a whole one or none.
LEMMA VerdictMoves ==
  ASSUME IInv, [Next]_vars
  PROVE  \/ UNCHANGED <<exitCode, printedETag, object>>
         \/ /\ exitCode = -1 /\ object = <<>>
            /\ exitCode' \in {0, 1, Crashed}
            /\ object' # <<>> => IsWholeFile(object')
            /\ exitCode' = 0 /\ printedETag' => object' # <<>>
<1> USE DEF IInv
<1>0. pc # "exited" => exitCode = -1 /\ object = <<>> /\ ~printedETag
  BY DEF MainInv
<1>1. CASE PutAccepted \/ PutFails
  <2>1. object' # <<>> => IsWholeFile(object')
    BY <1>0, <1>1, ObjectMoves DEF PutAccepted, PutFails
  <2>2. PutAccepted => object' # <<>>
    BY DEF PutAccepted
  <2> QED
    BY <1>0, <1>1, <2>1, <2>2 DEF PutAccepted, PutFails, ExitWithETag, ExitWithError
<1>2. CASE CompleteAccepted
  <2>1. object' # <<>> /\ IsWholeFile(object')
    BY <1>2, AssembledWhole DEF CompleteAccepted
  <2> QED
    BY <1>0, <1>2, <2>1 DEF CompleteAccepted, ExitWithETag
<1>3. CASE CompleteUnanswered \/ CompleteWithoutETag
  <2>1. object' # <<>> => IsWholeFile(object')
    BY <1>0, <1>3, ObjectMoves DEF CompleteUnanswered, CompleteWithoutETag
  <2> QED
    BY <1>0, <1>3, <2>1 DEF CompleteUnanswered, CompleteWithoutETag, ExitWithError
<1>4. CASE RejectConfig \/ StartFails \/ BeginFails
  BY <1>0, <1>4 DEF RejectConfig, StartFails, BeginFails, ExitWithError, serverVars
<1>5. CASE CompleteRejected \/ Unwind
  BY <1>0, <1>5 DEF CompleteRejected, Unwind, ExitWithError, serverVars
<1>6. CASE ChooseMode \/ BeginAnswered("none") \/ BeginAnswered("id") \/ Spawn
  BY <1>6 DEF ChooseMode, BeginAnswered, Spawn, exitVars, serverVars
<1>7. CASE SetupFails \/ SignCompletion \/ Gather \/ GatherThrows \/ ExpireSignature
  BY <1>7 DEF SetupFails, SignCompletion, Gather, GatherThrows, ExpireSignature, exitVars,
     serverVars
<1>8. ASSUME NEW i \in Parts, WorkerStep(i) \/ LateArrival(i)
      PROVE  UNCHANGED <<exitCode, printedETag, object>>
  BY <1>8, MainFixed DEF exitVars
<1>9. CASE RandomIndexCrashes
  BY <1>0, <1>9 DEF RandomIndexCrashes, Crashed, MainInv, serverVars
<1>10. CASE UNCHANGED vars
  BY <1>10 DEF vars, processVars, serverVars
<1> QED
  BY <1>1, <1>2, <1>3, <1>4, <1>5, <1>6, <1>7, <1>8, <1>9, <1>10
     DEF Next, MainStep, Terminated

\* Whoever starts s3-upload sees ObjectPut: the object written whole or not at
\* all, one verdict, and an ETag with status 0 only for a whole object.
THEOREM UploadImplementsPut == Spec => ImplementsObjectPut
<1>1. Init => Put!Init
  BY DEF Init, Put!Init
<1>2. IInv /\ [Next]_vars => [Put!Next]_(Put!vars)
  <2> SUFFICES ASSUME IInv, [Next]_vars
               PROVE  [Put!Next]_(Put!vars)
    OBVIOUS
  <2>1. /\ IsWholeFile(object') <=> (IsWholeFile(object))'
        /\ object # <<>> => IsWholeFile(object)
    BY ConfigFixed DEF IsWholeFile, IInv, NothingTorn
  <2>2. CASE UNCHANGED <<exitCode, printedETag, object>>
    BY <2>1, <2>2 DEF Put!vars
  <2>3. CASE /\ exitCode = -1 /\ object = <<>>
             /\ exitCode' \in {0, 1, Crashed}
             /\ object' # <<>> => IsWholeFile(object')
             /\ exitCode' = 0 /\ printedETag' => object' # <<>>
    BY <2>1, <2>3 DEF Put!Next, Put!Succeed, Put!Fail, Crashed
  <2> QED
    BY <2>2, <2>3, VerdictMoves
<1> QED
  BY <1>1, <1>2, Invariance, PTL DEF Spec, ImplementsObjectPut, Put!Spec

============
