------------------------- MODULE ParallelDownloadProofs -------------------------
(***************************************************************************)
(* s3-download, proved for every number of jobs, size of the object and    *)
(* width of size_t.                                                        *)
(***************************************************************************)
EXTENDS ParallelDownload, SequenceTheorems, TLAPS

\* Where the main thread stands, and what it has read of the futures.
MainInv ==
  /\ pc \in {"configure", "create"} =>
       /\ spawned = 0
       /\ \A i \in Parts : worker[i] = "unstarted"
  /\ pc \in {"configure", "create", "spawn"} => gathered = 0
  /\ pc \notin {"configure", "flushing", "exited"} => jobs > 1
  /\ pc = "spawn" => spawned < jobs
  /\ pc = "gather" => spawned = jobs /\ gathered < jobs
  /\ pc \notin {"flushing", "exited"} => exitCode = -1
  /\ pc = "flushing" => exitCode \in {0, 1}
  /\ pc = "exited" /\ exitCode # 139 => \A i \in Parts : data[i] = <<>>
  /\ exitCode = 0 => jobs > 1 /\ spawned = jobs /\ gathered = jobs
  /\ \A i \in Parts : worker[i] # "unstarted" => jobs > 1
  /\ \A i \in Parts : i >= spawned => worker[i] = "unstarted"
  /\ \A i \in Parts : i < gathered => worker[i] = "done" /\ ~IsError(httpStatus[i])

\* What a part has of its answer: nothing before it has come, then bytes of the
\* object in the order of their places, or an error.
PartInv(i) ==
  /\ worker[i] \in {"unstarted", "opening", "requesting", "threw"} =>
       httpStatus[i] = 0 /\ data[i] = <<>> /\ ~complete[i]
  /\ worker[i] = "requesting" => pos[i] = First(i)
  /\ worker[i] = "receiving" => httpStatus[i] # 0 /\ ~complete[i]
  /\ complete[i] => httpStatus[i] # 0
  /\ \A n \in 1 .. Len(data[i]) :
       \/ data[i][n] = ErrorByte /\ IsError(httpStatus[i])
       \/ data[i][n] = pos[i] + n - 1 /\ data[i][n] < object

\* An error byte in the file has a part that was refused.
ErrorInv ==
  \A k \in Positions : file[k] = ErrorByte =>
    \E i \in Parts : IsError(httpStatus[i])

RangeEnd(i) == IF Last(i) < object THEN Last(i) ELSE object - 1

NoErrors == \A j \in Parts : ~IsError(httpStatus[j])

Pending(i, k) == pos[i] <= k /\ k < pos[i] + Len(data[i])

\* A range that arrives, or did to its end, is still to be written or stands in
\* the file, if nobody opened the file too late and what was flushed got there.
RangeInv(i) ==
  /\ httpStatus[i] = 206
  /\ worker[i] = "receiving" \/ complete[i]
  /\ ~clobbered /\ ~unflushed
  /\ NoErrors
  => \A k \in First(i) .. RangeEnd(i) : Pending(i, k) \/ file[k] = k

Opened(i) == worker[i] \in {"requesting", "receiving", "done"}

\* Past the end of the object the file is empty once a part has opened it.
EndInv ==
  (\E i \in Parts : Opened(i)) /\ NoErrors =>
    \A k \in Positions : k >= object => file[k] = NoByte

FileInv ==
  /\ InPlace
  /\ ErrorInv
  /\ EndInv
  /\ \A i \in Parts : RangeInv(i)

DownloadInv ==
  /\ TypeOK
  /\ MainInv
  /\ JoinedOnExit
  /\ \A i \in Parts : PartInv(i)
  /\ FileInv

-------------------------------------------------------------------------------
\* Parts, places and data.

LEMMA Constants ==
  /\ MaxJobs \in Nat \ {0}
  /\ MaxObjectSize \in Nat
  /\ 2^SizeBits \in Nat \ {0}
  /\ Parts \subseteq Nat
  /\ Positions \subseteq Nat
  /\ Bytes \subseteq Int
<1>1. 2^SizeBits \in Nat \ {0}
  BY BoundsAssumption
<1> QED
  BY <1>1, BoundsAssumption DEF Parts, Positions, Bytes

\* The numbers of a part that has been started.
LEMMA PartNumbers ==
  ASSUME TypeOK, jobs > 1, NEW i \in Parts
  PROVE  /\ First(i) \in Nat
         /\ Last(i) \in Nat
         /\ RangeEnd(i) \in Int
         /\ RangeEnd(i) < object
<1>1. fileSize \in Nat /\ jobs \in Nat /\ object \in Nat /\ i \in Nat
  BY Constants DEF TypeOK
<1>2. ChunkSize \in Nat
  BY <1>1 DEF ChunkSize
<1>3. fileSize % jobs \in Nat
  BY <1>1
<1>4. PartSize(i) \in Nat
  BY <1>2, <1>3 DEF PartSize, LastChunkSize
<1>5. First(i) \in Nat
  BY <1>1, <1>2 DEF First
<1>6. i * ChunkSize + PartSize(i) - 1 \in Int
  BY <1>1, <1>2, <1>4
<1>7. Last(i) \in Nat
  BY <1>6, Constants DEF Last
<1> QED
  BY <1>1, <1>5, <1>7 DEF RangeEnd

LEMMA PlaceInRange ==
  ASSUME TypeOK, jobs > 1, NEW i \in Parts, NEW k \in First(i) .. RangeEnd(i)
  PROVE  k \in Positions
<1>1. First(i) \in Nat /\ RangeEnd(i) \in Int /\ RangeEnd(i) < object
  BY PartNumbers
<1>2. object \in Nat /\ object <= MaxObjectSize /\ MaxObjectSize \in Nat
  BY Constants DEF TypeOK
<1>3. k \in Int /\ First(i) <= k /\ k <= RangeEnd(i)
  BY <1>1
<1> QED
  BY <1>1, <1>2, <1>3 DEF Positions

\* What an answer to a range request carries: the bytes of the range, up to the
\* end of the object.
LEMMA RangedData ==
  ASSUME TypeOK, jobs > 1, NEW i \in Parts, First(i) < object
  PROVE  /\ Ranged(First(i), Last(i)) \in Seq(Bytes)
         /\ \A n \in 1 .. Len(Ranged(First(i), Last(i))) :
              /\ Ranged(First(i), Last(i))[n] = First(i) + n - 1
              /\ First(i) + n - 1 < object
         /\ First(i) + Len(Ranged(First(i), Last(i))) > RangeEnd(i)
<1> DEFINE f == First(i)
           r == RangeEnd(i)
           e(n) == f + n - 1
<1>1. f \in Nat /\ r \in Int /\ r < object /\ f < object
  BY PartNumbers
<1>2. object \in 0 .. MaxObjectSize /\ MaxObjectSize \in Nat
  BY Constants DEF TypeOK
<1>3. Ranged(First(i), Last(i)) = [n \in 1 .. (r - f + 1) |-> e(n)]
  BY DEF Ranged, RangeEnd
<1> HIDE DEF f, r
<1>4. \A n \in 1 .. (r - f + 1) : e(n) \in Bytes
  BY <1>1, <1>2 DEF Bytes
<1>5. CASE r - f + 1 \in Nat
  <2>1. [n \in 1 .. (r - f + 1) |-> e(n)] \in Seq(Bytes)
    BY <1>4, <1>5
  <2>2. Len([n \in 1 .. (r - f + 1) |-> e(n)]) = r - f + 1
    BY <1>5, <2>1
  <2>3. \A n \in 1 .. (r - f + 1) : f + n - 1 < object
    BY <1>1, <1>2
  <2>4. f + (r - f + 1) > r
    BY <1>1
  <2> QED
    BY <1>3, <2>1, <2>2, <2>3, <2>4 DEF f, r
<1>6. CASE r - f + 1 < 0
  <2>1. [n \in 1 .. (r - f + 1) |-> e(n)] = <<>>
    BY <1>1, <1>6
  <2>2. <<>> \in Seq(Bytes) /\ Len(<<>>) = 0
    OBVIOUS
  <2>3. f + 0 > r
    BY <1>1, <1>6
  <2>4. Ranged(First(i), Last(i)) = <<>>
    BY <1>3, <2>1
  <2> QED
    BY <2>2, <2>3, <2>4 DEF f, r
<1> QED
  BY <1>1, <1>5, <1>6

\* What is left of data when its first unit is written, or when it broke off.
LEMMA DataTail ==
  ASSUME NEW d \in Seq(Bytes), d # <<>>
  PROVE  /\ Head(d) = d[1]
         /\ 1 \in 1 .. Len(d)
         /\ Len(d) \in Nat
         /\ Tail(d) \in Seq(Bytes)
         /\ Len(Tail(d)) = Len(d) - 1
         /\ \A n \in 1 .. Len(Tail(d)) : Tail(d)[n] = d[n + 1] /\ n + 1 \in 1 .. Len(d)
OBVIOUS

LEMMA DataCut ==
  ASSUME NEW d \in Seq(Bytes), NEW n \in 0 .. Len(d) - 1
  PROVE  /\ SubSeq(d, 1, n) \in Seq(Bytes)
         /\ \A m \in 1 .. Len(SubSeq(d, 1, n)) :
              SubSeq(d, 1, n)[m] = d[m] /\ m \in 1 .. Len(d)
OBVIOUS

\* A write changes the places of its bytes, and fills a gap before them.
LEMMA WrittenFile ==
  ASSUME TypeOK, NEW p \in Nat, NEW b \in Seq(Bytes)
  PROVE  /\ Written(p, b) \in [Positions -> Bytes]
         /\ \A k \in Positions :
              \/ /\ k - p + 1 \in 1 .. Len(b)
                 /\ Written(p, b)[k] = b[k - p + 1]
              \/ /\ k - p + 1 \notin 1 .. Len(b)
                 /\ b # <<>> /\ k < p /\ file[k] = NoByte
                 /\ Written(p, b)[k] = Zero
              \/ /\ k - p + 1 \notin 1 .. Len(b)
                 /\ Written(p, b)[k] = file[k]
<1>1. \A k \in Positions : k \in Nat
  BY Constants
<1>2. Len(b) \in Nat /\ \A n \in 1 .. Len(b) : b[n] \in Bytes
  OBVIOUS
<1>3. \A k \in Positions : (k >= p /\ k < p + Len(b)) <=> k - p + 1 \in 1 .. Len(b)
  BY <1>1, <1>2
<1>4. file \in [Positions -> Bytes] /\ Zero \in Bytes
  BY Constants DEF TypeOK, Bytes, Zero
<1> QED
  BY <1>2, <1>3, <1>4 DEF Written

LEMMA TruncatedFile == Truncated \in [Positions -> Bytes]
BY BoundsAssumption DEF Truncated, Bytes, NoByte

-------------------------------------------------------------------------------
\* Types.

LEMMA InitType == Init => TypeOK
<1> SUFFICES ASSUME Init PROVE TypeOK
  OBVIOUS
<1>1. file \in [Positions -> Bytes]
  BY TruncatedFile DEF Init
<1>2. data \in [Parts -> Seq(Bytes)]
  BY DEF Init
<1>3. complete \in [Parts -> BOOLEAN] /\ clobbered \in BOOLEAN /\ unflushed \in BOOLEAN
  BY DEF Init
<1> QED
  BY <1>1, <1>2, <1>3, Constants DEF Init, TypeOK

LEMMA MainType ==
  ASSUME TypeOK, MainInv, MainStep
  PROVE  TypeOK'
<1> USE DEF TypeOK
<1>1. CASE NotImplemented \/ StartFails \/ Unwind
  BY <1>1 DEF NotImplemented, StartFails, Unwind, Return, partVars, faultVars
<1>2. CASE \E size \in 0 .. MaxObjectSize : GetObjectSize(size)
  <2>1. fileSize' \in 0 .. MaxObjectSize
    BY <1>2, Constants DEF GetObjectSize
  <2> QED
    BY <1>2, <2>1 DEF GetObjectSize, partVars, faultVars
<1>3. CASE CreateFile
  BY <1>3, Constants DEF CreateFile, mainVars, partVars, faultVars, Bytes, Zero, NoByte
<1>4. CASE Spawn
  <2>1. spawned < jobs /\ spawned \in Parts /\ spawned' \in 0 .. MaxJobs
    BY <1>4, Constants DEF Spawn, MainInv, Parts
  <2> QED
    BY <1>4, <2>1 DEF Spawn, faultVars
<1>5. CASE SpawnFails \/ GatherThrows
  BY <1>5 DEF SpawnFails, GatherThrows, mainVars, partVars, faultVars
<1>6. CASE Gather
  <2>1. gathered' \in 0 .. MaxJobs
    BY <1>6, Constants DEF Gather, MainInv
  <2> QED
    BY <1>6, <2>1 DEF Gather, Return, partVars, faultVars
<1>7. ASSUME NEW i \in Parts, FlushAtExit(i) PROVE TypeOK'
  <2>1. Written(pos[i], data[i]) \in [Positions -> Bytes]
    BY WrittenFile
  <2> QED
    BY <1>7, <2>1 DEF FlushAtExit, mainVars, faultVars
<1>8. CASE Exit
  BY <1>8 DEF Exit, mainVars, partVars, faultVars
<1>9. ASSUME NEW i \in Parts, FlushAtExitFails(i) PROVE TypeOK'
  <2>1. PICK n \in 0 .. Len(data[i]) - 1 : file' = Written(pos[i], SubSeq(data[i], 1, n))
    BY <1>9 DEF FlushAtExitFails
  <2>2. PICK b : b = SubSeq(data[i], 1, n)
    OBVIOUS
  <2>3. b \in Seq(Bytes) /\ pos[i] \in Nat
    BY <2>2, DataCut
  <2>4. Written(pos[i], b) \in [Positions -> Bytes]
    BY <2>3, WrittenFile
  <2>5. file' \in [Positions -> Bytes]
    BY <2>1, <2>2, <2>4, Zenon
  <2> QED
    BY <1>9, <2>5 DEF FlushAtExitFails, mainVars
<1> QED
  BY <1>1, <1>2, <1>3, <1>4, <1>5, <1>6, <1>7, <1>8, <1>9 DEF MainStep

LEMMA AnswerType ==
  ASSUME TypeOK, NEW i \in Parts, NEW status \in {206, 416, 500}, NEW body \in Seq(Bytes),
         Answer(i, status, body)
  PROVE  TypeOK'
BY DEF Answer, TypeOK, mainVars, faultVars

LEMMA WorkerType ==
  ASSUME TypeOK, MainInv, NEW i \in Parts, WorkerStep(i)
  PROVE  TypeOK'
<1>4. CASE AnswerRange(i)
  <2>1. PICK body : body = Ranged(First(i), Last(i))
    OBVIOUS
  <2>2. body \in Seq(Bytes)
    BY <1>4, <2>1, RangedData DEF AnswerRange, MainInv
  <2>3. Answer(i, 206, body)
    BY <1>4, <2>1 DEF AnswerRange
  <2> QED
    BY <2>2, <2>3, AnswerType
<1>5. CASE AnswerError(i)
  <2> DEFINE body == <<ErrorByte>>
  <2>1. body \in Seq(Bytes)
    BY Constants DEF ErrorByte, Bytes
  <2>2. Answer(i, 416, body) \/ Answer(i, 500, body)
    BY <1>5 DEF AnswerError
  <2> HIDE DEF body
  <2> QED
    BY <2>1, <2>2, AnswerType
<1>0. WriteUnit(i) => file' \in [Positions -> Bytes]
  <2> SUFFICES ASSUME WriteUnit(i) PROVE file' \in [Positions -> Bytes]
    OBVIOUS
  <2>1. data[i] \in Seq(Bytes) /\ data[i] # <<>> /\ pos[i] \in Nat
    BY DEF WriteUnit, TypeOK
  <2>2. PICK b : b = <<Head(data[i])>>
    OBVIOUS
  <2>3. b \in Seq(Bytes) /\ file' = Written(pos[i], b)
    BY <2>1, <2>2, DataTail DEF WriteUnit
  <2> QED
    BY <2>1, <2>3, WrittenFile
<1> USE DEF TypeOK
<1>1. CASE PartThrows(i)
  BY <1>1 DEF PartThrows, mainVars, faultVars
<1>9. CASE Unanswered(i)
  BY <1>9 DEF Unanswered, mainVars, faultVars
<1>8. CASE Finish(i)
  <2>1. complete' \in [Parts -> BOOLEAN]
    BY <1>8, Zenon DEF Finish
  <2>2. worker' \in [Parts -> {"unstarted", "opening", "requesting", "receiving",
                              "done", "threw"}]
    BY <1>8 DEF Finish
  <2>3. UNCHANGED <<mainVars, pc, file, httpStatus, pos, data, faultVars>>
    BY <1>8 DEF Finish
  <2> QED
    BY <2>1, <2>2, <2>3 DEF mainVars, faultVars
<1>2. CASE Open(i)
  <2>1. SeekTo(i) \in Nat
    <3>1. jobs > 1
      BY <1>2 DEF Open, MainInv
    <3> QED
      BY <3>1, PartNumbers DEF SeekTo, First
  <2>2. file' \in [Positions -> Bytes] /\ clobbered' \in BOOLEAN
    BY <1>2, TruncatedFile DEF Open
  <2> QED
    BY <1>2, <2>1, <2>2 DEF Open, mainVars, faultVars
<1>3. CASE OpenFails(i)
  BY <1>3 DEF OpenFails, partVars, faultVars
<1>6. CASE WriteUnit(i)
  <2>1. data[i] \in Seq(Bytes) /\ data[i] # <<>>
    BY <1>6 DEF WriteUnit
  <2>2. Tail(data[i]) \in Seq(Bytes)
    BY <2>1, DataTail
  <2>4. file' \in [Positions -> Bytes]
    BY <1>0, <1>6
  <2>5. data' \in [Parts -> Seq(Bytes)]
    BY <1>6, <2>2 DEF WriteUnit
  <2>6. pos' \in [Parts -> Nat]
    BY <1>6 DEF WriteUnit
  <2>7. UNCHANGED <<mainVars, pc, worker, httpStatus, complete, faultVars>>
    BY <1>6 DEF WriteUnit
  <2> QED
    BY <2>4, <2>5, <2>6, <2>7 DEF mainVars, faultVars
<1>7. CASE Break(i)
  <2>1. PICK n \in 0 .. Len(data[i]) - 1 : data' = [data EXCEPT ![i] = SubSeq(@, 1, n)]
    BY <1>7 DEF Break
  <2>2. SubSeq(data[i], 1, n) \in Seq(Bytes)
    BY DataCut
  <2> QED
    BY <1>7, <2>1, <2>2 DEF Break, mainVars, faultVars
<1> QED
  BY <1>1, <1>2, <1>3, <1>4, <1>5, <1>6, <1>7, <1>8, <1>9 DEF WorkerStep

-------------------------------------------------------------------------------
\* The main thread and the ends of its threads.

LEMMA InitMain == Init => MainInv /\ JoinedOnExit
BY Constants DEF Init, MainInv, JoinedOnExit

LEMMA MainMain ==
  ASSUME TypeOK, MainInv, JoinedOnExit, MainStep
  PROVE  MainInv' /\ JoinedOnExit'
<1> USE DEF MainInv, JoinedOnExit
<1>1. CASE NotImplemented \/ StartFails
  <2>1. \A i \in Parts : worker[i] \notin Running
    BY <1>1 DEF NotImplemented, StartFails, Running
  <2> QED
    BY <1>1, <2>1 DEF NotImplemented, StartFails, Return, partVars, faultVars
<1>2. CASE \E size \in 0 .. MaxObjectSize : GetObjectSize(size)
  BY <1>2 DEF GetObjectSize, partVars, faultVars
<1>3. CASE CreateFile
  BY <1>3, Constants DEF CreateFile, mainVars, partVars, faultVars, TypeOK
<1>4. CASE Spawn
  <2>1. spawned \in Nat /\ jobs \in Nat /\ spawned < jobs /\ gathered = 0
    BY <1>4 DEF Spawn, TypeOK
  <2>2. \A i \in Parts : i # spawned => worker'[i] = worker[i]
    BY <1>4 DEF Spawn, TypeOK
  <2>3. \A i \in Parts : i \in Nat
    BY Constants
  <2> QED
    BY <1>4, <2>1, <2>2, <2>3 DEF Spawn, AllSpawned
<1>5. CASE SpawnFails \/ GatherThrows
  BY <1>5 DEF SpawnFails, GatherThrows, mainVars, partVars, faultVars
<1>6. CASE Gather
  <2>1. /\ gathered \in Nat /\ jobs \in Nat /\ gathered < jobs /\ spawned = jobs
        /\ pc = "gather" /\ jobs > 1
        /\ gathered' = gathered + 1
        /\ worker[gathered] = "done" /\ ~IsError(httpStatus[gathered])
        /\ UNCHANGED <<jobs, spawned, worker, httpStatus>>
    BY <1>6 DEF Gather, TypeOK, partVars, faultVars
  <2>2. \A i \in Parts : i < gathered' => worker[i] = "done" /\ ~IsError(httpStatus[i])
    BY <2>1, Constants
  <2>3. CASE gathered' = jobs
    <3>1. \A i \in Parts : worker[i] \in {"unstarted", "done"}
      BY <2>1, <2>2, <2>3, Constants
    <3>2. pc' = "flushing" /\ exitCode' = 0
      BY <1>6, <2>3 DEF Gather, Return
    <3> QED
      <4>1. JoinedOnExit'
        BY <2>1, <3>1 DEF Running
      <4>2. MainInv'
        BY <2>1, <2>2, <2>3, <3>2
      <4> QED
        BY <4>1, <4>2
  <2>4. CASE gathered' # jobs
    <3>1. pc' = pc /\ exitCode' = exitCode /\ pc = "gather"
      BY <1>6, <2>4 DEF Gather
    <3> QED
      BY <2>1, <2>2, <2>4, <3>1
  <2> QED
    BY <2>3, <2>4
<1>7. CASE Unwind
  BY <1>7 DEF Unwind, Joined, Return, partVars, faultVars
<1>8. CASE (\E i \in Parts : FlushAtExit(i) \/ FlushAtExitFails(i)) \/ Exit
  BY <1>8 DEF FlushAtExit, FlushAtExitFails, Exit, mainVars, partVars, faultVars
<1> QED
  BY <1>1, <1>2, <1>3, <1>4, <1>5, <1>6, <1>7, <1>8 DEF MainStep

\* What a step of the thread of part i leaves alone: everything of the main
\* thread, unless the process dies, and the state of the other parts.
LEMMA WorkerFrame ==
  ASSUME TypeOK, NEW i \in Parts, WorkerStep(i)
  PROVE  /\ UNCHANGED <<jobs, object, fileSize, spawned, gathered>>
         /\ \/ UNCHANGED <<pc, exitCode>>
            \/ pc' = "exited" /\ exitCode' = 139
         /\ worker[i] \in Running
         /\ worker'[i] # "unstarted"
         /\ \A j \in Parts : j # i =>
              /\ worker'[j] = worker[j]
              /\ httpStatus'[j] = httpStatus[j]
              /\ pos'[j] = pos[j]
              /\ data'[j] = data[j]
              /\ complete'[j] = complete[j]
<1> USE DEF TypeOK, Running, mainVars, partVars, faultVars
<1>1. CASE PartThrows(i)
  BY <1>1 DEF PartThrows
<1>2. CASE Open(i)
  BY <1>2 DEF Open
<1>3. CASE OpenFails(i)
  BY <1>3 DEF OpenFails
<1>4. CASE AnswerRange(i)
  BY <1>4 DEF AnswerRange, Answer
<1>5. CASE AnswerError(i)
  BY <1>5 DEF AnswerError, Answer
<1>6. CASE Unanswered(i)
  BY <1>6 DEF Unanswered
<1>7. CASE WriteUnit(i)
  BY <1>7 DEF WriteUnit
<1>8. CASE Finish(i)
  BY <1>8 DEF Finish
<1>9. CASE Break(i)
  BY <1>9 DEF Break
<1> QED
  BY <1>1, <1>2, <1>3, <1>4, <1>5, <1>6, <1>7, <1>8, <1>9 DEF WorkerStep

LEMMA WorkerMain ==
  ASSUME TypeOK, MainInv, JoinedOnExit, pc # "exited", NEW i \in Parts, WorkerStep(i)
  PROVE  MainInv' /\ JoinedOnExit'
<1>1. /\ worker[i] \in Running /\ worker'[i] # "unstarted"
      /\ UNCHANGED <<jobs, spawned, gathered>>
      /\ \/ UNCHANGED <<pc, exitCode>>
         \/ pc' = "exited" /\ exitCode' = 139
      /\ \A j \in Parts : j # i =>
           worker'[j] = worker[j] /\ httpStatus'[j] = httpStatus[j]
  BY WorkerFrame
<1>2. pc \notin {"configure", "create", "flushing"}
  BY <1>1 DEF MainInv, JoinedOnExit, Running
<1>3. ~(i >= spawned) /\ ~(i < gathered) /\ jobs > 1
  BY <1>1 DEF MainInv, Running
<1>4. exitCode' \notin {0, 1}
  BY <1>1, <1>2 DEF MainInv, JoinedOnExit, TypeOK
<1> QED
  BY <1>1, <1>2, <1>3, <1>4 DEF MainInv, JoinedOnExit, IsError

-------------------------------------------------------------------------------
\* What a part has of its answer.

LEMMA InitPart == Init => \A i \in Parts : PartInv(i)
BY DEF Init, PartInv

LEMMA RangeStays ==
  ASSUME UNCHANGED <<jobs, object, fileSize>>, NEW i \in Parts
  PROVE  /\ First(i)' = First(i)
         /\ Last(i)' = Last(i)
         /\ RangeEnd(i)' = RangeEnd(i)
BY DEF First, Last, RangeEnd, PartSize, LastChunkSize, ChunkSize

\* What a step of the main thread leaves alone.
LEMMA MainFrame ==
  ASSUME TypeOK, MainInv, MainStep
  PROVE  /\ UNCHANGED <<jobs, object, httpStatus, pos, complete, clobbered>>
         /\ unflushed => unflushed'
         /\ fileSize' = fileSize \/ \A i \in Parts : worker[i] = "unstarted"
         /\ \A i \in Parts :
              /\ \/ worker'[i] = worker[i]
                 \/ worker[i] = "unstarted" /\ worker'[i] = "opening"
              /\ data'[i] \in {data[i], <<>>}
         /\ \/ UNCHANGED <<file, data>>
            \/ CreateFile
            \/ \E i \in Parts : FlushAtExit(i) \/ FlushAtExitFails(i)
<1> USE DEF TypeOK, mainVars, partVars, faultVars
<1>1. CASE NotImplemented \/ StartFails \/ Unwind \/ GatherThrows \/ SpawnFails
  BY <1>1 DEF NotImplemented, StartFails, Unwind, GatherThrows, SpawnFails
<1>2. CASE \E size \in 0 .. MaxObjectSize : GetObjectSize(size)
  BY <1>2 DEF GetObjectSize, MainInv
<1>3. CASE CreateFile
  BY <1>3 DEF CreateFile
<1>4. CASE Spawn
  <2>1. spawned \in Parts /\ worker[spawned] = "unstarted"
    BY <1>4, Constants DEF Spawn, MainInv, Parts
  <2> QED
    BY <1>4, <2>1 DEF Spawn
<1>5. CASE Gather \/ Exit
  BY <1>5 DEF Gather, Exit
<1>6. ASSUME NEW j \in Parts, FlushAtExit(j) \/ FlushAtExitFails(j)
      PROVE  /\ UNCHANGED <<mainVars, worker, httpStatus, pos, complete, clobbered>>
             /\ unflushed => unflushed'
             /\ \A i \in Parts : data'[i] \in {data[i], <<>>}
  BY <1>6 DEF FlushAtExit, FlushAtExitFails, faultVars
<1> QED
  BY <1>1, <1>2, <1>3, <1>4, <1>5, <1>6 DEF MainStep

LEMMA MainPart ==
  ASSUME TypeOK, MainInv, MainStep, NEW i \in Parts, PartInv(i)
  PROVE  PartInv(i)'
<1>1. /\ object' = object
      /\ httpStatus'[i] = httpStatus[i] /\ pos'[i] = pos[i] /\ complete'[i] = complete[i]
      /\ \/ worker'[i] = worker[i]
         \/ worker[i] = "unstarted" /\ worker'[i] = "opening"
      /\ data'[i] \in {data[i], <<>>}
      /\ Len(<<>>) = 0
  BY MainFrame
<1>2. worker'[i] = "requesting" => First(i)' = First(i)
  BY <1>1, MainFrame, RangeStays
<1>3. data[i] = <<>> => data'[i] = <<>>
  BY <1>1
<1> QED
  BY <1>1, <1>2, <1>3 DEF PartInv, IsError

\* A part's thread takes its own steps only.
LEMMA OtherPart ==
  ASSUME TypeOK, NEW i \in Parts, WorkerStep(i), NEW j \in Parts, j # i, PartInv(j)
  PROVE  PartInv(j)'
<1>1. First(j)' = First(j)
  BY WorkerFrame, RangeStays
<1> QED
  BY <1>1, WorkerFrame DEF PartInv, IsError

LEMMA AnswerPart ==
  ASSUME TypeOK, NEW i \in Parts, PartInv(i), worker[i] = "requesting",
         NEW status \in {206, 416, 500}, NEW body \in Seq(Bytes),
         Answer(i, status, body),
         \A n \in 1 .. Len(body) :
           \/ body[n] = ErrorByte /\ IsError(status)
           \/ body[n] = First(i) + n - 1 /\ body[n] < object
  PROVE  PartInv(i)'
<1>1. /\ httpStatus'[i] = status /\ data'[i] = body /\ worker'[i] = "receiving"
      /\ pos'[i] = First(i) /\ complete'[i] = FALSE /\ object' = object
  BY DEF Answer, TypeOK, PartInv, mainVars, faultVars
<1> QED
  BY <1>1 DEF PartInv, IsError

LEMMA OwnPart ==
  ASSUME TypeOK, MainInv, NEW i \in Parts, WorkerStep(i), PartInv(i)
  PROVE  PartInv(i)'
<1>0. worker[i] \in Running /\ jobs > 1 /\ object' = object /\ First(i)' = First(i)
  BY WorkerFrame, RangeStays DEF MainInv, Running
<1>1. CASE PartThrows(i)
  BY <1>0, <1>1 DEF PartThrows, PartInv, TypeOK, mainVars, faultVars, IsError
<1>2. CASE Open(i)
  <2>1. pos'[i] = First(i)'
    BY <1>0, <1>2 DEF Open, SeekTo, First, ChunkSize, TypeOK, mainVars, faultVars
  <2>2. data'[i] = <<>> /\ httpStatus'[i] = 0 /\ ~complete'[i] /\ worker'[i] = "requesting"
    BY <1>2 DEF Open, PartInv, TypeOK
  <2> QED
    BY <2>1, <2>2 DEF PartInv
<1>3. CASE OpenFails(i)
  BY <1>0, <1>3 DEF OpenFails, PartInv, partVars, faultVars, IsError
<1>4. CASE AnswerRange(i)
  <2> DEFINE body == Ranged(First(i), Last(i))
  <2>1. /\ body \in Seq(Bytes)
        /\ \A n \in 1 .. Len(body) : body[n] = First(i) + n - 1 /\ body[n] < object
    BY <1>0, <1>4, RangedData DEF AnswerRange
  <2>2. worker[i] = "requesting" /\ Answer(i, 206, body)
    BY <1>4 DEF AnswerRange
  <2> HIDE DEF body
  <2> QED
    BY <2>1, <2>2, AnswerPart
<1>5. CASE AnswerError(i)
  <2> DEFINE body == <<ErrorByte>>
  <2>1. body \in Seq(Bytes) /\ \A n \in 1 .. Len(body) : body[n] = ErrorByte
    BY Constants DEF ErrorByte, Bytes
  <2>2. /\ worker[i] = "requesting"
        /\ Answer(i, 416, body) \/ Answer(i, 500, body)
    BY <1>5 DEF AnswerError
  <2> HIDE DEF body
  <2>3. IsError(416) /\ IsError(500)
    BY DEF IsError
  <2> QED
    BY <2>1, <2>2, <2>3, AnswerPart
<1>6. CASE Unanswered(i)
  BY <1>0, <1>6 DEF Unanswered, PartInv, TypeOK, IsError
<1>7. CASE WriteUnit(i)
  <2>1. /\ pos'[i] = pos[i] + 1 /\ pos[i] \in Nat
        /\ data'[i] = Tail(data[i])
        /\ data[i] \in Seq(Bytes) /\ data[i] # <<>>
        /\ UNCHANGED <<worker, httpStatus, complete>>
        /\ worker[i] = "receiving"
    BY <1>7 DEF WriteUnit, TypeOK
  <2>2. \A n \in 1 .. Len(data'[i]) :
          /\ n \in Nat
          /\ data'[i][n] = data[i][n + 1] /\ n + 1 \in 1 .. Len(data[i])
    BY <2>1, DataTail
  <2>3. \A n \in 1 .. Len(data'[i]) :
          \/ data'[i][n] = ErrorByte /\ IsError(httpStatus'[i])
          \/ data'[i][n] = pos'[i] + n - 1 /\ data'[i][n] < object'
    <3> TAKE n \in 1 .. Len(data'[i])
    <3>1. n \in Nat /\ data'[i][n] = data[i][n + 1] /\ n + 1 \in 1 .. Len(data[i])
      BY <2>2
    <3>2. \/ data[i][n + 1] = ErrorByte /\ IsError(httpStatus[i])
          \/ data[i][n + 1] = pos[i] + (n + 1) - 1 /\ data[i][n + 1] < object
      BY <3>1 DEF PartInv
    <3>3. pos[i] + (n + 1) - 1 = pos'[i] + n - 1
      BY <2>1, <3>1
    <3> QED
      BY <1>0, <2>1, <3>1, <3>2, <3>3
  <2> QED
    BY <1>0, <2>1, <2>3 DEF PartInv, IsError
<1>8. CASE Finish(i)
  BY <1>0, <1>8 DEF Finish, PartInv, TypeOK, IsError
<1>9. CASE Break(i)
  <2>1. PICK m \in 0 .. Len(data[i]) - 1 : data' = [data EXCEPT ![i] = SubSeq(@, 1, m)]
    BY <1>9 DEF Break
  <2>2. /\ data[i] \in Seq(Bytes)
        /\ data'[i] = SubSeq(data[i], 1, m)
        /\ worker[i] = "receiving" /\ worker'[i] = "done"
        /\ UNCHANGED <<httpStatus, pos, complete>>
    BY <1>9, <2>1 DEF Break, TypeOK
  <2>3. \A n \in 1 .. Len(data'[i]) :
          data'[i][n] = data[i][n] /\ n \in 1 .. Len(data[i])
    BY <2>2, DataCut
  <2> QED
    BY <1>0, <2>2, <2>3 DEF PartInv, IsError
<1> QED
  BY <1>1, <1>2, <1>3, <1>4, <1>5, <1>6, <1>7, <1>8, <1>9 DEF WorkerStep

-------------------------------------------------------------------------------
\* The file.

LEMMA InitFile == Init => FileInv
BY DEF Init, Truncated, NoByte, ErrorByte, FileInv, InPlace, ErrorInv, EndInv, RangeInv, Opened

\* A part that was refused stays so.
LEMMA ErrorsStay ==
  ASSUME TypeOK, MainInv, \A i \in Parts : PartInv(i),
         MainStep \/ \E i \in Parts : WorkerStep(i)
  PROVE  \A j \in Parts : IsError(httpStatus[j]) => IsError(httpStatus'[j])
<1>1. CASE MainStep
  BY <1>1, MainFrame
<1>2. ASSUME NEW i \in Parts, WorkerStep(i)
      PROVE  httpStatus' = httpStatus \/ httpStatus[i] = 0
  <2>1. worker[i] = "requesting" => httpStatus[i] = 0
    BY DEF PartInv
  <2> QED
    BY <1>2, <2>1 DEF WorkerStep, PartThrows, Open, OpenFails, AnswerRange, AnswerError,
         Answer, Unanswered, WriteUnit, Finish, Break, partVars, faultVars
<1>3. ASSUME NEW i \in Parts, WorkerStep(i), NEW j \in Parts, IsError(httpStatus[j])
      PROVE  IsError(httpStatus'[j])
  <2>1. CASE httpStatus' = httpStatus
    BY <1>3, <2>1
  <2>2. CASE httpStatus[i] = 0
    <3>1. i # j
      BY <1>3, <2>2 DEF IsError
    <3> QED
      BY <1>3, <3>1, WorkerFrame
  <2> QED
    BY <1>2, <1>3, <2>1, <2>2
<1> QED
  BY <1>1, <1>3

\* The file after part i has written what it has first.
LEMMA WrittenPart ==
  ASSUME TypeOK, NEW i \in Parts, PartInv(i), NEW b \in Seq(Bytes),
         \A n \in 1 .. Len(b) : n \in 1 .. Len(data[i]) /\ b[n] = data[i][n],
         file' = Written(pos[i], b)
  PROVE  \A k \in Positions :
           /\ \/ /\ k - pos[i] + 1 \in 1 .. Len(b)
                 /\ file'[k] = ErrorByte
                 /\ IsError(httpStatus[i])
              \/ /\ k - pos[i] + 1 \in 1 .. Len(b)
                 /\ file'[k] = k /\ k < object
              \/ /\ k - pos[i] + 1 \notin 1 .. Len(b)
                 /\ file'[k] = Zero /\ file[k] = NoByte
                 /\ IsError(httpStatus[i]) \/ k < object
              \/ /\ k - pos[i] + 1 \notin 1 .. Len(b)
                 /\ file'[k] = file[k]
<1> TAKE k \in Positions
<1> DEFINE p == pos[i]
<1>1. p \in Nat /\ k \in Nat /\ object \in Nat /\ Len(b) \in Nat
  BY Constants DEF TypeOK
<1>2. \A n \in 1 .. Len(b) : \/ b[n] = ErrorByte /\ IsError(httpStatus[i])
                             \/ b[n] = p + n - 1 /\ b[n] < object
  BY DEF PartInv
<1>3. \/ k - p + 1 \in 1 .. Len(b) /\ file'[k] = b[k - p + 1]
      \/ /\ k - p + 1 \notin 1 .. Len(b)
         /\ b # <<>> /\ k < p /\ file[k] = NoByte /\ file'[k] = Zero
      \/ k - p + 1 \notin 1 .. Len(b) /\ file'[k] = file[k]
  BY <1>1, WrittenFile
<1> HIDE DEF p
<1>4. CASE k - p + 1 \in 1 .. Len(b) /\ file'[k] = b[k - p + 1]
  <2>1. p + (k - p + 1) - 1 = k
    BY <1>1
  <2>2. \/ b[k - p + 1] = ErrorByte /\ IsError(httpStatus[i])
        \/ b[k - p + 1] = k /\ k < object
    BY <1>2, <1>4, <2>1
  <2> QED
    BY <1>4, <2>2 DEF p
<1>5. CASE /\ k - p + 1 \notin 1 .. Len(b)
           /\ b # <<>> /\ k < p /\ file[k] = NoByte /\ file'[k] = Zero
  <2>1. 1 \in 1 .. Len(b)
    BY <1>5, <1>1
  <2>2. IsError(httpStatus[i]) \/ p < object
    BY <1>1, <1>2, <2>1
  <2>3. IsError(httpStatus[i]) \/ k < object
    BY <1>1, <1>5, <2>2
  <2> QED
    BY <1>5, <2>3 DEF p
<1> QED
  BY <1>3, <1>4, <1>5 DEF p

\* A step that writes the data of part i, one unit, all of it, or as much as
\* the disk takes.
Writes(i) ==
  \E b \in Seq(Bytes) :
    /\ \A n \in 1 .. Len(b) : n \in 1 .. Len(data[i]) /\ b[n] = data[i][n]
    /\ file' = Written(pos[i], b)
    /\ \A k \in Positions :
         Pending(i, k) /\ ~unflushed' => k - pos[i] + 1 \in 1 .. Len(b) \/ Pending(i, k)'
    /\ unflushed => unflushed'
    /\ \A j \in Parts : j # i => data'[j] = data[j] /\ pos'[j] = pos[j]
    /\ UNCHANGED <<jobs, object, fileSize, httpStatus, worker, complete, clobbered>>

LEMMA WriteUnitWrites ==
  ASSUME TypeOK, NEW i \in Parts, WriteUnit(i)
  PROVE  Writes(i)
<1> DEFINE d == data[i]
           b == <<Head(d)>>
<1>1. d \in Seq(Bytes) /\ d # <<>> /\ pos[i] \in Nat
  BY DEF TypeOK, WriteUnit
<1>2. d' = Tail(d) /\ pos'[i] = pos[i] + 1 /\ file' = Written(pos[i], b)
  BY DEF TypeOK, WriteUnit
<1>3. Head(d) = d[1] /\ 1 \in 1 .. Len(d) /\ Len(d) \in Nat /\ Len(Tail(d)) = Len(d) - 1
  BY <1>1, DataTail
<1>4. d[1] \in Bytes
  BY <1>1, <1>3
<1>5. b \in Seq(Bytes) /\ Len(b) = 1 /\ \A n \in 1 .. Len(b) : n = 1 /\ b[n] = d[1]
  BY <1>3, <1>4
<1>6. /\ \A j \in Parts : j # i => data'[j] = data[j] /\ pos'[j] = pos[j]
      /\ UNCHANGED <<jobs, object, fileSize, httpStatus, worker, complete, faultVars>>
  BY DEF WriteUnit, TypeOK, mainVars, faultVars
<1> HIDE DEF b, d
<1>7. \A k \in Positions :
        Pending(i, k) => k - pos[i] + 1 \in 1 .. Len(b) \/ Pending(i, k)'
  <2> SUFFICES ASSUME NEW k \in Positions, Pending(i, k), k # pos[i]
               PROVE  Pending(i, k)'
    BY <1>1, <1>5
  <2>1. k \in Nat /\ pos[i] <= k /\ k < pos[i] + Len(d)
    BY Constants DEF Pending, d
  <2>2. pos[i] + 1 <= k /\ k < pos[i] + 1 + (Len(d) - 1)
    BY <1>1, <1>3, <2>1
  <2>3. Len(data'[i]) = Len(d) - 1
    BY <1>2, <1>3 DEF d
  <2> QED
    BY <1>2, <2>2, <2>3 DEF Pending
<1>8. \A n \in 1 .. Len(b) : n \in 1 .. Len(data[i]) /\ b[n] = data[i][n]
  BY <1>3, <1>5 DEF d
<1> QED
  BY <1>2, <1>5, <1>6, <1>7, <1>8 DEF Writes, faultVars

LEMMA FlushWrites ==
  ASSUME TypeOK, NEW i \in Parts, FlushAtExit(i)
  PROVE  Writes(i)
<1> DEFINE b == data[i]
<1>1. b \in Seq(Bytes) /\ pos[i] \in Nat /\ Len(b) \in Nat
  BY DEF TypeOK
<1>2. \A k \in Positions : Pending(i, k) => k - pos[i] + 1 \in 1 .. Len(b)
  BY <1>1, Constants DEF Pending
<1>3. /\ file' = Written(pos[i], b)
      /\ \A j \in Parts : j # i => data'[j] = data[j] /\ pos'[j] = pos[j]
      /\ UNCHANGED <<jobs, object, fileSize, httpStatus, worker, complete, clobbered, unflushed>>
  BY DEF FlushAtExit, TypeOK, mainVars, faultVars
<1> QED
  BY <1>1, <1>2, <1>3 DEF Writes

LEMMA FlushFailsWrites ==
  ASSUME TypeOK, NEW i \in Parts, FlushAtExitFails(i)
  PROVE  Writes(i)
<1>1. PICK n \in 0 .. Len(data[i]) - 1 : file' = Written(pos[i], SubSeq(data[i], 1, n))
  BY DEF FlushAtExitFails
<1>2. PICK b : b = SubSeq(data[i], 1, n)
  OBVIOUS
<1>3. b \in Seq(Bytes) /\ \A m \in 1 .. Len(b) : b[m] = data[i][m] /\ m \in 1 .. Len(data[i])
  <2>1. data[i] \in Seq(Bytes)
    BY DEF TypeOK
  <2> QED
    BY <1>2, <2>1, DataCut
<1>4. /\ unflushed'
      /\ \A j \in Parts : j # i => data'[j] = data[j] /\ pos'[j] = pos[j]
      /\ UNCHANGED <<jobs, object, fileSize, httpStatus, worker, complete, clobbered>>
  BY DEF FlushAtExitFails, TypeOK, mainVars
<1> QED
  BY <1>1, <1>2, <1>3, <1>4 DEF Writes

\* Writing keeps what is known of the file.
LEMMA WriteFile ==
  ASSUME TypeOK, MainInv, \A j \in Parts : PartInv(j), FileInv, NEW i \in Parts, Writes(i)
  PROVE  FileInv'
<1>1. PICK b \in Seq(Bytes) :
        /\ \A n \in 1 .. Len(b) : n \in 1 .. Len(data[i]) /\ b[n] = data[i][n]
        /\ file' = Written(pos[i], b)
        /\ \A k \in Positions :
             Pending(i, k) /\ ~unflushed' => k - pos[i] + 1 \in 1 .. Len(b) \/ Pending(i, k)'
        /\ unflushed => unflushed'
        /\ \A j \in Parts : j # i => data'[j] = data[j] /\ pos'[j] = pos[j]
        /\ UNCHANGED <<jobs, object, fileSize, httpStatus, worker, complete, clobbered>>
  BY DEF Writes
<1>2. \A k \in Positions :
           /\ \/ /\ k - pos[i] + 1 \in 1 .. Len(b)
                 /\ file'[k] = ErrorByte
                 /\ IsError(httpStatus[i])
              \/ /\ k - pos[i] + 1 \in 1 .. Len(b)
                 /\ file'[k] = k /\ k < object
              \/ /\ k - pos[i] + 1 \notin 1 .. Len(b)
                 /\ file'[k] = Zero /\ file[k] = NoByte
                 /\ IsError(httpStatus[i]) \/ k < object
              \/ /\ k - pos[i] + 1 \notin 1 .. Len(b)
                 /\ file'[k] = file[k]
  BY <1>1, WrittenPart
<1>3. InPlace'
  BY <1>2 DEF FileInv, InPlace, ErrorByte, Zero
<1>4. ErrorInv'
  BY <1>1, <1>2, Constants DEF FileInv, ErrorInv, ErrorByte, Zero
<1>5. EndInv'
  <2> SUFFICES ASSUME NoErrors, \E j \in Parts : Opened(j),
                      NEW k \in Positions, k >= object
               PROVE  file'[k] = NoByte
    BY <1>1 DEF EndInv, Opened, NoErrors, IsError
  <2>1. k \in Nat /\ object \in Nat /\ file[k] = NoByte /\ ~IsError(httpStatus[i])
    BY Constants DEF FileInv, EndInv, TypeOK, NoErrors
  <2> QED
    BY <1>2, <2>1
<1>6. ASSUME NEW j \in Parts PROVE RangeInv(j)'
  <2> SUFFICES ASSUME httpStatus[j] = 206, worker[j] = "receiving" \/ complete[j],
                      ~clobbered, ~unflushed', NoErrors, NEW k \in First(j) .. RangeEnd(j)
               PROVE  Pending(j, k)' \/ file'[k] = k
    BY <1>1, RangeStays DEF RangeInv, NoErrors, IsError
  <2>1. Pending(j, k) \/ file[k] = k
    BY <1>1 DEF FileInv, RangeInv
  <2>2. worker[j] # "unstarted"
    BY DEF PartInv
  <2>3. k \in Positions
    BY <2>2, PlaceInRange DEF MainInv
  <2>4. ~IsError(httpStatus[i])
    BY DEF NoErrors
  <2>5. CASE file[k] = k
    BY <1>2, <2>3, <2>4, <2>5, Constants DEF NoByte
  <2>6. CASE Pending(j, k) /\ j = i
    BY <1>1, <1>2, <2>3, <2>4, <2>6
  <2>7. CASE Pending(j, k) /\ j # i
    BY <1>1, <2>7 DEF Pending
  <2> QED
    BY <2>1, <2>5, <2>6, <2>7
<1> QED
  BY <1>3, <1>4, <1>5, <1>6 DEF FileInv

LEMMA MainFile ==
  ASSUME TypeOK, MainInv, \A j \in Parts : PartInv(j), FileInv, MainStep
  PROVE  FileInv'
<1>1. CASE UNCHANGED <<file, data>>
  <2>1. /\ UNCHANGED <<file, data, jobs, object, httpStatus, pos, complete, clobbered>>
        /\ unflushed => unflushed'
        /\ \A i \in Parts : \/ worker'[i] = worker[i]
                            \/ worker[i] = "unstarted" /\ worker'[i] = "opening"
    BY <1>1, MainFrame
  <2>2. InPlace' /\ ErrorInv'
    BY <2>1 DEF FileInv, InPlace, ErrorInv, IsError
  <2>3. EndInv'
    <3>1. \A i \in Parts : Opened(i)' => Opened(i)
      BY <2>1 DEF Opened
    <3> QED
      BY <2>1, <3>1 DEF FileInv, EndInv, NoErrors, IsError
  <2>4. ASSUME NEW j \in Parts PROVE RangeInv(j)'
    <3>1. httpStatus[j] = 206 => fileSize' = fileSize
      BY MainFrame DEF PartInv
    <3>2. httpStatus[j] = 206 => First(j)' = First(j) /\ RangeEnd(j)' = RangeEnd(j)
      BY <2>1, <3>1, RangeStays
    <3>3. worker'[j] = "receiving" => worker[j] = "receiving"
      BY <2>1
    <3> QED
      BY <2>1, <3>2, <3>3 DEF FileInv, RangeInv, NoErrors, IsError, Pending
  <2> QED
    BY <2>2, <2>3, <2>4 DEF FileInv
<1>2. CASE CreateFile
  <2>1. \A i \in Parts : worker'[i] = "unstarted" /\ httpStatus'[i] = 0
    BY <1>2 DEF CreateFile, MainInv, PartInv, partVars
  <2>2. CASE \A k \in Positions : file'[k] \in {Zero, NoByte}
    BY <2>1, <2>2 DEF FileInv, InPlace, ErrorInv, EndInv, RangeInv, Opened, Zero, NoByte, ErrorByte
  <2>3. CASE file' = file
    <3>1. httpStatus' = httpStatus
      BY <1>2 DEF CreateFile, partVars
    <3> QED
      BY <2>1, <2>3, <3>1 DEF FileInv, InPlace, ErrorInv, EndInv, RangeInv, Opened, IsError
  <2> QED
    BY <1>2, <2>2, <2>3 DEF CreateFile
<1>3. ASSUME NEW i \in Parts, FlushAtExit(i) \/ FlushAtExitFails(i) PROVE FileInv'
  BY <1>3, FlushWrites, FlushFailsWrites, WriteFile
<1> QED
  BY <1>1, <1>2, <1>3, MainFrame

\* A step of part i that leaves the file alone.
LEMMA WorkerFileStays ==
  ASSUME TypeOK, MainInv, \A j \in Parts : PartInv(j), FileInv, NEW i \in Parts,
         WorkerStep(i), UNCHANGED <<file, faultVars>>,
         Opened(i)' => Opened(i), RangeInv(i)'
  PROVE  FileInv'
<1>1. \A j \in Parts : IsError(httpStatus[j]) => IsError(httpStatus'[j])
  BY ErrorsStay
<1>2. NoErrors' => NoErrors
  BY <1>1 DEF NoErrors, IsError
<1>3. InPlace' /\ ErrorInv'
  BY <1>1 DEF FileInv, InPlace, ErrorInv, IsError
<1>4. EndInv'
  <2>1. object' = object /\ \A j \in Parts : Opened(j)' => Opened(j)
    BY WorkerFrame DEF Opened
  <2> QED
    BY <1>2, <2>1 DEF FileInv, EndInv
<1>5. ASSUME NEW j \in Parts, j # i PROVE RangeInv(j)'
  <2>1. First(j)' = First(j) /\ RangeEnd(j)' = RangeEnd(j)
    BY WorkerFrame, RangeStays
  <2>2. /\ worker'[j] = worker[j] /\ httpStatus'[j] = httpStatus[j] /\ pos'[j] = pos[j]
        /\ data'[j] = data[j] /\ complete'[j] = complete[j]
    BY <1>5, WorkerFrame
  <2>3. \A k : Pending(j, k)' <=> Pending(j, k)
    BY <2>2 DEF Pending
  <2>4. RangeInv(j)
    BY DEF FileInv
  <2> SUFFICES ASSUME httpStatus[j] = 206, worker[j] = "receiving" \/ complete[j],
                      ~clobbered, ~unflushed, NoErrors, NEW k \in First(j) .. RangeEnd(j)
               PROVE  Pending(j, k) \/ file[k] = k
    BY <1>2, <2>1, <2>2, <2>3 DEF RangeInv, faultVars
  <2> QED
    BY <2>4 DEF RangeInv
<1> QED
  BY <1>3, <1>4, <1>5 DEF FileInv

\* A part that opens the file empties it: nothing of the object was there, or the
\* file is spoilt.
LEMMA OpenFile ==
  ASSUME TypeOK, MainInv, \A j \in Parts : PartInv(j), FileInv, NEW i \in Parts, Open(i)
  PROVE  FileInv'
<1>1. /\ \A k \in Positions : file'[k] = NoByte
      /\ UNCHANGED <<jobs, object, fileSize, httpStatus, data, complete, unflushed>>
      /\ \A j \in Parts : j # i => worker'[j] = worker[j] /\ pos'[j] = pos[j]
      /\ ~clobbered' => ~clobbered /\ \A k \in Positions : file[k] \in {NoByte, Zero}
      /\ worker[i] = "opening" /\ httpStatus[i] = 0
  <2>1. \A k \in Positions : file'[k] = NoByte
    BY DEF Open, Truncated
  <2>2. \A j \in Parts : j # i => worker'[j] = worker[j] /\ pos'[j] = pos[j]
    BY DEF Open, TypeOK
  <2>3. clobbered' = (clobbered \/ \E k \in Positions : file[k] \notin {NoByte, Zero})
    BY DEF Open
  <2> QED
    BY <2>1, <2>2, <2>3 DEF Open, PartInv, mainVars, faultVars
<1>2. InPlace' /\ ErrorInv' /\ EndInv'
  BY <1>1 DEF InPlace, ErrorInv, EndInv, NoByte, ErrorByte
<1>3. ASSUME NEW j \in Parts PROVE RangeInv(j)'
  <2> SUFFICES ASSUME httpStatus[j] = 206, worker[j] = "receiving" \/ complete[j],
                      ~clobbered', ~unflushed', NoErrors, NEW k \in First(j) .. RangeEnd(j), j # i
               PROVE  Pending(j, k)'
    BY <1>1, RangeStays DEF RangeInv, NoErrors, IsError
  <2>1. worker[j] # "unstarted"
    BY DEF PartInv
  <2>2. k \in Positions
    BY <2>1, PlaceInRange DEF MainInv
  <2>3. file[k] # k
    BY <1>1, <2>2, Constants DEF NoByte, Zero
  <2>4. Pending(j, k)
    BY <1>1, <2>3 DEF FileInv, RangeInv
  <2> QED
    BY <1>1, <2>4 DEF Pending
<1> QED
  BY <1>2, <1>3 DEF FileInv

LEMMA WorkerFile ==
  ASSUME TypeOK, MainInv, \A j \in Parts : PartInv(j), FileInv, NEW i \in Parts,
         WorkerStep(i)
  PROVE  FileInv'
<1>0. PartInv(i)' /\ jobs > 1
  BY OwnPart, WorkerFrame DEF MainInv, Running
<1>1. CASE PartThrows(i) \/ Unanswered(i)
  <2>1. /\ UNCHANGED <<file, faultVars>>
        /\ httpStatus'[i] = 0
        /\ Opened(i)' => Opened(i)
    BY <1>1 DEF PartThrows, Unanswered, Opened, TypeOK, PartInv
  <2> QED
    BY <2>1, WorkerFileStays DEF RangeInv
<1>2. CASE Open(i)
  BY <1>2, OpenFile
<1>3. CASE OpenFails(i)
  <2>1. UNCHANGED <<file, faultVars, worker>> /\ httpStatus'[i] = 0
    BY <1>3 DEF OpenFails, PartInv, partVars, faultVars
  <2> QED
    BY <2>1, WorkerFileStays DEF RangeInv, Opened
<1>4. CASE AnswerRange(i)
  <2> DEFINE body == Ranged(First(i), Last(i))
  <2>1. /\ UNCHANGED <<file, faultVars>>
        /\ data'[i] = body /\ pos'[i] = First(i)
        /\ Opened(i)
        /\ First(i) < object
    BY <1>4 DEF AnswerRange, Answer, Opened, TypeOK, PartInv
  <2>2. /\ First(i)' = First(i) /\ RangeEnd(i)' = RangeEnd(i)
        /\ First(i) \in Nat /\ RangeEnd(i) \in Int
        /\ Len(body) \in Nat
        /\ First(i) + Len(body) > RangeEnd(i)
    BY <1>0, <2>1, RangeStays, WorkerFrame, PartNumbers, RangedData
  <2> HIDE DEF body
  <2>3. \A k \in First(i) .. RangeEnd(i) : Pending(i, k)'
    BY <2>1, <2>2 DEF Pending
  <2>4. RangeInv(i)'
    BY <2>2, <2>3 DEF RangeInv
  <2> QED
    BY <2>1, <2>4, WorkerFileStays
<1>5. CASE AnswerError(i)
  <2>1. /\ UNCHANGED <<file, faultVars>>
        /\ httpStatus'[i] # 206
        /\ Opened(i)
    BY <1>5 DEF AnswerError, Answer, Opened, TypeOK
  <2> QED
    BY <2>1, WorkerFileStays DEF RangeInv
<1>6. CASE WriteUnit(i)
  BY <1>6, WriteUnitWrites, WriteFile
<1>7. CASE Finish(i)
  <2>1. /\ UNCHANGED <<file, faultVars, httpStatus, pos, data>>
        /\ Opened(i)
        /\ worker[i] = "receiving"
    BY <1>7 DEF Finish, Opened
  <2>2. First(i)' = First(i) /\ RangeEnd(i)' = RangeEnd(i)
    BY WorkerFrame, RangeStays
  <2>3. RangeInv(i)'
    BY <2>1, <2>2 DEF FileInv, RangeInv, Pending, NoErrors, IsError, faultVars
  <2> QED
    BY <2>1, <2>3, WorkerFileStays
<1>8. CASE Break(i)
  <2>1. /\ UNCHANGED <<file, faultVars>>
        /\ Opened(i)
        /\ worker'[i] = "done" /\ ~complete'[i]
    BY <1>8 DEF Break, Opened, TypeOK, PartInv
  <2> QED
    BY <2>1, WorkerFileStays DEF RangeInv
<1> QED
  BY <1>1, <1>2, <1>3, <1>4, <1>5, <1>6, <1>7, <1>8 DEF WorkerStep

-------------------------------------------------------------------------------
\* The invariant.

LEMMA InitDownload == Init => DownloadInv
BY InitType, InitMain, InitPart, InitFile DEF DownloadInv

LEMMA NextDownload == DownloadInv /\ [Next]_vars => DownloadInv'
<1> SUFFICES ASSUME DownloadInv, [Next]_vars
             PROVE  DownloadInv'
  OBVIOUS
<1> USE DEF DownloadInv
<1>1. CASE MainStep
  <2>1. TypeOK' /\ MainInv' /\ JoinedOnExit'
    BY <1>1, MainType, MainMain
  <2>2. \A i \in Parts : PartInv(i)'
    BY <1>1, MainPart
  <2>3. FileInv'
    BY <1>1, MainFile
  <2> QED
    BY <2>1, <2>2, <2>3
<1>2. ASSUME pc # "exited", NEW i \in Parts, WorkerStep(i) PROVE DownloadInv'
  <2>1. TypeOK' /\ MainInv' /\ JoinedOnExit'
    BY <1>2, WorkerType, WorkerMain
  <2>2. \A j \in Parts : PartInv(j)'
    BY <1>2, OwnPart, OtherPart
  <2>3. FileInv'
    BY <1>2, WorkerFile
  <2> QED
    BY <2>1, <2>2, <2>3
<1>3. CASE UNCHANGED vars
  <2> USE <1>3 DEF vars
  <2>1. TypeOK' /\ MainInv' /\ JoinedOnExit'
    BY DEF TypeOK, MainInv, JoinedOnExit, IsError
  <2>2. \A i \in Parts : /\ PartInv(i)'
                         /\ RangeInv(i)'
    <3> TAKE i \in Parts
    <3>1. First(i)' = First(i) /\ RangeEnd(i)' = RangeEnd(i)
      BY RangeStays
    <3> QED
      BY <3>1 DEF PartInv, RangeInv, FileInv, IsError, NoErrors, Pending
  <2>3. InPlace' /\ ErrorInv' /\ EndInv'
    BY DEF FileInv, InPlace, ErrorInv, EndInv, IsError, NoErrors, Opened
  <2> QED
    BY <2>1, <2>2, <2>3 DEF FileInv
<1> QED
  BY <1>1, <1>2, <1>3 DEF Next, Terminated

\* The invariant of s3-download: where main and each part stand, what each part
\* has received of its range, and what was written where (DownloadFile,
\* DownloadPart and the flush of the stream at exit).
THEOREM DownloadInvariant == Spec => []DownloadInv
BY InitDownload, NextDownload, PTL DEF Spec

-------------------------------------------------------------------------------
\* What it shows.

\* A successful exit has read every future, and no answer was an error.
LEMMA SuccessGathered ==
  ASSUME DownloadInv, Succeeded
  PROVE  /\ jobs > 1 /\ jobs \in 0 .. MaxJobs
         /\ NoErrors
         /\ \A i \in 0 .. jobs - 1 : i \in Parts /\ worker[i] = "done"
<1>1. jobs > 1 /\ spawned = jobs /\ gathered = jobs /\ jobs \in Nat /\ jobs <= MaxJobs
  BY Constants DEF DownloadInv, MainInv, TypeOK, Succeeded
<1>2. \A i \in Parts : i < jobs => worker[i] = "done" /\ ~IsError(httpStatus[i])
  BY <1>1 DEF DownloadInv, MainInv
<1>3. \A i \in Parts : ~(i < jobs) => httpStatus[i] = 0
  <2> TAKE i \in Parts
  <2> HAVE ~(i < jobs)
  <2>1. i >= spawned
    BY <1>1, Constants
  <2>2. worker[i] = "unstarted"
    BY <2>1 DEF DownloadInv, MainInv
  <2> QED
    BY <2>2 DEF DownloadInv, PartInv
<1>4. NoErrors
  BY <1>2, <1>3 DEF NoErrors, IsError
<1>5. \A i \in 0 .. jobs - 1 : i \in Parts /\ i < jobs
  BY <1>1, Constants DEF Parts
<1> QED
  BY <1>1, <1>2, <1>4, <1>5

\* Types are kept by every step.
THEOREM TypesHold == Spec => []TypeOK
BY DownloadInvariant, PTL DEF DownloadInv

\* main returns only when its threads have ended, and the destructors of the
\* futures are what makes it wait.
THEOREM ThreadsJoined == Spec => []JoinedOnExit
BY DownloadInvariant, PTL DEF DownloadInv

\* However the writes, the truncations and the flush at exit interleave, a byte of
\* the object is only ever written to its own place.
THEOREM BytesInPlace == Spec => []InPlace
<1>1. DownloadInv => InPlace
  BY DEF DownloadInv, FileInv
<1> QED
  BY <1>1, DownloadInvariant, PTL

\* A successful exit leaves no text of an error answer in the file.
THEOREM NoErrorBytes == Spec => []NoErrorBytesOnSuccess
<1>1. DownloadInv => NoErrorBytesOnSuccess
  BY SuccessGathered DEF DownloadInv, FileInv, ErrorInv, NoErrors, NoErrorBytesOnSuccess
<1> QED
  BY <1>1, DownloadInvariant, PTL

\* A successful download is the object, but for a stream opened over written data,
\* an answer that broke off, ranges that leave a gap and a flush at exit that fails.
THEOREM DownloadRight == Spec => []RightOtherwise
<1>1. ASSUME DownloadInv PROVE RightOtherwise
  <2> SUFFICES ASSUME Succeeded, AllComplete, ~clobbered, ~unflushed, RangesCover,
                      NEW k \in Positions
               PROVE  file[k] = IF k < object THEN k ELSE NoByte
    BY DEF RightOtherwise, FileIsObject
  <2>1. /\ jobs > 1 /\ jobs \in Nat /\ object \in Nat /\ k \in Nat
        /\ NoErrors
        /\ \A i \in 0 .. jobs - 1 : i \in Parts /\ worker[i] = "done"
    BY <1>1, SuccessGathered, Constants DEF DownloadInv, TypeOK
  <2>2. CASE k < object
    <3>1. PICK i \in 0 .. jobs - 1 : First(i) <= k /\ k <= Last(i)
      BY <2>1, <2>2 DEF RangesCover
    <3>2. i \in Parts /\ complete[i] /\ data[i] = <<>>
      BY <1>1, <2>1 DEF AllComplete, Succeeded, DownloadInv, MainInv
    <3>3. httpStatus[i] = 206
      <4>1. httpStatus[i] \in {0, 206, 416, 500}
        BY <1>1, <3>2 DEF DownloadInv, TypeOK
      <4>2. httpStatus[i] # 0
        BY <1>1, <3>2 DEF DownloadInv, PartInv
      <4>3. ~(httpStatus[i] > 300)
        BY <2>1, <3>2 DEF NoErrors, IsError
      <4> QED
        BY <4>1, <4>2, <4>3
    <3>4. k \in First(i) .. RangeEnd(i)
      BY <1>1, <2>1, <2>2, <3>1, <3>2, PartNumbers DEF RangeEnd, DownloadInv
    <3>5. Pending(i, k) \/ file[k] = k
      BY <1>1, <2>1, <3>2, <3>3, <3>4 DEF DownloadInv, FileInv, RangeInv
    <3>6. ~Pending(i, k)
      BY <1>1, <2>1, <3>2 DEF Pending, DownloadInv, TypeOK
    <3> QED
      BY <2>2, <3>5, <3>6
  <2>3. CASE ~(k < object)
    <3>1. 0 \in Parts /\ Opened(0)
      BY <2>1 DEF Opened
    <3>2. k >= object
      BY <2>1, <2>3
    <3> QED
      BY <1>1, <2>1, <2>3, <3>1, <3>2 DEF DownloadInv, FileInv, EndInv
  <2> QED
    BY <2>2, <2>3
<1> QED
  BY <1>1, DownloadInvariant, PTL

===============================================================================
