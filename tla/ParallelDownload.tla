--------------------------- MODULE ParallelDownload ---------------------------
(***************************************************************************)
(* s3-download (src/src/parallel_download.cpp): the main thread asks for   *)
(* the size of the object, creates the file and starts one std::async      *)
(* thread per part; each opens the file for itself, asks for its range and *)
(* lets libcurl fwrite the answer; the main thread looks at the status     *)
(* codes.                                                                  *)
(*                                                                         *)
(* The streams are buffered and never closed: what stdio has not written   *)
(* by the time a request returns is written when the process exits, if the *)
(* disk takes it then.  A unit of data is what one write of stdio carries. *)
(* The server, the network and the file system are the environment.        *)
(***************************************************************************)
EXTENDS Integers, Sequences, FiniteSets

CONSTANTS
  MaxJobs,        \* bound on -j
  MaxObjectSize,  \* bound on the size of the object, in units of data
  SizeBits        \* width of size_t

ASSUME BoundsAssumption ==
  /\ MaxJobs \in Nat \ {0}
  /\ MaxObjectSize \in Nat
  /\ SizeBits \in Nat
  /\ MaxObjectSize < 2^SizeBits

Parts == 0 .. (MaxJobs - 1)
Positions == 0 .. MaxObjectSize

\* What a place of the file holds: the k-th byte of the object as k itself.
NoByte == -3        \* past the end of the file
Zero == -2          \* a hole
ErrorByte == -1     \* from the body of an error answer
Bytes == -3 .. (MaxObjectSize - 1)

VARIABLES
  jobs,        \* args.jobs
  object,      \* the size of the object in the store
  pc,          \* where the main thread stands
  fileSize,    \* what ObjectSize returned
  spawned,     \* i, the loop counter of the spawning loop
  gathered,    \* the futures the last loop has read
  exitCode,    \* exit status, -1 while the process runs
  file,        \* the output file
  worker,      \* per part, the state of the async thread
  httpStatus,  \* per part, the value of the future
  pos,         \* per part, where its stream writes next
  data,        \* per part, what its stream is still to write
  complete,    \* history: per part, its range arrived to the end
  clobbered,   \* history: a stream was opened over data already written
  unflushed    \* history: what a stream held at exit did not reach the file

vars == <<jobs, object, pc, fileSize, spawned, gathered, exitCode, file, worker,
          httpStatus, pos, data, complete, clobbered, unflushed>>
mainVars == <<jobs, object, fileSize, spawned, gathered, exitCode>>
partVars == <<worker, httpStatus, pos, data, complete>>
faultVars == <<clobbered, unflushed>>

Running == {"opening", "requesting", "receiving"}

-------------------------------------------------------------------------------
\* What part id asks for.

ChunkSize == fileSize \div jobs

LastChunkSize == IF fileSize % jobs = 0 THEN ChunkSize ELSE fileSize % jobs

PartSize(id) == IF id < jobs - 1 THEN ChunkSize ELSE LastChunkSize

First(id) == id * ChunkSize

\* Mutant: the last part placed by its own size.
SeekToOwnSize(id) == id * PartSize(id)

SeekTo(id) == id * ChunkSize

\* Unsigned: a part of no size asks for everything.
Last(id) == (id * ChunkSize + PartSize(id) - 1) % 2^SizeBits

\* The bytes of the object a range request gets, in order.
Ranged(first, last) ==
  LET stop == IF last < object THEN last ELSE object - 1
  IN  [k \in 1 .. (stop - first + 1) |-> first + k - 1]

\* The file after bytes have been written at p.
Written(p, bytes) ==
  [k \in Positions |->
     IF k >= p /\ k < p + Len(bytes) THEN bytes[k - p + 1]
     ELSE IF bytes # <<>> /\ k < p /\ file[k] = NoByte THEN Zero
     ELSE file[k]]

Truncated == [k \in Positions |-> NoByte]

Init ==
  /\ jobs \in 0 .. MaxJobs
  /\ object \in 0 .. MaxObjectSize
  /\ pc = "configure"
  /\ fileSize = 0
  /\ spawned = 0
  /\ gathered = 0
  /\ exitCode = -1
  /\ file = Truncated
  /\ worker = [i \in Parts |-> "unstarted"]
  /\ httpStatus = [i \in Parts |-> 0]
  /\ pos = [i \in Parts |-> 0]
  /\ data = [i \in Parts |-> <<>>]
  /\ complete = [i \in Parts |-> FALSE]
  /\ clobbered = FALSE
  /\ unflushed = FALSE

-------------------------------------------------------------------------------
\* The main thread.

\* return from main; the streams are flushed after it.
Return(code) == pc' = "flushing" /\ exitCode' = code

\* Validate throws, or the part of the program for one job does.
NotImplemented ==
  /\ pc = "configure"
  /\ jobs <= 1
  /\ Return(1)
  /\ UNCHANGED <<jobs, object, fileSize, spawned, gathered, file, partVars, faultVars>>

StartFails ==
  /\ pc \in {"configure", "create"}
  /\ Return(1)
  /\ UNCHANGED <<jobs, object, fileSize, spawned, gathered, file, partVars, faultVars>>

\* The HEAD request: no answer and no Content-Length both read as size 0, and
\* the Content-Length of an answer that is no success is not told apart.
GetObjectSize(size) ==
  /\ pc = "configure"
  /\ jobs > 1
  /\ fileSize' = size
  /\ pc' = "create"
  /\ UNCHANGED <<jobs, object, spawned, gathered, exitCode, file, partVars, faultVars>>

\* A file of fileSize holes and one byte; nobody asks the ofstream whether it
\* could be opened and written.
CreateFile ==
  /\ pc = "create"
  /\ \/ file' = [k \in Positions |-> IF k <= fileSize THEN Zero ELSE NoByte]
     \/ UNCHANGED file
  /\ pc' = "spawn"
  /\ UNCHANGED <<mainVars, partVars, faultVars>>

\* Mutant: one part too many.
AllSpawnedLate == spawned' > jobs

AllSpawned == spawned' = jobs

Spawn ==
  /\ pc = "spawn"
  /\ worker' = [worker EXCEPT ![spawned] = "opening"]
  /\ spawned' = spawned + 1
  /\ pc' = IF AllSpawned THEN "gather" ELSE "spawn"
  /\ UNCHANGED <<jobs, object, fileSize, gathered, exitCode, file, httpStatus, pos,
                 data, complete, faultVars>>

SpawnFails ==
  /\ pc = "spawn"
  /\ pc' = "unwind"
  /\ UNCHANGED <<mainVars, file, partVars, faultVars>>

\* Mutant: only the server's own errors.
IsErrorServer(status) == status >= 500

\* i.get() > 300
IsError(status) == status > 300

Gather ==
  /\ pc = "gather"
  /\ worker[gathered] = "done"
  /\ ~IsError(httpStatus[gathered])
  /\ gathered' = gathered + 1
  /\ IF gathered' = jobs THEN Return(0) ELSE UNCHANGED <<pc, exitCode>>
  /\ UNCHANGED <<jobs, object, fileSize, spawned, file, partVars, faultVars>>

GatherThrows ==
  /\ pc = "gather"
  /\ \/ worker[gathered] = "threw"
     \/ worker[gathered] = "done" /\ IsError(httpStatus[gathered])
  /\ pc' = "unwind"
  /\ UNCHANGED <<mainVars, file, partVars, faultVars>>

\* Mutant: futures that do not wait when they are destroyed.
JoinedNone == TRUE

\* Mutant: parts never started are waited for.
JoinedEvery == \A i \in Parts : worker[i] \in {"done", "threw"}

Joined == \A i \in Parts : worker[i] \notin Running

\* The destructors of the futures wait for the threads.
Unwind ==
  /\ pc = "unwind"
  /\ Joined
  /\ Return(1)
  /\ UNCHANGED <<jobs, object, fileSize, spawned, gathered, file, partVars, faultVars>>

-------------------------------------------------------------------------------
\* DownloadPart, in the thread of part i.

\* The request cannot be signed or built.
PartThrows(i) ==
  /\ worker[i] = "opening"
  /\ worker' = [worker EXCEPT ![i] = "threw"]
  /\ UNCHANGED <<mainVars, pc, file, httpStatus, pos, data, complete, faultVars>>

\* fopen with "wb" empties the file, whoever has written to it.
Open(i) ==
  /\ worker[i] = "opening"
  /\ file' = Truncated
  /\ pos' = [pos EXCEPT ![i] = SeekTo(i)]
  /\ clobbered' = (clobbered \/ \E k \in Positions : file[k] \notin {NoByte, Zero})
  /\ worker' = [worker EXCEPT ![i] = "requesting"]
  /\ UNCHANGED <<mainVars, pc, httpStatus, data, complete, unflushed>>

\* fopen returns NULL, and fseek is called with it: the process dies.
OpenFails(i) ==
  /\ worker[i] = "opening"
  /\ pc \notin {"flushing", "exited"}
  /\ pc' = "exited"
  /\ exitCode' = 139
  /\ UNCHANGED <<jobs, object, fileSize, spawned, gathered, file, partVars, faultVars>>

\* An answer begins to arrive, the range or the reason why not.
Answer(i, status, body) ==
  /\ httpStatus' = [httpStatus EXCEPT ![i] = status]
  /\ data' = [data EXCEPT ![i] = body]
  /\ worker' = [worker EXCEPT ![i] = "receiving"]
  /\ UNCHANGED <<mainVars, pc, file, pos, complete, faultVars>>

AnswerRange(i) ==
  /\ worker[i] = "requesting"
  /\ First(i) < object
  /\ Answer(i, 206, Ranged(First(i), Last(i)))

AnswerError(i) ==
  /\ worker[i] = "requesting"
  /\ \/ First(i) >= object /\ Answer(i, 416, <<ErrorByte>>)
     \/ Answer(i, 500, <<ErrorByte>>)

\* Send fails, which nobody looks at, and the status code is still 0.
Unanswered(i) ==
  /\ worker[i] = "requesting"
  /\ worker' = [worker EXCEPT ![i] = "done"]
  /\ UNCHANGED <<mainVars, pc, file, httpStatus, pos, data, complete, faultVars>>

\* The stream's buffer is full.
WriteUnit(i) ==
  /\ worker[i] = "receiving"
  /\ data[i] # <<>>
  /\ file' = Written(pos[i], <<Head(data[i])>>)
  /\ pos' = [pos EXCEPT ![i] = @ + 1]
  /\ data' = [data EXCEPT ![i] = Tail(@)]
  /\ UNCHANGED <<mainVars, pc, worker, httpStatus, complete, faultVars>>

\* The answer has arrived to its end; the stream is not closed.
Finish(i) ==
  /\ worker[i] = "receiving"
  /\ complete' = [complete EXCEPT ![i] = TRUE]
  /\ worker' = [worker EXCEPT ![i] = "done"]
  /\ UNCHANGED <<mainVars, pc, file, httpStatus, pos, data, faultVars>>

\* The connection breaks, or a write fails: the status code is there already.
Break(i) ==
  /\ worker[i] = "receiving"
  /\ \E n \in 0 .. Len(data[i]) - 1 : data' = [data EXCEPT ![i] = SubSeq(@, 1, n)]
  /\ worker' = [worker EXCEPT ![i] = "done"]
  /\ UNCHANGED <<mainVars, pc, file, httpStatus, pos, complete, faultVars>>

-------------------------------------------------------------------------------
\* exit: every stream is flushed, and the process is gone.

\* Mutant: _exit, which does not flush.
FlushAtExitDropped(i) ==
  /\ pc = "flushing"
  /\ data[i] # <<>>
  /\ data' = [data EXCEPT ![i] = <<>>]
  /\ UNCHANGED <<mainVars, pc, file, worker, httpStatus, pos, complete, faultVars>>

FlushAtExit(i) ==
  /\ pc = "flushing"
  /\ data[i] # <<>>
  /\ file' = Written(pos[i], data[i])
  /\ data' = [data EXCEPT ![i] = <<>>]
  /\ UNCHANGED <<mainVars, pc, worker, httpStatus, pos, complete, faultVars>>

\* The disk is full, or the file system goes away: the exit status stands.
FlushAtExitFails(i) ==
  /\ pc = "flushing"
  /\ data[i] # <<>>
  /\ \E n \in 0 .. Len(data[i]) - 1 : file' = Written(pos[i], SubSeq(data[i], 1, n))
  /\ data' = [data EXCEPT ![i] = <<>>]
  /\ unflushed' = TRUE
  /\ UNCHANGED <<mainVars, pc, worker, httpStatus, pos, complete, clobbered>>

Exit ==
  /\ pc = "flushing"
  /\ \A i \in Parts : data[i] = <<>>
  /\ pc' = "exited"
  /\ UNCHANGED <<mainVars, file, partVars, faultVars>>

-------------------------------------------------------------------------------

MainStep ==
  \/ NotImplemented \/ StartFails
  \/ \E size \in 0 .. MaxObjectSize : GetObjectSize(size)
  \/ CreateFile \/ Spawn \/ SpawnFails
  \/ Gather \/ GatherThrows \/ Unwind
  \/ \E i \in Parts : FlushAtExit(i) \/ FlushAtExitFails(i)
  \/ Exit

WorkerStep(i) ==
  \/ PartThrows(i) \/ Open(i) \/ OpenFails(i)
  \/ AnswerRange(i) \/ AnswerError(i) \/ Unanswered(i)
  \/ WriteUnit(i) \/ Finish(i) \/ Break(i)

\* Nothing runs in a process that has ended.
Terminated == pc = "exited" /\ UNCHANGED vars

Next ==
  \/ MainStep
  \/ pc # "exited" /\ \E i \in Parts : WorkerStep(i)
  \/ Terminated

Spec == Init /\ [][Next]_vars

\* The scheduler runs every thread and every request comes to an end: curl is
\* given no timeout, so this rests on the connection.
FairSpec ==
  /\ Spec
  /\ WF_vars(MainStep)
  /\ \A i \in Parts : WF_vars(pc # "exited" /\ WorkerStep(i))

-------------------------------------------------------------------------------
\* Properties.

TypeOK ==
  /\ jobs \in 0 .. MaxJobs
  /\ object \in 0 .. MaxObjectSize
  /\ pc \in {"configure", "create", "spawn", "gather", "unwind", "flushing", "exited"}
  /\ fileSize \in 0 .. MaxObjectSize
  /\ spawned \in 0 .. MaxJobs
  /\ gathered \in 0 .. MaxJobs
  /\ exitCode \in {-1, 0, 1, 139}
  /\ file \in [Positions -> Bytes]
  /\ worker \in [Parts -> {"unstarted", "opening", "requesting", "receiving",
                           "done", "threw"}]
  /\ httpStatus \in [Parts -> {0, 206, 416, 500}]
  /\ pos \in [Parts -> Nat]
  /\ data \in [Parts -> Seq(Bytes)]
  /\ complete \in [Parts -> BOOLEAN]
  /\ clobbered \in BOOLEAN
  /\ unflushed \in BOOLEAN

\* Every byte of the object that reaches the file is in its place, however the
\* threads' writes and truncations interleave, and also when an unsigned range
\* has wrapped around (the range header against fseek).
InPlace == \A k \in Positions : file[k] >= 0 => file[k] = k

Succeeded == pc = "exited" /\ exitCode = 0

\* A successful exit leaves no text of an error answer in the file, although
\* every answer is written there before its status is looked at.
NoErrorBytesOnSuccess ==
  Succeeded => \A k \in Positions : file[k] # ErrorByte

FileIsObject ==
  \A k \in Positions : file[k] = IF k < object THEN k ELSE NoByte

RangesCover ==
  \A k \in 0 .. object - 1 : \E i \in 0 .. jobs - 1 : First(i) <= k /\ k <= Last(i)

AllComplete == \A i \in 0 .. jobs - 1 : complete[i]

\* The download is right but for four things: a stream opened over written
\* data, an answer that broke off, ranges that leave a gap, and a stream that
\* could not be flushed when the process was already exiting (the extra byte of
\* the created file, the file that was not created and a wrong size read from
\* an error answer do no harm of their own).
RightOtherwise ==
  Succeeded /\ AllComplete /\ ~clobbered /\ RangesCover /\ ~unflushed => FileIsObject

\* main returns only when its threads have ended.
JoinedOnExit == exitCode \in {0, 1} => \A i \in Parts : worker[i] \notin Running

\* The program ends, whatever fails.
Termination == <>(pc = "exited")

\* Claimed by the comment "compute last chunk size": the parts make up the
\* object whose size was read.
PartsCoverObject == pc = "spawn" /\ fileSize = object => RangesCover

\* Claimed by the help text, "Download file from S3 bucket": when every part
\* has arrived to its end, the parts make up the object and the disk takes
\* everything, the file is the object.
ArrivedIsKept == Succeeded /\ AllComplete /\ RangesCover /\ ~unflushed => FileIsObject

===============================================================================
