---------------------------- MODULE ParallelUpload ----------------------------
(***************************************************************************)
(* s3-upload (src/src/parallel_upload.cpp): the main thread begins a       *)
(* multipart upload, starts one std::async thread per part, collects the   *)
(* ETags from the futures in order and sends the CompleteMultipartUpload   *)
(* request; with -j 1 it PUTs the file in one request.                     *)
(*                                                                         *)
(* A thread moves from one blocking point to the next in one step: a       *)
(* request and the handling of its answer, a future's get(), the start of  *)
(* a thread.  The S3 server, the network and the clock are the environment:*)
(* an answer may carry an ETag, carry none (an HTTP error, or a send error *)
(* that WebClient::Status reports as success), or never arrive, and in the *)
(* last two cases the server may take the data, at once or late, or not.   *)
(***************************************************************************)
EXTENDS Integers, Sequences, FiniteSets

CONSTANTS
  MaxJobs,      \* bound on -j
  MaxRetries,   \* bound on -r
  FileSizes     \* the sizes a file may have, in units of data

ASSUME BoundsAssumption ==
  /\ MaxJobs \in Nat \ {0}
  /\ MaxRetries \in Nat \ {0}
  /\ FileSizes \subseteq Nat

Parts == 0 .. (MaxJobs - 1)     \* the values of i in the spawning loop
PartNumbers == 1 .. MaxJobs     \* what S3 calls a part: i + 1

\* ETags are told apart by the attempt of the part that created them.
NoETag == 0
ETags == 0 .. MaxRetries

\* Zero stands for every value Validate refuses.
Configs ==
  [jobs : 0 .. MaxJobs, maxRetries : 0 .. MaxRetries, fileSize : FileSizes]

VARIABLES
  \* the process
  config,        \* Config: jobs, maxRetries, and the size of config.file
  pc,            \* where the main thread stands
  uploadId,      \* "none" (the empty string) until, or unless, the server names one
  spawned,       \* i, the loop counter of the spawning loop
  worker,        \* per part, the state of the async thread and its future
  extent,        \* per part, the (offset, size) arguments of the async call
  tryNum,        \* per part, the attempt UploadPart is in
  etags,         \* per part, the ETag in the future
  numRetriesG,   \* the global retry counter
  endSignature,  \* x-amz-date of the completion request: "none", "fresh", "stale"
  manifest,      \* the <Part> entries of the completion body
  exitCode,      \* exit status of the process, -1 while it runs
  printedETag,   \* stdout carries the object's ETag
  printedError,  \* stderr carries an error
  \* the server
  stored,        \* per part number, the ETag and extent the server holds
  late,          \* per part, the attempts the server may still come to store
  object,        \* extents the object was assembled from, <<>> when absent
  \* history
  faulty         \* the environment has refused, dropped or failed something

processVars == <<config, pc, uploadId, spawned, worker, extent, tryNum, etags,
                 numRetriesG, endSignature, manifest, exitCode, printedETag,
                 printedError>>
serverVars == <<stored, late, object>>
vars == <<processVars, serverVars, faulty>>

Extents == [offset : Nat, size : Nat]
PartEntries == [etag : ETags, partNumber : PartNumbers]
WorkerStates ==
  {"unstarted", "signing", "sending", "done", "exhausted", "threw", "killed"}
Running == {"signing", "sending"}
\* Mutant: an exception of the transport never reaches the future.
FailedExhausted == {"exhausted"}
Failed == {"exhausted", "threw"}

-------------------------------------------------------------------------------
\* How the file is cut.

ChunkSize == config.fileSize \div config.jobs

\* Mutant: the remainder alone, as in s3-download.
LastChunkRemainder ==
  IF config.fileSize % config.jobs = 0 THEN ChunkSize
  ELSE config.fileSize % config.jobs

LastChunkSize ==
  IF config.fileSize % config.jobs = 0
  THEN ChunkSize
  ELSE (config.fileSize % config.jobs) + ChunkSize

PartExtent(i) ==
  [offset |-> ChunkSize * i,
   size |-> IF i # config.jobs - 1 THEN ChunkSize ELSE LastChunkSize]

\* The extents, laid end to end, are the bytes 0 .. fileSize - 1 in order.
IsWholeFile(s) ==
  /\ s # <<>>
  /\ s[1].offset = 0
  /\ \A k \in 1 .. Len(s) - 1 : s[k + 1].offset = s[k].offset + s[k].size
  /\ s[Len(s)].offset + s[Len(s)].size = config.fileSize

NoExtent == [offset |-> 0, size |-> 0]

Init ==
  /\ config \in Configs
  /\ pc = "configure"
  /\ uploadId = "none"
  /\ spawned = 0
  /\ worker = [i \in Parts |-> "unstarted"]
  /\ extent = [i \in Parts |-> NoExtent]
  /\ tryNum = [i \in Parts |-> 0]
  /\ etags = [i \in Parts |-> NoETag]
  /\ numRetriesG = 0
  /\ endSignature = "none"
  /\ manifest = <<>>
  /\ exitCode = -1
  /\ printedETag = FALSE
  /\ printedError = FALSE
  /\ stored = [n \in PartNumbers |-> [etag |-> NoETag, extent |-> NoExtent]]
  /\ late = [i \in Parts |-> {}]
  /\ object = <<>>
  /\ faulty = FALSE

-------------------------------------------------------------------------------
\* The main thread's ways out.

\* return 0 with the ETag on stdout
ExitWithETag ==
  /\ pc' = "exited"
  /\ exitCode' = 0
  /\ printedETag' = TRUE
  /\ UNCHANGED printedError

\* catch (const exception&): the message on stderr and return 1
ExitWithError ==
  /\ pc' = "exited"
  /\ exitCode' = 1
  /\ printedError' = TRUE
  /\ UNCHANGED printedETag

\* A signal ends the process and every thread in it.
Crashed == 139

exitVars == <<exitCode, printedETag, printedError>>
workerVars == <<worker, extent, tryNum, etags, numRetriesG>>
uploadVars == <<uploadId, spawned, endSignature, manifest>>

-------------------------------------------------------------------------------
\* Before the first request.

\* Mutant: the number of jobs checked as the message says, "greater than one".
ValidConfigSeveral == config.jobs > 1 /\ config.maxRetries >= 1

ValidConfig == config.jobs >= 1 /\ config.maxRetries >= 1

\* Validate throws.
RejectConfig ==
  /\ pc = "configure"
  /\ ~ValidConfig
  /\ ExitWithError
  /\ UNCHANGED <<config, uploadVars, workerVars, serverVars, faulty>>

\* No credentials, no endpoints, or a file that cannot be opened.
StartFails ==
  /\ pc = "configure"
  /\ ExitWithError
  /\ faulty' = TRUE
  /\ UNCHANGED <<config, uploadVars, workerVars, serverVars>>

ChooseMode ==
  /\ pc = "configure"
  /\ ValidConfig
  /\ pc' = IF config.jobs > 1 THEN "begin" ELSE "put"
  /\ UNCHANGED <<config, uploadVars, workerVars, exitVars, serverVars, faulty>>

KillThreads ==
  [i \in Parts |-> IF worker[i] \in Running THEN "killed" ELSE worker[i]]

\* RandomRange gives back a closure over variables of its own that are gone:
\* the index main picks an endpoint with, before its first request and again
\* for the completion, may be any number.  One out of range ends the process,
\* if it does not throw (StartFails, SetupFails).
RandomIndexCrashes ==
  /\ ValidConfig
  /\ pc = "configure" \/ (pc = "spawn" /\ spawned = config.jobs)
  /\ pc' = "exited"
  /\ exitCode' = Crashed
  /\ worker' = KillThreads
  /\ UNCHANGED <<config, uploadVars, extent, tryNum, etags, numRetriesG,
                 printedETag, printedError, serverVars, faulty>>

-------------------------------------------------------------------------------
\* -j 1: the file in one PUT.

PutAccepted ==
  /\ pc = "put"
  /\ object' = <<[offset |-> 0, size |-> config.fileSize]>>
  /\ ExitWithETag
  /\ UNCHANGED <<config, uploadVars, workerVars, stored, late, faulty>>

\* No answer, a status of 400 or more, or no ETag in the headers.
PutFails ==
  /\ pc = "put"
  /\ object' \in {<<>>, <<[offset |-> 0, size |-> config.fileSize]>>}
  /\ ExitWithError
  /\ faulty' = TRUE
  /\ UNCHANGED <<config, uploadVars, workerVars, stored, late>>

-------------------------------------------------------------------------------
\* -j n: the multipart upload is begun and its threads are started.

\* The id is what XMLTag finds in the body of the answer, nothing included.
BeginAnswered(id) ==
  /\ pc = "begin"
  /\ uploadId' = id
  /\ pc' = "spawn"
  /\ faulty' = (faulty \/ id = "none")
  /\ UNCHANGED <<config, spawned, endSignature, manifest, workerVars, exitVars,
                 serverVars>>

BeginFails ==
  /\ pc = "begin"
  /\ ExitWithError
  /\ faulty' = TRUE
  /\ UNCHANGED <<config, uploadVars, workerVars, serverVars>>

Spawn ==
  /\ pc = "spawn"
  /\ spawned < config.jobs
  /\ worker' = [worker EXCEPT ![spawned] = "signing"]
  /\ extent' = [extent EXCEPT ![spawned] = PartExtent(spawned)]
  /\ tryNum' = [tryNum EXCEPT ![spawned] = 1]
  /\ spawned' = spawned + 1
  /\ UNCHANGED <<config, pc, uploadId, endSignature, manifest, etags,
                 numRetriesG, exitVars, serverVars, faulty>>

\* async finds no thread, or the completion request cannot be built.
SetupFails ==
  /\ pc = "spawn"
  /\ pc' = "unwind"
  /\ faulty' = TRUE
  /\ UNCHANGED <<config, uploadVars, workerVars, exitVars, serverVars>>

\* The completion request is signed, and so dated, before any ETag is awaited.
SignCompletion ==
  /\ pc = "spawn"
  /\ spawned = config.jobs
  /\ endSignature' = "fresh"
  /\ pc' = "gather"
  /\ UNCHANGED <<config, uploadId, spawned, manifest, workerVars, exitVars,
                 serverVars, faulty>>

-------------------------------------------------------------------------------
\* UploadPart, in the thread of part i.

\* The server now holds this attempt's data under the part's number.
Store(i) ==
  stored' = [stored EXCEPT ![i + 1] = [etag |-> tryNum[i], extent |-> extent[i]]]

\* What may become of a request nobody confirmed.
MayLand(i) ==
  \/ UNCHANGED <<stored, late>>
  \/ uploadId # "none" /\ Store(i) /\ UNCHANGED late
  \/ uploadId # "none" /\ late' = [late EXCEPT ![i] = @ \cup {tryNum[i]}] /\ UNCHANGED stored

\* BuildUploadRequest: each attempt is signed anew.
SignPart(i) ==
  /\ worker[i] = "signing"
  /\ worker' = [worker EXCEPT ![i] = "sending"]
  /\ UNCHANGED <<config, pc, uploadVars, extent, tryNum, etags, numRetriesG,
                 exitVars, serverVars, faulty>>

PartAccepted(i) ==
  /\ worker[i] = "sending"
  /\ uploadId # "none"
  /\ Store(i)
  /\ etags' = [etags EXCEPT ![i] = tryNum[i]]
  /\ worker' = [worker EXCEPT ![i] = "done"]
  /\ UNCHANGED <<config, pc, uploadVars, extent, tryNum, numRetriesG, exitVars,
                 late, object, faulty>>

\* Mutant: one try too many.
LastTryPassed(i) == tryNum[i] > config.maxRetries

LastTry(i) == tryNum[i] = config.maxRetries

\* Mutant: a counter that is not atomic loses increments.
CountRetryRacing == numRetriesG' \in {numRetriesG, numRetriesG + 1}

CountRetry == numRetriesG' = numRetriesG + 1

\* An answer without an ETag: the last attempt throws, the others go round.
PartWithoutETag(i) ==
  /\ worker[i] = "sending"
  /\ MayLand(i)
  /\ IF LastTry(i)
     THEN /\ worker' = [worker EXCEPT ![i] = "exhausted"]
          /\ UNCHANGED <<tryNum, numRetriesG>>
     ELSE /\ worker' = [worker EXCEPT ![i] = "signing"]
          /\ tryNum' = [tryNum EXCEPT ![i] = @ + 1]
          /\ CountRetry
  /\ faulty' = TRUE
  /\ UNCHANGED <<config, pc, uploadVars, extent, etags, exitVars, object>>

\* The request cannot be built, or curl reports an error: no retry.
PartThrows(i) ==
  /\ \/ worker[i] = "signing" /\ UNCHANGED <<stored, late>>
     \/ worker[i] = "sending" /\ MayLand(i)
  /\ worker' = [worker EXCEPT ![i] = "threw"]
  /\ faulty' = TRUE
  /\ UNCHANGED <<config, pc, uploadVars, extent, tryNum, etags, numRetriesG,
                 exitVars, object>>

\* A request its thread has given up reaches the upload while it is open.
LateArrival(i) ==
  /\ object = <<>>
  /\ pc # "exited"
  /\ \E a \in late[i] :
       /\ stored' = [stored EXCEPT ![i + 1] = [etag |-> a, extent |-> extent[i]]]
       /\ late' = [late EXCEPT ![i] = @ \ {a}]
  /\ UNCHANGED <<processVars, object, faulty>>

-------------------------------------------------------------------------------
\* The main thread collects the ETags and completes the upload.

\* Mutant: the future is read before its thread has set it.
ReadyAlways(i) == worker[i] \notin Failed

Ready(i) == worker[i] = "done"

\* etags[i].get() returns; the last one lets the request go.
Gather ==
  /\ pc = "gather"
  /\ LET i == Len(manifest)
     IN  /\ Ready(i)
         /\ manifest' = Append(manifest, [etag |-> etags[i], partNumber |-> i + 1])
         /\ pc' = IF i + 1 = config.jobs THEN "complete" ELSE "gather"
  /\ UNCHANGED <<config, uploadId, spawned, endSignature, workerVars, exitVars,
                 serverVars, faulty>>

\* etags[i].get() rethrows.
GatherThrows ==
  /\ pc = "gather"
  /\ worker[Len(manifest)] \in Failed
  /\ pc' = "unwind"
  /\ UNCHANGED <<config, uploadVars, workerVars, exitVars, serverVars, faulty>>

\* The clock: the date in the signature leaves the server's window.
ExpireSignature ==
  /\ endSignature = "fresh"
  /\ pc \in {"gather", "complete"}
  /\ endSignature' = "stale"
  /\ UNCHANGED <<config, pc, uploadId, spawned, manifest, workerVars, exitVars,
                 serverVars, faulty>>

\* S3 takes a completion that is signed in time and names, part by part, the
\* ETag it holds.
Acceptable ==
  /\ uploadId # "none"
  /\ endSignature = "fresh"
  /\ \A k \in 1 .. Len(manifest) :
       manifest[k].etag = stored[manifest[k].partNumber].etag

Assembled ==
  [k \in 1 .. Len(manifest) |-> stored[manifest[k].partNumber].extent]

CompleteAccepted ==
  /\ pc = "complete"
  /\ Acceptable
  /\ object' = Assembled
  /\ ExitWithETag
  /\ UNCHANGED <<config, uploadVars, workerVars, stored, late, faulty>>

\* The request may have been carried out though the program does not learn it.
MayAssemble == UNCHANGED object \/ (Acceptable /\ object' = Assembled)

CompleteUnanswered ==
  /\ pc = "complete"
  /\ MayAssemble
  /\ ExitWithError
  /\ faulty' = TRUE
  /\ UNCHANGED <<config, uploadVars, workerVars, stored, late>>

\* Mutant: the status of the answer is not looked at.
CompleteRejectedUnseen ==
  /\ pc = "complete"
  /\ ExitWithETag
  /\ faulty' = (faulty \/ Acceptable)
  /\ UNCHANGED <<config, uploadVars, workerVars, serverVars>>

CompleteRejected ==
  /\ pc = "complete"
  /\ ExitWithError
  /\ faulty' = (faulty \/ Acceptable)
  /\ UNCHANGED <<config, uploadVars, workerVars, serverVars>>

\* An answer below 400 without an ETag, an error document among them: the
\* program writes to stderr and goes on to return 0.
CompleteWithoutETag ==
  /\ pc = "complete"
  /\ MayAssemble
  /\ pc' = "exited"
  /\ exitCode' = 0
  /\ printedError' = TRUE
  /\ faulty' = TRUE
  /\ UNCHANGED <<config, uploadVars, workerVars, stored, late, printedETag>>

\* Mutant: futures that do not wait when they are destroyed.
JoinNone == TRUE

Joined == \A i \in Parts : worker[i] \notin Running

\* Leaving main destroys the futures, and that waits for every thread.
Unwind ==
  /\ pc = "unwind"
  /\ Joined
  /\ ExitWithError
  /\ UNCHANGED <<config, uploadVars, workerVars, serverVars, faulty>>

-------------------------------------------------------------------------------

MainStep ==
  \/ RejectConfig \/ StartFails \/ ChooseMode \/ RandomIndexCrashes
  \/ PutAccepted \/ PutFails
  \/ BeginAnswered("none") \/ BeginAnswered("id") \/ BeginFails
  \/ Spawn \/ SetupFails \/ SignCompletion
  \/ Gather \/ GatherThrows
  \/ CompleteAccepted \/ CompleteUnanswered \/ CompleteRejected
  \/ CompleteWithoutETag
  \/ Unwind

WorkerStep(i) ==
  SignPart(i) \/ PartAccepted(i) \/ PartWithoutETag(i) \/ PartThrows(i)

Terminated == pc = "exited" /\ UNCHANGED vars

Next ==
  \/ MainStep
  \/ \E i \in Parts : WorkerStep(i) \/ LateArrival(i)
  \/ ExpireSignature
  \/ Terminated

Spec == Init /\ [][Next]_vars

\* The scheduler runs every thread, and every request comes to an end: curl
\* is given no timeout, so this rests on the connection.
FairSpec == Spec /\ WF_vars(MainStep) /\ \A i \in Parts : WF_vars(WorkerStep(i))

-------------------------------------------------------------------------------
\* Properties.

TypeOK ==
  /\ config \in Configs
  /\ pc \in {"configure", "put", "begin", "spawn", "gather", "complete",
             "unwind", "exited"}
  /\ uploadId \in {"none", "id"}
  /\ spawned \in 0 .. MaxJobs
  /\ worker \in [Parts -> WorkerStates]
  /\ extent \in [Parts -> Extents]
  /\ tryNum \in [Parts -> ETags]
  /\ etags \in [Parts -> ETags]
  /\ numRetriesG \in Nat
  /\ endSignature \in {"none", "fresh", "stale"}
  /\ manifest \in Seq(PartEntries)
  /\ exitCode \in {-1, 0, 1, Crashed}
  /\ printedETag \in BOOLEAN
  /\ printedError \in BOOLEAN
  /\ stored \in [PartNumbers -> [etag : ETags, extent : Extents]]
  /\ late \in [Parts -> SUBSET ETags]
  /\ object \in Seq(Extents)
  /\ faulty \in BOOLEAN

\* The object is never assembled with a gap, an overlap, a lost tail or its
\* parts out of order, whatever the threads' order and however often a part
\* was sent, answered, lost or late (the offsets and sizes of the spawning
\* loop, the numbering and order of the completion body).
NothingTorn == object # <<>> => IsWholeFile(object)

\* The completion body names part after part from the first, each with the
\* ETag of the attempt its thread ended with; only an older attempt of the
\* same part can have taken its place in the store (the futures' get() in
\* order, against retries and late data).
ManifestIsFinal ==
  \A k \in 1 .. Len(manifest) :
    /\ worker[k - 1] = "done"
    /\ manifest[k] = [etag |-> tryNum[k - 1], partNumber |-> k]
    /\ stored[k].etag \in 1 .. tryNum[k - 1]
    /\ stored[k].etag # tryNum[k - 1] =>
         stored[k].etag \notin late[k - 1] /\ stored[k].extent = extent[k - 1]

\* "Num retries" is the number of attempts beyond each part's first, over all
\* threads (the atomic counter and the recursion of UploadPart).
Retries == {a \in Parts \X ETags : a[2] > 1 /\ a[2] <= tryNum[a[1]]}
RetriesCounted == numRetriesG = Cardinality(Retries)

\* Main never returns under a thread that is still sending, and no thread is
\* cut off but by a crash (the futures of std::async wait in their destructor,
\* on every way out of main).
JoinedOnExit ==
  pc = "exited" /\ exitCode # Crashed =>
    \A i \in Parts : worker[i] \notin Running \cup {"killed"}

\* A failure is reported only when something failed: a bad argument, the
\* environment, or a completion request that waited for its parts so long
\* that its signature ran out.
FailureHasCause ==
  exitCode = 1 =>
    \/ config.jobs < 1
    \/ config.maxRetries < 1
    \/ faulty
    \/ endSignature = "stale"

\* What the caller of s3-upload can see.
Put == INSTANCE ObjectPut WITH
  object <- IF object = <<>> THEN "absent"
            ELSE IF IsWholeFile(object) THEN "whole" ELSE "torn",
  outcome <- IF exitCode = -1 THEN "pending"
             ELSE IF exitCode = 0 /\ printedETag THEN "success" ELSE "failure"

\* The upload writes the object whole or not at all, and an ETag on stdout
\* with status 0 is given only for a whole object (main against the promise
\* of ObjectPut).
ImplementsObjectPut == Put!Spec

\* The program ends, whatever fails: no get() waits for a thread that will
\* never answer, and the retries run out.
Termination == <>(pc = "exited")

\* Claimed by the code's own message "Error sending end upload request":
\* an error reported on stderr is a failure of the program.
ErrorMeansFailure == printedError => exitCode # 0

===============================================================================
