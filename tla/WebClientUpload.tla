---------------------------- MODULE WebClientUpload ----------------------------
(***************************************************************************)
(* The six ways to upload through one WebClient (src/src/webclient.cpp),   *)
(* called one after another, and the read callbacks through which libcurl  *)
(* pulls the body.  The bytes of the source, a file or memory, are told    *)
(* apart by their position.  libcurl asks a callback for what its buffer   *)
(* holds, but for no more than what is left of INFILESIZE: the uploads of  *)
(* a part rest on that, since ReadFile does not know where the part ends.  *)
(***************************************************************************)
EXTENDS Sequences, WebClientRequest

CONSTANTS
  MaxLength,    \* bound on the length of the source
  BufferSize,   \* how much libcurl asks a callback for
  PageSize,     \* mmap's unit of offsets
  MaxCalls      \* bound on the calls of Send, by uploads or plain

ASSUME BoundsAssumption == {MaxLength, BufferSize, PageSize, MaxCalls} \subseteq Nat \ {0}

FileKinds == {"file", "part", "unbuffered"}
MemoryKinds == {"buffer", "mapped"}
Kinds == {"plain", "data"} \cup FileKinds \cup MemoryKinds

FileReaders == {"fread", "ReadFile", "ReadFileUnbuffered"}
\* Reader reads the buffer of the object, or of one the client was moved from.
OwnReaders == {"Reader", "OldReader", "GoneReader"}
Readers == {"MemReader"} \cup OwnReaders \cup FileReaders

ForeignByte == -1
\* What a mapping shows between the end of the file and the end of its page.
Filler == -2

VARIABLES
  length,       \* the length of the source
  calls,        \* how many uploads have begun
  call,         \* the upload in hand: its kind, and the part that was asked for
  pc,           \* "idle", "reading", "returning" or "crashed"
  reader,       \* READFUNCTION, and what READDATA points to
  client,       \* the other options of the handle
  body,         \* what the request has sent
  ok,           \* what Send returns
  status,       \* what StatusCode tells: "none", "success" or "error"
  result        \* what the upload returned: "none", "true", "false", "threw"

uploadVars == <<length, calls, call, pc, reader, client, body, ok, status, result>>

Smaller(a, b) == IF a < b THEN a ELSE b

NoCall == [kind |-> "plain", offset |-> 0, size |-> 0]

\* The reader that Init installs.
OwnReader == [function |-> "Reader", base |-> 0, offset |-> 0, size |-> 0]

InitUpload ==
  /\ length \in 0 .. MaxLength
  /\ calls = 0
  /\ call = NoCall
  /\ pc = "idle"
  /\ reader = OwnReader
  /\ \E method \in Methods : client = Construct(method)
  /\ body = <<>>
  /\ ok = FALSE
  /\ status = "none"
  /\ result = "none"

-------------------------------------------------------------------------------
\* The calls.  Each sets the reader and the size, and sends.

\* What the last request did no longer matters.
ForgetSend == body' = <<>> /\ ok' = FALSE /\ status' = "none" /\ result' = "none"

Begin(kind, offset, size) ==
  /\ pc = "idle"
  /\ calls < MaxCalls
  /\ calls' = calls + 1
  /\ call' = [kind |-> kind, offset |-> offset, size |-> size]
  /\ ForgetSend
  /\ UNCHANGED length

Perform(size) == client' = SetMethod(client, Put, size) /\ pc' = "reading"

ReadFrom(function, base, offset, size) ==
  reader' = [function |-> function, base |-> base, offset |-> offset, size |-> size]

\* SetUploadData, SetMethod and Send.  READFUNCTION is what it was: only a
\* client that has uploaded nothing else still has Reader there.
UploadData ==
  /\ Begin("data", 0, length)
  /\ IF reader.function = "Reader" THEN ReadFrom("Reader", 0, 0, length) ELSE UNCHANGED reader
  /\ Perform(length)

\* A size of 0 is looked up.
UploadFile(fsize) ==
  LET size == IF fsize = 0 THEN length ELSE fsize
  IN  /\ Begin("file", 0, size)
      /\ ReadFrom("fread", 0, 0, size)
      /\ Perform(size)

\* Mutant: the part is left to libcurl's own reader, as a whole file is.
UploadFilePartPlain(offset, size) ==
  /\ Begin("part", offset, size)
  /\ ReadFrom("fread", 0, offset, size)
  /\ Perform(size)

UploadFilePart(offset, size) ==
  /\ Begin("part", offset, size)
  /\ ReadFrom("ReadFile", 0, offset, size)
  /\ Perform(size)

\* Mutant: the end of the part is announced for its size.
UploadFileUnbufferedToEnd(offset, size) ==
  /\ Begin("unbuffered", offset, size)
  /\ ReadFrom("ReadFileUnbuffered", 0, offset, size)
  /\ Perform(offset + size)

UploadFileUnbuffered(offset, size) ==
  /\ Begin("unbuffered", offset, size)
  /\ ReadFrom("ReadFileUnbuffered", 0, offset, size)
  /\ Perform(size)

UploadDataFromBuffer(offset, size) ==
  /\ offset + size <= length
  /\ Begin("buffer", offset, size)
  /\ ReadFrom("MemReader", 0, offset, size)
  /\ Perform(size)

\* The mapping begins at the offset; nobody asks where the file ends.
UploadFileMM(offset, size) ==
  /\ size > 0 /\ offset % PageSize = 0
  /\ Begin("mapped", offset, size)
  /\ ReadFrom("MemReader", offset, 0, size)
  /\ Perform(size)

\* The file cannot be opened, moved or mapped: the exception leaves the
\* options as they were.
CallThrows(kind) ==
  /\ pc = "idle"
  /\ calls < MaxCalls
  /\ calls' = calls + 1
  /\ call' = [kind |-> kind, offset |-> 0, size |-> 0]
  /\ body' = <<>> /\ ok' = FALSE /\ status' = "none" /\ result' = "threw"
  /\ UNCHANGED <<length, pc, reader, client>>

Call ==
  \/ UploadData
  \/ \E size \in 0 .. MaxLength :
       \/ UploadFile(size)
       \/ \E offset \in 0 .. MaxLength :
            \/ UploadFilePart(offset, size) \/ UploadFileUnbuffered(offset, size)
            \/ UploadDataFromBuffer(offset, size) \/ UploadFileMM(offset, size)
  \/ \E kind \in FileKinds \cup {"mapped"} : CallThrows(kind)

-------------------------------------------------------------------------------
\* The callbacks.

\* How much lies before the end that the callback sees.  MemReader counts its
\* end from where it stands, and so never gets closer to it.
Available(r) ==
  IF r.function = "MemReader" THEN r.size
  ELSE IF r.offset < length THEN length - r.offset ELSE 0

ByteAt(position) == IF position < length THEN position ELSE Filler

Bytes(r, n) == [k \in 1 .. n |-> ByteAt(r.base + r.offset + k - 1)]

\* Where the last page of the file ends: a mapping shows nothing beyond.
PagesEnd == ((length + PageSize - 1) \div PageSize) * PageSize

PastPages(n) == reader.base + reader.offset + n > PagesEnd

Advance(r, n) == [r EXCEPT !.offset = r.offset + n]

\* The callback of an earlier upload, whose file is closed or whose memory may
\* be gone, or one that reads another object's buffer.
IsStale == call.kind \in {"data", "plain"} /\ reader.function # "Reader"

\* How much libcurl means to send.
ToSend == IF client.kind = "PUT" THEN client.infileSize ELSE 0

\* How much comes when libcurl asks: read may give less than there is.
Given ==
  LET n == Smaller(Smaller(BufferSize, ToSend - Len(body)), Available(reader))
  IN  IF reader.function = "ReadFileUnbuffered" THEN 1 .. n ELSE {n} \ {0}

Pull ==
  /\ pc = "reading"
  /\ ~IsStale
  /\ \E n \in Given :
       /\ ~PastPages(n)
       /\ body' = body \o Bytes(reader, n) /\ reader' = Advance(reader, n)
  /\ UNCHANGED <<length, calls, call, pc, client, ok, status, result>>

\* MemReader touches a page of the mapping that has nothing of the file.
MappingFaults ==
  /\ pc = "reading"
  /\ ~IsStale
  /\ \E n \in Given : PastPages(n)
  /\ pc' = "crashed"
  /\ UNCHANGED <<length, calls, call, reader, client, body, ok, status, result>>

\* Whatever lies where the file, the memory or the buffer was, or the end of the
\* process.
PullStale ==
  /\ pc = "reading"
  /\ Len(body) < ToSend
  /\ IsStale
  /\ \/ body' = Append(body, ForeignByte) /\ UNCHANGED pc
     \/ reader.function # "OldReader" /\ pc' = "crashed" /\ UNCHANGED body
  /\ UNCHANGED <<length, calls, call, reader, client, ok, status, result>>

\* FOLLOWLOCATION: the body is sent again, from the beginning of the stream.
\* libcurl can rewind its own reader only.
Redirected ==
  /\ pc = "reading"
  /\ reader.function = "fread" /\ ~IsStale
  /\ body # <<>>
  /\ body' = <<>>
  /\ reader' = [reader EXCEPT !.offset = 0]
  /\ UNCHANGED <<length, calls, call, pc, client, ok, status, result>>

Return(sent) == ok' = sent /\ pc' = "returning"

\* The callback gives nothing, at the end of its data or after an error of the
\* file, the reader cannot be rewound, or the connection breaks.  Status takes
\* some send errors for success.
TransferFails ==
  /\ pc = "reading"
  /\ \E sent \in BOOLEAN : Return(sent)
  /\ status' = "none"
  /\ UNCHANGED <<length, calls, call, reader, client, body, result>>

\* The server may refuse a request before it has the body; libcurl then sends
\* no more, and that is no error to Send.
TransferDone ==
  /\ pc = "reading"
  /\ \/ Len(body) >= ToSend /\ status' = "success"
     \/ status' = "error"
  /\ Return(TRUE)
  /\ UNCHANGED <<length, calls, call, reader, client, body, result>>

\* The file is closed, or nobody looks after it; the memory may be freed.
LetGo(r) == IF r.function \in OwnReaders THEN r ELSE [OwnReader EXCEPT !.function = r.function]

\* Mutant: what Send returned is not looked at.
ReturnResultUnseen ==
  /\ pc = "returning"
  /\ pc' = "idle"
  /\ reader' = LetGo(reader)
  /\ result' = "true"
  /\ UNCHANGED <<length, calls, call, client, body, ok, status>>

\* The uploads that open a file throw when Send fails, the others return it.
ReturnResult ==
  /\ pc = "returning"
  /\ pc' = "idle"
  /\ reader' = LetGo(reader)
  /\ result' = IF ok THEN "true"
               ELSE IF call.kind \in FileKinds \cup {"mapped"} THEN "threw" ELSE "false"
  /\ UNCHANGED <<length, calls, call, client, body, ok, status>>

Transfer ==
  \/ Pull \/ MappingFaults \/ PullStale \/ Redirected
  \/ TransferFails \/ TransferDone \/ ReturnResult

-------------------------------------------------------------------------------
\* Properties.

UploadTypeOK ==
  /\ length \in 0 .. MaxLength
  /\ calls \in 0 .. MaxCalls
  /\ call \in [kind : Kinds, offset : 0 .. MaxLength, size : 0 .. MaxLength]
  /\ pc \in {"idle", "reading", "returning", "crashed"}
  /\ reader \in [function : Readers, base : Nat, offset : Nat, size : 0 .. MaxLength]
  /\ client.method \in Methods /\ client.infileSize \in -1 .. MaxLength
  /\ body \in Seq(Int)
  /\ pc = "reading" => Len(body) <= ToSend
  /\ ok \in BOOLEAN
  /\ status \in {"none", "success", "error"}
  /\ result \in {"none", "true", "false", "threw"}

\* Whatever was done with the client before, however libcurl cuts the body up
\* and however often it is redirected, each byte is the one that was asked for
\* (the offsets the callbacks keep, who may rewind, READDATA of an earlier
\* upload or of the object the client was moved from).  Where the part goes on
\* after the file has ended only a mapped upload sends anything, and that is
\* filler.  Only a Send without an upload of its own, after another kind of
\* upload or a move, reads what is not its own.
BodyIsPart ==
  ~IsStale =>
    \A k \in DOMAIN body :
      IF call.offset + k <= length THEN body[k] = call.offset + k - 1
      ELSE call.kind = "mapped" /\ body[k] = Filler

\* An upload that returns true, and is not answered by an error, has sent the
\* part from end to end and nothing else, unless the reader was stale, no
\* answer came and Status took the send error for success, or UploadFileMM was
\* given a part that goes on after the file has ended.
TrueMeansWhole ==
  result = "true" /\ status # "error" /\ ~IsStale =>
    \/ body = [k \in 1 .. call.size |-> call.offset + k - 1]
    \/ ok /\ status = "none"
    \/ call.kind = "mapped" /\ call.offset + call.size > length

================================================================================
