-------------------------- MODULE WebClientCallsProofs --------------------------
(***************************************************************************)
(* The calls of one WebClient, proved for every length of the source and   *)
(* of the buffers, and however many calls there are.                       *)
(***************************************************************************)
EXTENDS WebClientCalls, LibraryProofs

Datas == {NoData, PostText, Encoded, Foreign}

\* The options of the handle: an upload has given its size.
HandleInv ==
  /\ client \in Handles(Datas)
  /\ client.infileSize \in -1 .. MaxLength
  /\ client.kind = "PUT" => client.infileSize \in 0 .. MaxLength

EndsInside(r, c) ==
  \/ r.function # "MemReader" /\ r.base = 0
  \/ c.kind = "mapped" \/ c.offset + c.size <= length

\* Where the callback stands is where the body ends.  libcurl's own reader is
\* only used for files that are sent from their beginning, which is where it
\* goes back to; Reader stays inside the buffer, whoever used it before.  MemReader
\* counts on its caller for a part that ends where the source does, unless it
\* reads a mapping; the others look for themselves.
ReaderInv ==
  /\ reader.function = "Reader" => reader.base = 0 /\ reader.offset <= length
  /\ pc = "reading" /\ ~IsStale =>
       /\ reader.base + reader.offset = call.offset + Len(body)
       /\ reader.function = "fread" => reader.base = 0 /\ call.offset = 0
       /\ EndsInside(reader, call)

\* The handle sends as much as the call asked for, and all of it when the
\* server is content.
SendInv ==
  /\ pc \in {"reading", "returning"} => ToSend = call.size /\ result = "none"
  /\ pc = "reading" => status = "none" /\ Len(body) <= ToSend
  /\ result = "true" => ok
  /\ status = "success" /\ ~IsStale => Len(body) = call.size

UploadTypes ==
  /\ length \in 0 .. MaxLength
  /\ calls \in 0 .. MaxCalls
  /\ call \in [kind : Kinds, offset : 0 .. MaxLength, size : 0 .. MaxLength]
  /\ pc \in {"idle", "reading", "returning", "crashed"}
  /\ reader \in [function : Readers, base : Nat, offset : Nat, size : 0 .. MaxLength]
  /\ body \in Seq(Int)
  /\ ok \in BOOLEAN
  /\ status \in {"none", "success", "error"}
  /\ result \in {"none", "true", "false", "threw"}

UploadInv == UploadTypes /\ HandleInv /\ ReaderInv /\ SendInv /\ BodyIsPart

CallTypes ==
  /\ settings \in 0 .. MaxSettings
  /\ home \in {"own", "other", "gone"}
  /\ asked \in [method : MethodNames, heard : BOOLEAN, data : Datas, dataLast : BOOLEAN]
  /\ past \in SUBSET MethodNames

\* What the options still say of what was asked for: the data for the next
\* POST, until a move; data given last; a method that was heard; and that the
\* handle was never given but GET or DELETE.
AskedInv ==
  /\ home = "own" /\ asked.data # PostText => client.urlEncoded = asked.data
  /\ asked.dataLast =>
       client.kind = "POST" /\ client.fieldsIn = "copy" /\ client.postFields = asked.data
  /\ asked.heard =>
       /\ asked.method # "GET" => client.customRequest = asked.method
       /\ ~asked.dataLast /\ asked.method # "DELETE" => client.kind = asked.method
       /\ asked.method = "POST" /\ ~asked.dataLast /\ home = "own" /\ asked.data # PostText =>
            client.postFields = asked.data
  /\ past \subseteq {"GET", "DELETE"} =>
       client.kind = "GET" /\ client.customRequest \in {"none", "DELETE"}
  /\ past \subseteq {"GET"} => client.customRequest = "none"

CallsInv == UploadInv /\ CallTypes /\ AskedInv

LEMMA NoCallType == NoCall \in [kind : Kinds, offset : 0 .. MaxLength, size : 0 .. MaxLength]
<1>1. "plain" \in Kinds /\ 0 \in 0 .. MaxLength
  BY BoundsAssumption DEF Kinds
<1> QED
  BY <1>1 DEF NoCall

-------------------------------------------------------------------------------
\* The initial states.

LEMMA InitInv == Init => CallsInv
<1> SUFFICES ASSUME Init PROVE CallsInv
  OBVIOUS
<1>1. PICK method \in Methods : client = Construct(method)
  BY DEF Init, InitUpload
<1>2. method.name \in MethodNames /\ NoData \in Datas
  BY DEF Methods, Datas
<1>3. /\ client \in Handles(Datas)
      /\ client.method = ToUpper(method)
      /\ client.kind = IF method.name = "DELETE" THEN "GET" ELSE method.name
      /\ client.customRequest = IF method.name = "GET" THEN "none" ELSE method.name
      /\ client.infileSize = IF method.name = "PUT" THEN 0 ELSE -1
      /\ client.urlEncoded = NoData /\ client.postFields = NoData
  BY <1>1, <1>2, ConstructGives
<1>4. client.method.name = method.name
  BY <1>3, UpperMethod
<1>5. MaxLength \in Nat /\ MaxCalls \in Nat /\ MaxSettings \in Nat
  BY BoundsAssumption, SettingsAssumption
<1>6. UploadTypes
  <2>1. call \in [kind : Kinds, offset : 0 .. MaxLength, size : 0 .. MaxLength]
    BY <1>5, NoCallType DEF Init, InitUpload
  <2>2. reader \in [function : Readers, base : Nat, offset : Nat, size : 0 .. MaxLength]
    BY <1>5 DEF Init, InitUpload, OwnReader, Readers, OwnReaders
  <2>3. calls \in 0 .. MaxCalls
    BY <1>5 DEF Init, InitUpload
  <2>4. ok \in BOOLEAN
    BY DEF Init, InitUpload
  <2>5. body \in Seq(Int)
    BY DEF Init, InitUpload
  <2> QED
    BY <2>1, <2>2, <2>3, <2>4, <2>5 DEF Init, InitUpload, UploadTypes
<1>7. HandleInv
  BY <1>3, <1>5 DEF HandleInv, MethodNames
<1>8. ReaderInv /\ SendInv /\ BodyIsPart
  BY <1>6 DEF Init, InitUpload, ReaderInv, SendInv, BodyIsPart, OwnReader, UploadTypes
<1>9. CallTypes
  BY <1>2, <1>4, <1>5 DEF Init, CallTypes
<1>10. AskedInv
  BY <1>2, <1>3, <1>4 DEF Init, AskedInv, MethodNames
<1> QED
  BY <1>6, <1>7, <1>8, <1>9, <1>10 DEF CallsInv, UploadInv

-------------------------------------------------------------------------------
\* Between two calls.

\* Nothing is being sent, and the options are a handle's: what is left of the
\* last upload says nothing more.
LEMMA NothingSent ==
  ASSUME UploadInv, BetweenCalls, HandleInv',
         reader' \in [function : Readers, base : Nat, offset : Nat, size : 0 .. MaxLength],
         reader'.base = reader.base, reader'.offset = reader.offset,
         reader'.function = "Reader" => reader.function = "Reader"
  PROVE  UploadInv'
<1> USE DEF BetweenCalls, ForgetSend, UploadInv
<1>1. UploadTypes'
  <2>1. call' \in [kind : Kinds, offset : 0 .. MaxLength, size : 0 .. MaxLength]
    BY NoCallType
  <2>2. /\ length' \in 0 .. MaxLength /\ calls' \in 0 .. MaxCalls
        /\ pc' \in {"idle", "reading", "returning", "crashed"}
        /\ ok' \in BOOLEAN
        /\ status' \in {"none", "success", "error"}
        /\ result' \in {"none", "true", "false", "threw"}
    BY DEF UploadTypes
  <2>3. body' \in Seq(Int)
    OBVIOUS
  <2> QED
    BY <2>1, <2>2, <2>3 DEF UploadTypes
<1>2. ReaderInv'
  BY DEF ReaderInv, UploadTypes
<1>3. SendInv'
  BY DEF SendInv, NoCall
<1>4. BodyIsPart'
  BY DEF BodyIsPart
<1> QED
  BY <1>1, <1>2, <1>3, <1>4

-------------------------------------------------------------------------------
\* A call begins.

ReaderTypes == [function : Readers, base : Nat, offset : Nat, size : 0 .. MaxLength]

\* What every upload does to the handle.
LEMMA PerformGives ==
  ASSUME HandleInv, NEW size \in 0 .. MaxLength, Perform(size)
  PROVE  /\ HandleInv'
         /\ ToSend' = size
         /\ client'.kind = "PUT" /\ client'.customRequest = "PUT"
         /\ client'.urlEncoded = client.urlEncoded
         /\ pc' = "reading"
<1>1. Put \in Methods /\ Put.name = "PUT" /\ size \in Int /\ MaxLength \in Nat
  BY BoundsAssumption DEF Put, Methods, MethodNames
<1>2. ~Unheard(Put)
  BY <1>1 DEF Unheard
<1>3. client \in Handles(Datas) /\ client' = SetMethod(client, Put, size)
  BY DEF HandleInv, Perform
<1>4. /\ client' \in Handles(Datas)
      /\ client'.kind = "PUT" /\ client'.customRequest = "PUT" /\ client'.infileSize = size
      /\ client'.urlEncoded = client.urlEncoded
  BY <1>1, <1>2, <1>3, SetMethodGives
<1> QED
  BY <1>1, <1>4 DEF HandleInv, ToSend, Perform

LEMMA ReadFromGives ==
  ASSUME NEW function \in Readers, NEW base \in Nat, NEW offset \in Nat,
         NEW size \in 0 .. MaxLength, ReadFrom(function, base, offset, size)
  PROVE  /\ reader' \in ReaderTypes
         /\ reader'.function = function /\ reader'.base = base /\ reader'.offset = offset
BY DEF ReadFrom, ReaderTypes

\* A send begins right when its reader, unless it is stale, stands at the part.
LEMMA Begins ==
  ASSUME UploadInv, HandleInv',
         NEW kind \in Kinds, NEW offset \in 0 .. MaxLength, NEW size \in 0 .. MaxLength,
         Begin(kind, offset, size), pc' = "reading",
         ToSend' = size,
         reader' \in ReaderTypes,
         reader'.function = "Reader" => reader'.base = 0 /\ reader'.offset <= length,
         ~(kind \in {"data", "plain"} /\ reader'.function # "Reader") =>
            /\ reader'.base + reader'.offset = offset
            /\ reader'.function = "fread" => reader'.base = 0 /\ offset = 0
            /\ \/ reader'.function # "MemReader" /\ reader'.base = 0
               \/ kind = "mapped" \/ offset + size <= length
  PROVE  UploadInv'
<1>1. /\ calls < MaxCalls /\ calls' = calls + 1
      /\ call' = [kind |-> kind, offset |-> offset, size |-> size]
      /\ body' = <<>> /\ ok' = FALSE /\ status' = "none" /\ result' = "none"
      /\ length' = length
  BY DEF Begin, ForgetSend
<1>2. call'.kind = kind /\ call'.offset = offset /\ call'.size = size
  BY <1>1
<1>3. Len(body') = 0 /\ body' \in Seq(Int)
  BY <1>1
<1>4. UploadTypes'
  <2>1. call' \in [kind : Kinds, offset : 0 .. MaxLength, size : 0 .. MaxLength]
    BY <1>1
  <2>2. calls' \in 0 .. MaxCalls
    BY <1>1, BoundsAssumption DEF UploadInv, UploadTypes
  <2>3. ok' \in BOOLEAN
    BY <1>1
  <2> QED
    BY <1>1, <1>3, <2>1, <2>2, <2>3 DEF UploadInv, UploadTypes, ReaderTypes
<1>5. IsStale' <=> kind \in {"data", "plain"} /\ reader'.function # "Reader"
  BY <1>2 DEF IsStale
<1>6. ReaderInv'
  <2>1. ~IsStale' => EndsInside(reader, call)'
    BY <1>1, <1>2, <1>5 DEF EndsInside
  <2> QED
    BY <1>1, <1>2, <1>3, <1>5, <2>1 DEF ReaderInv, ReaderTypes
<1>7. SendInv'
  BY <1>1, <1>2, <1>3 DEF SendInv
<1>8. BodyIsPart'
  BY <1>1 DEF BodyIsPart
<1> QED
  BY <1>4, <1>6, <1>7, <1>8 DEF UploadInv

LEMMA UploadBegins ==
  ASSUME UploadInv, Call, pc' = "reading"
  PROVE  UploadInv' /\ \E size \in 0 .. MaxLength : Perform(size)
<1>1. HandleInv /\ UploadTypes /\ MaxLength \in Nat
  BY BoundsAssumption DEF UploadInv
<1>2. 0 \in 0 .. MaxLength /\ length \in 0 .. MaxLength
  BY <1>1 DEF UploadTypes
<1>3. CASE UploadData
  <2>1. Perform(length) /\ Begin("data", 0, length)
    BY <1>3 DEF UploadData
  <2>2. HandleInv' /\ ToSend' = length
    BY <1>1, <1>2, <2>1, PerformGives
  <2>3. /\ reader' \in ReaderTypes
        /\ reader'.function = "Reader" => reader'.base = 0 /\ reader'.offset = 0
    <3>1. CASE reader.function = "Reader"
      <4>1. ReadFrom("Reader", 0, 0, length)
        BY <1>3, <3>1 DEF UploadData
      <4> QED
        BY <1>2, <4>1, ReadFromGives DEF Readers, OwnReaders
    <3>2. CASE reader.function # "Reader"
      BY <1>1, <1>3, <3>2 DEF UploadData, UploadTypes, ReaderTypes
    <3> QED
      BY <3>1, <3>2
  <2>4. "data" \in Kinds
    BY DEF Kinds
  <2>5. UploadInv'
    BY <1>1, <1>2, <2>1, <2>2, <2>3, <2>4, Begins
  <2> QED
    BY <1>2, <2>1, <2>5
<1>4. ASSUME NEW s \in 0 .. MaxLength, UploadFile(s)
      PROVE  UploadInv' /\ \E size \in 0 .. MaxLength : Perform(size)
  <2>1. PICK size : size = IF s = 0 THEN length ELSE s
    OBVIOUS
  <2>2. size \in 0 .. MaxLength
    BY <1>2, <2>1
  <2>3. Begin("file", 0, size) /\ ReadFrom("fread", 0, 0, size) /\ Perform(size)
    BY <1>4, <2>1 DEF UploadFile
  <2>4. HandleInv' /\ ToSend' = size
    BY <1>1, <2>2, <2>3, PerformGives
  <2>5. "file" \in Kinds /\ "fread" \in Readers
    BY DEF Kinds, FileKinds, Readers, FileReaders
  <2>6. reader' \in ReaderTypes /\ reader'.function = "fread" /\ reader'.base = 0 /\ reader'.offset = 0
    BY <2>2, <2>3, <2>5, ReadFromGives
  <2>7. UploadInv'
    BY <1>2, <2>2, <2>3, <2>4, <2>5, <2>6, Begins
  <2> QED
    BY <2>2, <2>3, <2>7
<1>5. ASSUME NEW size \in 0 .. MaxLength, NEW offset \in 0 .. MaxLength, NEW kind \in Kinds,
             NEW function \in Readers \ {"Reader", "fread"}, kind \notin {"data", "plain"},
             NEW base \in Nat, NEW start \in Nat, base + start = offset,
             \/ function # "MemReader" /\ base = 0
             \/ kind = "mapped" \/ offset + size <= length,
             Begin(kind, offset, size), ReadFrom(function, base, start, size), Perform(size)
      PROVE  UploadInv' /\ \E n \in 0 .. MaxLength : Perform(n)
  <2>1. HandleInv' /\ ToSend' = size
    BY <1>1, <1>5, PerformGives
  <2>2. reader' \in ReaderTypes /\ reader'.function = function /\ reader'.base = base /\ reader'.offset = start
    BY <1>5, ReadFromGives
  <2>3. UploadInv'
    BY <1>2, <1>5, <2>1, <2>2, Begins
  <2> QED
    BY <1>5, <2>3
<1>6. ASSUME NEW size \in 0 .. MaxLength, NEW offset \in 0 .. MaxLength,
             \/ UploadFilePart(offset, size) \/ UploadFileUnbuffered(offset, size)
             \/ UploadDataFromBuffer(offset, size) \/ UploadFileMM(offset, size)
      PROVE  UploadInv' /\ \E n \in 0 .. MaxLength : Perform(n)
  <2>1. {"part", "unbuffered", "buffer", "mapped"} \subseteq Kinds \ {"data", "plain"}
    BY DEF Kinds, FileKinds, MemoryKinds
  <2>2. {"ReadFile", "ReadFileUnbuffered", "MemReader"} \subseteq Readers \ {"Reader", "fread"}
    BY DEF Readers, FileReaders
  <2>3. offset \in Nat /\ 0 \in Nat /\ 0 + offset = offset /\ offset + 0 = offset
    BY <1>1
  <2>4. CASE UploadFilePart(offset, size)
    BY <1>5, <2>1, <2>2, <2>3, <2>4 DEF UploadFilePart
  <2>5. CASE UploadFileUnbuffered(offset, size)
    BY <1>5, <2>1, <2>2, <2>3, <2>5 DEF UploadFileUnbuffered
  <2>6. CASE UploadDataFromBuffer(offset, size)
    BY <1>5, <2>1, <2>2, <2>3, <2>6 DEF UploadDataFromBuffer
  <2>7. CASE UploadFileMM(offset, size)
    BY <1>5, <2>1, <2>2, <2>3, <2>7 DEF UploadFileMM
  <2> QED
    BY <1>6, <2>4, <2>5, <2>6, <2>7
<1>7. \A kind : ~CallThrows(kind)
  BY DEF CallThrows
<1> QED
  BY <1>3, <1>4, <1>6, <1>7 DEF Call

-------------------------------------------------------------------------------
\* The transfer.

LEMMA BytesGive ==
  ASSUME NEW r \in ReaderTypes, NEW n \in Nat
  PROVE  /\ Bytes(r, n) \in Seq(Int) /\ Len(Bytes(r, n)) = n
         /\ \A k \in 1 .. n : Bytes(r, n)[k] = ByteAt(r.base + r.offset + k - 1)
<1>1. r.base \in Nat /\ r.offset \in Nat
  BY DEF ReaderTypes
<1>2. \A k \in 1 .. n : ByteAt(r.base + r.offset + k - 1) \in Int
  BY <1>1 DEF ByteAt, Filler
<1> QED
  BY <1>2 DEF Bytes

LEMMA AdvanceGives ==
  ASSUME NEW r \in ReaderTypes, NEW n \in Nat
  PROVE  /\ Advance(r, n) \in ReaderTypes
         /\ Advance(r, n).function = r.function /\ Advance(r, n).base = r.base
         /\ Advance(r, n).offset = r.offset + n
BY DEF Advance, ReaderTypes

LEMMA GivenBounds ==
  ASSUME UploadInv, pc = "reading", NEW n \in Given
  PROVE  /\ n \in Nat /\ n <= ToSend - Len(body)
         /\ reader.function # "MemReader" => reader.offset + n <= length
<1>1. /\ length \in Nat /\ reader.offset \in Nat /\ reader.size \in Nat
      /\ Len(body) \in Nat /\ BufferSize \in Nat
  BY BoundsAssumption DEF UploadInv, UploadTypes
<1>2. ToSend \in Int /\ Len(body) <= ToSend
  BY <1>1, BoundsAssumption DEF UploadInv, SendInv, HandleInv, ToSend
<1>4. /\ Available(reader) \in Nat
      /\ reader.function # "MemReader" /\ Available(reader) > 0 =>
           Available(reader) <= length - reader.offset
  BY <1>1 DEF Available
<1>5. PICK a : a = Available(reader)
  OBVIOUS
<1>6. PICK s : s = ToSend - Len(body)
  OBVIOUS
<1>7. PICK m : m = Smaller(Smaller(BufferSize, s), a)
  OBVIOUS
<1>8. m \in Nat /\ m <= s /\ m <= a
  BY <1>1, <1>2, <1>4, <1>5, <1>6, <1>7 DEF Smaller
<1>9. n \in Nat /\ 0 < n /\ n <= m
  BY <1>5, <1>6, <1>7, <1>8 DEF Given
<1> QED
  BY <1>1, <1>2, <1>4, <1>5, <1>6, <1>8, <1>9

LEMMA PullInv == UploadInv /\ Pull => UploadInv'
<1> SUFFICES ASSUME UploadInv, Pull PROVE UploadInv'
  OBVIOUS
<1>1. /\ pc = "reading" /\ ~IsStale
      /\ UNCHANGED <<length, calls, call, pc, client, ok, status, result>>
  BY DEF Pull
<1>2. PICK n \in Given : body' = body \o Bytes(reader, n) /\ reader' = Advance(reader, n)
  BY DEF Pull
<1>3. /\ n \in Nat /\ n <= ToSend - Len(body)
      /\ reader.function # "MemReader" => reader.offset + n <= length
  BY <1>1, GivenBounds
<1>4. reader \in ReaderTypes /\ body \in Seq(Int) /\ Len(body) \in Nat
  BY DEF UploadInv, UploadTypes, ReaderTypes
<1>5. PICK b : b = Bytes(reader, n)
  OBVIOUS
<1>6. b \in Seq(Int) /\ Len(b) = n /\ \A k \in 1 .. n : b[k] = ByteAt(reader.base + reader.offset + k - 1)
  BY <1>3, <1>4, <1>5, BytesGive
<1>7. body' \in Seq(Int) /\ Len(body') = Len(body) + n
  BY <1>2, <1>4, <1>5, <1>6
<1>8. /\ reader' \in ReaderTypes
      /\ reader'.function = reader.function /\ reader'.base = reader.base
      /\ reader'.offset = reader.offset + n
  BY <1>2, <1>3, <1>4, AdvanceGives
<1>9. reader.base \in Nat /\ reader.offset \in Nat /\ call.offset \in Nat
  BY <1>4 DEF ReaderTypes, UploadInv, UploadTypes
<1>10. reader.base + reader.offset = call.offset + Len(body)
  BY <1>1 DEF UploadInv, ReaderInv
<1>11. ToSend' = ToSend /\ (IsStale' <=> IsStale) /\ HandleInv'
  BY <1>1, <1>8 DEF ToSend, IsStale, UploadInv, HandleInv
<1>12. ToSend \in Int
  BY BoundsAssumption DEF ToSend, UploadInv, HandleInv
<1>13. UploadTypes'
  BY <1>1, <1>7, <1>8 DEF UploadInv, UploadTypes, ReaderTypes
<1>14. ReaderInv'
  <2>1. reader'.function = "Reader" => reader'.base = 0 /\ reader'.offset <= length'
    BY <1>1, <1>3, <1>8 DEF UploadInv, ReaderInv
  <2>2. reader'.base + reader'.offset = call'.offset + Len(body')
    <3>1. reader'.base + reader'.offset = reader.base + (reader.offset + n)
      BY <1>8
    <3>2. call'.offset + Len(body') = call.offset + (Len(body) + n)
      BY <1>1, <1>7
    <3>3. reader.base + (reader.offset + n) = (reader.base + reader.offset) + n
      BY <1>3, <1>9
    <3>4. call.offset + (Len(body) + n) = (call.offset + Len(body)) + n
      BY <1>3, <1>4, <1>9
    <3> QED
      BY <1>10, <3>1, <3>2, <3>3, <3>4
  <2>3. reader'.function = "fread" => reader'.base = 0 /\ call'.offset = 0
    BY <1>1, <1>8 DEF UploadInv, ReaderInv
  <2>4. ~IsStale' => EndsInside(reader, call)'
    BY <1>1, <1>8 DEF UploadInv, ReaderInv, EndsInside
  <2> QED
    BY <2>1, <2>2, <2>3, <2>4 DEF ReaderInv
<1>15. SendInv'
  BY <1>1, <1>3, <1>4, <1>7, <1>11, <1>12 DEF UploadInv, SendInv
<1>16. BodyIsPart'
  <2>1. ASSUME NEW k \in 1 .. Len(body) + n
        PROVE  IF call.offset + k <= length THEN body'[k] = call.offset + k - 1
               ELSE call.kind = "mapped" /\ body'[k] = Filler
    <3>1. CASE k \in 1 .. Len(body)
      <4>1. body'[k] = body[k] /\ k \in DOMAIN body
        BY <1>2, <1>4, <1>5, <1>6, <3>1
      <4> QED
        BY <1>1, <4>1 DEF UploadInv, BodyIsPart
    <3>2. CASE k \notin 1 .. Len(body)
      <4>1. k - Len(body) \in 1 .. n /\ body'[k] = b[k - Len(body)]
        BY <1>2, <1>3, <1>4, <1>5, <1>6, <2>1, <3>2
      <4>2. reader.base + reader.offset + (k - Len(body)) - 1 = call.offset + k - 1
        BY <1>4, <1>9, <1>10
      <4>3. body'[k] = ByteAt(call.offset + k - 1)
        BY <1>6, <4>1, <4>2
      <4>4. length \in Nat /\ call.size \in Nat /\ k \in Nat
        BY <1>4, <1>3 DEF UploadInv, UploadTypes
      <4>5. call.kind = "mapped" \/ call.offset + k <= length
        <5>1. CASE reader.function # "MemReader" /\ reader.base = 0
          BY <1>3, <1>4, <1>9, <1>10, <4>4, <5>1
        <5>2. CASE call.offset + call.size <= length
          <6>1. ToSend = call.size
            BY <1>1 DEF UploadInv, SendInv
          <6> QED
            BY <1>3, <1>4, <1>9, <4>4, <5>2, <6>1
        <5> QED
          BY <1>1, <5>1, <5>2 DEF UploadInv, ReaderInv, EndsInside
      <4>6. call.offset + k <= length <=> call.offset + k - 1 < length
        BY <1>9, <4>4
      <4> QED
        BY <4>3, <4>5, <4>6 DEF ByteAt
    <3> QED
      BY <3>1, <3>2
  <2>2. DOMAIN body' = 1 .. Len(body) + n
    BY <1>7
  <2> QED
    BY <1>1, <2>1, <2>2 DEF BodyIsPart
<1> QED
  BY <1>11, <1>13, <1>14, <1>15, <1>16 DEF UploadInv

LEMMA MappingFaultsInv == UploadInv /\ MappingFaults => UploadInv'
<1> SUFFICES ASSUME UploadInv, MappingFaults PROVE UploadInv'
  OBVIOUS
<1>1. /\ pc' = "crashed"
      /\ UNCHANGED <<length, calls, call, reader, client, body, ok, status, result>>
  BY DEF MappingFaults
<1>2. (IsStale' <=> IsStale) /\ HandleInv'
  BY <1>1 DEF IsStale, UploadInv, HandleInv
<1>3. UploadTypes'
  BY <1>1 DEF UploadInv, UploadTypes
<1>4. ReaderInv' /\ SendInv' /\ BodyIsPart'
  BY <1>1, <1>2 DEF UploadInv, ReaderInv, SendInv, BodyIsPart
<1> QED
  BY <1>2, <1>3, <1>4 DEF UploadInv

LEMMA PullStaleInv == UploadInv /\ PullStale => UploadInv'
<1> SUFFICES ASSUME UploadInv, PullStale PROVE UploadInv'
  OBVIOUS
<1>1. /\ pc = "reading" /\ IsStale /\ Len(body) < ToSend
      /\ UNCHANGED <<length, calls, call, reader, client, ok, status, result>>
      /\ body' = Append(body, ForeignByte) \/ body' = body
      /\ pc' \in {pc, "crashed"}
  BY DEF PullStale
<1>2. body' \in Seq(Int) /\ Len(body') <= Len(body) + 1 /\ Len(body) \in Nat /\ Len(body') \in Nat
  <2>1. body \in Seq(Int) /\ ForeignByte \in Int
    BY DEF UploadInv, UploadTypes, ForeignByte
  <2>2. CASE body' = Append(body, ForeignByte)
    BY <2>1, <2>2
  <2>3. CASE body' = body
    BY <2>1, <2>3
  <2> QED
    BY <1>1, <2>2, <2>3
<1>3. ToSend' = ToSend /\ IsStale' /\ HandleInv' /\ ToSend \in Int
  BY <1>1, BoundsAssumption DEF ToSend, IsStale, UploadInv, HandleInv
<1>4. UploadTypes'
  BY <1>1, <1>2 DEF UploadInv, UploadTypes
<1>5. ReaderInv'
  BY <1>1, <1>3 DEF UploadInv, ReaderInv
<1>6. SendInv'
  BY <1>1, <1>2, <1>3 DEF UploadInv, SendInv
<1>7. BodyIsPart'
  BY <1>3 DEF BodyIsPart
<1> QED
  BY <1>3, <1>4, <1>5, <1>6, <1>7 DEF UploadInv

LEMMA RedirectedInv == UploadInv /\ Redirected => UploadInv'
<1> SUFFICES ASSUME UploadInv, Redirected PROVE UploadInv'
  OBVIOUS
<1>1. /\ pc = "reading" /\ reader.function = "fread" /\ ~IsStale
      /\ body' = <<>> /\ reader' = [reader EXCEPT !.offset = 0]
      /\ UNCHANGED <<length, calls, call, pc, client, ok, status, result>>
  BY DEF Redirected
<1>2. reader \in ReaderTypes
  BY DEF UploadInv, UploadTypes, ReaderTypes
<1>3. /\ reader' \in ReaderTypes /\ reader'.function = "fread"
      /\ reader'.base = reader.base /\ reader'.offset = 0
  BY <1>1, <1>2 DEF ReaderTypes
<1>4. body' \in Seq(Int) /\ Len(body') = 0
  BY <1>1
<1>5. ToSend' = ToSend /\ (IsStale' <=> IsStale) /\ HandleInv'
  BY <1>1, <1>3 DEF ToSend, IsStale, UploadInv, HandleInv
<1>6. UploadTypes'
  BY <1>1, <1>3, <1>4 DEF UploadInv, UploadTypes, ReaderTypes
<1>7. ReaderInv'
  BY <1>1, <1>3, <1>4, <1>5 DEF UploadInv, ReaderInv, EndsInside
<1>8. SendInv'
  <2>1. ToSend >= 0
    BY <1>1, BoundsAssumption DEF UploadInv, UploadTypes, SendInv
  <2> QED
    BY <1>1, <1>4, <1>5, <2>1 DEF UploadInv, SendInv
<1>9. BodyIsPart'
  BY <1>1 DEF BodyIsPart
<1> QED
  BY <1>5, <1>6, <1>7, <1>8, <1>9 DEF UploadInv

\* An answer, or none: nothing more is read.
LEMMA AnswerInv ==
  ASSUME UploadInv, TransferFails \/ TransferDone
  PROVE  UploadInv'
<1>1. /\ pc = "reading" /\ pc' = "returning"
      /\ status' \in {"none", "success", "error"}
      /\ status' = "success" => Len(body) >= ToSend
      /\ UNCHANGED <<length, calls, call, reader, client, body, result>>
  BY DEF TransferFails, TransferDone, Return
<1>2. ok' \in BOOLEAN
  BY Zenon DEF TransferFails, TransferDone, Return
<1>3. ToSend' = ToSend /\ (IsStale' <=> IsStale) /\ HandleInv' /\ ToSend \in Int
  BY <1>1, BoundsAssumption DEF ToSend, IsStale, UploadInv, HandleInv
<1>4. Len(body) \in Nat
  BY DEF UploadInv, UploadTypes
<1>5. UploadTypes'
  BY <1>1, <1>2 DEF UploadInv, UploadTypes
<1>6. ReaderInv'
  BY <1>1 DEF UploadInv, ReaderInv
<1>7. SendInv'
  BY <1>1, <1>3, <1>4 DEF UploadInv, SendInv
<1>8. BodyIsPart'
  BY <1>1, <1>3 DEF UploadInv, BodyIsPart
<1> QED
  BY <1>3, <1>5, <1>6, <1>7, <1>8 DEF UploadInv

LEMMA ReturnResultInv == UploadInv /\ ReturnResult => UploadInv'
<1> SUFFICES ASSUME UploadInv, ReturnResult PROVE UploadInv'
  OBVIOUS
<1>1. /\ pc = "returning" /\ pc' = "idle"
      /\ reader' = LetGo(reader)
      /\ result' \in {"true", "false", "threw"}
      /\ result' = "true" => ok
      /\ UNCHANGED <<length, calls, call, client, body, ok, status>>
  BY DEF ReturnResult
<1>2. reader \in ReaderTypes
  BY DEF UploadInv, UploadTypes, ReaderTypes
<1>3. /\ reader' \in ReaderTypes /\ reader'.function = reader.function
      /\ reader.function = "Reader" => reader' = reader
  BY <1>1, <1>2, BoundsAssumption DEF LetGo, OwnReader, OwnReaders, ReaderTypes
<1>4. (IsStale' <=> IsStale) /\ HandleInv'
  BY <1>1, <1>3 DEF IsStale, UploadInv, HandleInv
<1>5. UploadTypes'
  BY <1>1, <1>3 DEF UploadInv, UploadTypes, ReaderTypes
<1>6. ReaderInv'
  BY <1>1, <1>3 DEF UploadInv, ReaderInv
<1>7. SendInv'
  BY <1>1, <1>4 DEF UploadInv, SendInv
<1>8. BodyIsPart'
  BY <1>1, <1>4 DEF UploadInv, BodyIsPart
<1> QED
  BY <1>4, <1>5, <1>6, <1>7, <1>8 DEF UploadInv

-------------------------------------------------------------------------------
\* The setters, the move and the plain Send.

\* What a setter may do to the size of the last upload.
LEMMA HandleStays ==
  ASSUME HandleInv, client' \in Handles(Datas),
         \/ client'.infileSize = client.infileSize
            /\ (client'.kind = "PUT" => client.kind = "PUT")
         \/ client'.infileSize \in 0 .. MaxLength
  PROVE  HandleInv'
BY BoundsAssumption DEF HandleInv

Settings ==
  \/ \E method \in Methods : CallSetMethod(method)
  \/ CallSetPostData \/ CallSetUrlEncodedPostData
  \/ Move \/ DestroyOther

LEMMA SettingsInv == UploadInv /\ Settings => UploadInv'
<1> SUFFICES ASSUME UploadInv, Settings PROVE UploadInv'
  OBVIOUS
<1>1. BetweenCalls
  BY DEF Settings, CallSetMethod, CallSetPostData, CallSetUrlEncodedPostData, Move, DestroyOther,
         Setting
<1>2. HandleInv'
  <2>1. HandleInv /\ client \in Handles(Datas) /\ 0 \in 0 .. MaxLength
    BY BoundsAssumption DEF UploadInv, HandleInv
  <2>2. NoData \in Datas /\ PostText \in Datas /\ Encoded \in Datas /\ Foreign \in Datas
    BY DEF Datas
  <2>3. ASSUME NEW method \in Methods, CallSetMethod(method) PROVE HandleInv'
    <3>1. client' = SetMethod(client, method, 0)
      BY <2>3 DEF CallSetMethod
    <3>2. /\ client' \in Handles(Datas)
          /\ client'.kind = IF Unheard(method) \/ method.name = "DELETE" THEN client.kind
                            ELSE method.name
          /\ client'.infileSize = IF method.name = "PUT" THEN 0 ELSE client.infileSize
      BY <2>1, <3>1, SetMethodGives
    <3> QED
      BY <2>1, <3>2, HandleStays
  <2>4. CASE CallSetPostData
    <3>1. client' = SetPostData(client, PostText)
      BY <2>4 DEF CallSetPostData
    <3>2. client' \in Handles(Datas) /\ client'.infileSize = client.infileSize /\ client'.kind = "POST"
      BY <2>1, <2>2, <3>1 DEF SetPostData, CopyPostFields, PostFields, Handles
    <3> QED
      BY <2>1, <3>2, HandleStays
  <2>5. CASE CallSetUrlEncodedPostData
    <3>1. client' = SetUrlEncodedPostData(client, Encoded)
      BY <2>5 DEF CallSetUrlEncodedPostData
    <3>2. client' \in Handles(Datas) /\ client'.infileSize = client.infileSize /\ client'.kind = "POST"
      BY <2>1, <2>2, <3>1 DEF SetUrlEncodedPostData, CopyPostFields, PostFields, Handles
    <3> QED
      BY <2>1, <3>2, HandleStays
  <2>6. CASE Move
    <3>1. client' = [client EXCEPT !.urlEncoded = NoData,
                                   !.fieldsIn = IF @ = "object" THEN "other" ELSE @]
      BY <2>6 DEF Move
    <3>2. /\ client' \in Handles(Datas)
          /\ client'.infileSize = client.infileSize /\ client'.kind = client.kind
      BY <2>1, <2>2, <3>1 DEF Handles
    <3> QED
      BY <2>1, <3>2, HandleStays
  <2>7. CASE DestroyOther
    <3>1. client' = [client EXCEPT !.postFields =
                       IF client.fieldsIn = "other" /\ @ # NoData THEN Foreign ELSE @]
      BY <2>7 DEF DestroyOther
    <3>2. /\ client' \in Handles(Datas)
          /\ client'.infileSize = client.infileSize /\ client'.kind = client.kind
      BY <2>1, <2>2, <3>1 DEF Handles
    <3> QED
      BY <2>1, <3>2, HandleStays
  <2> QED
    BY <2>3, <2>4, <2>5, <2>6, <2>7 DEF Settings
<1>3. reader \in ReaderTypes
  BY DEF UploadInv, UploadTypes, ReaderTypes
<1>4. {"OldReader", "GoneReader"} \subseteq Readers
  BY DEF Readers, OwnReaders
<1>5. CASE Move
  <2>1. reader' = [reader EXCEPT !.function = IF @ = "Reader" THEN "OldReader" ELSE @]
    BY <1>5 DEF Move
  <2>2. /\ reader' \in ReaderTypes
        /\ reader'.base = reader.base /\ reader'.offset = reader.offset
        /\ reader'.function = "Reader" => reader.function = "Reader"
    BY <1>3, <1>4, <2>1 DEF ReaderTypes
  <2> QED
    BY <1>1, <1>2, <2>2, NothingSent DEF ReaderTypes
<1>6. CASE DestroyOther
  <2>1. reader' = [reader EXCEPT !.function = IF @ = "OldReader" THEN "GoneReader" ELSE @]
    BY <1>6 DEF DestroyOther
  <2>2. /\ reader' \in ReaderTypes
        /\ reader'.base = reader.base /\ reader'.offset = reader.offset
        /\ reader'.function = "Reader" => reader.function = "Reader"
    BY <1>3, <1>4, <2>1 DEF ReaderTypes
  <2> QED
    BY <1>1, <1>2, <2>2, NothingSent DEF ReaderTypes
<1>7. CASE ~Move /\ ~DestroyOther
  <2>1. reader' = reader
    BY <1>7 DEF Settings, CallSetMethod, CallSetPostData, CallSetUrlEncodedPostData, Ask, GiveData
  <2> QED
    BY <1>1, <1>2, <1>3, <2>1, NothingSent DEF ReaderTypes
<1> QED
  BY <1>5, <1>6, <1>7

LEMMA WriteGoneInv == UploadInv /\ WriteGone => UploadInv'
<1> SUFFICES ASSUME UploadInv, WriteGone PROVE UploadInv'
  OBVIOUS
<1>1. /\ pc' = "crashed"
      /\ UNCHANGED <<length, calls, call, reader, client, body, ok, status, result>>
  BY DEF WriteGone
<1>2. (IsStale' <=> IsStale) /\ HandleInv'
  BY <1>1 DEF IsStale, UploadInv, HandleInv
<1>3. UploadTypes'
  BY <1>1 DEF UploadInv, UploadTypes
<1>4. ReaderInv' /\ SendInv' /\ BodyIsPart'
  BY <1>1, <1>2 DEF UploadInv, ReaderInv, SendInv, BodyIsPart
<1> QED
  BY <1>2, <1>3, <1>4 DEF UploadInv

LEMMA SendPlainInv == UploadInv /\ SendPlain => UploadInv'
<1> SUFFICES ASSUME UploadInv, SendPlain PROVE UploadInv'
  OBVIOUS
<1>1. PICK offset : offset = IF reader.offset < length THEN reader.offset ELSE length
  OBVIOUS
<1>2. PICK size : size = ToSend
  OBVIOUS
<1>3. /\ Begin("plain", offset, size) /\ pc' = "reading"
      /\ reader' = reader /\ client' = client /\ length' = length
  BY <1>1, <1>2 DEF SendPlain, Begin
<1>4. HandleInv' /\ ToSend' = size
  BY <1>2, <1>3 DEF ToSend, UploadInv, HandleInv
<1>5. reader \in ReaderTypes /\ length \in 0 .. MaxLength /\ reader.offset \in Nat /\ MaxLength \in Nat
  BY BoundsAssumption DEF UploadInv, UploadTypes, ReaderTypes
<1>6. offset \in 0 .. MaxLength
  BY <1>1, <1>5
<1>7. size \in 0 .. MaxLength
  BY <1>2, <1>5 DEF ToSend, UploadInv, HandleInv
<1>8. "plain" \in Kinds
  BY DEF Kinds
<1>9. reader.function = "Reader" => reader.base = 0 /\ reader.offset <= length /\ offset = reader.offset
  BY <1>1, <1>5 DEF UploadInv, ReaderInv
<1> QED
  BY <1>3, <1>4, <1>5, <1>6, <1>7, <1>8, <1>9, Begins

LEMMA CallThrowsInv ==
  ASSUME UploadInv, NEW kind \in Kinds, CallThrows(kind)
  PROVE  UploadInv'
<1>1. /\ pc = "idle" /\ calls < MaxCalls /\ calls' = calls + 1
      /\ call' = [kind |-> kind, offset |-> 0, size |-> 0]
      /\ body' = <<>> /\ ok' = FALSE /\ status' = "none" /\ result' = "threw"
      /\ UNCHANGED <<length, pc, reader, client>>
  BY DEF CallThrows
<1>2. UploadTypes'
  <2>1. call' \in [kind : Kinds, offset : 0 .. MaxLength, size : 0 .. MaxLength]
    <3>1. 0 \in 0 .. MaxLength
      BY BoundsAssumption
    <3> QED
      BY <1>1, <3>1
  <2>2. calls' \in 0 .. MaxCalls
    BY <1>1, BoundsAssumption DEF UploadInv, UploadTypes
  <2>3. ok' \in BOOLEAN
    BY <1>1
  <2>4. body' \in Seq(Int)
    BY <1>1
  <2> QED
    BY <1>1, <2>1, <2>2, <2>3, <2>4 DEF UploadInv, UploadTypes
<1>3. HandleInv' /\ ReaderInv' /\ SendInv' /\ BodyIsPart'
  BY <1>1 DEF UploadInv, HandleInv, ReaderInv, SendInv, BodyIsPart
<1> QED
  BY <1>2, <1>3 DEF UploadInv

-------------------------------------------------------------------------------
\* What was asked for.

AskedPart == CallTypes /\ AskedInv

LEMMA HeardGives ==
  ASSUME NEW method \in Methods
  PROVE  /\ method.name \in MethodNames /\ Heard(method) \in BOOLEAN
         /\ Heard(method) <=> ~Unheard(method)
<1>1. PICK name \in MethodNames, case \in {"lower", "upper"} : method = [name |-> name, case |-> case]
  BY DEF Methods
<1> QED
  BY <1>1 DEF Heard, Unheard

LEMMA AskGives ==
  ASSUME CallTypes, NEW method \in Methods, Ask(method)
  PROVE  /\ asked' \in [method : MethodNames, heard : BOOLEAN, data : Datas, dataLast : BOOLEAN]
         /\ asked'.method = method.name /\ asked'.data = asked.data
         /\ asked'.heard <=> Heard(method)
         /\ ~asked'.dataLast
         /\ past' \in SUBSET MethodNames /\ past \subseteq past'
         /\ Heard(method) => method.name \in past'
<1>1. method.name \in MethodNames /\ Heard(method) \in BOOLEAN
  BY HeardGives
<1>2. asked' = [asked EXCEPT !.method = method.name, !.heard = Heard(method), !.dataLast = FALSE]
  BY DEF Ask
<1>3. asked' \in [method : MethodNames, heard : BOOLEAN, data : Datas, dataLast : BOOLEAN]
  BY <1>1, <1>2 DEF CallTypes
<1>4. /\ asked'.method = method.name /\ asked'.data = asked.data
      /\ asked'.heard = Heard(method) /\ asked'.dataLast = FALSE
  BY <1>2 DEF CallTypes
<1>5. /\ past' \in SUBSET MethodNames /\ past \subseteq past'
      /\ Heard(method) => method.name \in past'
  BY <1>1 DEF Ask, CallTypes
<1> QED
  BY <1>3, <1>4, <1>5

LEMMA AskedOnSet ==
  ASSUME HandleInv, AskedPart, NEW method \in Methods, CallSetMethod(method)
  PROVE  AskedPart'
<1>1. /\ client' = SetMethod(client, method, 0) /\ Ask(method)
      /\ settings < MaxSettings /\ settings' = settings + 1 /\ home' = home
  BY DEF CallSetMethod, Setting
<1>2. /\ client'.kind = IF Unheard(method) \/ method.name = "DELETE" THEN client.kind
                        ELSE method.name
      /\ client'.customRequest = IF Unheard(method) \/ method.name = "GET"
                                 THEN client.customRequest ELSE method.name
      /\ client'.postFields = IF ~Unheard(method) /\ method.name = "POST" THEN client.urlEncoded
                              ELSE client.postFields
      /\ client'.urlEncoded = client.urlEncoded
  <2>1. client \in Handles(Datas) /\ 0 \in Int
    BY DEF HandleInv
  <2> QED
    BY <1>1, <2>1, SetMethodGives
<1>3. method.name \in MethodNames /\ (Heard(method) <=> ~Unheard(method))
  BY HeardGives
<1>4. /\ asked' \in [method : MethodNames, heard : BOOLEAN, data : Datas, dataLast : BOOLEAN]
      /\ asked'.method = method.name /\ asked'.data = asked.data
      /\ asked'.heard <=> Heard(method)
      /\ ~asked'.dataLast
      /\ past' \in SUBSET MethodNames /\ past \subseteq past'
      /\ Heard(method) => method.name \in past'
  BY <1>1, AskGives DEF AskedPart
<1>5. CallTypes'
  BY <1>1, <1>4, SettingsAssumption DEF AskedPart, CallTypes
<1>6. AskedInv'
  <2>1. (home = "own" /\ asked.data # PostText => client.urlEncoded = asked.data)'
    BY <1>1, <1>2, <1>4 DEF AskedPart, AskedInv
  <2>2. asked'.heard =>
          /\ asked'.method # "GET" => client'.customRequest = asked'.method
          /\ asked'.method # "DELETE" => client'.kind = asked'.method
    BY <1>2, <1>3, <1>4
  <2>3. (asked.heard /\ asked.method = "POST" /\ home = "own" /\ asked.data # PostText =>
           client.postFields = asked.data)'
    BY <1>1, <1>2, <1>3, <1>4 DEF AskedPart, AskedInv
  <2>4. past' \subseteq {"GET", "DELETE"} =>
          client'.kind = "GET" /\ client'.customRequest \in {"none", "DELETE"}
    <3>1. SUFFICES ASSUME past' \subseteq {"GET", "DELETE"}
                   PROVE  client'.kind = "GET" /\ client'.customRequest \in {"none", "DELETE"}
      OBVIOUS
    <3>2. client.kind = "GET" /\ client.customRequest \in {"none", "DELETE"}
      BY <1>4, <3>1 DEF AskedPart, AskedInv
    <3>3. Unheard(method) \/ method.name \in {"GET", "DELETE"}
      BY <1>3, <1>4, <3>1
    <3> QED
      BY <1>2, <3>2, <3>3
  <2>5. past' \subseteq {"GET"} => client'.customRequest = "none"
    <3>1. SUFFICES ASSUME past' \subseteq {"GET"} PROVE client'.customRequest = "none"
      OBVIOUS
    <3>2. client.customRequest = "none"
      BY <1>4, <3>1 DEF AskedPart, AskedInv
    <3>3. Unheard(method) \/ method.name = "GET"
      BY <1>3, <1>4, <3>1
    <3> QED
      BY <1>2, <3>2, <3>3
  <2> QED
    BY <1>4, <2>1, <2>2, <2>3, <2>4, <2>5 DEF AskedInv
<1> QED
  BY <1>5, <1>6 DEF AskedPart

LEMMA GiveDataGives ==
  ASSUME CallTypes, NEW data \in Datas, GiveData(data)
  PROVE  /\ asked' \in [method : MethodNames, heard : BOOLEAN, data : Datas, dataLast : BOOLEAN]
         /\ asked'.method = asked.method /\ asked'.heard = asked.heard
         /\ asked'.data = data /\ asked'.dataLast
         /\ past' \in SUBSET MethodNames /\ "POST" \in past'
<1>1. asked' = [asked EXCEPT !.data = data, !.dataLast = TRUE]
  BY DEF GiveData
<1>2. asked' \in [method : MethodNames, heard : BOOLEAN, data : Datas, dataLast : BOOLEAN]
  BY <1>1 DEF CallTypes
<1>3. /\ asked'.method = asked.method /\ asked'.heard = asked.heard
      /\ asked'.data = data /\ asked'.dataLast
  BY <1>1 DEF CallTypes
<1>4. past' \in SUBSET MethodNames /\ "POST" \in past'
  BY DEF GiveData, CallTypes, MethodNames
<1> QED
  BY <1>2, <1>3, <1>4

\* Data to post, given either way.
LEMMA AskedOnData ==
  ASSUME HandleInv, AskedPart, CallSetPostData \/ CallSetUrlEncodedPostData
  PROVE  AskedPart'
<1>1. client \in Handles(Datas)
  BY DEF HandleInv
<1>2. PostText \in Datas /\ Encoded \in Datas
  BY DEF Datas
<1>3. PICK data \in {PostText, Encoded} : GiveData(data) /\ client'.kind = "POST"
        /\ client'.postFields = data /\ client'.fieldsIn = "copy"
        /\ client'.customRequest = client.customRequest
        /\ (data # PostText => client'.urlEncoded = data)
  <2>1. CASE CallSetPostData
    <3>1. client' = SetPostData(client, PostText) /\ GiveData(PostText)
      BY <2>1 DEF CallSetPostData
    <3>2. /\ client'.kind = "POST" /\ client'.postFields = PostText /\ client'.fieldsIn = "copy"
          /\ client'.customRequest = client.customRequest
      BY <1>1, <3>1 DEF SetPostData, CopyPostFields, PostFields, Handles
    <3> QED
      BY <3>1, <3>2
  <2>2. CASE CallSetUrlEncodedPostData
    <3>1. client' = SetUrlEncodedPostData(client, Encoded) /\ GiveData(Encoded)
      BY <2>2 DEF CallSetUrlEncodedPostData
    <3>2. /\ client'.kind = "POST" /\ client'.postFields = Encoded /\ client'.fieldsIn = "copy"
          /\ client'.customRequest = client.customRequest /\ client'.urlEncoded = Encoded
      BY <1>1, <3>1 DEF SetUrlEncodedPostData, CopyPostFields, PostFields, Handles
    <3> QED
      BY <3>1, <3>2
  <2> QED
    BY <2>1, <2>2
<1>4. /\ asked' \in [method : MethodNames, heard : BOOLEAN, data : Datas, dataLast : BOOLEAN]
      /\ asked'.method = asked.method /\ asked'.heard = asked.heard
      /\ asked'.data = data /\ asked'.dataLast
      /\ past' \in SUBSET MethodNames /\ "POST" \in past'
  BY <1>2, <1>3, GiveDataGives DEF AskedPart
<1>5. settings < MaxSettings /\ settings' = settings + 1 /\ home' = home
  BY DEF CallSetPostData, CallSetUrlEncodedPostData, Setting, GiveData
<1>6. CallTypes'
  BY <1>4, <1>5, SettingsAssumption DEF AskedPart, CallTypes
<1>7. AskedInv'
  <2>1. (home = "own" /\ asked.data # PostText => client.urlEncoded = asked.data)'
    BY <1>3, <1>4
  <2>2. (asked.heard /\ asked.method # "GET" => client.customRequest = asked.method)'
    BY <1>3, <1>4 DEF AskedPart, AskedInv
  <2>3. ~(past' \subseteq {"GET", "DELETE"}) /\ ~(past' \subseteq {"GET"})
    BY <1>4
  <2> QED
    BY <1>3, <1>4, <2>1, <2>2, <2>3 DEF AskedInv
<1> QED
  BY <1>6, <1>7 DEF AskedPart

\* After a move, or when the object moved from is gone, the data for the next
\* POST and the data that libcurl was only shown are lost, and nothing else is.
LEMMA AskedOnMove ==
  ASSUME HandleInv, AskedPart, Move \/ DestroyOther
  PROVE  AskedPart'
<1>1. client \in Handles(Datas)
  BY DEF HandleInv
<1>2. /\ client'.kind = client.kind /\ client'.customRequest = client.customRequest
      /\ client.fieldsIn = "copy" =>
           client'.postFields = client.postFields /\ client'.fieldsIn = "copy"
  <2>1. CASE Move
    <3>1. client' = [client EXCEPT !.urlEncoded = NoData,
                                   !.fieldsIn = IF @ = "object" THEN "other" ELSE @]
      BY <2>1 DEF Move
    <3> QED
      BY <1>1, <3>1 DEF Handles
  <2>2. CASE DestroyOther
    <3>1. client' = [client EXCEPT !.postFields =
                       IF client.fieldsIn = "other" /\ @ # NoData THEN Foreign ELSE @]
      BY <2>2 DEF DestroyOther
    <3> QED
      BY <1>1, <3>1 DEF Handles
  <2> QED
    BY <2>1, <2>2
<1>3. home' \in {"other", "gone"} /\ settings' \in 0 .. MaxSettings /\ UNCHANGED <<asked, past>>
  <2>1. CASE Move
    BY <2>1, SettingsAssumption DEF Move, Setting, AskedPart, CallTypes
  <2>2. CASE DestroyOther
    BY <2>2 DEF DestroyOther, AskedPart, CallTypes
  <2> QED
    BY <2>1, <2>2
<1>4. CallTypes'
  BY <1>3 DEF AskedPart, CallTypes
<1>5. AskedInv'
  BY <1>2, <1>3 DEF AskedPart, AskedInv
<1> QED
  BY <1>4, <1>5 DEF AskedPart

LEMMA AskedOnUpload ==
  ASSUME UploadInv, AskedPart, SendUpload
  PROVE  AskedPart'
<1>1. Call /\ UNCHANGED <<settings, home>>
  BY DEF SendUpload
<1>2. CASE pc' = "reading"
  <2>1. PICK size \in 0 .. MaxLength : Perform(size)
    BY <1>1, <1>2, UploadBegins
  <2>2. /\ client'.kind = "PUT" /\ client'.customRequest = "PUT"
        /\ client'.urlEncoded = client.urlEncoded
    BY <2>1, PerformGives DEF UploadInv
  <2>3. Ask(Put) /\ Put \in Methods /\ Put.name = "PUT" /\ Heard(Put)
    BY <1>2 DEF SendUpload, Put, Methods, MethodNames, Heard
  <2>4. /\ asked' \in [method : MethodNames, heard : BOOLEAN, data : Datas, dataLast : BOOLEAN]
        /\ asked'.method = "PUT" /\ asked'.data = asked.data
        /\ ~asked'.dataLast
        /\ past' \in SUBSET MethodNames /\ "PUT" \in past'
    BY <2>3, AskGives DEF AskedPart
  <2>5. CallTypes'
    BY <1>1, <2>4 DEF AskedPart, CallTypes
  <2>6. AskedInv'
    <3>1. (home = "own" /\ asked.data # PostText => client.urlEncoded = asked.data)'
      BY <1>1, <2>2, <2>4 DEF AskedPart, AskedInv
    <3>2. ~(past' \subseteq {"GET", "DELETE"}) /\ ~(past' \subseteq {"GET"})
      BY <2>4
    <3> QED
      BY <2>2, <2>4, <3>1, <3>2 DEF AskedInv
  <2> QED
    BY <2>5, <2>6 DEF AskedPart
<1>3. CASE pc' # "reading"
  <2>1. UNCHANGED <<asked, past>>
    BY <1>3 DEF SendUpload
  <2>2. \E kind \in FileKinds \cup {"mapped"} : CallThrows(kind)
    BY <1>1, <1>3 DEF Call, UploadData, UploadFile, UploadFilePart, UploadFileUnbuffered,
       UploadDataFromBuffer, UploadFileMM, Perform
  <2>3. client' = client
    BY <2>2 DEF CallThrows
  <2> QED
    BY <1>1, <2>1, <2>3 DEF AskedPart, CallTypes, AskedInv
<1> QED
  BY <1>2, <1>3

-------------------------------------------------------------------------------
\* The theorems.

LEMMA StepInv == CallsInv /\ [Next]_vars => CallsInv'
<1> SUFFICES ASSUME CallsInv, [Next]_vars PROVE UploadInv' /\ AskedPart'
  BY DEF CallsInv, AskedPart
<1>1. UploadInv /\ AskedPart /\ HandleInv
  BY DEF CallsInv, AskedPart, UploadInv
<1>2. ASSUME UNCHANGED <<client, callVars>> PROVE AskedPart'
  BY <1>1, <1>2 DEF AskedPart, CallTypes, AskedInv, callVars
<1>3. ASSUME NEW method \in Methods, CallSetMethod(method) PROVE UploadInv' /\ AskedPart'
  BY <1>1, <1>3, SettingsInv, AskedOnSet DEF Settings
<1>4. CASE CallSetPostData \/ CallSetUrlEncodedPostData
  BY <1>1, <1>4, SettingsInv, AskedOnData DEF Settings
<1>5. CASE Move \/ DestroyOther
  BY <1>1, <1>5, SettingsInv, AskedOnMove DEF Settings
<1>6. CASE WriteGone
  BY <1>1, <1>2, <1>6, WriteGoneInv DEF WriteGone
<1>7. CASE SendPlain
  BY <1>1, <1>2, <1>7, SendPlainInv DEF SendPlain
<1>8. CASE SendUpload
  <2>1. Call
    BY <1>8 DEF SendUpload
  <2>2. CASE pc' = "reading"
    BY <1>1, <1>8, <2>1, <2>2, UploadBegins, AskedOnUpload
  <2>3. CASE pc' # "reading"
    <3>1. PICK kind \in FileKinds \cup {"mapped"} : CallThrows(kind)
      BY <2>1, <2>3 DEF Call, UploadData, UploadFile, UploadFilePart, UploadFileUnbuffered,
         UploadDataFromBuffer, UploadFileMM, Perform
    <3>2. kind \in Kinds
      BY DEF Kinds, MemoryKinds
    <3> QED
      BY <1>1, <1>8, <3>1, <3>2, CallThrowsInv, AskedOnUpload
  <2> QED
    BY <2>2, <2>3
<1>9. CASE Transfer /\ UNCHANGED callVars
  <2>1. UploadInv'
    BY <1>1, <1>9, PullInv, MappingFaultsInv, PullStaleInv, RedirectedInv, AnswerInv,
       ReturnResultInv DEF Transfer
  <2>2. client' = client
    BY <1>9 DEF Transfer, Pull, MappingFaults, PullStale, Redirected, TransferFails, TransferDone,
       ReturnResult
  <2> QED
    BY <1>2, <1>9, <2>1, <2>2
<1>10. CASE UNCHANGED vars
  <2>1. UNCHANGED <<length, calls, call, pc, reader, client, body, ok, status, result, callVars>>
    BY <1>10 DEF vars, uploadVars
  <2>2. UploadInv'
    BY <1>1, <2>1 DEF UploadInv, UploadTypes, HandleInv, ReaderInv, SendInv, BodyIsPart,
       IsStale, ToSend, EndsInside
  <2> QED
    BY <1>2, <2>1, <2>2
<1> QED
  BY <1>3, <1>4, <1>5, <1>6, <1>7, <1>8, <1>9, <1>10 DEF Next

\* The inductive invariant.
THEOREM CallsAreRight == Spec => []CallsInv
BY InitInv, StepInv, PTL DEF Spec

\* Every variable keeps its type, and libcurl never sends more than the size it
\* was given (all of the model).
THEOREM TypesHold == Spec => []TypeOK
<1>1. CallsInv => TypeOK
  <2> SUFFICES ASSUME CallsInv PROVE TypeOK
    OBVIOUS
  <2>1. UploadTypeOK
    BY DEF CallsInv, UploadInv, UploadTypes, UploadTypeOK, HandleInv, SendInv, Handles
  <2> QED
    BY <2>1 DEF CallsInv, CallTypes, UploadInv, HandleInv, Handles, TypeOK, Datas
<1> QED
  BY <1>1, CallsAreRight, PTL

\* Each byte of a body is the one that was asked for, but for the filler of a
\* mapping that goes on after its file (the uploads, the callbacks and what
\* libcurl does with them).
THEOREM EveryByteIsOfThePart == Spec => []BodyIsPart
<1>1. CallsInv => BodyIsPart
  BY DEF CallsInv, UploadInv
<1> QED
  BY <1>1, CallsAreRight, PTL

\* An upload that returns true without an error from the server has sent its
\* part from end to end, got no answer, or had a mapping that goes on after its
\* file (UploadFile and the others, Send).
THEOREM TrueIsWhole == Spec => []TrueMeansWhole
<1>1. CallsInv => TrueMeansWhole
  <2> SUFFICES ASSUME CallsInv, result = "true", status # "error", ~IsStale,
                      ~(ok /\ status = "none"),
                      ~(call.kind = "mapped" /\ call.offset + call.size > length)
               PROVE  body = [k \in 1 .. call.size |-> call.offset + k - 1]
    BY DEF TrueMeansWhole
  <2>1. status = "success"
    BY DEF CallsInv, UploadInv, UploadTypes, SendInv
  <2>2. Len(body) = call.size /\ body \in Seq(Int)
    BY <2>1 DEF CallsInv, UploadInv, UploadTypes, SendInv
  <2>3. DOMAIN body = 1 .. call.size
    BY <2>2
  <2>4. ASSUME NEW k \in 1 .. call.size PROVE body[k] = call.offset + k - 1
    <3>1. IF call.offset + k <= length THEN body[k] = call.offset + k - 1
          ELSE call.kind = "mapped" /\ body[k] = Filler
      BY <2>3 DEF CallsInv, UploadInv, BodyIsPart
    <3>2. length \in Nat /\ call.offset \in Nat /\ call.size \in Nat
      BY DEF CallsInv, UploadInv, UploadTypes
    <3> QED
      BY <3>1, <3>2
  <2> QED
    BY <2>2, <2>3, <2>4
<1> QED
  BY <1>1, CallsAreRight, PTL

\* A request has the method that was asked for and no body but that method's,
\* but for the four ways in which options stay behind (the setters, SetMethod
\* first of all, and the move constructor).
THEOREM RequestIsAsked == Spec => []RequestOtherwise
<1>1. CallsInv => RequestOtherwise
  <2> SUFFICES ASSUME CallsInv, asked.heard,
                      asked.method \in {"GET", "DELETE"} => past \subseteq {"GET", asked.method},
                      asked.dataLast => asked.method = "POST",
                      asked.method = "POST" /\ ~asked.dataLast =>
                        asked.data # PostText /\ home = "own"
               PROVE  /\ RequestMethod(client) = asked.method
                      /\ client.kind = IF asked.method = "DELETE" THEN "GET" ELSE asked.method
                      /\ asked.method = "POST" => client.postFields = asked.data
    BY DEF RequestOtherwise
  <2>1. asked.method \in MethodNames /\ AskedInv
    BY DEF CallsInv, CallTypes
  <2>2. CASE asked.method = "GET"
    BY <2>1, <2>2 DEF AskedInv, RequestMethod
  <2>3. CASE asked.method = "DELETE"
    BY <2>1, <2>3 DEF AskedInv, RequestMethod
  <2>4. CASE asked.method \in {"PUT", "HEAD"}
    BY <2>1, <2>4 DEF AskedInv, RequestMethod
  <2>5. CASE asked.method = "POST"
    BY <2>1, <2>5 DEF AskedInv, RequestMethod
  <2> QED
    BY <2>1, <2>2, <2>3, <2>4, <2>5 DEF MethodNames
<1> QED
  BY <1>1, CallsAreRight, PTL

===============================================================================
