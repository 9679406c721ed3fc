----------------------------- MODULE S3ClientProofs -----------------------------
(***************************************************************************)
(* The request that s3-client sends, proved for every length of a file and *)
(* every set of headers and of texts.                                      *)
(***************************************************************************)
EXTENDS S3Client, LibraryProofs

Names == DefaultNames \cup UserHeaders

\* Before the request is sent there is none; from its constructor on the client
\* has the method of the command line and nothing else.
ClientInv ==
  /\ client \in Handles(Datas)
  /\ client.infileSize \in -1 .. MaxLength
  /\ pc \in {"construct", "request"} => Valid
  /\ pc = "request" => client = Construct(args.method)

\* The signature is over the headers that are sent with it.
SignatureInv ==
  /\ pc = "validate" => signature = NoSignature /\ headers = args.headers
  /\ signature # NoSignature =>
       /\ signature = Signature(args.method, args.headers)
       /\ headers = Insert(args.headers, AllHeaders(DefaultHeaders, args.headers))

WireInv ==
  /\ pc \in {"validate", "construct", "request"} => wire = NoRequest
  /\ wire # NoRequest => wire.headers = OnTheWire(headers)

RequestInv == TypeOK /\ ClientInv /\ SignatureInv /\ WireInv /\ MethodOnTheWire /\ BodyIsWhole

-------------------------------------------------------------------------------
\* Types of the data.

LEMMA DataTypes ==
  /\ NoData \in Datas /\ Inline \in Datas
  /\ \A text \in Texts : Form(ParseParams(text)) \in Datas
  /\ \A n \in 0 .. MaxLength : File(n) \in Datas /\ File(n).length = n
  /\ \A d \in Datas : d.length \in 0 .. MaxLength
<1>1. MaxLength \in Nat \ {0}
  BY BoundsAssumption
<1>2. 0 \in 0 .. MaxLength /\ 1 \in 0 .. MaxLength
  BY <1>1
<1>3. NoData \in Datas /\ NoData.length = 0
  BY <1>2 DEF NoData, Datas
<1>4. Inline \in Datas
  BY <1>2 DEF Inline, Datas
<1>5. ASSUME NEW n \in 0 .. MaxLength PROVE File(n) \in Datas /\ File(n).length = n
  <2>1. CASE n = 0
    BY <1>3, <2>1 DEF File
  <2>2. CASE n # 0
    <3>1. File(n) = [source |-> "file", length |-> n]
      BY <2>2 DEF File
    <3> QED
      BY <3>1 DEF Datas
  <2> QED
    BY <2>1, <2>2
<1>6. \A d \in Datas : d.length \in 0 .. MaxLength
  BY DEF Datas, Forms
<1>7. ASSUME NEW text \in Texts PROVE Form(ParseParams(text)) \in Datas
  BY <1>2 DEF Form, Forms, Datas
<1> QED
  BY <1>3, <1>4, <1>5, <1>6, <1>7

LEMMA FileTextType ==
  ASSUME file \in -1 .. MaxLength
  PROVE  FileText \in Datas
BY DataTypes, BoundsAssumption DEF FileText

LEMMA BodyType ==
  ASSUME NEW h \in Handles(Datas), h.infileSize \in -1 .. MaxLength
  PROVE  RequestBody(h) \in Datas
<1>1. h.postFields \in Datas /\ ReadData(h) \in Datas
  BY DEF Handles, ReadData
<1>2. ASSUME NEW n \in 0 .. MaxLength, NEW d \in Datas PROVE [d EXCEPT !.length = n] \in Datas
  BY <1>2 DEF Datas, Forms
<1>3. CASE h.kind = "PUT" /\ h.infileSize # -1
  <2>1. h.infileSize \in 0 .. MaxLength
    BY <1>3, BoundsAssumption
  <2>2. [ReadData(h) EXCEPT !.length = h.infileSize] \in Datas
    BY <1>1, <1>2, <2>1
  <2> QED
    BY <1>1, <1>3, <2>2, DataTypes DEF RequestBody
<1>4. CASE ~(h.kind = "PUT" /\ h.infileSize # -1)
  BY <1>1, <1>4, DataTypes DEF RequestBody
<1> QED
  BY <1>3, <1>4

\* What each kind of request has for a body.
LEMMA BodyOfPost ==
  ASSUME NEW h \in Handles(Datas), h.kind = "POST"
  PROVE  RequestBody(h) = h.postFields
BY DEF RequestBody

LEMMA BodyOfPut ==
  ASSUME NEW h \in Handles(Datas), h.kind = "PUT", ReadData(h).length = h.infileSize,
         h.infileSize # -1, h.infileSize = 0 => ReadData(h) = NoData
  PROVE  RequestBody(h) = ReadData(h)
<1>1. ReadData(h) \in Datas
  BY DEF Handles, ReadData
<1>2. [ReadData(h) EXCEPT !.length = ReadData(h).length] = ReadData(h)
  BY <1>1 DEF Datas, Forms
<1>3. ~(ReadData(h).length < h.infileSize)
  BY <1>1, DataTypes
<1> QED
  BY <1>2, <1>3 DEF RequestBody

LEMMA BodyOfOthers ==
  ASSUME NEW h \in Handles(Datas), h.kind \notin {"POST", "PUT"}
  PROVE  RequestBody(h) = NoData
BY DEF RequestBody

-------------------------------------------------------------------------------
\* The handles that main sends.

\* A handle whose request has the method that was asked for, and its body.
IsRight(h) ==
  /\ h \in Handles(Datas) /\ h.infileSize \in -1 .. MaxLength
  /\ RequestMethod(h) = args.method.name
  /\ IsWhole(RequestBody(h))

LEMMA ValidMethod ==
  ASSUME TypeOK, Valid
  PROVE  args.method \in Methods
<1>1. args.method \in UserMethods
  BY DEF TypeOK, Args
<1> QED
  BY <1>1 DEF Valid, UserMethods, Methods

LEMMA ClientGives ==
  ASSUME RequestInv, pc = "request"
  PROVE  /\ args.method \in Methods /\ args.method.name \in MethodNames
         /\ client \in Handles(Datas)
         /\ client.kind = IF args.method.name = "DELETE" THEN "GET" ELSE args.method.name
         /\ client.customRequest = IF args.method.name = "GET" THEN "none" ELSE args.method.name
         /\ client.infileSize = IF args.method.name = "PUT" THEN 0 ELSE -1
         /\ client.postFields = NoData /\ client.readBuffer = NoData
         /\ client.reader = "readBuffer"
<1>1. args.method \in Methods /\ client = Construct(args.method)
  BY ValidMethod DEF RequestInv, ClientInv
<1>2. args.method.name \in MethodNames
  BY <1>1 DEF Methods
<1>3. NoData \in Datas
  BY DataTypes
<1> QED
  BY <1>1, <1>2, <1>3, ConstructGives

LEMMA PlainIsRight ==
  ASSUME RequestInv, pc = "request", args.data = "none"
  PROVE  IsRight(client)
<1>1. client \in Handles(Datas) /\ args.method.name \in MethodNames /\ client.infileSize \in -1 .. MaxLength
  BY ClientGives DEF RequestInv, TypeOK
<1>2. RequestMethod(client) = args.method.name
  BY ClientGives DEF RequestMethod
<1>3. RequestBody(client) = NoData
  <2>1. CASE args.method.name = "POST"
    BY <1>1, <2>1, ClientGives, BodyOfPost
  <2>2. CASE args.method.name = "PUT"
    <3>1. ReadData(client) = NoData /\ client.infileSize = 0 /\ client.kind = "PUT"
      BY <2>2, ClientGives DEF ReadData
    <3> QED
      BY <1>1, <3>1, BodyOfPut DEF NoData
  <2>3. CASE args.method.name \notin {"POST", "PUT"}
    BY <1>1, <2>3, ClientGives, BodyOfOthers
  <2> QED
    BY <2>1, <2>2, <2>3
<1> QED
  BY <1>1, <1>2, <1>3 DEF IsRight, IsWhole, IsInline

\* The server decodes what the text means.
LEMMA FormIsRight ==
  ASSUME TypeOK, IsInline, NEW form, form = Form(ParseParams(args.text))
  PROVE  form \in Datas /\ form.source = "form" /\ DecodedForm(form) = Meaning(args.text, "=")
<1>1. args.text \in Texts
  <2>1. args.text \in Texts \cup {<<>>} /\ (args.text # <<>> <=> args.data = "inline")
    BY DEF TypeOK, Args
  <2> QED
    BY <2>1 DEF IsInline
<1>2. args.text \in Seq(Alphabet) /\ "=" \in Alphabet
  BY <1>1, BoundsAssumption, AlphabetHolds DEF Alphabet
<1>3. PICK m : m = ParseParams(args.text)
  OBVIOUS
<1>4. Pairs(m) = Meaning(args.text, "=")
  BY <1>2, <1>3, ParamsMean
<1>5. /\ IsFiniteSet(DOMAIN m)
      /\ DOMAIN m \subseteq Seq(Alphabet) /\ \A n \in DOMAIN m : m[n] \in Seq(Alphabet)
  BY <1>2, <1>4, MeaningIsText
<1>6. {<<UrlDecode(pair[1]), UrlDecode(pair[2])>> : pair \in ToSet(UrlEncodeMap(m))} = Pairs(m)
  BY <1>5, DecodedQuery
<1>7. form.source = "form" /\ form.pairs = UrlEncodeMap(m)
  BY <1>3 DEF Form
<1>8. DecodedForm(form) = Meaning(args.text, "=")
  BY <1>4, <1>6, <1>7 DEF DecodedForm
<1> QED
  BY <1>1, <1>7, <1>8, DataTypes

LEMMA PostInlineIsRight ==
  ASSUME RequestInv, pc = "request", IsInline, args.method.name = "POST",
         NEW form, form = Form(ParseParams(args.text)),
         NEW h, h = SetMethod(SetUrlEncodedPostData(client, form), ToUpper(args.method), 0)
  PROVE  IsRight(h)
<1>0. form \in Datas /\ form.source = "form" /\ DecodedForm(form) = Meaning(args.text, "=")
  BY FormIsRight DEF RequestInv
<1>1. client \in Handles(Datas) /\ client.infileSize = -1 /\ args.method \in Methods
  BY ClientGives
<1>2. PICK g : g = SetUrlEncodedPostData(client, form)
  OBVIOUS
<1>3. g \in Handles(Datas) /\ g.urlEncoded = form /\ g.infileSize = -1
  BY <1>0, <1>1, <1>2 DEF SetUrlEncodedPostData, CopyPostFields, PostFields, Handles
<1>4. PICK upper : upper = ToUpper(args.method)
  OBVIOUS
<1>5. upper \in Methods /\ upper.name = "POST" /\ ~Unheard(upper)
  BY <1>1, <1>4, UpperMethod DEF Unheard
<1>6. /\ h \in Handles(Datas)
      /\ h.kind = "POST" /\ h.customRequest = "POST" /\ h.infileSize = -1
      /\ h.postFields = form
  <2>1. h = SetMethod(g, upper, 0)
    BY <1>2, <1>4
  <2> QED
    BY <1>3, <1>5, <2>1, SetMethodGives
<1>7. RequestMethod(h) = "POST"
  BY <1>6 DEF RequestMethod
<1>8. RequestBody(h) = form
  BY <1>6, BodyOfPost
<1>9. IsWhole(form)
  BY <1>0 DEF IsWhole, IsInline
<1> QED
  BY <1>6, <1>7, <1>8, <1>9, BoundsAssumption DEF IsRight

LEMMA PutInlineIsRight ==
  ASSUME RequestInv, pc = "request", IsInline, args.method.name # "POST",
         NEW h, h = SetUploadData(client, Inline)
  PROVE  IsRight(h)
<1>1. client \in Handles(Datas) /\ Inline \in Datas /\ args.method.name \in MethodNames
  BY ClientGives, DataTypes
<1>2. /\ h \in Handles(Datas)
      /\ h.kind = client.kind /\ h.customRequest = client.customRequest
      /\ h.infileSize = client.infileSize
  BY <1>1 DEF SetUploadData, Handles
<1>3. RequestMethod(h) = args.method.name
  BY <1>2, ClientGives DEF RequestMethod
<1>4. args.method.name # "PUT" => RequestBody(h) = NoData
  BY <1>1, <1>2, ClientGives, BodyOfOthers
<1> QED
  BY <1>2, <1>3, <1>4 DEF IsRight, IsWhole, IsInline, RequestInv, TypeOK

LEMMA PutFileIsRight ==
  ASSUME RequestInv, pc = "request", args.data = "at-file", args.method.name = "PUT", file # -1,
         NEW h, h = PrepareUploadFile(client, File(file))
  PROVE  IsRight(h)
<1>1. client \in Handles(Datas) /\ file \in 0 .. MaxLength
  BY ClientGives, BoundsAssumption DEF RequestInv, TypeOK
<1>2. PICK data \in Datas : data = File(file) /\ data.length = file
  BY <1>1, DataTypes
<1>3. PICK g : g = [client EXCEPT !.reader = "file", !.file = data]
  OBVIOUS
<1>4. g \in Handles(Datas) /\ g.reader = "file" /\ g.file = data
  BY <1>1, <1>3 DEF Handles
<1>5. Put \in Methods /\ Put.name = "PUT" /\ ~Unheard(Put) /\ data.length \in Int
  BY <1>1, <1>2 DEF Put, Methods, MethodNames, Unheard
<1>6. /\ h \in Handles(Datas)
      /\ h.kind = "PUT" /\ h.customRequest = "PUT" /\ h.infileSize = file
      /\ h.reader = "file" /\ h.file = data
  <2>1. h = SetMethod(g, Put, data.length)
    BY <1>2, <1>3 DEF PrepareUploadFile
  <2> QED
    BY <1>2, <1>4, <1>5, <2>1, SetMethodGives
<1>7. RequestMethod(h) = "PUT"
  BY <1>6 DEF RequestMethod
<1>8. RequestBody(h) = data
  <2>1. ReadData(h) = data
    BY <1>6 DEF ReadData
  <2>2. file = 0 => data = NoData
    BY <1>2 DEF File
  <2> QED
    BY <1>1, <1>2, <1>6, <2>1, <2>2, BodyOfPut
<1>9. IsWhole(data)
  BY <1>2 DEF IsWhole, IsInline
<1> QED
  BY <1>1, <1>6, <1>7, <1>8, <1>9, BoundsAssumption DEF IsRight

LEMMA PostFileIsRight ==
  ASSUME RequestInv, pc = "request", args.data = "at-file", args.method = LowerPost,
         NEW h, h = SetPostData(SetMethod(client, ToUpper(args.method), 0), FileText)
  PROVE  IsRight(h)
<1>1. client \in Handles(Datas) /\ client.infileSize \in -1 .. MaxLength /\ FileText \in Datas
  BY ClientGives, FileTextType DEF RequestInv, TypeOK
<1>2. PICK upper : upper = ToUpper(args.method)
  OBVIOUS
<1>3. args.method.name = "POST" /\ args.method \in Methods
  BY ClientGives DEF LowerPost
<1>4. upper \in Methods /\ upper.name = "POST" /\ ~Unheard(upper)
  BY <1>2, <1>3, UpperMethod DEF Unheard
<1>5. PICK g : g = SetMethod(client, upper, 0)
  OBVIOUS
<1>6. /\ g \in Handles(Datas) /\ g.customRequest = "POST" /\ g.infileSize = client.infileSize
  BY <1>1, <1>4, <1>5, SetMethodGives
<1>7. PICK text \in Datas : text = FileText
  BY <1>1
<1>8. /\ h \in Handles(Datas)
      /\ h.kind = "POST" /\ h.customRequest = "POST" /\ h.infileSize = client.infileSize
      /\ h.postFields = text
  <2>1. h = SetPostData(g, text)
    BY <1>2, <1>5, <1>7
  <2> QED
    BY <1>6, <1>7, <2>1 DEF SetPostData, CopyPostFields, PostFields, Handles
<1>9. RequestMethod(h) = "POST"
  BY <1>8 DEF RequestMethod
<1>10. RequestBody(h) = text
  BY <1>8, BodyOfPost
<1> QED
  BY <1>1, <1>3, <1>7, <1>8, <1>9, <1>10 DEF IsRight, IsWhole, IsInline, FileText

-------------------------------------------------------------------------------
\* Headers.

LEMMA UserMapGives ==
  ASSUME NEW m \in UserMaps
  PROVE  DOMAIN m \subseteq UserHeaders /\ \A n \in DOMAIN m : m[n] \in {<<>>, Given}
<1>1. PICK names \in SUBSET UserHeaders : m \in [names -> {<<>>, Given}]
  BY DEF UserMaps
<1> QED
  BY <1>1

LEMMA UserHeadersGive ==
  ASSUME TypeOK
  PROVE  /\ DOMAIN args.headers \subseteq UserHeaders
         /\ \A n \in DOMAIN args.headers : args.headers[n] \in {<<>>, Given}
<1>1. args.headers \in UserMaps
  BY DEF TypeOK, Args
<1> QED
  BY <1>1, UserMapGives

LEMMA DefaultHeadersGive ==
  DOMAIN DefaultHeaders = DefaultNames /\ \A n \in DefaultNames : DefaultHeaders[n] = Default
BY DEF DefaultHeaders

\* The headers that are hashed, and those that are sent: all of both.
AllOfBoth(user, hashed, sent) ==
  /\ DOMAIN hashed = DefaultNames \cup DOMAIN user
  /\ \A n \in DOMAIN hashed : hashed[n] = IF n \in DefaultNames THEN Default ELSE user[n]
  /\ DOMAIN sent = DefaultNames \cup DOMAIN user
  /\ \A n \in DOMAIN sent : sent[n] = IF n \in DOMAIN user THEN user[n] ELSE hashed[n]

LEMMA SignedHeadersGive ==
  ASSUME NEW user, NEW hashed, hashed = AllHeaders(DefaultHeaders, user),
         NEW sent, sent = Insert(user, hashed)
  PROVE  AllOfBoth(user, hashed, sent)
<1>1. /\ DOMAIN hashed = DefaultNames \cup DOMAIN user
      /\ \A n \in DOMAIN hashed :
           hashed[n] = IF n \in DefaultNames THEN Default ELSE user[n]
  BY DefaultHeadersGive DEF AllHeaders, Insert
<1>2. /\ DOMAIN sent = DOMAIN user \cup DOMAIN hashed
      /\ \A n \in DOMAIN sent : sent[n] = IF n \in DOMAIN user THEN user[n] ELSE hashed[n]
  BY DEF Insert
<1> QED
  BY <1>1, <1>2 DEF AllOfBoth

-------------------------------------------------------------------------------
\* The steps.

LEMMA InitialRequest == Init => RequestInv
<1> SUFFICES ASSUME Init PROVE RequestInv
  OBVIOUS
<1> DEFINE get == [name |-> "GET", case |-> "upper"]
<1>1. get \in Methods /\ NoData \in Datas
  BY DataTypes DEF Methods, MethodNames
<1>2. client \in Handles(Datas) /\ client.infileSize = -1
  <2>1. client = NewHandle(get)
    BY DEF Init
  <2>2. NewHandle(get).infileSize = -1
    BY DEF NewHandle
  <2> QED
    BY <1>1, <2>1, <2>2, NewIsHandle
<1>3. /\ args \in Args /\ file \in -1 .. MaxLength /\ pc = "validate" /\ headers = args.headers
      /\ signature = NoSignature /\ of = "none" /\ wire = NoRequest /\ responseCode = 0
      /\ exitCode = -1
  BY DEF Init
<1>4. DOMAIN headers \subseteq UserHeaders
  BY <1>3, UserMapGives DEF Args
<1>5. signature.signedHeaders = {} /\ wire.method = "none" /\ wire.body = NoData
  BY <1>3 DEF NoSignature, CanonicalRequest, NoRequest
<1>6. TypeOK
  BY <1>1, <1>2, <1>3, <1>4, <1>5, BoundsAssumption DEF TypeOK, Handles
<1>7. ClientInv
  BY <1>2, <1>3, BoundsAssumption DEF ClientInv
<1>8. SignatureInv /\ WireInv /\ MethodOnTheWire /\ BodyIsWhole
  BY <1>3 DEF SignatureInv, WireInv, MethodOnTheWire, BodyIsWhole
<1> QED
  BY <1>6, <1>7, <1>8 DEF RequestInv

LEMMA SendInv ==
  ASSUME RequestInv, pc = "request",
         NEW h, IsRight(h), NEW checked \in BOOLEAN, Send(h, checked)
  PROVE  RequestInv'
<1>1. PICK request : request = [method |-> RequestMethod(h), body |-> RequestBody(h),
                                headers |-> OnTheWire(headers)]
  OBVIOUS
<1>2. /\ request.method = RequestMethod(h) /\ request.body = RequestBody(h)
      /\ request.headers = OnTheWire(headers)
  BY <1>1
<1>3. /\ client' = h /\ wire' \in {NoRequest, request}
      /\ responseCode' \in {0, 200, 403, 500}
      /\ pc' \in {"report", "exited"} /\ exitCode' \in {exitCode, 1, 139}
      /\ UNCHANGED <<args, file, headers, signature, of>>
  BY <1>1 DEF Send, Return, Exit, Statuses
<1>4. /\ h \in Handles(Datas) /\ h.infileSize \in -1 .. MaxLength
      /\ RequestMethod(h) = args.method.name
      /\ IsWhole(RequestBody(h))
  BY DEF IsRight
<1>5. RequestBody(h) \in Datas
  BY <1>4, BodyType
<1>6. args.method.name \in MethodNames
  BY ClientGives
<1>7. NoRequest.method = "none" /\ NoRequest.body \in Datas
  BY DataTypes DEF NoRequest
<1>8. TypeOK'
  <2>1. wire'.method \in MethodNames \cup {"none"} /\ wire'.body \in Datas
    BY <1>2, <1>3, <1>4, <1>5, <1>6, <1>7
  <2>2. client'.method \in Methods /\ client'.postFields \in Datas /\ client'.readBuffer \in Datas
    BY <1>3, <1>4 DEF Handles
  <2>3. exitCode' \in {-1, 0, 1, 139}
    BY <1>3 DEF RequestInv, TypeOK
  <2> QED
    BY <1>3, <1>4, <2>1, <2>2, <2>3 DEF RequestInv, TypeOK
<1>9. ClientInv'
  BY <1>3, <1>4 DEF ClientInv
<1>10. SignatureInv'
  BY <1>3 DEF RequestInv, SignatureInv, Signature
<1>11. WireInv'
  BY <1>2, <1>3 DEF WireInv
<1>12. MethodOnTheWire'
  BY <1>2, <1>3, <1>4 DEF MethodOnTheWire
<1>13. BodyIsWhole'
  BY <1>2, <1>3, <1>4 DEF BodyIsWhole, IsWhole, IsInline
<1> QED
  BY <1>8, <1>9, <1>10, <1>11, <1>12, <1>13 DEF RequestInv

\* The steps in which nothing is sent: the process goes on, or ends.
LEMMA NothingIsSent ==
  ASSUME RequestInv, pc' \in {"construct", "request", "report", "exited"},
         pc' = "construct" => Valid,
         pc' = "request" => Valid /\ client' = Construct(args.method),
         pc' \in {"construct", "request"} => wire = NoRequest,
         exitCode' \in {exitCode, 0, 1},
         of' \in {"none", "open", "null"},
         \/ client' = client
         \/ client' \in Handles(Datas) /\ client'.infileSize \in -1 .. MaxLength,
         UNCHANGED <<args, file, headers, signature, wire, responseCode>>
  PROVE  RequestInv'
<1>1. client' \in Handles(Datas) /\ client'.infileSize \in -1 .. MaxLength
  BY DEF RequestInv, ClientInv
<1>2. TypeOK'
  <2>1. client'.method \in Methods /\ client'.postFields \in Datas /\ client'.readBuffer \in Datas
    BY <1>1 DEF Handles
  <2> QED
    BY <1>1, <2>1 DEF RequestInv, TypeOK
<1>3. ClientInv'
  BY <1>1 DEF RequestInv, ClientInv, Valid
<1>4. SignatureInv'
  BY DEF RequestInv, SignatureInv, Signature
<1>5. WireInv'
  BY DEF RequestInv, WireInv
<1>6. MethodOnTheWire' /\ BodyIsWhole'
  BY DEF RequestInv, MethodOnTheWire, BodyIsWhole, IsWhole, IsInline
<1> QED
  BY <1>2, <1>3, <1>4, <1>5, <1>6 DEF RequestInv

LEMMA SignStep == RequestInv /\ Sign => RequestInv'
<1> SUFFICES ASSUME RequestInv, Sign PROVE RequestInv'
  OBVIOUS
<1>1. /\ pc = "validate" /\ Valid /\ pc' = "construct" /\ wire = NoRequest
      /\ UNCHANGED <<args, file, client, of, wire, responseCode, exitCode>>
  BY DEF Sign, RequestInv, WireInv
<1>2. CASE ~args.access
  BY <1>1, <1>2, NothingIsSent DEF Sign, RequestInv, TypeOK
<1>3. CASE args.access
  <2>1. /\ signature' = Signature(args.method, args.headers)
        /\ headers' = Insert(args.headers, AllHeaders(DefaultHeaders, args.headers))
    BY <1>3 DEF Sign
  <2>2. DOMAIN headers' = DefaultNames \cup DOMAIN args.headers
    BY <2>1, SignedHeadersGive DEF AllOfBoth
  <2>3. signature'.signedHeaders = SignedNames(DefaultHeaders, args.headers)
    BY <2>1 DEF Signature, HeadersRequest, CanonicalRequest
  <2>4. signature'.signedHeaders \subseteq DefaultNames \cup UserHeaders
    BY <2>3, DefaultHeadersGive, UserHeadersGive DEF SignedNames, RequestInv
  <2>5. TypeOK'
    BY <1>1, <2>2, <2>4, UserHeadersGive DEF RequestInv, TypeOK
  <2>6. ClientInv'
    BY <1>1 DEF RequestInv, ClientInv, Valid
  <2>7. SignatureInv'
    BY <1>1, <2>1 DEF SignatureInv, Signature
  <2>8. WireInv' /\ MethodOnTheWire' /\ BodyIsWhole'
    BY <1>1 DEF WireInv, MethodOnTheWire, BodyIsWhole
  <2> QED
    BY <2>5, <2>6, <2>7, <2>8 DEF RequestInv
<1> QED
  BY <1>2, <1>3

LEMMA ConstructStep == RequestInv /\ ConstructClient => RequestInv'
<1> SUFFICES ASSUME RequestInv, ConstructClient PROVE RequestInv'
  OBVIOUS
<1>1. /\ pc = "construct" /\ client' = Construct(args.method) /\ pc' = "request"
      /\ of' \in {"none", "open", "null"}
      /\ UNCHANGED <<args, file, headers, signature, wire, responseCode, exitCode>>
  BY DEF ConstructClient
<1>2. Valid /\ wire = NoRequest /\ args.method \in Methods /\ NoData \in Datas
  BY <1>1, ValidMethod, DataTypes DEF RequestInv, ClientInv, WireInv
<1>3. client' \in Handles(Datas) /\ client'.infileSize \in {-1, 0}
  BY <1>1, <1>2, ConstructGives
<1>4. client'.infileSize \in -1 .. MaxLength
  BY <1>3, BoundsAssumption
<1> QED
  BY <1>1, <1>2, <1>3, <1>4, NothingIsSent

LEMMA StepInv == RequestInv /\ [Next]_vars => RequestInv'
<1> SUFFICES ASSUME RequestInv, [Next]_vars PROVE RequestInv'
  OBVIOUS
<1>1. of \in {"none", "open", "null"} /\ {TRUE, FALSE} \subseteq BOOLEAN
  BY DEF RequestInv, TypeOK
<1>2. CASE RejectArgs \/ ConstructFails \/ PutFileFails \/ WrongMethod \/ PrintStatus
  <2>1. /\ pc' = "exited" /\ exitCode' \in {0, 1} /\ of' = of
        /\ UNCHANGED <<args, file, headers, signature, client, wire, responseCode>>
    BY <1>2 DEF RejectArgs, ConstructFails, PutFileFails, WrongMethod, PrintStatus, Exit
  <2> QED
    BY <1>1, <2>1, NothingIsSent
<1>3. CASE Sign
  BY <1>3, SignStep
<1>4. CASE ConstructClient
  BY <1>4, ConstructStep
<1>5. CASE SendPlain
  <2>1. pc = "request" /\ args.data = "none" /\ Send(client, FALSE)
    BY <1>5 DEF SendPlain, SendUnchecked
  <2>2. IsRight(client)
    BY <2>1, PlainIsRight
  <2> QED
    BY <1>1, <2>1, <2>2, SendInv
<1>6. CASE PostInline
  <2>0. PICK form : form = Form(ParseParams(args.text))
    OBVIOUS
  <2>1. PICK h : h = SetMethod(SetUrlEncodedPostData(client, form), ToUpper(args.method), 0)
    OBVIOUS
  <2>2. pc = "request" /\ IsInline /\ args.method.name = "POST" /\ Send(h, FALSE)
    BY <1>6, <2>0, <2>1 DEF PostInline, SendUnchecked
  <2>3. IsRight(h)
    BY <2>0, <2>1, <2>2, PostInlineIsRight
  <2> QED
    BY <1>1, <2>2, <2>3, SendInv
<1>7. CASE PutInline
  <2>1. PICK h : h = SetUploadData(client, Inline)
    OBVIOUS
  <2>2. pc = "request" /\ IsInline /\ args.method.name # "POST" /\ Send(h, FALSE)
    BY <1>7, <2>1 DEF PutInline, SendUnchecked
  <2>3. IsRight(h)
    BY <2>1, <2>2, PutInlineIsRight
  <2> QED
    BY <1>1, <2>2, <2>3, SendInv
<1>8. CASE PutFile
  <2>1. PICK h : h = PrepareUploadFile(client, File(file))
    OBVIOUS
  <2>2. /\ pc = "request" /\ args.data = "at-file" /\ args.method.name = "PUT" /\ file # -1
        /\ Send(h, TRUE)
    BY <1>8, <2>1 DEF PutFile, SendChecked
  <2>3. IsRight(h)
    BY <2>1, <2>2, PutFileIsRight
  <2> QED
    BY <1>1, <2>2, <2>3, SendInv
<1>9. CASE PostFile
  <2>1. PICK h : h = SetPostData(SetMethod(client, ToUpper(args.method), 0), FileText)
    OBVIOUS
  <2>2. pc = "request" /\ args.data = "at-file" /\ args.method = LowerPost /\ Send(h, FALSE)
    BY <1>9, <2>1 DEF PostFile, SendUnchecked
  <2>3. IsRight(h)
    BY <2>1, <2>2, PostFileIsRight
  <2> QED
    BY <1>1, <2>2, <2>3, SendInv
<1>10. CASE UNCHANGED vars
  BY <1>10 DEF vars, RequestInv, TypeOK, ClientInv, SignatureInv, Signature, WireInv,
     MethodOnTheWire, BodyIsWhole, IsWhole, Valid, IsInline
<1> QED
  BY <1>2, <1>3, <1>4, <1>5, <1>6, <1>7, <1>8, <1>9, <1>10 DEF Next, Terminated

-------------------------------------------------------------------------------
\* The theorems.

\* The inductive invariant.
THEOREM RequestIsRight == Spec => []RequestInv
BY InitialRequest, StepInv, PTL DEF Spec

\* Every variable keeps its type (all of the model).
THEOREM TypesHold == Spec => []TypeOK
<1>1. RequestInv => TypeOK
  BY DEF RequestInv
<1> QED
  BY <1>1, RequestIsRight, PTL

\* The request has the method the user asked for, in whatever case it was
\* written (SetMethod, called by Init and again by main).
THEOREM MethodIsAsked == Spec => []MethodOnTheWire
<1>1. RequestInv => MethodOnTheWire
  BY DEF RequestInv
<1> QED
  BY <1>1, RequestIsRight, PTL

\* For any text and any length of a file: the body is the file, from end to
\* end, or of the text of a POST what the server decodes is what the text
\* means, and other requests have none (main's order of the setters, and what
\* ParseParams and UrlEncode make of the text).
THEOREM WholeBody == Spec => []BodyIsWhole
<1>1. RequestInv => BodyIsWhole
  BY DEF RequestInv
<1> QED
  BY <1>1, RequestIsRight, PTL

-------------------------------------------------------------------------------
\* The signature.

\* A value of one word has nothing to trim.
LEMMA TrimOne ==
  ASSUME NEW S, NEW value \in Seq(S), Len(value) = 1, value[1] # Space
  PROVE  Trimmed(value) = value
<1>1. DOMAIN value = {1}
  OBVIOUS
<1>2. Inside(value) = {1}
  BY <1>1 DEF Inside
<1>3. Cardinality(Inside(value)) = 1
  BY <1>2, FS_Singleton
<1>4. PICK inside : inside = Inside(value)
  OBVIOUS
<1>5. (CHOOSE k \in inside : \A j \in inside : k <= j) = 1
  <2>1. inside = {1}
    BY <1>2, <1>4
  <2>2. \E k \in inside : \A j \in inside : k <= j
    BY <2>1
  <2> QED
    BY <2>1, <2>2
<1>6. SubSeq(value, 1, 1 + 1 - 1) = value
  BY SubSeqFull
<1> QED
  BY <1>2, <1>3, <1>4, <1>5, <1>6 DEF Trimmed

LEMMA TrimValues == \A value \in {Given, Default} : Trimmed(value) = value
<1> "a" # Space /\ "host" # Space
  BY Zenon DEF Space
<1>1. Given \in Seq({"a"}) /\ Len(Given) = 1 /\ Given[1] # Space
  BY DEF Given
<1>2. Default \in Seq({"host"}) /\ Len(Default) = 1 /\ Default[1] # Space
  BY DEF Default
<1>3. Trimmed(Given) = Given
  BY <1>1, TrimOne
<1>4. Trimmed(Default) = Default
  BY <1>2, TrimOne
<1> QED
  BY <1>3, <1>4

LEMMA EmptyPathAndQuery == CanonicalPath(<<>>) = <<>> /\ CanonicalQuery(<<>>) = <<>>
<1>1. CanonicalPath(<<>>) = <<>>
  BY DEF CanonicalPath, FlattenSeq
<1>2. CanonicalQuery(<<>>) = <<>>
  <2> DEFINE S == ToSet(<<>>)
             before == {p \in S \X S : Less(p[1][1], p[2][1])}
  <2>1. S = {}
    BY DEF ToSet
  <2>2. Cardinality(S) = 0
    BY <2>1, FS_EmptySet
  <2>3. CanonicalQuery(<<>>) = InOrder(S, before)
    BY DEF CanonicalQuery
  <2> HIDE DEF S, before
  <2>4. InOrder(S, before)
          = [k \in 1 .. 0 |-> CHOOSE x \in S : Cardinality({y \in S : <<y, x>> \in before}) = k - 1]
    BY <2>2 DEF InOrder
  <2> QED
    BY <2>3, <2>4
<1> QED
  BY <1>1, <1>2

\* What the server receives, and what it makes of it: what was hashed.
AsHashed(user, hashed, received) ==
  /\ DOMAIN received = DefaultNames \cup DOMAIN user
  /\ [n \in DOMAIN received \cap (DefaultNames \cup DOMAIN user) |-> Trimmed(received[n])]
       = hashed

\* So it is when each of the user's headers is signed and none is empty.
LEMMA ServerSees ==
  ASSUME NEW user, NEW hashed, hashed = AllHeaders(DefaultHeaders, user),
         NEW sent, sent = Insert(user, hashed),
         DOMAIN user \cap DefaultNames = {},
         \A n \in DOMAIN user : user[n] = Given,
         NEW received, received = OnTheWire(sent)
  PROVE  AsHashed(user, hashed, received)
<1> DEFINE names == DefaultNames \cup DOMAIN user
<1>1. /\ DOMAIN hashed = names /\ DOMAIN sent = names
      /\ \A n \in DOMAIN hashed :
           hashed[n] = IF n \in DefaultNames THEN Default ELSE user[n]
      /\ \A n \in DOMAIN sent : sent[n] = IF n \in DOMAIN user THEN user[n] ELSE hashed[n]
  <2>1. AllOfBoth(user, hashed, sent)
    BY SignedHeadersGive
  <2> QED
    BY <2>1 DEF AllOfBoth
<1>2. ASSUME NEW n \in names
      PROVE  sent[n] = hashed[n] /\ sent[n] \in {Given, Default}
  <2>1. hashed[n] = IF n \in DefaultNames THEN Default ELSE user[n]
    BY <1>1
  <2>2. sent[n] = IF n \in DOMAIN user THEN user[n] ELSE hashed[n]
    BY <1>1
  <2>3. CASE n \in DOMAIN user
    BY <2>1, <2>2, <2>3
  <2>4. CASE n \notin DOMAIN user
    BY <2>1, <2>2, <2>4
  <2> QED
    BY <2>3, <2>4
<1>3. Given # <<>> /\ Default # <<>>
  BY DEF Given, Default
<1>4. DOMAIN received = names /\ \A n \in names : received[n] = sent[n]
  BY <1>1, <1>2, <1>3 DEF OnTheWire, Select
<1>5. \A n \in names : Trimmed(received[n]) = hashed[n]
  BY <1>2, <1>4, TrimValues
<1>6. hashed = [n \in names |-> hashed[n]]
  BY <1>1 DEF AllHeaders, Insert
<1>7. [n \in DOMAIN received \cap names |-> Trimmed(received[n])] = [n \in names |-> hashed[n]]
  BY <1>4, <1>5
<1> QED
  BY <1>4, <1>6, <1>7 DEF AsHashed

\* A signed request verifies, but for a header of the user's that is hashed and
\* not listed, or that replaces a computed one, or that is empty (SignHeaders,
\* and main, which inserts what it returns).
THEOREM SignedVerifies == Spec => []VerifiesOtherwise
<1>1. RequestInv => VerifiesOtherwise
  <2> SUFFICES ASSUME RequestInv, wire # NoRequest, signature # NoSignature,
                      DOMAIN args.headers
                        \cap (DefaultNames \cup {n \in UserHeaders : ~IsAmz(n)}) = {},
                      \A n \in DOMAIN args.headers : args.headers[n] # <<>>
               PROVE  Verifies(signature, AtServer(wire))
    BY DEF VerifiesOtherwise
  <2>1. PICK user : user = args.headers
    OBVIOUS
  <2>2. PICK hashed : hashed = AllHeaders(DefaultHeaders, user)
    OBVIOUS
  <2>3. PICK sent : sent = Insert(user, hashed)
    OBVIOUS
  <2>4. /\ signature = Signature(args.method, user) /\ headers = sent
        /\ wire.headers = OnTheWire(sent) /\ wire.method = args.method.name
    BY <2>1, <2>2, <2>3 DEF RequestInv, SignatureInv, WireInv, MethodOnTheWire
  <2>5. /\ DOMAIN user \subseteq UserHeaders /\ DOMAIN user \cap DefaultNames = {}
        /\ \A n \in DOMAIN user : IsAmz(n) /\ user[n] = Given
    BY <2>1, UserHeadersGive DEF RequestInv
  <2>6. PICK names : names = DefaultNames \cup DOMAIN user
    OBVIOUS
  <2>7. SignedNames(DefaultHeaders, user) = names
    BY <2>5, <2>6, DefaultHeadersGive DEF SignedNames
  <2>8. signature = CanonicalRequest(args.method.name, <<>>, <<>>, hashed, names)
    BY <2>2, <2>4, <2>7 DEF Signature, HeadersRequest
  <2>9. signature.signedHeaders = names
    BY <2>8 DEF CanonicalRequest
  <2>10. PICK request : request = AtServer(wire)
    OBVIOUS
  <2>11. /\ request.method = args.method.name /\ request.path = <<>> /\ request.query = <<>>
         /\ request.headers = OnTheWire(sent)
    BY <2>4, <2>10 DEF AtServer
  <2>12. PICK received : received = request.headers
    OBVIOUS
  <2>13. /\ DOMAIN received = names
         /\ [n \in DOMAIN received \cap names |-> Trimmed(received[n])] = hashed
    <3>1. AsHashed(user, hashed, received)
      BY <2>2, <2>3, <2>5, <2>11, <2>12, ServerSees
    <3> QED
      BY <2>6, <3>1 DEF AsHashed
  <2>14. ServerRequest(request, names)
           = CanonicalRequest(args.method.name, <<>>, <<>>, hashed, names)
    BY <2>11, <2>12, <2>13, EmptyPathAndQuery DEF ServerRequest
  <2> QED
    BY <2>8, <2>9, <2>10, <2>12, <2>13, <2>14 DEF Verifies
<1> QED
  BY <1>1, RequestIsRight, PTL

=================================================================================
