-------------------------------- MODULE S3Client --------------------------------
(***************************************************************************)
(* s3-client (src/src/s3-client.cpp): one signed request, from the command *)
(* line to the server and back.  The handle it configures is that of       *)
(* WebClientRequest, its signature that of SignHeaders.  The files, the    *)
(* network and the server's own verdict are the environment.               *)
(***************************************************************************)
EXTENDS WebClientRequest, SignHeaders

CONSTANTS
  MaxLength,    \* bound on the length of a file
  UserHeaders,  \* the headers -H may name
  Texts         \* the texts -d may be given

ASSUME BoundsAssumption ==
  /\ MaxLength \in Nat \ {0}
  /\ UserHeaders \subseteq Seq(ToSet(Tokens))
  /\ Texts \subseteq Seq(ToSet(Tokens)) \ {<<>>}

\* What -d is given: nothing, a text, or a file's name behind a prefix.
DataKinds == {"none", "inline", "at-file"}
UserMethods == [name : MethodNames \cup {"PATCH"}, case : {"lower", "upper"}]
\* A header's value is nothing, the user's, or what SignHeaders computes.
Given == <<"a">>
Default == <<"host">>
UserMaps == UNION {[names -> {<<>>, Given}] : names \in SUBSET UserHeaders}
DefaultHeaders == [n \in DefaultNames |-> Default]

Args ==
  {args \in [access : BOOLEAN, secret : BOOLEAN, method : UserMethods,
             data : DataKinds, text : Texts \cup {<<>>}, outfile : BOOLEAN, headers : UserMaps] :
     args.text # <<>> <=> args.data = "inline"}

NoSignature == CanonicalRequest("none", <<>>, <<>>, EmptyMap, {})
NoRequest == [method |-> "none", body |-> NoData, headers |-> <<>>]
\* A text counts as one, and so does a form, which keeps its pairs as well.
Inline == [source |-> "inline", length |-> 1]
Form(m) == [source |-> "form", length |-> 1, pairs |-> UrlEncodeMap(m)]
File(n) == IF n = 0 THEN NoData ELSE [source |-> "file", length |-> n]

VARIABLES
  args,          \* the command line
  file,          \* the file -d may name: its length, or -1 if it cannot be read
  pc,            \* where main stands
  headers,       \* the headers of the request
  signature,     \* what SignHeaders hashed
  client,        \* the handle
  of,            \* the output file: "none", "open", or "null" if fopen failed
  wire,          \* the request as it was sent
  responseCode,  \* the status code, 0 if there is none
  exitCode       \* exit status, -1 while the process runs

vars == <<args, file, pc, headers, signature, client, of, wire, responseCode, exitCode>>

Init ==
  /\ args \in Args
  /\ file \in -1 .. MaxLength
  /\ pc = "validate"
  /\ headers = args.headers
  /\ signature = NoSignature
  /\ client = NewHandle([name |-> "GET", case |-> "upper"])
  /\ of = "none"
  /\ wire = NoRequest
  /\ responseCode = 0
  /\ exitCode = -1

Exit(code) == pc' = "exited" /\ exitCode' = code

-------------------------------------------------------------------------------

\* Mutant: the method is not looked at.
ValidKeys == args.access = args.secret

Valid == args.access = args.secret /\ args.method.name \in MethodNames

RejectArgs ==
  /\ pc = "validate"
  /\ ~Valid
  /\ Exit(1)
  /\ UNCHANGED <<args, file, headers, signature, client, of, wire, responseCode>>

\* Mutant: a signature over the method as it was written.
SignatureAsWritten(method, additional) ==
  HeadersRequest(IF method.case = "upper" THEN method.name ELSE "in lower case",
                 <<>>, EmptyMap, DefaultHeaders, additional)

\* The method is put into upper case; path and parameters are as they are sent.
Signature(method, additional) ==
  HeadersRequest(method.name, <<>>, EmptyMap, DefaultHeaders, additional)

AtServer(request) ==
  [method |-> request.method, path |-> <<>>, query |-> <<>>, headers |-> request.headers]

\* The headers the user gave are inserted first, and so they stay.
Sign ==
  /\ pc = "validate"
  /\ Valid
  /\ IF args.access
     THEN /\ signature' = Signature(args.method, args.headers)
          /\ headers' = Insert(args.headers, AllHeaders(DefaultHeaders, args.headers))
     ELSE UNCHANGED <<signature, headers>>
  /\ pc' = "construct"
  /\ UNCHANGED <<args, file, client, of, wire, responseCode, exitCode>>

\* The constructor of WebClient, and SetWriteFunction with what fopen returned.
ConstructClient ==
  /\ pc = "construct"
  /\ client' = Construct(args.method)
  /\ of' \in IF args.outfile THEN {"open", "null"} ELSE {"none"}
  /\ pc' = "request"
  /\ UNCHANGED <<args, file, headers, signature, wire, responseCode, exitCode>>

ConstructFails ==
  /\ pc = "construct"
  /\ Exit(1)
  /\ UNCHANGED <<args, file, headers, signature, client, of, wire, responseCode>>

-------------------------------------------------------------------------------
\* Send: the request leaves, or nothing does, and an answer comes, or none.

Statuses(request) ==
  IF signature # NoSignature
     /\ ~Verifies(signature, AtServer(request))
  THEN {403} ELSE {200, 500}

Return(sent, checked) ==
  IF checked /\ ~sent THEN Exit(1) ELSE pc' = "report" /\ UNCHANGED exitCode

\* An answer with a body kills a process that has no file to write it to.
Send(h, checked) ==
  LET request == [method |-> RequestMethod(h), body |-> RequestBody(h),
                  headers |-> OnTheWire(headers)]
  IN  /\ client' = h
      /\ \/ /\ wire' \in {NoRequest, request}
            /\ responseCode' = 0
            /\ Return(FALSE, checked)
         \/ /\ wire' = request
            /\ responseCode' \in Statuses(request)
            /\ \/ \E sent \in BOOLEAN : Return(sent, checked)
               \/ of = "null" /\ Exit(139)
      /\ UNCHANGED <<args, file, headers, signature, of>>

\* req.Send(), whose result is not looked at.
SendUnchecked(h) == Send(h, FALSE)

\* UploadFile throws when its request fails.
SendChecked(h) == Send(h, TRUE)

SendPlain ==
  /\ pc = "request"
  /\ args.data = "none"
  /\ SendUnchecked(client)

\* Only '@' is taken for the prefix of a file's name.
IsInline == args.data = "inline"

\* The text is read as parameters, and these are what is sent.
PostInline ==
  /\ pc = "request"
  /\ IsInline
  /\ args.method.name = "POST"
  /\ LET h == SetUrlEncodedPostData(client, Form(ParseParams(args.text)))
     IN  SendUnchecked(SetMethod(h, ToUpper(args.method), 0))

\* Every other method, as if it were PUT.
PutInline ==
  /\ pc = "request"
  /\ IsInline
  /\ args.method.name # "POST"
  /\ SendUnchecked(SetUploadData(client, Inline))

PutFile ==
  /\ pc = "request"
  /\ args.data = "at-file"
  /\ args.method.name = "PUT"
  /\ file # -1
  /\ SendChecked(PrepareUploadFile(client, File(file)))

PutFileFails ==
  /\ pc = "request"
  /\ args.data = "at-file"
  /\ args.method.name = "PUT"
  /\ file = -1
  /\ Exit(1)
  /\ UNCHANGED <<args, file, headers, signature, client, of, wire, responseCode>>

\* A file that cannot be read gives an empty text.
FileText == IF file = -1 THEN NoData ELSE File(file)

LowerPost == [name |-> "POST", case |-> "lower"]

\* Mutant: the data set before the method, which then points to none.
PostFileSwapped ==
  /\ pc = "request"
  /\ args.data = "at-file"
  /\ args.method = LowerPost
  /\ SendUnchecked(SetMethod(SetPostData(client, FileText), ToUpper(args.method), 0))

PostFile ==
  /\ pc = "request"
  /\ args.data = "at-file"
  /\ args.method = LowerPost
  /\ SendUnchecked(SetPostData(SetMethod(client, ToUpper(args.method), 0), FileText))

IsWrongMethod ==
  args.data = "at-file" /\ args.method.name # "PUT" /\ args.method # LowerPost

\* throw domain_error("Wrong method " + args.method)
WrongMethod ==
  /\ pc = "request"
  /\ IsWrongMethod
  /\ Exit(1)
  /\ UNCHANGED <<args, file, headers, signature, client, of, wire, responseCode>>

\* Whatever became of the request.
PrintStatus ==
  /\ pc = "report"
  /\ Exit(0)
  /\ UNCHANGED <<args, file, headers, signature, client, of, wire, responseCode>>

-------------------------------------------------------------------------------

Terminated == pc = "exited" /\ UNCHANGED vars

Next ==
  \/ RejectArgs \/ Sign \/ ConstructClient \/ ConstructFails
  \/ SendPlain \/ PostInline \/ PutInline
  \/ PutFile \/ PutFileFails \/ PostFile \/ WrongMethod
  \/ PrintStatus
  \/ Terminated

Spec == Init /\ [][Next]_vars

-------------------------------------------------------------------------------
\* Properties.

Forms == [source : {"form"}, length : 0 .. MaxLength,
          pairs : {UrlEncodeMap(ParseParams(text)) : text \in Texts}]
Datas == [source : {"none", "inline", "file"}, length : 0 .. MaxLength] \cup Forms

TypeOK ==
  /\ args \in Args
  /\ file \in -1 .. MaxLength
  /\ pc \in {"validate", "construct", "request", "report", "exited"}
  /\ DOMAIN headers \subseteq DefaultNames \cup UserHeaders
  /\ signature.signedHeaders \subseteq DefaultNames \cup UserHeaders
  /\ client.method \in Methods
  /\ client.postFields \in Datas /\ client.readBuffer \in Datas
  /\ client.infileSize \in -1 .. MaxLength
  /\ of \in {"none", "open", "null"}
  /\ wire.method \in MethodNames \cup {"none"}
  /\ wire.body \in Datas
  /\ responseCode \in {0, 200, 403, 500}
  /\ exitCode \in {-1, 0, 1, 139}

\* The request has the method the user asked for, in whatever case, through
\* two settings of it and the options each of them leaves behind (the argument
\* of SetMethod, which Init passes by reference to what it overwrites).
MethodOnTheWire == wire # NoRequest => wire.method = args.method.name

DecodedForm(form) == {<<UrlDecode(pair[1]), UrlDecode(pair[2])>> : pair \in ToSet(form.pairs)}

IsWhole(body) ==
  /\ args.data = "at-file" /\ file # -1 => body = File(file)
  /\ IsInline /\ args.method.name = "POST" =>
       body.source = "form" /\ DecodedForm(body) = Meaning(args.text, "=")
  /\ args.data = "none" \/ (IsInline /\ args.method.name \notin {"PUT", "POST"}) => body = NoData

\* Data from a file that can be read is sent whole; of a text with POST the
\* server decodes the parameters the text means, and so not the text where it
\* has no "=" or a name twice; no other request has a body, text with PUT and
\* the POST of a file that cannot be read aside (the order of the setters, each
\* of which overwrites options of the others, ParseParams and UrlEncode).
BodyIsWhole == wire # NoRequest => IsWhole(wire.body)

\* A signed request verifies, but for three kinds of header of the user's: one
\* that is hashed and not listed, one that replaces a header SignHeaders has
\* computed, and one that is empty and so not sent (SignHeaders against main's
\* insert and libcurl).
VerifiesOtherwise ==
  wire # NoRequest /\ signature # NoSignature =>
    \/ Verifies(signature, AtServer(wire))
    \/ DOMAIN args.headers \cap (DefaultNames \cup {n \in UserHeaders : ~IsAmz(n)}) # {}
    \/ \E n \in DOMAIN args.headers : args.headers[n] = <<>>

\* Claimed by the help text, "Send REST request with S3v4 signing": what is
\* sent with keys verifies.
SignedRequestVerifies ==
  wire # NoRequest /\ signature # NoSignature =>
    Verifies(signature, AtServer(wire))

=================================================================================
