--------------------------- MODULE WebClientRequest ---------------------------
(***************************************************************************)
(* How the setters of WebClient (src/src/webclient.cpp) turn into options  *)
(* of a libcurl handle, and what request the handle then sends.            *)
(*                                                                         *)
(* A handle is a record.  A method is a name and the case it was written   *)
(* in; data is where it comes from and how long it is.  What an option     *)
(* means is libcurl's: NOBODY, HTTPGET, UPLOAD and POSTFIELDS choose the   *)
(* kind of request, CUSTOMREQUEST the word on its first line, and it stays *)
(* until it is set again.                                                  *)
(***************************************************************************)
EXTENDS Integers

MethodNames == {"GET", "PUT", "POST", "DELETE", "HEAD"}
Methods == [name : MethodNames, case : {"lower", "upper"}]

NoData == [source |-> "none", length |-> 0]

-------------------------------------------------------------------------------
\* libcurl's options.

NewHandle(method) ==
  [method |-> method,        \* method_
   kind |-> "GET",           \* GET, HEAD, PUT or POST
   customRequest |-> "none",
   infileSize |-> -1,        \* unknown
   postFields |-> NoData,
   fieldsIn |-> "copy",      \* libcurl's copy of them, or the object they are in
   urlEncoded |-> NoData,    \* urlEncodedPostData_
   readBuffer |-> NoData,    \* what Reader reads
   reader |-> "readBuffer",  \* what READFUNCTION and READDATA read
   file |-> NoData]

NoBody(h) == [h EXCEPT !.kind = "HEAD"]
HttpGet(h) == [h EXCEPT !.kind = "GET"]
Upload(h, size) == [h EXCEPT !.kind = "PUT", !.infileSize = size]
PostFields(h, data) ==
  [h EXCEPT !.kind = "POST", !.postFields = data, !.fieldsIn = "object"]
CopyPostFields(h, data) == [PostFields(h, data) EXCEPT !.fieldsIn = "copy"]
CustomRequest(h, word) == [h EXCEPT !.customRequest = word]

\* The request a handle sends: its first word, and its body.  A PUT of a known
\* size sends no more than that.
RequestMethod(h) == IF h.customRequest = "none" THEN h.kind ELSE h.customRequest

ReadData(h) == IF h.reader = "file" THEN h.file ELSE h.readBuffer

RequestBody(h) ==
  CASE h.kind = "POST" -> h.postFields
    [] h.kind = "PUT" ->
         LET data == ReadData(h)
         IN  IF h.infileSize = -1 \/ data.length < h.infileSize THEN data
             ELSE IF h.infileSize = 0 THEN NoData
             ELSE [data EXCEPT !.length = h.infileSize]
    [] OTHER -> NoData

-------------------------------------------------------------------------------
\* The setters.

ToUpper(method) == [method EXCEPT !.case = "upper"]

Is(method, name) == method = [name |-> name, case |-> "upper"]

\* GET and PUT are compared with method_, which is in upper case; the others
\* with the argument, as it was written.
SetMethod(h, method, size) ==
  LET method_ == ToUpper(method)
      g == [h EXCEPT !.method = method_]
  IN  CASE Is(method_, "GET") -> HttpGet(g)
        [] Is(method, "HEAD") -> CustomRequest(NoBody(g), "HEAD")
        [] Is(method, "DELETE") -> CustomRequest(g, "DELETE")
        [] Is(method, "POST") -> PostFields(CustomRequest(g, "POST"), g.urlEncoded)
        [] Is(method_, "PUT") -> CustomRequest(Upload(g, size), "PUT")
        [] OTHER -> g

\* Mutant: the argument passed by value.
SetOwnMethodByValue(h) == SetMethod(h, h.method, 0)

\* Init passes method_ itself, by reference: what the argument is compared as
\* is what method_ has just been made.
SetOwnMethod(h) == SetMethod(h, ToUpper(h.method), 0)

\* The constructor that is given an endpoint, a path and a method.
Construct(method) == SetOwnMethod(NewHandle(method))

\* Mutant: the data stored and not given to libcurl.
SetUrlEncodedPostDataStored(h, data) == [h EXCEPT !.urlEncoded = data]

SetUrlEncodedPostData(h, data) == CopyPostFields([h EXCEPT !.urlEncoded = data], data)

SetPostData(h, data) == CopyPostFields(h, data)

SetUploadData(h, data) == [h EXCEPT !.readBuffer = data]

Put == [name |-> "PUT", case |-> "upper"]

\* UploadFile(fname): the size is the file's.
PrepareUploadFile(h, file) ==
  SetMethod([h EXCEPT !.reader = "file", !.file = file], Put, file.length)

===============================================================================
