# A TLA+ model of s3-rest

This directory specifies the S3 toolkit of this repository: `s3-upload`,
`s3-download`, `s3-client`, the `WebClient` wrapper of libcurl they share, and
the parts of signing and configuration they rest on. The modules are translated
from `src/src/*.cpp` and `src/include/*.h`. TLC checks them on small instances;
TLAPS proves the main safety properties for every value of the constants.

## The system

| part | state it keeps | operations |
| --- | --- | --- |
| `s3-upload` (`parallel_upload.cpp`) | configuration, futures of the part threads, retry counter, upload id | validate, begin, one thread per part, gather, complete; or one PUT |
| `s3-download` (`parallel_download.cpp`) | size and chunk size, futures, one output file opened by every thread | HEAD, create the file, one thread per part, look at the status codes |
| `s3-client` (`s3-client.cpp`) | command line, headers, one client | validate, sign, construct, set data, send, print |
| `WebClient` (`webclient.cpp`, `webclient.h`) | per object a libcurl handle and its buffers; per process `numInstances_` and `cleanupMutex_` | constructors, move, setters, uploads, `Send`, destructor; callbacks libcurl calls |
| signing (`aws_sign.cpp`) | none of its own; the `struct tm` of `gmtime`, one for all threads | `GetDates`, `SignHeaders`, `SignedURL`, HMAC keys |
| configuration (`utility.cpp`, `InitConfig`) | sections, entries and last key while parsing | `ParseTomlFile`, profile lookup, `Validate` |
| text (`url_utility.cpp`, `url_utility.h`, `response_parser.cpp`) | none | `split`, `ParseParams`, `ParseHeaders`, `UrlEncode`, `ParseURL`; tags of answers |
| `s3-presign`, `s3-sign-header` | command line | parse the texts, sign, print what somebody else sends |

How they interact. The two parallel programs start threads with
`std::async(launch::async)`; a thread owns its `WebClient`, and threads share
the client count, the mutex, the retry counter (upload), the output file
(download), and the time that `gmtime` returns to all of them. Exceptions cross from a thread to `main` through its future, and
leaving `main` destroys the futures, which waits for the threads. Everything
else goes through the S3 server: the parts it stores, the ETags it answers with
and the object it assembles.

What is hard here:

- threads that finish, fail, retry or never start in every order, against a main
  thread that waits for them by index;
- requests that are lost, answered late or carried out without an answer; no
  timeout is set on libcurl;
- a completion request signed before the wait for the parts;
- a count of clients that guards functions which are not thread safe, with
  constructors that throw;
- one output file, emptied by each thread, through buffered streams that are
  never closed, so that the last writes are made, or fail, at exit;
- sizes that no number of jobs divides, objects smaller than the number of jobs
  and unsigned arithmetic at zero;
- option setters that overwrite one another, or leave behind what an earlier
  one has set, and a move that leaves behind what the handle points to;
- two formattings of one `struct tm` that another thread may write to, field by
  field, whenever more than one of them changes;
- headers, parameters, paths and hosts signed in one form and sent in another,
  and posted text that is parsed and written anew;
- parts whose end nobody compares with the size of the file;
- an endpoint picked by a closure over locals that are gone;
- a parser that changes its map by looking into it.

`PROJECT.json` lists these as hazards, each at its line, with the properties
that cover them.

## Modules

| module | models | composed with |
| --- | --- | --- |
| `ObjectPut` | what a caller of `s3-upload` may rely on: the object is written whole or not at all, success only for a whole object, one verdict | the target of `ParallelUpload`'s refinement |
| `ParallelUpload` | `main`, `UploadPart`, `BuildEndUploadXML` and their environment | `INSTANCE ObjectPut` |
| `ParallelUploadProofs` | theorems | extends `ParallelUpload` |
| `ParallelDownload` | `main`, `ObjectSize`, `DownloadPart`, stdio and the file | |
| `ParallelDownloadProofs` | theorems | extends `ParallelDownload` |
| `WebClientEnv` | constructors, moves, requests and destructors against libcurl's global state | |
| `WebClientEnvProofs` | theorems | extends `WebClientEnv` |
| `WebClientRequest` | the setters of `WebClient` as functions on a handle, and the request a handle sends | used by `S3Client` |
| `LibraryProofs` | lemmas: what each setter makes of a handle, and what the operations on texts and maps compute | extends `WebClientRequest` and `SignHeaders` |
| `UrlUtility` | texts and dictionaries: splitting, parsing, encoding, with reference definitions | used by `SignHeaders` |
| `SignHeaders` | the canonical requests, the key and the signature, in the headers or in the URL, and the server's check | extends `UrlUtility` |
| `S3Client` | `main` of `s3-client` | extends `WebClientRequest` and `SignHeaders` |
| `S3ClientProofs` | theorems | extends `S3Client` and `LibraryProofs` |
| `GetDates` | `GetDates` in the threads of a process | used by `SigningTools` |
| `SigningTools` | the programs that sign, from the texts of their options to the server's verdict | extends `GetDates` and `SignHeaders` |
| `SigningToolsProofs` | theorems | extends `SigningTools` and `LibraryProofs` |
| `WebClientUpload` | the six ways to upload, and the callbacks libcurl reads through | extends `WebClientRequest` |
| `WebClientCalls` | setters, uploads, sends and moves in every order on one client | extends `WebClientUpload` |
| `WebClientCallsProofs` | theorems | extends `WebClientCalls` and `LibraryProofs` |
| `CredentialsFile` | `ParseTomlFile`, the profile lookup and the key check | |
| `CredentialsFileProofs` | theorems | extends `CredentialsFile` |
| `MC...` | instances for TLC | |

### ParallelUpload

`pc` is where `main` stands, `worker[i]` where the thread of part `i` stands,
and a step goes from one blocking point to the next: a request with the handling
of its answer, one `get()`, one `async`. `extent[i]` are the offset and size
given to the thread; `etags[i]` is what its future holds; `manifest` is the list
of `<Part>` entries that `BuildEndUploadXML` has built. The server is
`stored[n]`, the part it holds under each number with the ETag and extent it
came with, `late[i]`, attempts that were given up and may still arrive, and
`object`, the extents it was assembled from.

- `RejectConfig`, `StartFails`, `ChooseMode` are `Validate`, `InitConfig` and
  the `fopen` test. `-h` prints the help and is left out.
- `RandomIndexCrashes` is `RandomRange`: what its closure yields is undefined, so
  the index of the endpoint may be in range (no step of its own), make an
  exception (`StartFails`, `SetupFails`) or end the process with every thread in
  it, before the first request and when the completion is built.
- `PutAccepted` and `PutFails` are the branch for one job.
- `BeginAnswered("none")` is an answer in which `XMLTag` finds no id: the
  program goes on with an empty one, and the server takes none of its parts.
- `SignPart`, `PartAccepted`, `PartWithoutETag`, `PartThrows` are `UploadPart`.
  An answer without an ETag covers every HTTP error, and the send errors that
  `WebClient::Status` takes for success; both are retried, and in both the server
  may have stored the data or may do so later. Other errors of curl throw, with no
  retry.
- `SignCompletion` comes before the first `Gather`, because
  `BuildEndUploadRequest` signs before it calls `BuildEndUploadXML`.
  `ExpireSignature` is the clock: S3 accepts a date for fifteen minutes.
- `CompleteWithoutETag` is the branch at lines 353 to 356, which writes an error
  and returns 0.
- ETags are told apart by the attempt that created them. Real ETags of two
  attempts of the same bytes are equal, so the server of the model refuses more
  than a real one; the properties allow for every refusal.
- S3's least size for a part, permissions and all other refusals are
  `PartWithoutETag`, `CompleteRejected` and the like.

### ParallelDownload

`file` maps positions to the byte of the object that stands there, a hole, a
byte of an error answer, or nothing. `Open` is `fopen(.., "wb")` and `fseek`,
and empties the file. An answer lies in `data[i]`; `WriteUnit` is stdio writing
a full buffer, and what is left when the process returns from `main` is written
by `FlushAtExit`, since no stream is closed. `main` has judged the download by
then: when the disk is full (`FlushAtExitFails`, which sets `unflushed`) the file
is short and the exit status stays 0. `Last` is computed modulo
`2^SizeBits`: a part of size 0 asks for the range from 0 to the largest number.
`Break` is a connection lost, or a full disk, after the status line;
`Unanswered` one lost before it. `GetObjectSize` takes any size: without an
answer to HEAD it is 0, and nobody looks at the status of the answer whose
Content-Length it is. `CreateFile` may create nothing, since the `ofstream` is
not asked. `OpenFails` is the `fseek` on a NULL stream.

### WebClientEnv

Each call into libcurl that must not overlap has a step that enters and a step
that returns. `MoveTo` is the move constructor. A constructor that throws after
the counter was incremented leaves its object `leaked`; one that throws in
`curl_global_init` leaves it `failed`. Each object of the model lives once; the
number of objects bounds how many lives there are.

### S3Client, WebClientRequest, SignHeaders

The handle is a record of libcurl options. `SetMethod` keeps the code's
comparisons: GET and PUT with the upper-case member, the other three with the
argument as written. `Init` passes the member itself by reference, so there the
argument has just become upper case (`SetOwnMethod`); this is why
`-m delete` works. Signing drops the hash: a signature is the record of what was
hashed, and the server recomputes that record from the request it received.
`S3Client` takes path and parameters as they are sent and chooses headers by
their names, one of each class (the defaults, `x-amz-*` with `content-length`,
and the rest); the texts are the business of `SigningTools`. `ParseHeaders` puts
names in lower case, so the exception of `SignHeaders` for other names cannot
happen here. Text given with `-m post` is taken apart by `ParseParams` and put
together by `UrlEncode` (`Form`), so what is posted is the form the text stands
for: `hello` is sent as `hello=`, of `a=1;a=2` the second pair is lost, and the
pairs come in the order of the map. `BodyIsWhole` compares what a server decodes
of it with `Meaning`. The signing URL (`-S`) only chooses the host name that is signed
and sent, and is left out, as are the SSL flags and the printed text. What
options mean to libcurl is taken from its documentation and marked external.

### GetDates, UrlUtility, SigningTools

A text is a sequence of tokens, a character the code looks at or a word it does
not look into; a `Map` is a function from texts to texts, with `Less` for its
order and `InOrder` for a loop over it. `Split`, `ParseParams`, `ParseHeaders`
and `UrlEncode` are written after the code; `Meaning`, `ToLowerNames` and
`UrlDecode` say what a text of fields means without splitting it, and the
properties compare the two.

A moment is a number of seconds, and `StampOf` gives its year, month, day, hour,
minute and second, in a calendar whose units have fixed lengths. `gmtime` writes
the six fields of the one `struct tm` in six steps (`WriteField`), and the two
calls of `strftime` read six and three of them one by one (`FormatField`,
`FormatDateField`), since nothing locks them; `disturbed` records that another
thread has written in between. With two threads, at 10:59:59 and at 11:00:00, a
stamp may say 11:59:59, a moment that neither has read, and the two stamps may
have two dates. `StampsOtherwise` says how far this goes: each field by itself
is that of a moment some thread has read. The order in which `gmtime` fills the
structure is that of the C library (`WriteOrder`).

A request holds what was signed as it was printed or sent, and the server does
what S3 documents: it encodes the path, sorts the encoded parameters, trims the
values of the headers that are listed, derives the key and compares.
`sign-header` and `presign` print; `Send` is whoever sends that unchanged.
`s3-client` inserts the signed headers into those of the user, whose values stay
(`HeadersToSend`): with `-H x-amz-date:a` the signed stamp is not sent, and the
request is refused (`Replaced`). `sign-header` prints the map that was signed,
in which the computed values stay.
The transfers sign with the parameters of a part, in every thread.

### WebClientUpload, WebClientCalls

`reader` is READFUNCTION with what READDATA points to, `client` the other
options of the handle. An upload sets both and then libcurl pulls, in pieces of
its buffer and of what is left of the announced size. That limit is an
assumption about libcurl (since 8.7 it is in its code; its manual leaves it to
the callback), and the program rests on it: `ReadFile` does not know where its
part ends, and `MemReader` moves the end it compares with. `Redirected` is a
redirect while the body is on its way: libcurl seeks its own reader to the start
of the file, and fails with any callback of the program, none of which can seek.
`TransferFails` is everything else that ends a transfer early, with the send
errors `Status` takes for success; `TransferDone` is an answer, after the whole
body or, if it is an error, before. `status` is what `StatusCode` would tell:
no upload looks at it, and only its callers can.

`UploadFileMM` maps as many bytes as it is asked for, whatever the size of the
file: between the end of the file and the end of its page the mapping holds
zeros (`Filler`), which are sent and for which `true` is returned; the first
touch of the page after that ends the process (`MappingFaults`). `BodyIsPart` and
`TrueMeansWhole` name this as the exception it is. A `UploadDataFromBuffer`
beyond its buffer would be a call the caller may not make, and the model makes
none.

`WebClientCalls` calls anything in any order: `SetMethod` with every name in two
cases, the two setters of posted data, the uploads, `Send` by itself, and the
move constructor with a live handle, whose buffers stay in the object it was
moved from until that is destroyed. `PostFields` keeps a pointer and
`CopyPostFields` a copy (`fieldsIn`). `SetUploadData` leaves the reader as it
was: after another kind of upload on the same client, or a move, it is a closed
file, memory that may be gone, or another object's buffer (`IsStale`). No
program of the repository runs into that, as each of their clients sends once
and moves only where the compiler elides it.

### CredentialsFile

The regular expressions divide lines into headers, pairs, comments and other
text. A value is the sequence of texts joined in it. `Touch` is `operator[]`,
which inserts. Indentation is recorded with a line for the properties; the
parser does not see it. Keys on the command line skip the file and are left
out; a file that cannot be opened is `StartFails` in `ParallelUpload`.

## Runs

Passing runs:

| run | bounds | shows |
| --- | --- | --- |
| `upload` | 3 jobs, 2 tries, files of 0, 2 and 5 units | types; `NothingTorn`, `ManifestIsFinal`, `RetriesCounted`, `JoinedOnExit`, `FailureHasCause`; that the program implements `ObjectPut`, and that it ends |
| `client_env` | 4 clients | the count is right; libcurl is ready while it is used; global calls are alone, alternate, and the last client cleans up; no constructor or destructor hangs |
| `download` | 3 jobs, 0 to 4 units, any of these as the size that HEAD tells, 4-bit sizes | bytes are in place, no error text in a successful file, the result is right but for four named faults, and the program ends |
| `client_request` | every command line over 6 methods in two cases, 3 kinds of data, texts that are no parameters, repeat a name or change their order, one header of each class, files of up to 2 units | the method and the body are what was asked for, posted text as the parameters it means; signatures verify but for three named kinds of header |
| `client_calls` | 2 requests and 2 setters or moves in every order, sources of 0 to 3 units, a buffer of 2, pages of 2 | the bytes sent are those of the part asked for; success means all of them but in three named cases; a request has the method and data last asked for, but in four named cases |
| `signing` | 4 programs; every text of up to 4 characters over five for `-p` and six for `-H`; 4 keys, 3 ports, 2 expirations; 2 threads, 3 moments in a calendar with two of each unit | stamps are of one moment unless another thread disturbs them, and then each field is of one that was read; parameters and headers are what was typed; the server accepts the signature but for seven named reasons |
| `credentials` | files of up to 4 lines, 2 profiles, 4 keys | nothing leaks between profiles; flat files are read right, with profiles that come twice; a first nested key is too |

The bounds. With three parts there is a first, a middle and a last one, so
order, numbering and the remainder all show; five units leave a remainder over
two jobs and over three, and two units over three jobs a chunk of size 0 (the
download has zero to four units for the same reasons). Two tries give one
retry and one exhaustion per part, and a late attempt beside a confirmed one.
Four clients allow a life that ends while another begins, a move and a failed
constructor together, and a second life of libcurl after the first. In
`client_calls` a source can be longer than the buffer and no multiple of it, the
second request finds what the first has left, and two setters are enough to
overwrite each other, or to move and then destroy what was moved from; each
exception of `RequestOtherwise` is needed there. Four
characters hold a name, a separator, a value and a second field, or a name
twice; two threads and a second at which every field changes are enough to mix
two moments in all ways. Four lines hold a header, a key without a value, a nested key and a key
after it, or one profile twice. `TypeOK` of each module is checked with the
rest.

Runs that end in a violation, each a statement of the repository that the code
does not keep (`findings` in `PROJECT.json`):

| run | statement | what happens |
| --- | --- | --- |
| `upload_error_exit` | "Error sending end upload request" | the error is printed and the program returns 0 |
| `download_coverage` | "compute last chunk size" | the remainder replaces the last chunk |
| `download_truncation` | "Download file from S3 bucket" | a late `fopen` empties what has arrived |
| `client_signature` | "Send REST request with S3v4 signing" | headers hashed but not listed |
| `credentials_access_key` | "Credentials file, AWS cli format" | a key after a nested one is lost |

The model keeps these further disagreements as the code has them; no run is
spent on them, since each follows from the one definition named:

| statement | the code | definition |
| --- | --- | --- |
| "Max number of per-multipart part retries" (`parallel_upload.cpp:267`) | `-r n` makes n tries | `LastTry` |
| "only one init and one cleanup happens" (`webclient.cpp:63`) | one of each for every period with clients | `CheckInstances` |
| "Last instance cleans up libcurl." (`webclient.h:122`) | not after a constructor threw in `Init`, whose object stays counted | `InitFails` |
| "Error downloading file" (`parallel_download.cpp:188`) | a part without an answer has status 0 and passes | `IsError` |
| "if zero it will compute file size" (`webclient.h:180`, `187`, `196`) | only without an offset; with one, 0 sends an empty body and returns true, and `UploadFileMM` throws | `UploadFilePart` |
| "Data" (`s3-client.cpp:123`) | with `-m post`, text is parsed and encoded again: `hello` is sent as `hello=` | `PostInline` |
| "Data", "put" (`s3-client.cpp:123`, `180`) | text given with `-m put` is not sent: the size stays 0 | `PutInline` |
| "use '\\' prefix for file name" (`s3-client.cpp:124`) | the prefix is `@` | `IsInline` |
| "Wrong method" (`s3-client.cpp:196`) | `-m POST -d @file` is refused, `-m post` is not | `PostFile` |
| "Return current time" (`url_utility.h:110`) | under several threads, of another moment, or of none that was, each field being of one or another | `FormatField` |
| "URL request parameters" of s3-presign (`presign_url.cpp:90`) | parsed and not passed on: the URL has none of them | `SignedInUrl` |
| "index between lowerBound and upperBound" (`utility.h:59`) | the closure's variables are gone when it is called: any number | `RandomIndexCrashes` |
| "Set HTTP method" (`webclient.cpp:169`) | GET after another method keeps that one's word, DELETE its body | `SetMethod` |
| "Set url-encoded data to be posted" (`webclient.cpp:206`) | SetMethod("POST") afterwards replaces it | `SetPostData` |
| "Move constructor" (`webclient.h:91`) | the handle goes on using the buffers of the object moved from | `Move` |
| "Parent key is added added to child key" (`utility.h:73`) | only to the first child | `EntryKey` |

Deadlock is checked wherever the program must end in a state of its own
(`Terminated`, `Ended`); it is off for the clients, which may stop when they are
gone, and where `Termination` is checked, which says more.

## Fairness

`FairSpec` of the programs is weak fairness of the main thread and of each
worker: threads are scheduled by the system and none waits for another but
through a future. A request is a step of its thread, so this also says that
every request ends; the code sets no timeout, and the assumption rests on TCP
and the server. Nothing is assumed of the environment: answers need not be good,
late data need not arrive, signatures need not expire. `FairSpec` of
`WebClientEnv` is weak fairness of what a client does once it has begun; it need
not begin. Each object's steps are fair by themselves, and a waiting object gets
the mutex because objects are finitely many and each passes through it at most
twice.

## Proofs

Every safety property of the passing runs is a theorem for all values of the
constants. None of them is inductive by itself; each proofs module has an invariant that is, a
lemma for every action, and the properties as consequences. The invariants were
checked with TLC on the instances of the runs before they were proved.

**`ParallelUploadProofs`**, for every number of jobs and tries and every size of
the file. `IInv` adds, for each part that was started, that its extent is
`PartExtent(i)` (nothing is known of it before), that attempts in the store and
in flight are at most the current one, that no thread beyond `spawned` runs,
that none runs in the first phases or after the exit, that none was killed but
by the crash (`CrashKills`), and what each `pc` says of the upload id, the
signature and the manifest. `NeverTorn` follows because the completion names
each part once and in order, the store holds extents of that part only
(whichever attempt they came with), and `PartExtentsCover` shows that the
extents of all parts make up the file; that rests on `Division`, the one fact of
arithmetic used. `FailuresHaveCauses` follows from `AcceptableUnlessFaulty`:
while nothing was refused or lost, every ETag named is the one stored.
`RetriesAreCounted` takes the retries as the set of attempts beyond the first:
a step that retries adds one attempt to it (`RetriesGrow`), every other leaves
it as it is (`RetriesStay`). `UploadImplementsPut` is the refinement: every step
is a step of `ObjectPut` or a stutter under the mapping of `Put`; it uses that
`object` is set only in the step that ends the program.

**`ParallelDownloadProofs`**, for every number of jobs, size of the object and
width of `size_t`. `DownloadInv` says where `main` and each part stand
(`MainInv`), that a part has nothing before its answer and then bytes of the
object in the order of their places or of an error (`PartInv`), and of the file:
an error byte in it has a part that was refused; the range of a part that
arrives, or has arrived to its end, is still to be written or stands in the
file unless somebody opened the file late (`RangeInv`); and past the end of the
object there is nothing once a part has opened the file (`EndInv`). `InPlace`
and `NoErrorBytesOnSuccess` follow, and `DownloadRight`: a download that
succeeds is the object, because with exit status 0 every part is done and,
unless a flush has failed, what waited in a buffer is in the file. A write of a
unit, a flush and a flush that fails write the first bytes of what the stream
holds, none, some or all (`Writes`), and one lemma, `WriteFile`, is about them
all.

**`WebClientEnvProofs`**, for every finite set of clients: all safety properties
of `WebClientEnv`, and the action property. The invariant is the counter's
meaning (`CountsClients`), the mutex's meaning (at most one object is in a
locked state, and it is the holder), and readiness: libcurl is ready exactly
while the counter or a pending global call says so. The counting lemmas
(`CountStep`, `CountMove`) say how the cardinality changes when one object
changes state.

**`LibraryProofs`** has the lemmas the other modules share. For the handle: what
`SetMethod`, the setters of posted data and the constructor set each option to
(`SetMethodGives`, `PostDataGives`, `ConstructGives`), and that they leave a
handle a handle. For texts, what the definitions compute for every one of them.
That is proved without the library's theorems on induction: those take an
operator, which the backends cannot instantiate, so `TurnByTurn` states
induction of a set, and `LoopRuns` gives the values a loop goes through. From
these:

- `DictionaryIs`: pairs inserted one after another leave the first of each key;
- `InOrderSorts` and `InOrderIsOne`: `InOrder` lists a set in its order, and
  nothing else does (`RankTells`, `EveryRank`); `LessSorts`: `Less` is such an
  order on texts;
- `PositionsAre`, `SplitIs`, `FieldsArePieces`: the pieces of `split` are the
  fields, in their order; `FieldIsCut`: each is cut where its first separator is;
- `ParamsMean` and `HeadersMean`: hence what is parsed is `Meaning`, for every
  text; for headers, since lower case changes neither the fields nor where they
  are cut (`LowerNamesAre`);
- `DecodeEncode`: `UrlDecode` takes back what `UrlEncode` does; what has been
  decoded after each character of the text is followed through what was written
  of it (`Written`, `Decoded`); `DecodedQuery`: so a server that decodes an
  encoded map has its pairs;
- `PathStays`, `QueryStays`, `TrimmedStays`: what the server computes of a path,
  a query and a value is what was signed, under the conditions that
  `AcceptedOtherwise` names. `QueryStays` is where the order counts: the server
  sorts the encoded names, the client those that are not encoded, and a map has
  one order.

**`S3ClientProofs`**, for every set of user headers and of texts and every
length of the file.
`RequestInv` says that the client has the method of the command line and nothing
else when `main` chooses how to send, and that a signature is over the headers
that are sent with it. `FormIsRight` shows that the posted form decodes to what
the text means, whatever text it is, by `ParamsMean` and `DecodedQuery`, and
`WholeBody` follows from it. `SignedVerifies` then compares the canonical request with
what the server computes, name by name.

**`WebClientCallsProofs`**, for every length of the source and the buffers,
whatever calls came before. `UploadInv` relates the callback's place to the end
of the body (`ReaderInv`) and the number of bytes to the size that was asked for
(`SendInv`). Memory that is no mapping ends after the part
(`EndsInside`), and the readers of files look for the end themselves, so that
only a mapping sends anything from beyond the source.
`AskedInv` says what the options still hold of what was asked for,
over moves and over methods that are not heard. `CallsInv` is both, with the
types.

**`CredentialsFileProofs`**, for every set of sections and keys, every profile
and files of any length. `FileInv` says from which lines the entries and the
last key come, and that the last header names the section in hand
(`HeadersInv`); `NothingIsLeaked` and `LastKeyIsOwn` are parts of it.
`NestedInv` adds that a key without a value, the first of its section, is the
last key until the next line; `FirstChildHasParent` follows. `FlatInv` is for
files in which every key has a value: the section in hand holds what stands
under its header (`InHand`), and of the completed sections of a name the last is
kept (`CompletedRight`). The three lemmas `DescribesKept`, `DescribesText` and
`DescribesPair` say what a line does to the entries of a section;
`FlatFilesAreRead` is the result, for every sequence of lines.

**`SigningToolsProofs`**, for every set of threads, all lengths of the units of
time and whatever texts the command line may hold, of any length. `DatesInv`
says, for each place in `GetDates` and each field, that what `ts` holds of the
fields a thread has written (`FieldsWritten`), and what the stamps hold of those
it has formatted (`Formatted`, `DateFormatted`), is that field of a moment some
thread has read, and of this thread's own while it is undisturbed. A thread
reads the clock once, so what one has read stays (`ReadStays`), and a thread that
writes a field disturbs every other that uses `ts` (`OthersStand`).
`StampsExplained` follows, and with `ToolsInv` the types.

`MadeInv` says that what a thread has signed is made of its stamps and the
command line (`Made`), which both stand once it is done (`DoneStands`,
`MadeStays`), and that no thread has read a time to come. `ParametersAreTyped`
and `HeadersAreTyped` follow with `ParamsMean`, `DecodeEncode` and `HeadersMean`.
For `Accepted`, `FitIsAccepted` shows that the server accepts when none of the
reasons holds: the time it reads from the stamp is the one the thread read, since
fields and moments determine each other (`OfTheMoment`, by `DivMod`), its chain of keys is the client's (`SignatureIs`), and what it
computes from the request it receives is the request that was signed
(`RequestArrives`); for `s3-client`, whose own headers are sent above the signed
ones, because each signed one has the value that is sent unless it is `Replaced`
(`DefaultStays`, `SignedAreSent`). A refusal then has a reason when it is given, and keeps it:
the reasons depend on nothing that changes afterwards (`ReasonsStay`).

The theorems assume what the modules assume of their constants: bounds are
natural numbers, and positive where the code needs one (`BoundsAssumption` of
`ParallelUpload`, `ParallelDownload`, `WebClientUpload` and `S3Client`,
`SettingsAssumption`); the object's size fits `size_t`; the clients are finitely
many (`ClientsAssumption`); the units of time have positive lengths
(`ClockAssumption`); names are not
the empty name and the profile is one of them (`NamesAssumption`); texts are made
of the tokens, and one digit holds an expiration and each field of a stamp
(`ToolsAssumption`; the digit stands for the two or four that `strftime`
writes). `Tokens` is the alphabet of the texts: it has every
character the code treats in its own way, and more letters would be treated like
those it has.

Checked by TLC and not proved: liveness (`Termination` of both transfers,
`ConstructorEnds`, `DestructorEnds`), which TLAPS does not do.

## Not modelled

- what arrives: `Writer`, `HeaderWriter` and `WriteFile` append it, also that of
  a second `Send` to that of the first; only where they write is in the model;
- `SetUrl`, `SetPath`, `SetEndpoint`, `SetReqParameters`, `SetHeaders` and the
  SSL flags, which store what they are given and pass it on;
- SHA256, HMAC and hexadecimal: a signature is what was hashed;
- the regular expressions of `ParseURL`, `XMLTag` and `HTTPHeader`: their
  outcome is a choice in the programs that use them; `ToMeta`, which nothing
  calls; `ReadEndpoints`, a filter of lines;
- `FileSize`, which asks the file system;
- the command-line parser, the help paths, build files;
- timing (`TIME_UPLOAD`), URL validation (`VALIDATE_URL`), both off by default.

## Further work

1. `UploadClients`: `ParallelUpload`'s threads with `WebClientEnv`'s clients.
2. The answers of several requests in one buffer, and what `XMLTag` finds there.
