------------------------------ MODULE SignHeaders ------------------------------
(***************************************************************************)
(* The S3v4 signatures of src/src/aws_sign.cpp, in the headers             *)
(* (SignHeaders) or in the URL (SignedURL), and what the server makes of   *)
(* them.  A hash is the record of what was hashed: two are equal when and  *)
(* only when the texts they were computed from are.                        *)
(***************************************************************************)
EXTENDS FiniteSets, UrlUtility

Host == <<"host">>
ContentSha256 == <<"x-amz-", "content-sha256">>
AmzDate == <<"x-amz-", "date">>
DefaultNames == {Host, ContentSha256, AmzDate}

\* Names that begin with "x-amz-" are signed, "content-length" is like them.
IsAmz(name) == name # <<>> /\ name[1] = "x-amz-"

\* HMAC: a key is the sequence of what it was derived from.
Hash(key, msg) == Append(key, msg)

\* Mutant: the region and the service in the other order.
CreateSignatureKeySwapped(secretKey, date, region, service) ==
  Hash(Hash(Hash(Hash(<<secretKey>>, date), service), region), "aws4_request")

CreateSignatureKey(secretKey, date, region, service) ==
  Hash(Hash(Hash(Hash(<<secretKey>>, date), region), service), "aws4_request")

\* The canonical headers are all of them, the list names those that are signed.
AllHeaders(default, additional) == Insert(default, additional)

SignedNames(default, additional) ==
  DOMAIN default \cup {n \in DOMAIN additional : IsAmz(n)}

CanonicalRequest(method, path, query, headers, signedHeaders) ==
  [method |-> method, path |-> path, query |-> query, headers |-> headers,
   signedHeaders |-> signedHeaders]

\* What SignHeaders puts into the canonical request.
HeadersRequest(method, path, parameters, default, additional) ==
  CanonicalRequest(method, path,
                   IF parameters = EmptyMap THEN <<>> ELSE UrlEncodeMap(parameters),
                   AllHeaders(default, additional), SignedNames(default, additional))

\* The one header that a signature in the URL covers.
HostHeader(host) == [n \in {Host} |-> host]

\* Mutant: the date is listed among the signed headers too.
UrlRequestListed(method, path, default, params, host) ==
  CanonicalRequest(method, path, UrlEncodeMap(Insert(default, params)), HostHeader(host),
                   {Host, AmzDate})

\* What SignedURL does: the parameters of the signature join those it is given.
UrlRequest(method, path, default, params, host) ==
  CanonicalRequest(method, path, UrlEncodeMap(Insert(default, params)), HostHeader(host), {Host})

\* The authorisation: the credential scope, and the signature of the request
\* under the time stamp and the scope.
Authorization(secretKey, stamp, date, canonical) ==
  LET scope == [date |-> date, region |-> "us-east-1", service |-> "s3"]
  IN  [scope |-> scope,
       signature |-> Hash(CreateSignatureKey(secretKey, date, scope.region, scope.service),
                          [stamp |-> stamp, scope |-> scope, request |-> canonical])]

-------------------------------------------------------------------------------
\* The other side.

\* libcurl does not send a header that has nothing after its colon.
OnTheWire(headers) == Select(headers, {n \in DOMAIN headers : headers[n] # <<>>})

\* The spaces around a value are not part of it.
Inside(value) == {k \in DOMAIN value :
  /\ \E j \in 1 .. k : value[j] # Space
  /\ \E j \in k .. Len(value) : value[j] # Space}
Trimmed(value) ==
  IF Inside(value) = {} THEN <<>>
  ELSE LET first == CHOOSE k \in Inside(value) : \A j \in Inside(value) : k <= j
       IN  SubSeq(value, first, first + Cardinality(Inside(value)) - 1)

\* The server decodes a path and encodes it again, but for the slashes, and
\* sorts the parameters by their names as they are encoded.
CanonicalPath(path) ==
  FlattenSeq([k \in DOMAIN path |-> IF path[k] = "/" THEN <<"/">> ELSE Escaped(path[k])])

\* No two parameters have one name.
CanonicalQuery(query) ==
  LET pairs == ToSet(query)
  IN  InOrder(pairs, {p \in pairs \X pairs : Less(p[1][1], p[2][1])})

\* It hashes what it received of the headers the signature lists.
ServerRequest(request, signedHeaders) ==
  CanonicalRequest(request.method, CanonicalPath(request.path), CanonicalQuery(request.query),
                   [n \in DOMAIN request.headers \cap signedHeaders |-> Trimmed(request.headers[n])],
                   signedHeaders)

Verifies(canonical, request) ==
  /\ canonical.signedHeaders \subseteq DOMAIN request.headers
  /\ canonical = ServerRequest(request, canonical.signedHeaders)

\* The signature as the server computes it.
ServerSignature(secretKey, stamp, scope, canonical) ==
  <<secretKey, scope.date, scope.region, scope.service, "aws4_request",
    [stamp |-> stamp, scope |-> scope, request |-> canonical]>>

===============================================================================
