----------------------------- MODULE SigningTools -----------------------------
(***************************************************************************)
(* The programs that sign, from the texts on their command lines to the    *)
(* server's verdict: presign (src/src/presign_url.cpp), sign-header        *)
(* (src/src/sign_header.cpp) and s3-client sign once, the transfers        *)
(* s3-upload and s3-download in every thread.  What presign and            *)
(* sign-header print is sent by somebody else, as it was printed.          *)
(***************************************************************************)
EXTENDS GetDates, SignHeaders

CONSTANTS
  ParamTexts,     \* the texts -p may be given
  HeaderTexts,    \* the texts -H may be given
  Keys,           \* the names of objects
  Expirations,    \* the values of -t
  Skew,           \* how far a signed header may be from the server's clock
  MainThread

ASSUME ToolsAssumption ==
  /\ MainThread \in Threads
  /\ ParamTexts \cup HeaderTexts \cup Keys \subseteq Seq(ToSet(Tokens))
  /\ Expirations \subseteq 0 .. 3
  /\ \A f \in DOMAIN Length : Length[f] <= 4
  /\ \A m \in Moments : StampOf(m).year <= 3
  /\ Skew \in Nat

VARIABLES
  program,        \* the program that runs
  args,           \* its command line
  canonical,      \* per thread, the request as it was signed
  authorization,  \* per thread, the scope and the signature
  verdict,        \* per thread, the server's: "none", "accepted" or "refused"
  arrived         \* per thread, when the request arrived

toolVars == <<program, args, canonical, authorization, verdict, arrived>>
vars == <<dateVars, toolVars>>

Programs == {"presign", "sign-header", "s3-client", "transfer"}
Ports == {"none", "default", "other"}

Plain == [params |-> <<>>, headers |-> <<>>, key |-> <<"a">>, port |-> "none", expiration |-> 1]

\* One option at a time has an unusual value.  A transfer is given neither -p
\* nor -H, presign no -H, and only presign -t.
Inputs(p) ==
  {[Plain EXCEPT !.key = key] : key \in Keys}
  \cup {[Plain EXCEPT !.port = port] : port \in Ports}
  \cup {[Plain EXCEPT !.expiration = expiration] :
          expiration \in IF p = "presign" THEN Expirations ELSE {1}}
  \cup {[Plain EXCEPT !.params = text] :
          text \in IF p = "transfer" THEN {} ELSE ParamTexts}
  \cup {[Plain EXCEPT !.headers = text] :
          text \in IF p \in {"transfer", "presign"} THEN {} ELSE HeaderTexts}

NoCanonical == CanonicalRequest("none", <<>>, <<>>, EmptyMap, {})
NoAuthorization ==
  [scope |-> [date |-> DateOf(StampOf(Start)), region |-> "none", service |-> "none"],
   signature |-> <<>>]

Init ==
  /\ program \in Programs
  /\ args \in Inputs(program)
  /\ InitDates(IF program = "transfer" THEN Threads ELSE {MainThread})
  /\ canonical = [th \in Threads |-> NoCanonical]
  /\ authorization = [th \in Threads |-> NoAuthorization]
  /\ verdict = [th \in Threads |-> "none"]
  /\ arrived = [th \in Threads |-> Start]

-------------------------------------------------------------------------------
\* What is signed.

\* BuildUploadRequest names the part.
PartParameters ==
  [n \in {<<"partNumber">>, <<"uploadId">>} |-> IF n = <<"uploadId">> THEN <<"a">> ELSE <<"1">>]

Parameters == IF program = "transfer" THEN PartParameters ELSE ParseParams(args.params)

\* ParseURL: the host, and the port when there is one, "0" being the protocol's.
PortText == CASE args.port = "none" -> <<>>
              [] args.port = "default" -> <<":", "0">>
              [] OTHER -> <<":", "1">>
HostText == <<"a">> \o PortText

CanonicalURI == <<"/", "a", "/">> \o args.key

Digit(n) == <<"0", "1", "2", "3">>[n + 1]
Digits(stamp, order) == [k \in DOMAIN order |-> Digit(stamp[order[k]])]
StampText(stamp) == Digits(stamp, FormatOrder)

DefaultHeaders(th) ==
  [n \in DefaultNames |-> CASE n = Host -> HostText
                            [] n = ContentSha256 -> <<"a">>
                            [] n = AmzDate -> StampText(timeStamp[th])]

Credential(th) ==
  <<"a", "/">> \o Digits(dateStamp[th], DateOrder)
    \o <<"/", "us-east-1", "/", "s3", "/", "aws4_request">>

UrlParameters(th) ==
  [n \in {<<"X-Amz-Algorithm">>, <<"X-Amz-Credential">>, <<"X-Amz-Date">>, <<"X-Amz-Expires">>,
          <<"X-Amz-SignedHeaders">>} |->
     CASE n = <<"X-Amz-Algorithm">> -> <<"a">>
       [] n = <<"X-Amz-Credential">> -> Credential(th)
       [] n = <<"X-Amz-Date">> -> StampText(timeStamp[th])
       [] n = <<"X-Amz-Expires">> -> <<Digit(args.expiration)>>
       [] n = <<"X-Amz-SignedHeaders">> -> Host]

\* main calls SignHeaders with the parameters and headers it has parsed.
SignedWithHeaders(th) ==
  HeadersRequest("GET", CanonicalURI, Parameters, DefaultHeaders(th), ParseHeaders(args.headers))

\* main calls SignedURL without the parameters it has parsed.
SignedInUrl(th) ==
  UrlRequest("GET", CanonicalURI, UrlParameters(th), EmptyMap, HostText)

Sign(th) ==
  /\ at[th] = "done"
  /\ canonical[th] = NoCanonical
  /\ LET signed == IF program = "presign" THEN SignedInUrl(th) ELSE SignedWithHeaders(th)
     IN  /\ canonical' = [canonical EXCEPT ![th] = signed]
         /\ authorization' =
              [authorization EXCEPT ![th] =
                 Authorization("secret", timeStamp[th], dateStamp[th], signed)]
  /\ UNCHANGED <<dateVars, program, args, verdict, arrived>>

-------------------------------------------------------------------------------
\* What is sent, and what the server says.

\* A client that takes the host from the URL leaves the protocol's port out.
HostOfUrl == IF args.port = "default" THEN <<"a">> ELSE HostText

\* s3-client inserts the signed headers into the user's, whose values stay.
HeadersToSend(th) ==
  IF program = "s3-client" THEN Insert(ParseHeaders(args.headers), canonical[th].headers)
  ELSE canonical[th].headers

Request(th) ==
  [method |-> "GET", path |-> CanonicalURI, query |-> canonical[th].query,
   headers |-> IF program = "presign" THEN HostHeader(HostOfUrl)
               ELSE OnTheWire(HeadersToSend(th))]

Timely(th) ==
  LET signed == MomentOf(timeStamp[th])
  IN  /\ signed <= clock + Skew
      /\ clock <= signed + (IF program = "presign" THEN args.expiration ELSE Skew)

Accepts(th) ==
  LET scope == authorization[th].scope
      received == ServerRequest(Request(th), canonical[th].signedHeaders)
  IN  /\ canonical[th].signedHeaders \subseteq DOMAIN Request(th).headers
      /\ \A n \in DOMAIN Request(th).headers : ~Contains(n, Space)
      /\ scope.date = DateOf(timeStamp[th])
      /\ Timely(th)
      /\ authorization[th].signature = ServerSignature("secret", timeStamp[th], scope, received)

Send(th) ==
  /\ canonical[th] # NoCanonical
  /\ verdict[th] = "none"
  /\ verdict' = [verdict EXCEPT ![th] = IF Accepts(th) THEN "accepted" ELSE "refused"]
  /\ arrived' = [arrived EXCEPT ![th] = clock]
  /\ UNCHANGED <<dateVars, program, args, canonical, authorization>>

Terminated ==
  /\ \A th \in Threads : at[th] # "out" => verdict[th] # "none"
  /\ UNCHANGED vars

Next ==
  \/ Tick /\ UNCHANGED toolVars
  \/ \E th \in Threads :
       \/ StepOfDates(th) /\ UNCHANGED toolVars
       \/ Sign(th)
       \/ Send(th)
  \/ Terminated

Spec == Init /\ [][Next]_vars

-------------------------------------------------------------------------------
\* Properties.

TypeOK ==
  /\ DatesTypeOK
  /\ program \in Programs
  /\ args \in [params : ParamTexts \cup {<<>>}, headers : HeaderTexts \cup {<<>>},
              key : Keys \cup {Plain.key}, port : Ports,
              expiration : Expirations \cup {Plain.expiration}]
  /\ \A th \in Threads :
       /\ canonical[th].signedHeaders \subseteq DOMAIN canonical[th].headers
       /\ canonical[th].path \in {<<>>, CanonicalURI}
       /\ authorization[th].scope.date \in Dates
       /\ verdict[th] \in {"none", "accepted", "refused"}
       /\ arrived[th] \in Moments

Signed(th) == canonical[th] # NoCanonical

\* The server decodes from the query what was typed after -p: "=" inside a
\* value, a name without one, a name twice, nothing between two semicolons, and
\* each character that needs an escape (ParseParams, split and UrlEncode, one
\* after the other).  Only presign leaves the parameters out.
ParametersAsTyped ==
  program \in {"sign-header", "s3-client"} => \A th \in Threads : Signed(th) =>
    {<<UrlDecode(pair[1]), UrlDecode(pair[2])>> : pair \in ToSet(canonical[th].query)}
      = Meaning(args.params, "=")

\* The headers that join the default ones are those typed after -H, by names in
\* lower case, of which the first counts (ParseHeaders; a name that differs from
\* an earlier one by its case only is that name again), and none of them takes
\* the place of a default one.
HeadersAsTyped ==
  program \in {"sign-header", "s3-client"} => \A th \in Threads : Signed(th) =>
    Pairs(canonical[th].headers) =
      Pairs(DefaultHeaders(th))
        \cup {pair \in Meaning(ToLowerNames(args.headers), ":") : pair[1] \notin DefaultNames}

\* Why a request may be refused.
StampsTorn(th) ==
  timeStamp[th] # StampOf(t[th]) \/ dateStamp[th] # DateOf(StampOf(t[th]))
TooLate(th) == arrived[th] - t[th] > (IF program = "presign" THEN args.expiration ELSE Skew)
OrderChanges ==
  \E n, m \in DOMAIN Parameters : Less(n, m) /\ Less(UrlEncode(m), UrlEncode(n))
UnfitHeader ==
  \E pair \in Pairs(ParseHeaders(args.headers)) :
    /\ pair[1] \notin DefaultNames
    /\ ~IsAmz(pair[1]) \/ Contains(pair[1], Space) \/ pair[2] = <<>> \/ Trimmed(pair[2]) # pair[2]
Replaced(th) ==
  \E n \in DefaultNames \cap DOMAIN ParseHeaders(args.headers) :
    ParseHeaders(args.headers)[n] # DefaultHeaders(th)[n]

\* A signed request is accepted, but for seven reasons: it comes too late, the
\* stamps are torn between two threads, the parameters sort differently when
\* they are encoded, a header is not listed, not sent or sent with spaces
\* around it, s3-client sends the user's value of a header it has signed with
\* its own, the key holds a character that needs an escape, or the URL names
\* the port it would have without (both signatures against the server's).
AcceptedOtherwise ==
  \A th \in Threads : verdict[th] = "refused" =>
    \/ TooLate(th)
    \/ StampsTorn(th)
    \/ program # "presign" /\ (OrderChanges \/ UnfitHeader)
    \/ program = "s3-client" /\ Replaced(th)
    \/ \E k \in DOMAIN args.key : args.key[k] \in DOMAIN Escape \ {"/"}
    \/ program = "presign" /\ args.port = "default"

===============================================================================
