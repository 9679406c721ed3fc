----------------------------- MODULE WebClientCalls -----------------------------
(***************************************************************************)
(* One libcurl handle through every sequence of calls of WebClient         *)
(* (src/src/webclient.cpp, src/include/webclient.h): the setters of the    *)
(* method and of the data to post, the uploads, Send by itself, and the    *)
(* move constructor, after which the handle still uses the buffers of the  *)
(* object it was moved from.                                               *)
(***************************************************************************)
EXTENDS WebClientUpload

CONSTANT MaxSettings  \* bound on the setters called and moves made

ASSUME SettingsAssumption == MaxSettings \in Nat

VARIABLES
  settings,  \* how many setters and moves there were
  home,      \* whose buffers the handle uses: "own", "other", "gone"
  \* history
  asked,     \* the method last asked for, the data last given, and which came last
  past       \* the methods the handle has been given, posted data counting as one

callVars == <<settings, home, asked, past>>
vars == <<uploadVars, callVars>>

PostText == [source |-> "text", length |-> 1]
Encoded == [source |-> "encoded", length |-> 1]
Foreign == [source |-> "foreign", length |-> 1]

Init ==
  /\ InitUpload
  /\ settings = 0
  /\ home = "own"
  /\ asked = [method |-> client.method.name, heard |-> TRUE, data |-> NoData, dataLast |-> FALSE]
  /\ past = {client.method.name}

-------------------------------------------------------------------------------
\* Setters.

BetweenCalls ==
  /\ pc = "idle"
  /\ ForgetSend
  /\ call' = NoCall
  /\ UNCHANGED <<length, calls, pc>>

Setting ==
  /\ BetweenCalls
  /\ settings < MaxSettings
  /\ settings' = settings + 1

\* The three names that SetMethod compares as they were written.
Heard(method) == method.case = "upper" \/ method.name \in {"GET", "PUT"}

Ask(method) ==
  /\ asked' = [asked EXCEPT !.method = method.name, !.heard = Heard(method), !.dataLast = FALSE]
  /\ past' = IF Heard(method) THEN past \cup {method.name} ELSE past

CallSetMethod(method) ==
  /\ Setting
  /\ client' = SetMethod(client, method, 0)
  /\ Ask(method)
  /\ UNCHANGED <<reader, home>>

GiveData(data) ==
  /\ asked' = [asked EXCEPT !.data = data, !.dataLast = TRUE]
  /\ past' = past \cup {"POST"}
  /\ UNCHANGED <<reader, home>>

CallSetPostData ==
  /\ Setting
  /\ client' = SetPostData(client, PostText)
  /\ GiveData(PostText)

CallSetUrlEncodedPostData ==
  /\ Setting
  /\ client' = SetUrlEncodedPostData(client, Encoded)
  /\ GiveData(Encoded)

-------------------------------------------------------------------------------
\* WebClient(WebClient&&) takes the handle; what the handle points to stays
\* behind, and the data to post is not taken either.

Move ==
  /\ Setting
  /\ home = "own" /\ home' = "other"
  /\ client' = [client EXCEPT !.urlEncoded = NoData,
                              !.fieldsIn = IF @ = "object" THEN "other" ELSE @]
  /\ reader' = [reader EXCEPT !.function = IF @ = "Reader" THEN "OldReader" ELSE @]
  /\ UNCHANGED <<asked, past>>

\* ~WebClient of the object moved from: its handle is NULL, its buffers go.
DestroyOther ==
  /\ BetweenCalls
  /\ home = "other" /\ home' = "gone"
  /\ client' = [client EXCEPT !.postFields =
                  IF client.fieldsIn = "other" /\ @ # NoData THEN Foreign ELSE @]
  /\ reader' = [reader EXCEPT !.function = IF @ = "OldReader" THEN "GoneReader" ELSE @]
  /\ UNCHANGED <<settings, asked, past>>

\* The answer, or an error message, is written to where a buffer was.
WriteGone ==
  /\ pc = "reading"
  /\ home = "gone"
  /\ pc' = "crashed"
  /\ UNCHANGED <<length, calls, call, reader, client, body, ok, status, result, callVars>>

-------------------------------------------------------------------------------
\* Send, by itself or by an upload.

\* Without an upload libcurl goes on where its reader stands.
SendPlain ==
  /\ Begin("plain", IF reader.offset < length THEN reader.offset ELSE length, ToSend)
  /\ pc' = "reading"
  /\ UNCHANGED <<reader, client, callVars>>

SendUpload ==
  /\ Call
  /\ IF pc' = "reading" THEN Ask(Put) ELSE UNCHANGED <<asked, past>>
  /\ UNCHANGED <<settings, home>>

Next ==
  \/ \E method \in Methods : CallSetMethod(method)
  \/ CallSetPostData \/ CallSetUrlEncodedPostData
  \/ Move \/ DestroyOther \/ WriteGone
  \/ SendPlain \/ SendUpload
  \/ Transfer /\ UNCHANGED callVars

Spec == Init /\ [][Next]_vars

-------------------------------------------------------------------------------
\* Properties.

TypeOK ==
  /\ UploadTypeOK
  /\ settings \in 0 .. MaxSettings
  /\ home \in {"own", "other", "gone"}
  /\ asked.method \in MethodNames
  /\ client.postFields \in {NoData, PostText, Encoded, Foreign}
  /\ client.fieldsIn \in {"copy", "object", "other"}
  /\ past \in SUBSET MethodNames

\* A request has the method that was asked for and no body but that method's,
\* whatever the handle was used for before, with four exceptions: a name that
\* SetMethod does not know in lower case; GET or DELETE on a handle that was
\* given another method, whose word or whose body stays; data given after the
\* method, which makes it a POST; and POST after data of SetPostData or after
\* a move, which sends other data (SetMethod, and what it does not undo).
RequestOtherwise ==
  pc \in {"reading", "returning"} =>
    \/ /\ RequestMethod(client) = asked.method
       /\ client.kind = IF asked.method = "DELETE" THEN "GET" ELSE asked.method
       /\ asked.method = "POST" => client.postFields = asked.data
    \/ ~asked.heard
    \/ asked.method \in {"GET", "DELETE"} /\ ~(past \subseteq {"GET", asked.method})
    \/ asked.dataLast /\ asked.method # "POST"
    \/ asked.method = "POST" /\ ~asked.dataLast /\ (asked.data = PostText \/ home # "own")

=================================================================================
