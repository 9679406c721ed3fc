---------------------------- MODULE CredentialsFile ----------------------------
(***************************************************************************)
(* Where s3-upload gets its keys from: ParseTomlFile                       *)
(* (src/src/utility.cpp) reads the credentials file line by line, and      *)
(* InitConfig and Validate (src/src/parallel_upload.cpp) look the profile  *)
(* up in the result.                                                       *)
(*                                                                         *)
(* The regular expressions make four kinds of line: a section header, a    *)
(* key with a value, a comment or empty line, and any other text.  A value *)
(* is the sequence of the texts that were joined in it.  The lines are     *)
(* chosen as they are read.                                                *)
(***************************************************************************)
EXTENDS Integers, Sequences, FiniteSets

CONSTANTS
  Sections,   \* names a header may have
  Keys,       \* names a key may have
  Profile,    \* config.awsProfile
  MaxLines    \* bound on the length of the file

AccessKey == "aws_access_key_id"
SecretKey == "aws_secret_access_key"
NoName == ""

ASSUME NamesAssumption ==
  /\ NoName \notin Sections
  /\ NoName \notin Keys
  /\ Profile \in Sections
  /\ MaxLines \in Nat

Empty == <<>>
Values == {Empty, <<"value">>}

\* Indentation tells a nested key in the file, and nothing to the parser.
Lines ==
  [kind : {"section"}, name : Sections]
    \cup [kind : {"pair"}, name : Keys, value : Values, nested : BOOLEAN]
    \cup [kind : {"text"}]
    \cup [kind : {"comment"}]

VARIABLES
  lines,           \* the lines read so far
  pc,              \* "parse", "lookup", "validate", "started" or "exited"
  curSection,      \* the section being read
  curSectionData,  \* its entries: from <<key>> or <<parent, key>> to values
  lastKey,         \* the last key read, without its parent
  toml,            \* the sections completed
  accessKey,       \* config.s3AccessKey
  secretKey,       \* config.s3SecretKey
  origin           \* history: per entry of curSectionData, its line

parseVars == <<lines, curSection, curSectionData, lastKey, toml, origin>>
keyVars == <<accessKey, secretKey>>
vars == <<parseVars, pc, keyVars>>

NoEntries == <<>>

Init ==
  /\ lines = <<>>
  /\ pc = "parse"
  /\ curSection = NoName
  /\ curSectionData = NoEntries
  /\ lastKey = NoName
  /\ toml = <<>>
  /\ accessKey = Empty
  /\ secretKey = Empty
  /\ origin = NoEntries

-------------------------------------------------------------------------------
\* Maps: operator[] inserts an empty value where there is none.

Put(m, key, value) ==
  [k \in DOMAIN m \cup {key} |-> IF k = key THEN value ELSE m[k]]
Touch(entries, key) ==
  IF key \in DOMAIN entries THEN entries ELSE Put(entries, key, Empty)
At(entries, key) == Touch(entries, key)[key]

Read(line) ==
  /\ pc = "parse"
  /\ Len(lines) < MaxLines
  /\ lines' = Append(lines, line)
  /\ UNCHANGED <<pc, keyVars>>

SkipLine ==
  /\ Read([kind |-> "comment"])
  /\ UNCHANGED <<curSection, curSectionData, lastKey, toml, origin>>

\* Mutant: the entries of a section stay for the next.
ReadSectionKeeping(name) ==
  /\ Read([kind |-> "section", name |-> name])
  /\ toml' = IF curSection = NoName THEN toml ELSE Put(toml, curSection, curSectionData)
  /\ lastKey' = NoName
  /\ curSection' = name
  /\ UNCHANGED <<curSectionData, origin>>

\* Mutant: the last key of a section stays for the next.
ReadSectionKeepingKey(name) ==
  /\ Read([kind |-> "section", name |-> name])
  /\ IF curSection = NoName
     THEN UNCHANGED <<curSectionData, toml, origin>>
     ELSE /\ toml' = Put(toml, curSection, curSectionData)
          /\ curSectionData' = NoEntries
          /\ origin' = NoEntries
  /\ curSection' = name
  /\ UNCHANGED lastKey

\* Keys before the first header go to the first section.
ReadSection(name) ==
  /\ Read([kind |-> "section", name |-> name])
  /\ IF curSection = NoName
     THEN UNCHANGED <<curSectionData, lastKey, toml, origin>>
     ELSE /\ toml' = Put(toml, curSection, curSectionData)
          /\ curSectionData' = NoEntries
          /\ lastKey' = NoName
          /\ origin' = NoEntries
  /\ curSection' = name

\* Mutant: there may be no last key.
PrefixedUnguarded == At(curSectionData, <<lastKey>>) = Empty

\* Mutant: the value of the last key is not looked at.
PrefixedAlways == lastKey # NoName

\* A key after one without a value gets that one's name for a prefix.
Prefixed == lastKey # NoName /\ At(curSectionData, <<lastKey>>) = Empty

\* Mutant: the prefix is forgotten.
EntryKeyPlain(name) == <<name>>

EntryKey(name) == IF Prefixed THEN <<lastKey, name>> ELSE <<name>>

ReadPair(name, value, nested) ==
  /\ Read([kind |-> "pair", name |-> name, value |-> value, nested |-> nested])
  /\ LET before == IF lastKey = NoName THEN curSectionData
                   ELSE Touch(curSectionData, <<lastKey>>)
     IN  curSectionData' = Put(before, EntryKey(name), value)
  /\ origin' = Put(origin, EntryKey(name), Len(lines'))
  /\ lastKey' = name
  /\ UNCHANGED <<curSection, toml>>

\* Text goes on the value of the last key, as that is named without a prefix.
ReadText ==
  /\ lastKey # NoName
  /\ Read([kind |-> "text"])
  /\ curSectionData' =
       Put(curSectionData, <<lastKey>>, Append(At(curSectionData, <<lastKey>>), "text"))
  /\ UNCHANGED <<curSection, lastKey, toml, origin>>

\* "Toml parsing error"
RejectText ==
  /\ pc = "parse"
  /\ Len(lines) < MaxLines
  /\ lastKey = NoName
  /\ lines' = Append(lines, [kind |-> "text"])
  /\ pc' = "exited"
  /\ UNCHANGED <<curSection, curSectionData, lastKey, toml, origin, keyVars>>

\* The end of the file: a section that is there already is not replaced.
EndFile ==
  /\ pc = "parse"
  /\ toml' = IF curSection \in DOMAIN toml THEN toml
             ELSE Put(toml, curSection, curSectionData)
  /\ pc' = "lookup"
  /\ UNCHANGED <<lines, curSection, curSectionData, lastKey, origin, keyVars>>

-------------------------------------------------------------------------------
\* InitConfig and Validate.

\* "profile not found"
ProfileMissing ==
  /\ pc = "lookup"
  /\ Profile \notin DOMAIN toml
  /\ pc' = "exited"
  /\ UNCHANGED <<parseVars, keyVars>>

ReadKeys ==
  /\ pc = "lookup"
  /\ Profile \in DOMAIN toml
  /\ accessKey' = At(toml[Profile], <<AccessKey>>)
  /\ secretKey' = At(toml[Profile], <<SecretKey>>)
  /\ pc' = "validate"
  /\ UNCHANGED parseVars

\* "both access and secret keys have to be specified"
OneKeyMissing == (accessKey = Empty) # (secretKey = Empty)

RejectKeys ==
  /\ pc = "validate"
  /\ OneKeyMissing
  /\ pc' = "exited"
  /\ UNCHANGED <<parseVars, keyVars>>

AcceptKeys ==
  /\ pc = "validate"
  /\ ~OneKeyMissing
  /\ pc' = "started"
  /\ UNCHANGED <<parseVars, keyVars>>

-------------------------------------------------------------------------------

Parse ==
  \/ SkipLine
  \/ \E name \in Sections : ReadSection(name)
  \/ \E name \in Keys, value \in Values, nested \in BOOLEAN :
       ReadPair(name, value, nested)
  \/ ReadText \/ RejectText
  \/ EndFile

Configure == ProfileMissing \/ ReadKeys \/ RejectKeys \/ AcceptKeys

Ended == pc \in {"started", "exited"} /\ UNCHANGED vars

Next == Parse \/ Configure \/ Ended

Spec == Init /\ [][Next]_vars

-------------------------------------------------------------------------------
\* What a file means.

IsPair(i) == lines[i].kind = "pair"
IsHeader(i) == lines[i].kind = "section"

\* The section a line belongs to; NoName before the first header.
SectionOf(i) ==
  LET headers == {j \in 1 .. i : IsHeader(j)}
  IN  IF headers = {} THEN NoName
      ELSE lines[CHOOSE j \in headers : \A k \in headers : k <= j].name

\* No section is opened twice, and nothing stands before the first.
SectionsOnce ==
  /\ lines # <<>> => IsHeader(1)
  /\ \A i, j \in DOMAIN lines :
       IsHeader(i) /\ IsHeader(j) /\ lines[i].name = lines[j].name => i = j

\* The key a nested line stands under: the last that is not nested.
Parents(i) ==
  {j \in 1 .. i - 1 :
     /\ IsPair(j) /\ ~lines[j].nested
     /\ SectionOf(j) = SectionOf(i)
     /\ \A k \in j + 1 .. i - 1 : IsPair(k) => lines[k].nested}

FullKey(i) ==
  IF lines[i].nested
  THEN <<lines[CHOOSE j \in Parents(i) : TRUE].name, lines[i].name>>
  ELSE <<lines[i].name>>

\* A file as aws writes it: a key without a value is there for the nested keys
\* that follow it, the credentials are not such keys, and no key comes twice.
IsAWSFile ==
  /\ SectionsOnce
  /\ \A i \in DOMAIN lines : IsPair(i) =>
       /\ lines[i].nested =>
            lines[i].value # Empty /\ \E j \in Parents(i) : lines[j].value = Empty
       /\ ~lines[i].nested /\ lines[i].value = Empty =>
            /\ i < Len(lines) /\ IsPair(i + 1) /\ lines[i + 1].nested
            /\ lines[i].name \notin {AccessKey, SecretKey}
       /\ \A j \in DOMAIN lines :
            IsPair(j) /\ SectionOf(j) = SectionOf(i) /\ lines[j].name = lines[i].name => j = i

\* The value of pair i and the texts that follow it.
FullValue(i) ==
  LET others == {j \in i + 1 .. Len(lines) : IsPair(j) \/ IsHeader(j)}
      texts == {j \in i + 1 .. Len(lines) :
                  lines[j].kind = "text" /\ \A k \in others : j < k}
  IN  lines[i].value \o [n \in 1 .. Cardinality(texts) |-> "text"]

HeaderOver(i) == CHOOSE j \in 0 .. i :
  /\ j = 0 \/ IsHeader(j)
  /\ \A k \in j + 1 .. i : ~IsHeader(k)

\* Of the headers that name one section the last counts that another header,
\* of any name, follows; the last header of the file counts only by itself.
Counts(h) ==
  LET headers == {j \in DOMAIN lines : IsHeader(j)}
      last == HeaderOver(Len(lines))
  IN  h \in headers /\ \A j \in headers \ {h} : lines[j].name = lines[h].name =>
                       h # last /\ (j < h \/ j = last)

\* The pairs of a section, those that come again later left out.
LastPairs(section) ==
  {i \in DOMAIN lines :
     /\ IsPair(i) /\ SectionOf(i) = section /\ Counts(HeaderOver(i))
     /\ \A j \in i + 1 .. Len(lines) :
          IsPair(j) /\ HeaderOver(j) = HeaderOver(i) => lines[j].name # lines[i].name}

Parsed == pc \in {"lookup", "validate", "started"}

-------------------------------------------------------------------------------
\* Properties.

EntryKeys == {<<k>> : k \in Keys} \cup (Keys \X Keys)
IsEntries(entries) ==
  /\ DOMAIN entries \subseteq EntryKeys
  /\ \A k \in DOMAIN entries : entries[k] \in Seq({"value", "text"})

TypeOK ==
  /\ lines \in Seq(Lines)
  /\ pc \in {"parse", "lookup", "validate", "started", "exited"}
  /\ curSection \in Sections \cup {NoName}
  /\ IsEntries(curSectionData)
  /\ lastKey \in Keys \cup {NoName}
  /\ DOMAIN toml \subseteq Sections \cup {NoName}
  /\ \A s \in DOMAIN toml : IsEntries(toml[s])
  /\ accessKey \in Seq({"value", "text"}) /\ secretKey \in Seq({"value", "text"})
  /\ DOMAIN origin \subseteq DOMAIN curSectionData

\* The entries of a section come from its own lines, or from those before the
\* first header (what ReadSection clears, and when).
NothingLeaks ==
  /\ \A k \in DOMAIN origin : SectionOf(origin[k]) \in {curSection, NoName}
  /\ \A s \in DOMAIN toml : \A k \in DOMAIN toml[s] :
       \E i \in DOMAIN lines :
         IsPair(i) /\ lines[i].name = k[Len(k)] /\ SectionOf(i) \in {s, NoName}

\* The key a text or a prefix goes on belongs to the section it is read in.
LastKeyIsCurrent ==
  lastKey # NoName =>
    \E i \in DOMAIN lines :
      IsPair(i) /\ lines[i].name = lastKey /\ SectionOf(i) \in {curSection, NoName}

\* A file in which every key has a value is read as it stands: each pair that
\* counts has its own entry, text is joined to the value it follows, and of a
\* profile that comes several times nothing is mixed (what EndFile and
\* ReadSection store, and over what).
FlatFilesAreRight ==
  Parsed /\ (lines # <<>> => IsHeader(1))
    /\ (\A i \in DOMAIN lines : IsPair(i) => lines[i].value # Empty /\ ~lines[i].nested) =>
      \A s \in DOMAIN toml :
        /\ DOMAIN toml[s] = {FullKey(i) : i \in LastPairs(s)}
        /\ \A i \in LastPairs(s) : toml[s][FullKey(i)] = FullValue(i)

\* The first key under one without a value gets its parent's name.
FirstChildIsNested ==
  Parsed /\ SectionsOnce =>
    \A i \in DOMAIN lines :
      i > 1 /\ IsPair(i) /\ lines[i].nested /\ IsPair(i - 1) /\ ~lines[i - 1].nested
        /\ lines[i - 1].value = Empty
        /\ (\A j \in 1 .. i - 2 : SectionOf(j) = SectionOf(i) => ~IsPair(j)) =>
          FullKey(i) \in DOMAIN toml[SectionOf(i)]

\* Claimed by the help text, "Credentials file, AWS cli format": the access key
\* that the profile states is the one used.
AccessKeyIsRead ==
  pc = "started" /\ IsAWSFile =>
    \A i \in LastPairs(Profile) :
      FullKey(i) = <<AccessKey>> => accessKey = FullValue(i)

=================================================================================
