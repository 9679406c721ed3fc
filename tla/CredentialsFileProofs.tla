-------------------------- MODULE CredentialsFileProofs --------------------------
(***************************************************************************)
(* The credentials file, proved for every set of sections and keys, every  *)
(* profile and files of any length.                                        *)
(***************************************************************************)
EXTENDS CredentialsFile, FiniteSetTheorems, TLAPS

Texts == {"value", "text"}

\* The last header among the first i of some lines, and the section it makes.
LastHeader(ls, i, j) ==
  /\ j \in 1 .. i
  /\ ls[j].kind = "section"
  /\ \A k \in 1 .. i : ls[k].kind = "section" => k <= j

SectionIn(ls, i) ==
  LET headers == {j \in 1 .. i : ls[j].kind = "section"}
  IN  IF headers = {} THEN NoName
      ELSE ls[CHOOSE j \in headers : \A k \in headers : k <= j].name

\* The header a line stands under is there, and the last one names the section
\* that is being read.
HeadersInv ==
  /\ \A i \in 0 .. Len(lines) :
       (\E j \in 1 .. i : IsHeader(j)) => \E j \in 1 .. i : LastHeader(lines, i, j)
  /\ SectionOf(Len(lines)) = curSection

\* A key of this name was read in the section, or before the first header.
ReadIn(section, key) ==
  \E i \in DOMAIN lines :
    IsPair(i) /\ lines[i].name = key /\ SectionOf(i) \in {section, NoName}

\* Of every entry of the section that is being read a line gave the last part.
EntriesInv ==
  /\ \A k \in DOMAIN curSectionData : ReadIn(curSection, k[Len(k)])
  /\ \A k \in DOMAIN origin :
       origin[k] \in DOMAIN lines /\ SectionOf(origin[k]) \in {curSection, NoName}

FileInv ==
  /\ TypeOK
  /\ HeadersInv
  /\ EntriesInv
  /\ LastKeyIsCurrent
  /\ NothingLeaks

-------------------------------------------------------------------------------
\* Maps.

LEMMA PutEntries ==
  ASSUME NEW m, IsEntries(m), NEW key \in EntryKeys, NEW value \in Seq(Texts)
  PROVE  IsEntries(Put(m, key, value))
<1>1. DOMAIN Put(m, key, value) \subseteq EntryKeys
  BY DEF Put, IsEntries
<1>2. \A k \in DOMAIN Put(m, key, value) : Put(m, key, value)[k] \in Seq(Texts)
  BY DEF Put, IsEntries, Texts
<1> QED
  BY <1>1, <1>2 DEF IsEntries, Texts

LEMMA EmptyText == Empty \in Seq(Texts)
BY DEF Empty

LEMMA TouchEntries ==
  ASSUME NEW m, IsEntries(m), NEW key \in EntryKeys
  PROVE  IsEntries(Touch(m, key))
BY EmptyText, PutEntries DEF Touch

LEMMA AtText ==
  ASSUME NEW m, IsEntries(m), NEW key
  PROVE  At(m, key) \in Seq(Texts)
<1>1. CASE key \in DOMAIN m
  BY <1>1 DEF At, Touch, IsEntries, Texts
<1>2. CASE key \notin DOMAIN m
  BY <1>2, EmptyText DEF At, Touch, Put
<1> QED
  BY <1>1, <1>2

-------------------------------------------------------------------------------
\* Lines and the sections they belong to.

LEMMA LineAdded ==
  ASSUME TypeOK, NEW line \in Lines, lines' = Append(lines, line)
  PROVE  /\ Len(lines) \in Nat
         /\ DOMAIN lines = 1 .. Len(lines)
         /\ lines' \in Seq(Lines)
         /\ Len(lines') = Len(lines) + 1
         /\ DOMAIN lines' = 1 .. Len(lines) + 1
         /\ lines'[Len(lines) + 1] = line
         /\ \A i \in 1 .. Len(lines) : lines'[i] = lines[i]
<1>1. lines \in Seq(Lines)
  BY DEF TypeOK
<1> QED
  BY <1>1

LEMMA SectionDef ==
  ASSUME NEW i
  PROVE  SectionOf(i) = SectionIn(lines, i) /\ SectionOf(i)' = SectionIn(lines', i)
BY DEF SectionOf, SectionIn, IsHeader

LEMMA SectionByHeader ==
  ASSUME NEW ls, NEW i \in Nat, NEW j, LastHeader(ls, i, j)
  PROVE  SectionIn(ls, i) = ls[j].name
<1> DEFINE headers == {k \in 1 .. i : ls[k].kind = "section"}
           c == CHOOSE k \in headers : \A l \in headers : l <= k
<1>1. j \in headers /\ \A l \in headers : l <= j
  BY DEF LastHeader
<1>2. c \in headers /\ \A l \in headers : l <= c
  BY <1>1
<1>3. c = j
  <2>1. c <= j /\ j <= c /\ c \in Int /\ j \in Int
    BY <1>1, <1>2
  <2> QED
    BY <2>1
<1> QED
  BY <1>1, <1>3 DEF SectionIn

LEMMA SectionBeforeHeaders ==
  ASSUME NEW ls, NEW i, ~ \E j \in 1 .. i : ls[j].kind = "section"
  PROVE  SectionIn(ls, i) = NoName
BY DEF SectionIn

\* A line stays in its section when others are read.
LEMMA SectionStays ==
  ASSUME TypeOK, HeadersInv, NEW line \in Lines, lines' = Append(lines, line),
         NEW i \in 0 .. Len(lines)
  PROVE  SectionOf(i)' = SectionOf(i)
<1>1. /\ Len(lines) \in Nat /\ i \in Nat
      /\ \A j \in 1 .. Len(lines) : lines'[j] = lines[j]
  BY LineAdded
<1>2. \A j \in 1 .. i : lines'[j] = lines[j]
  BY <1>1
<1>3. CASE \E j \in 1 .. i : IsHeader(j)
  <2>1. PICK j \in 1 .. i : LastHeader(lines, i, j)
    BY <1>3 DEF HeadersInv
  <2>2. LastHeader(lines', i, j)
    BY <1>2, <2>1 DEF LastHeader
  <2>3. SectionIn(lines', i) = lines'[j].name /\ SectionIn(lines, i) = lines[j].name
    BY <1>1, <2>1, <2>2, SectionByHeader
  <2> QED
    BY <1>2, <2>3, SectionDef
<1>4. CASE ~ \E j \in 1 .. i : IsHeader(j)
  BY <1>2, <1>4, SectionBeforeHeaders, SectionDef DEF IsHeader
<1> QED
  BY <1>3, <1>4

\* The section of a line that is read, and what is known of the others.
LEMMA HeadersKept ==
  ASSUME TypeOK, HeadersInv, NEW line \in Lines, lines' = Append(lines, line),
         curSection' = IF line.kind = "section" THEN line.name ELSE curSection
  PROVE  /\ HeadersInv'
         /\ SectionIn(lines', Len(lines) + 1) = curSection'
<1>0. PICK n \in Nat : n = Len(lines)
  BY LineAdded
<1>1. /\ n \in Nat /\ n + 1 \in Nat
      /\ Len(lines') = n + 1
      /\ lines'[n + 1] = line
      /\ \A i \in 1 .. n : lines'[i] = lines[i]
  BY <1>0, LineAdded
<1>2. ASSUME NEW i \in 0 .. n, NEW j \in 1 .. i, LastHeader(lines, i, j)
      PROVE  LastHeader(lines', i, j)
  BY <1>1, <1>2 DEF LastHeader
<1>3. ASSUME NEW i \in 0 .. n, \E j \in 1 .. i : lines'[j].kind = "section"
      PROVE  \E j \in 1 .. i : LastHeader(lines', i, j)
  <2>1. \E j \in 1 .. i : IsHeader(j)
    BY <1>1, <1>3 DEF IsHeader
  <2>2. PICK j \in 1 .. i : LastHeader(lines, i, j)
    BY <1>0, <2>1 DEF HeadersInv
  <2> QED
    BY <1>2, <2>2
<1>4. CASE line.kind = "section"
  <2>1. LastHeader(lines', n + 1, n + 1)
    BY <1>1, <1>4 DEF LastHeader
  <2>2. SectionIn(lines', n + 1) = line.name
    <3>1. SectionIn(lines', n + 1) = lines'[n + 1].name
      BY <1>1, <2>1, SectionByHeader
    <3> QED
      BY <1>1, <3>1
  <2>3. n + 1 \in 1 .. n + 1 /\ \A i \in 0 .. n + 1 : i \in 0 .. n \/ i = n + 1
    BY <1>1
  <2>4. ASSUME NEW i \in 0 .. n + 1, \E j \in 1 .. i : lines'[j].kind = "section"
        PROVE  \E j \in 1 .. i : LastHeader(lines', i, j)
    BY <1>3, <2>1, <2>3, <2>4
  <2> QED
    BY <1>0, <1>1, <1>4, <2>2, <2>4, SectionDef DEF HeadersInv, IsHeader
<1>5. CASE line.kind # "section"
  <2>1. ASSUME NEW j \in 1 .. n, LastHeader(lines', n, j)
        PROVE  LastHeader(lines', n + 1, j)
    BY <1>1, <1>5, <2>1 DEF LastHeader
  <2>2. ASSUME NEW j \in 1 .. n + 1, lines'[j].kind = "section"
        PROVE  j \in 1 .. n
    BY <1>1, <1>5, <2>2
  <2>3. SectionIn(lines', n + 1) = SectionIn(lines', n)
    <3>1. CASE \E j \in 1 .. n : lines'[j].kind = "section"
      <4>1. PICK j \in 1 .. n : LastHeader(lines', n, j)
        BY <1>1, <1>3, <3>1
      <4> QED
        BY <1>1, <2>1, <4>1, SectionByHeader
    <3>2. CASE ~ \E j \in 1 .. n : lines'[j].kind = "section"
      BY <2>2, <3>2, SectionBeforeHeaders
    <3> QED
      BY <3>1, <3>2
  <2>4. SectionOf(n)' = SectionOf(n)
    BY <1>0, <1>1, SectionStays
  <2>5. SectionOf(n) = curSection
    BY <1>0 DEF HeadersInv
  <2>6. ASSUME NEW i \in 0 .. n + 1, \E j \in 1 .. i : lines'[j].kind = "section"
        PROVE  \E j \in 1 .. i : LastHeader(lines', i, j)
    <3>1. CASE i \in 0 .. n
      BY <1>3, <2>6, <3>1
    <3>2. CASE i = n + 1
      <4>1. \E j \in 1 .. n : lines'[j].kind = "section"
        BY <2>2, <2>6, <3>2
      <4>2. PICK j \in 1 .. n : LastHeader(lines', n, j)
        BY <1>1, <1>3, <4>1
      <4> QED
        BY <1>1, <2>1, <3>2, <4>2
    <3> QED
      BY <1>1, <3>1, <3>2
  <2>7. SectionIn(lines', n + 1) = curSection'
    BY <1>5, <2>3, <2>4, <2>5, SectionDef
  <2> QED
    BY <1>0, <1>1, <2>6, <2>7, SectionDef DEF HeadersInv, IsHeader
<1> QED
  BY <1>4, <1>5

\* What was read stays read.
LEMMA ReadStays ==
  ASSUME TypeOK, HeadersInv, NEW line \in Lines, lines' = Append(lines, line),
         NEW section, NEW key, ReadIn(section, key)
  PROVE  ReadIn(section, key)'
<1>1. PICK i \in DOMAIN lines :
        IsPair(i) /\ lines[i].name = key /\ SectionOf(i) \in {section, NoName}
  BY DEF ReadIn
<1>2. /\ i \in DOMAIN lines' /\ i \in 0 .. Len(lines)
      /\ lines'[i] = lines[i]
  BY LineAdded
<1>3. SectionOf(i)' = SectionOf(i)
  BY <1>2, SectionStays
<1> QED
  BY <1>1, <1>2, <1>3 DEF ReadIn, IsPair

-------------------------------------------------------------------------------
\* Reading a line.

TomlInv ==
  \A s \in DOMAIN toml : \A k \in DOMAIN toml[s] : ReadIn(s, k[Len(k)])

\* NothingLeaks in the terms of this module.
LEMMA NothingLeaksDef ==
  NothingLeaks <=>
    /\ \A k \in DOMAIN origin : SectionOf(origin[k]) \in {curSection, NoName}
    /\ TomlInv
BY DEF NothingLeaks, TomlInv, ReadIn

LEMMA LastKeyIsCurrentDef == LastKeyIsCurrent <=> (lastKey # NoName => ReadIn(curSection, lastKey))
BY DEF LastKeyIsCurrent, ReadIn

\* The parts of the invariant that steps are shown to keep.
StepInv ==
  /\ TypeOK
  /\ HeadersInv
  /\ EntriesInv
  /\ lastKey # NoName => ReadIn(curSection, lastKey)
  /\ TomlInv

LEMMA FileInvParts ==
  FileInv <=> StepInv
<1>1. EntriesInv => \A k \in DOMAIN origin : SectionOf(origin[k]) \in {curSection, NoName}
  BY DEF EntriesInv
<1> QED
  BY <1>1, NothingLeaksDef, LastKeyIsCurrentDef DEF FileInv, StepInv

LEMMA LineRead ==
  ASSUME TypeOK, HeadersInv, NEW line \in Lines, lines' = Append(lines, line),
         curSection' = IF line.kind = "section" THEN line.name ELSE curSection
  PROVE  /\ HeadersInv'
         /\ lines' \in Seq(Lines)
         /\ \A section, key : ReadIn(section, key) => ReadIn(section, key)'
         /\ \A i \in DOMAIN lines : i \in DOMAIN lines' /\ SectionOf(i)' = SectionOf(i)
         /\ \A section, key :
              /\ line.kind = "pair" /\ line.name = key
              /\ section = curSection \/ curSection = NoName
              => ReadIn(section, key)'
<1>0. PICK n \in Nat : n = Len(lines)
  BY LineAdded
<1>1. /\ lines' \in Seq(Lines)
      /\ DOMAIN lines = 1 .. n
      /\ DOMAIN lines' = 1 .. n + 1
      /\ lines'[n + 1] = line
  BY <1>0, LineAdded
<1>2. HeadersInv' /\ SectionIn(lines', n + 1) = curSection'
  BY <1>0, HeadersKept
<1>3. \A i \in DOMAIN lines : i \in DOMAIN lines' /\ SectionOf(i)' = SectionOf(i)
  <2> TAKE i \in DOMAIN lines
  <2>1. i \in 0 .. Len(lines) /\ i \in DOMAIN lines'
    BY <1>0, <1>1
  <2> QED
    BY <2>1, SectionStays
<1>4. ASSUME NEW section, NEW key, line.kind = "pair", line.name = key,
             section = curSection \/ curSection = NoName
      PROVE  ReadIn(section, key)'
  <2>1. curSection' = curSection
    BY <1>4
  <2>2. SectionOf(n + 1)' \in {section, NoName}
    BY <1>2, <1>4, <2>1, SectionDef
  <2>3. n + 1 \in DOMAIN lines'
    BY <1>1
  <2> QED
    BY <1>1, <1>4, <2>2, <2>3 DEF ReadIn, IsPair
<1> QED
  BY <1>1, <1>2, <1>3, <1>4, ReadStays

\* A line that leaves the entries alone.
LEMMA EntriesStay ==
  ASSUME StepInv, NEW line \in Lines, lines' = Append(lines, line),
         curSection' = IF line.kind = "section" THEN line.name ELSE curSection,
         curSection' = curSection \/ curSection = NoName,
         UNCHANGED <<curSectionData, lastKey, toml, origin>>
  PROVE  /\ HeadersInv' /\ EntriesInv' /\ TomlInv'
         /\ (lastKey # NoName => ReadIn(curSection, lastKey))'
<1>1. /\ HeadersInv'
      /\ \A section, key : ReadIn(section, key) => ReadIn(section, key)'
      /\ \A i \in DOMAIN lines : i \in DOMAIN lines' /\ SectionOf(i)' = SectionOf(i)
  BY LineRead DEF StepInv
<1>2. \A key : ReadIn(curSection, key) => ReadIn(curSection, key)'
  <2> SUFFICES ASSUME NEW key, ReadIn(curSection, key)
               PROVE  ReadIn(curSection, key)'
    OBVIOUS
  <2>1. PICK c : c = curSection
    OBVIOUS
  <2>2. ReadIn(c, key)'
    BY <1>1, <2>1
  <2> QED
    BY <2>1, <2>2 DEF ReadIn
<1>3. TomlInv'
  BY <1>1 DEF StepInv, TomlInv
<1>4. EntriesInv'
  BY <1>1, <1>2 DEF StepInv, EntriesInv
<1> QED
  BY <1>1, <1>2, <1>3, <1>4 DEF StepInv

-------------------------------------------------------------------------------
\* The steps of ParseTomlFile.

LEMMA LineKinds ==
  /\ [kind |-> "comment"] \in Lines
  /\ [kind |-> "text"] \in Lines
  /\ \A name \in Sections : [kind |-> "section", name |-> name] \in Lines
  /\ \A name \in Keys, value \in Values, nested \in BOOLEAN :
       [kind |-> "pair", name |-> name, value |-> value, nested |-> nested] \in Lines
BY DEF Lines

LEMMA NothingIn == NoEntries = <<>> /\ DOMAIN NoEntries = {} /\ IsEntries(NoEntries)
BY DEF NoEntries, IsEntries

\* A completed section joins the others.
LEMMA SectionCompleted ==
  ASSUME StepInv, curSection \in Sections \cup {NoName},
         toml' = Put(toml, curSection, curSectionData)
  PROVE  /\ DOMAIN toml' \subseteq Sections \cup {NoName}
         /\ \A s \in DOMAIN toml' : IsEntries(toml'[s])
         /\ \A s \in DOMAIN toml' : \A k \in DOMAIN toml'[s] : ReadIn(s, k[Len(k)])
<1>1. DOMAIN toml' = DOMAIN toml \cup {curSection}
  BY DEF Put
<1>2. ASSUME NEW s \in DOMAIN toml'
      PROVE  \/ s = curSection /\ toml'[s] = curSectionData
             \/ s \in DOMAIN toml /\ toml'[s] = toml[s]
  BY <1>2 DEF Put
<1>3. \A s \in DOMAIN toml' : IsEntries(toml'[s])
  BY <1>2 DEF StepInv, TypeOK
<1>4. \A s \in DOMAIN toml' : \A k \in DOMAIN toml'[s] : ReadIn(s, k[Len(k)])
  BY <1>2 DEF StepInv, EntriesInv, TomlInv
<1>5. DOMAIN toml \cup {curSection} \subseteq Sections \cup {NoName}
  BY DEF StepInv, TypeOK
<1> QED
  BY <1>1, <1>3, <1>4, <1>5

LEMMA SkipKeeps ==
  ASSUME StepInv, SkipLine
  PROVE  StepInv'
<1> DEFINE line == [kind |-> "comment"]
<1>1. line \in Lines /\ line.kind = "comment"
  BY LineKinds
<1>2. lines' = Append(lines, line) /\ UNCHANGED <<pc, accessKey, secretKey>>
  BY DEF SkipLine, Read, keyVars
<1>3. UNCHANGED <<curSection, curSectionData, lastKey, toml, origin>>
  BY DEF SkipLine
<1> HIDE DEF line
<1>4. lines' \in Seq(Lines)
  BY <1>1, <1>2, LineAdded DEF StepInv
<1>5. TypeOK'
  BY <1>2, <1>3, <1>4 DEF StepInv, TypeOK, IsEntries
<1>6. /\ HeadersInv' /\ EntriesInv' /\ TomlInv'
      /\ (lastKey # NoName => ReadIn(curSection, lastKey))'
  BY <1>1, <1>2, <1>3, EntriesStay
<1> QED
  BY <1>5, <1>6 DEF StepInv

LEMMA SectionKeeps ==
  ASSUME StepInv, NEW name \in Sections, ReadSection(name)
  PROVE  StepInv'
<1> DEFINE line == [kind |-> "section", name |-> name]
<1>1. line \in Lines /\ line.kind = "section" /\ line.name = name
  BY LineKinds
<1>2. lines' = Append(lines, line) /\ UNCHANGED <<pc, accessKey, secretKey>>
  BY DEF ReadSection, Read, keyVars
<1>3. curSection' = name
  BY DEF ReadSection
<1> HIDE DEF line
<1>4. /\ HeadersInv' /\ lines' \in Seq(Lines)
      /\ \A section, key : ReadIn(section, key) => ReadIn(section, key)'
  BY <1>1, <1>2, <1>3, LineRead DEF StepInv
<1>5. CASE curSection = NoName
  <2>1. UNCHANGED <<curSectionData, lastKey, toml, origin>>
    BY <1>5 DEF ReadSection
  <2>2. TypeOK'
    BY <1>2, <1>3, <1>4, <2>1 DEF StepInv, TypeOK, IsEntries
  <2>3. /\ HeadersInv' /\ EntriesInv' /\ TomlInv'
        /\ (lastKey # NoName => ReadIn(curSection, lastKey))'
    BY <1>1, <1>2, <1>3, <1>5, <2>1, EntriesStay
  <2> QED
    BY <2>2, <2>3 DEF StepInv
<1>6. CASE curSection # NoName
  <2>1. /\ toml' = Put(toml, curSection, curSectionData)
        /\ curSectionData' = NoEntries /\ origin' = NoEntries /\ lastKey' = NoName
    BY <1>6 DEF ReadSection
  <2>2. /\ DOMAIN toml' \subseteq Sections \cup {NoName}
        /\ \A s \in DOMAIN toml' : IsEntries(toml'[s])
        /\ \A s \in DOMAIN toml' : \A k \in DOMAIN toml'[s] : ReadIn(s, k[Len(k)])
    BY <2>1, SectionCompleted DEF StepInv, TypeOK
  <2>3. TypeOK'
    BY <1>2, <1>3, <1>4, <2>1, <2>2, NothingIn DEF StepInv, TypeOK, IsEntries
  <2>4. TomlInv'
    BY <1>4, <2>2 DEF TomlInv
  <2>5. EntriesInv' /\ (lastKey # NoName => ReadIn(curSection, lastKey))'
    BY <2>1, NothingIn DEF EntriesInv
  <2> QED
    BY <1>4, <2>3, <2>4, <2>5 DEF StepInv
<1> QED
  BY <1>5, <1>6

LEMMA KeyParts ==
  /\ \A a : <<a>>[Len(<<a>>)] = a
  /\ \A a, b : <<a, b>>[Len(<<a, b>>)] = b
  /\ \A a \in Keys : <<a>> \in EntryKeys
  /\ \A a, b \in Keys : <<a, b>> \in EntryKeys
BY DEF EntryKeys

LEMMA PairKeeps ==
  ASSUME StepInv, NEW name \in Keys, NEW value \in Values, NEW nested \in BOOLEAN,
         ReadPair(name, value, nested)
  PROVE  StepInv'
<1> DEFINE line == [kind |-> "pair", name |-> name, value |-> value, nested |-> nested]
           before == IF lastKey = NoName THEN curSectionData
                     ELSE Touch(curSectionData, <<lastKey>>)
           key == EntryKey(name)
<1>1. line \in Lines /\ line.kind = "pair" /\ line.name = name
  BY LineKinds
<1>2. lines' = Append(lines, line) /\ UNCHANGED <<pc, accessKey, secretKey>>
  BY DEF ReadPair, Read, keyVars
<1>3. /\ curSectionData' = Put(before, key, value)
      /\ origin' = Put(origin, key, Len(lines'))
      /\ lastKey' = name
      /\ UNCHANGED <<curSection, toml>>
  BY DEF ReadPair
<1> HIDE DEF line
<1>4. PICK c : c = curSection
  OBVIOUS
<1>5. /\ HeadersInv' /\ lines' \in Seq(Lines)
      /\ \A section, k : ReadIn(section, k) => ReadIn(section, k)'
      /\ \A i \in DOMAIN lines : i \in DOMAIN lines' /\ SectionOf(i)' = SectionOf(i)
      /\ ReadIn(c, name)'
  BY <1>1, <1>2, <1>3, <1>4, LineRead DEF StepInv
<1>6. IsEntries(before) /\ \A k \in DOMAIN before : ReadIn(c, k[Len(k)])
  <2>1. CASE lastKey = NoName
    BY <1>4, <2>1 DEF StepInv, TypeOK, EntriesInv
  <2>2. CASE lastKey # NoName
    <3>1. lastKey \in Keys /\ IsEntries(curSectionData) /\ ReadIn(c, lastKey)
      BY <1>4, <2>2 DEF StepInv, TypeOK
    <3>2. IsEntries(Touch(curSectionData, <<lastKey>>))
      BY <3>1, KeyParts, TouchEntries
    <3>3. \A k \in DOMAIN Touch(curSectionData, <<lastKey>>) :
            k = <<lastKey>> \/ k \in DOMAIN curSectionData
      BY DEF Touch, Put
    <3>4. \A k \in DOMAIN Touch(curSectionData, <<lastKey>>) : ReadIn(c, k[Len(k)])
      BY <1>4, <3>1, <3>3, KeyParts DEF StepInv, EntriesInv
    <3> QED
      BY <2>2, <3>2, <3>4
  <2> QED
    BY <2>1, <2>2
<1>7. key \in EntryKeys /\ key[Len(key)] = name
  BY KeyParts DEF StepInv, TypeOK, EntryKey, Prefixed
<1>8. value \in Seq(Texts)
  <2>1. <<"value">> \in Seq({"value", "text"})
    OBVIOUS
  <2>2. value = Empty \/ value = <<"value">>
    BY DEF Values
  <2> QED
    BY <2>1, <2>2, EmptyText DEF Texts
<1> HIDE DEF before, key
<1>9. IsEntries(curSectionData')
  BY <1>3, <1>6, <1>7, <1>8, PutEntries
<1>10. DOMAIN curSectionData' = DOMAIN before \cup {key} /\ DOMAIN origin' = DOMAIN origin \cup {key}
  BY <1>3 DEF Put
<1>11. DOMAIN curSectionData \subseteq DOMAIN before
  BY DEF before, Touch, Put
<1>12. TypeOK'
  <2>1. DOMAIN origin' \subseteq DOMAIN curSectionData'
    BY <1>10, <1>11 DEF StepInv, TypeOK
  <2> QED
    BY <1>2, <1>3, <1>5, <1>9, <2>1 DEF StepInv, TypeOK, IsEntries
<1>13. \A k \in DOMAIN curSectionData' : ReadIn(c, k[Len(k)])'
  BY <1>5, <1>6, <1>7, <1>10
<1>14. \A k \in DOMAIN origin' :
         origin'[k] \in DOMAIN lines' /\ SectionIn(lines', origin'[k]) \in {c, NoName}
  <2>1. PICK n \in Nat : n = Len(lines)
    BY <1>1, <1>2, LineAdded DEF StepInv
  <2>2. Len(lines') = n + 1 /\ n + 1 \in DOMAIN lines' /\ n \in Nat
    BY <1>1, <1>2, <2>1, LineAdded DEF StepInv
  <2>3. SectionIn(lines', n + 1) = c
    BY <1>1, <1>2, <1>3, <1>4, <2>1, HeadersKept DEF StepInv
  <2>4. ASSUME NEW k \in DOMAIN origin'
        PROVE  origin'[k] = n + 1 \/ (k \in DOMAIN origin /\ origin'[k] = origin[k])
    BY <1>3, <2>2, <2>4 DEF Put
  <2>5. ASSUME NEW k \in DOMAIN origin
        PROVE  origin[k] \in DOMAIN lines' /\ SectionIn(lines', origin[k]) \in {c, NoName}
    <3>1. PICK i \in DOMAIN lines : i = origin[k]
      BY <2>5 DEF StepInv, EntriesInv
    <3>2. SectionOf(i) \in {c, NoName}
      BY <1>4, <2>5, <3>1 DEF StepInv, EntriesInv
    <3> QED
      BY <1>5, <3>1, <3>2, SectionDef
  <2> QED
    BY <2>2, <2>3, <2>4, <2>5
<1>15. EntriesInv'
  <2>1. \A k \in DOMAIN origin' : SectionOf(origin[k])' = SectionIn(lines', origin'[k])
    BY DEF SectionOf, SectionIn, IsHeader
  <2> QED
    BY <1>3, <1>4, <1>13, <1>14, <2>1 DEF EntriesInv
<1>16. TomlInv'
  BY <1>3, <1>5 DEF StepInv, TomlInv
<1>17. ReadIn(curSection, lastKey)'
  <2>1. curSection' = c /\ lastKey' = name
    BY <1>3, <1>4
  <2> QED
    BY <1>5, <2>1
<1> QED
  BY <1>5, <1>12, <1>15, <1>16, <1>17 DEF StepInv

LEMMA TextKeeps ==
  ASSUME StepInv, ReadText
  PROVE  StepInv'
<1> DEFINE line == [kind |-> "text"]
           value == Append(At(curSectionData, <<lastKey>>), "text")
<1>1. line \in Lines /\ line.kind = "text"
  BY LineKinds
<1>2. lines' = Append(lines, line) /\ UNCHANGED <<pc, accessKey, secretKey>>
  BY DEF ReadText, Read, keyVars
<1>3. /\ curSectionData' = Put(curSectionData, <<lastKey>>, value)
      /\ UNCHANGED <<curSection, lastKey, toml, origin>>
  BY DEF ReadText
<1>4. lastKey \in Keys /\ <<lastKey>> \in EntryKeys /\ ReadIn(curSection, lastKey)
  BY KeyParts DEF ReadText, StepInv, TypeOK
<1>5. value \in Seq(Texts)
  <2>1. At(curSectionData, <<lastKey>>) \in Seq(Texts)
    BY AtText DEF StepInv, TypeOK
  <2>2. "text" \in Texts
    BY DEF Texts
  <2> QED
    BY <2>1, <2>2
<1> HIDE DEF line, value
<1>6. PICK c : c = curSection
  OBVIOUS
<1>7. /\ HeadersInv' /\ lines' \in Seq(Lines)
      /\ \A section, k : ReadIn(section, k) => ReadIn(section, k)'
      /\ \A i \in DOMAIN lines : i \in DOMAIN lines' /\ SectionOf(i)' = SectionOf(i)
  BY <1>1, <1>2, <1>3, LineRead DEF StepInv
<1>8. IsEntries(curSectionData')
  BY <1>3, <1>4, <1>5, PutEntries DEF StepInv, TypeOK
<1>9. DOMAIN curSectionData' = DOMAIN curSectionData \cup {<<lastKey>>}
  BY <1>3 DEF Put
<1>10. TypeOK'
  <2>1. DOMAIN origin' \subseteq DOMAIN curSectionData'
    BY <1>3, <1>9 DEF StepInv, TypeOK
  <2> QED
    BY <1>2, <1>3, <1>7, <1>8, <2>1 DEF StepInv, TypeOK
<1>11. EntriesInv'
  <2>1. \A k \in DOMAIN curSectionData' : ReadIn(c, k[Len(k)])
    BY <1>4, <1>6, <1>9, KeyParts DEF StepInv, EntriesInv
  <2>2. \A k \in DOMAIN curSectionData' : ReadIn(c, k[Len(k)])'
    BY <1>7, <2>1
  <2>3. ASSUME NEW k \in DOMAIN origin
        PROVE  origin[k] \in DOMAIN lines' /\ SectionIn(lines', origin[k]) \in {c, NoName}
    <3>1. PICK i \in DOMAIN lines : i = origin[k]
      BY <2>3 DEF StepInv, EntriesInv
    <3>2. SectionOf(i) \in {c, NoName}
      BY <1>6, <2>3, <3>1 DEF StepInv, EntriesInv
    <3> QED
      BY <1>7, <3>1, <3>2, SectionDef
  <2>4. \A k \in DOMAIN origin' : SectionOf(origin[k])' = SectionIn(lines', origin'[k])
    BY DEF SectionOf, SectionIn, IsHeader
  <2> QED
    BY <1>3, <1>6, <2>2, <2>3, <2>4 DEF EntriesInv
<1>12. TomlInv'
  BY <1>3, <1>7 DEF StepInv, TomlInv
<1>13. ReadIn(curSection, lastKey)'
  <2>1. PICK k : k = lastKey
    OBVIOUS
  <2>2. ReadIn(c, k)'
    BY <1>4, <1>6, <1>7, <2>1
  <2> QED
    BY <1>3, <1>6, <2>1, <2>2
<1> QED
  BY <1>7, <1>10, <1>11, <1>12, <1>13 DEF StepInv

LEMMA RejectKeeps ==
  ASSUME StepInv, RejectText
  PROVE  StepInv'
<1> DEFINE line == [kind |-> "text"]
<1>1. line \in Lines /\ line.kind = "text"
  BY LineKinds
<1>2. /\ lines' = Append(lines, line) /\ pc' = "exited"
      /\ UNCHANGED <<curSection, curSectionData, lastKey, toml, origin, accessKey, secretKey>>
  BY DEF RejectText, keyVars
<1> HIDE DEF line
<1>3. lines' \in Seq(Lines)
  BY <1>1, <1>2, LineAdded DEF StepInv
<1>4. TypeOK'
  BY <1>2, <1>3 DEF StepInv, TypeOK, IsEntries
<1>5. /\ HeadersInv' /\ EntriesInv' /\ TomlInv'
      /\ (lastKey # NoName => ReadIn(curSection, lastKey))'
  BY <1>1, <1>2, EntriesStay
<1> QED
  BY <1>4, <1>5 DEF StepInv

\* A step that reads no line and leaves the section that was being read.
LEMMA NoLineKeeps ==
  ASSUME StepInv, UNCHANGED <<lines, curSection, curSectionData, lastKey, origin>>
  PROVE  /\ HeadersInv' /\ EntriesInv'
         /\ (lastKey # NoName => ReadIn(curSection, lastKey))'
         /\ \A section, k : ReadIn(section, k) => ReadIn(section, k)'
<1>1. \A i : SectionOf(i)' = SectionOf(i)
  BY SectionDef
<1>2. \A section, k : ReadIn(section, k) => ReadIn(section, k)'
  BY <1>1 DEF ReadIn, IsPair
<1>3. HeadersInv'
  BY SectionDef DEF StepInv, HeadersInv, IsHeader
<1>4. EntriesInv'
  <2>1. (\A k \in DOMAIN curSectionData : ReadIn(curSection, k[Len(k)]))'
    BY <1>2 DEF StepInv, EntriesInv
  <2>2. (\A k \in DOMAIN origin :
           origin[k] \in DOMAIN lines /\ SectionOf(origin[k]) \in {curSection, NoName})'
    BY SectionDef DEF StepInv, EntriesInv
  <2> QED
    BY <2>1, <2>2 DEF EntriesInv
<1>5. (lastKey # NoName => ReadIn(curSection, lastKey))'
  BY DEF StepInv, ReadIn, SectionOf, IsHeader, IsPair
<1> QED
  BY <1>2, <1>3, <1>4, <1>5

LEMMA EndKeeps ==
  ASSUME StepInv, EndFile
  PROVE  StepInv'
<1>1. /\ UNCHANGED <<lines, curSection, curSectionData, lastKey, origin, accessKey, secretKey>>
      /\ pc' = "lookup"
      /\ toml' = toml \/ toml' = Put(toml, curSection, curSectionData)
  BY DEF EndFile, keyVars
<1>2. /\ HeadersInv' /\ EntriesInv'
      /\ (lastKey # NoName => ReadIn(curSection, lastKey))'
      /\ \A section, k : ReadIn(section, k) => ReadIn(section, k)'
  BY <1>1, NoLineKeeps
<1>3. /\ DOMAIN toml' \subseteq Sections \cup {NoName}
      /\ \A s \in DOMAIN toml' : IsEntries(toml'[s])
      /\ \A s \in DOMAIN toml' : \A k \in DOMAIN toml'[s] : ReadIn(s, k[Len(k)])
  <2>1. CASE toml' = toml
    BY <2>1 DEF StepInv, TypeOK, TomlInv
  <2>2. CASE toml' = Put(toml, curSection, curSectionData)
    BY <2>2, SectionCompleted DEF StepInv, TypeOK
  <2> QED
    BY <1>1, <2>1, <2>2
<1>4. TypeOK'
  BY <1>1, <1>3 DEF StepInv, TypeOK, IsEntries
<1>5. TomlInv'
  BY <1>2, <1>3 DEF TomlInv
<1> QED
  BY <1>2, <1>4, <1>5 DEF StepInv

\* InitConfig and Validate leave what was parsed.
LEMMA ConfigureKeeps ==
  ASSUME StepInv, Configure \/ UNCHANGED vars
  PROVE  StepInv'
<1>1. UNCHANGED <<lines, curSection, curSectionData, lastKey, toml, origin>>
  BY DEF Configure, ProfileMissing, ReadKeys, RejectKeys, AcceptKeys, parseVars, vars
<1>2. /\ HeadersInv' /\ EntriesInv'
      /\ (lastKey # NoName => ReadIn(curSection, lastKey))'
      /\ \A section, k : ReadIn(section, k) => ReadIn(section, k)'
  BY <1>1, NoLineKeeps
<1>3. TomlInv'
  BY <1>1, <1>2 DEF StepInv, TomlInv
<1>4. /\ pc' \in {"parse", "lookup", "validate", "started", "exited"}
      /\ accessKey' \in Seq(Texts) /\ secretKey' \in Seq(Texts)
  <2>1. CASE ReadKeys
    <3>1. IsEntries(toml[Profile])
      BY <2>1 DEF ReadKeys, StepInv, TypeOK
    <3> QED
      BY <2>1, <3>1, AtText DEF ReadKeys
  <2>2. CASE ProfileMissing \/ RejectKeys \/ AcceptKeys \/ UNCHANGED vars
    BY <2>2 DEF ProfileMissing, RejectKeys, AcceptKeys, keyVars, vars, StepInv, TypeOK, Texts
  <2> QED
    BY <2>1, <2>2 DEF Configure
<1>5. TypeOK'
  BY <1>1, <1>4 DEF StepInv, TypeOK, IsEntries, Texts
<1> QED
  BY <1>2, <1>3, <1>5 DEF StepInv

-------------------------------------------------------------------------------
\* The invariant.

LEMMA InitFile == Init => StepInv
<1> SUFFICES ASSUME Init PROVE StepInv
  OBVIOUS
<1>1. /\ lines = <<>> /\ Len(lines) = 0 /\ lines \in Seq(Lines)
      /\ DOMAIN toml = {} /\ DOMAIN curSectionData = {} /\ DOMAIN origin = {}
  BY NothingIn DEF Init
<1>2. TypeOK
  BY <1>1, EmptyText DEF Init, TypeOK, IsEntries, Texts
<1>3. SectionOf(0) = NoName
  BY SectionDef, SectionBeforeHeaders
<1>4. HeadersInv
  BY <1>1, <1>3 DEF HeadersInv, Init
<1> QED
  BY <1>1, <1>2, <1>4 DEF StepInv, EntriesInv, TomlInv, Init

LEMMA NextFile == StepInv /\ [Next]_vars => StepInv'
<1> SUFFICES ASSUME StepInv, [Next]_vars
             PROVE  StepInv'
  OBVIOUS
<1>1. CASE SkipLine \/ RejectText \/ ReadText \/ EndFile
  BY <1>1, SkipKeeps, RejectKeeps, TextKeeps, EndKeeps
<1>2. ASSUME NEW name \in Sections, ReadSection(name) PROVE StepInv'
  BY <1>2, SectionKeeps
<1>3. ASSUME NEW name \in Keys, NEW value \in Values, NEW nested \in BOOLEAN,
             ReadPair(name, value, nested)
      PROVE  StepInv'
  BY <1>3, PairKeeps
<1>4. CASE Configure \/ UNCHANGED vars
  BY <1>4, ConfigureKeeps
<1> QED
  BY <1>1, <1>2, <1>3, <1>4 DEF Next, Parse, Ended

\* The invariant of ParseTomlFile: the lines that the section in hand, its
\* entries, the last key and the completed sections come from.
THEOREM FileInvariant == Spec => []FileInv
<1>1. Spec => []StepInv
  BY InitFile, NextFile, PTL DEF Spec
<1> QED
  BY <1>1, FileInvParts, PTL

\* Types are kept by every step.
THEOREM TypesHold == Spec => []TypeOK
BY FileInvariant, PTL DEF FileInv

\* Every entry of a section was read in it, or before the first header: nothing of
\* one profile is left when the next is read.
THEOREM NothingIsLeaked == Spec => []NothingLeaks
BY FileInvariant, PTL DEF FileInv

\* The key a text or a prefix goes on belongs to the section it is read in.
THEOREM LastKeyIsOwn == Spec => []LastKeyIsCurrent
BY FileInvariant, PTL DEF FileInv

-------------------------------------------------------------------------------
\* The first child of a key without a value.

Headed(s) == \E j \in DOMAIN lines : IsHeader(j) /\ lines[j].name = s

\* A key without a value, the first pair of its section.
Parent(i) ==
  /\ IsPair(i) /\ ~lines[i].nested /\ lines[i].value = Empty
  /\ \A j \in 1 .. i - 1 : SectionOf(j) = SectionOf(i) => ~IsPair(j)

Child(i) == i > 1 /\ IsPair(i) /\ lines[i].nested /\ Parent(i - 1)

ChildKey(i) == <<lines[i - 1].name, lines[i].name>>

\* The child stands under its own name and its parent's in its section, be
\* that completed or in hand.
ChildKept(i) ==
  IF SectionOf(i) \in DOMAIN toml
  THEN ChildKey(i) \in DOMAIN toml[SectionOf(i)]
  ELSE pc = "parse" /\ SectionOf(i) = curSection /\ ChildKey(i) \in DOMAIN curSectionData

\* The parent that was read last waits for its child.
ParentWaits ==
  \A n \in DOMAIN lines : n = Len(lines) /\ Parent(n) =>
    /\ lastKey = lines[n].name
    /\ <<lastKey>> \in DOMAIN curSectionData /\ curSectionData[<<lastKey>>] = Empty

\* Only sections with a header are completed while the file is read.
CompletedInv ==
  /\ \A s \in DOMAIN toml : s = NoName \/ Headed(s)
  /\ pc = "parse" => NoName \notin DOMAIN toml

NestedInv ==
  SectionsOnce =>
    /\ pc = "parse" => curSection \notin DOMAIN toml /\ ParentWaits
    /\ pc = "parse" \/ Parsed => \A i \in DOMAIN lines : Child(i) => ChildKept(i)

LEMMA Prefix ==
  ASSUME TypeOK, HeadersInv, NEW line \in Lines, lines' = Append(lines, line)
  PROVE  /\ \A i \in 1 .. Len(lines) :
              /\ lines'[i] = lines[i] /\ SectionOf(i)' = SectionOf(i)
              /\ Parent(i)' = Parent(i) /\ Child(i)' = Child(i)
              /\ i > 1 => ChildKey(i)' = ChildKey(i)
         /\ \A s : Headed(s) => Headed(s)'
         /\ SectionsOnce' => SectionsOnce
<1>0. PICK n \in Nat : n = Len(lines)
  BY LineAdded
<1>1. /\ DOMAIN lines = 1 .. n /\ DOMAIN lines' = 1 .. n + 1
      /\ \A i \in 1 .. n : lines'[i] = lines[i]
      /\ lines \in Seq(Lines) /\ lines' \in Seq(Lines)
  BY <1>0, LineAdded DEF TypeOK
<1>2. \A i \in 1 .. n : SectionOf(i)' = SectionOf(i)
  <2> TAKE i \in 1 .. n
  <2>1. i \in 0 .. Len(lines)
    BY <1>0
  <2> QED
    BY <2>1, SectionStays
<1>3. ASSUME NEW i \in 1 .. n
      PROVE  Parent(i)' = Parent(i)
  <2>1. \A j \in 1 .. i - 1 : j \in 1 .. n
    OBVIOUS
  <2>2. Parent(i) <=> /\ IsPair(i) /\ ~lines[i].nested /\ lines[i].value = Empty
                      /\ \A j \in 1 .. i - 1 : SectionOf(j) = SectionOf(i) => ~IsPair(j)
    BY DEF Parent
  <2>3. Parent(i)' <=> /\ IsPair(i)' /\ ~lines'[i].nested /\ lines'[i].value = Empty
                       /\ \A j \in 1 .. i - 1 : SectionOf(j)' = SectionOf(i)' => ~IsPair(j)'
    BY DEF Parent
  <2>4. \A j \in 1 .. n : IsPair(j)' <=> IsPair(j)
    BY <1>1 DEF IsPair
  <2>5. Parent(i)' <=> Parent(i)
    BY <1>1, <1>2, <2>1, <2>2, <2>3, <2>4
  <2> QED
    BY <2>5 DEF Parent
<1>4. ASSUME NEW i \in 1 .. n
      PROVE  Child(i)' = Child(i)
  <2>1. i > 1 => i - 1 \in 1 .. n
    OBVIOUS
  <2> QED
    BY <1>1, <1>3, <2>1 DEF Child, IsPair
<1>5. ASSUME NEW i \in 1 .. n, i > 1
      PROVE  ChildKey(i)' = ChildKey(i)
  BY <1>1, <1>5 DEF ChildKey
<1>6. \A s : Headed(s) => Headed(s)'
  BY <1>1 DEF Headed, IsHeader
<1>7. SectionsOnce' => SectionsOnce
  BY <1>1 DEF SectionsOnce, IsHeader
<1> QED
  BY <1>0, <1>1, <1>2, <1>3, <1>4, <1>5, <1>6, <1>7

\* In a file that begins with a header every line has a section.
LEMMA HeadedSections ==
  ASSUME TypeOK, HeadersInv, lines # <<>> => IsHeader(1), NEW i \in DOMAIN lines
  PROVE  SectionOf(i) \in Sections /\ Headed(SectionOf(i))
<1>1. lines \in Seq(Lines) /\ i \in 1 .. Len(lines) /\ Len(lines) \in Nat
  BY DEF TypeOK
<1>2. i \in 0 .. Len(lines) /\ 1 \in 1 .. i /\ IsHeader(1)
  BY <1>1
<1>3. PICK j \in 1 .. i : LastHeader(lines, i, j)
  BY <1>2 DEF HeadersInv
<1>4. SectionOf(i) = lines[j].name
  BY <1>1, <1>3, SectionByHeader, SectionDef
<1>5. j \in DOMAIN lines /\ lines[j].kind = "section" /\ lines[j] \in Lines
  BY <1>1, <1>3 DEF LastHeader
<1>6. lines[j].name \in Sections
  BY <1>5 DEF Lines
<1> QED
  BY <1>4, <1>5, <1>6 DEF Headed, IsHeader

\* A section in hand has no pair yet when there is no last key.
LEMMA FirstOfSection ==
  ASSUME StepInv, SectionsOnce,
         \A j \in DOMAIN lines : SectionOf(j) = curSection => ~IsPair(j)
  PROVE  lastKey = NoName
<1> SUFFICES ASSUME lastKey # NoName
             PROVE  FALSE
  OBVIOUS
<1>1. PICK i \in DOMAIN lines : IsPair(i) /\ SectionOf(i) \in {curSection, NoName}
  BY DEF StepInv, ReadIn
<1>2. SectionOf(i) \in Sections
  BY HeadedSections DEF StepInv, SectionsOnce
<1> QED
  BY <1>1, <1>2, NamesAssumption

\* The name of a header that is read is new in a file that has each once.
LEMMA NewSection ==
  ASSUME StepInv, NEW line \in Lines, lines' = Append(lines, line),
         line.kind = "section", SectionsOnce'
  PROVE  ~Headed(line.name)
<1>1. /\ DOMAIN lines = 1 .. Len(lines) /\ DOMAIN lines' = 1 .. Len(lines) + 1
      /\ \A i \in 1 .. Len(lines) : lines'[i] = lines[i]
      /\ lines'[Len(lines) + 1] = line /\ Len(lines) \in Nat
  BY LineAdded DEF StepInv
<1>2. ASSUME NEW j \in DOMAIN lines, IsHeader(j), lines[j].name = line.name
      PROVE  FALSE
  <2>1. /\ j \in DOMAIN lines' /\ Len(lines) + 1 \in DOMAIN lines'
        /\ lines'[j].kind = "section" /\ lines'[Len(lines) + 1].kind = "section"
        /\ lines'[j].name = lines'[Len(lines) + 1].name
    BY <1>1, <1>2 DEF IsHeader
  <2>2. j = Len(lines) + 1
    BY <2>1 DEF SectionsOnce, IsHeader
  <2> QED
    BY <1>1, <2>2
<1> QED
  BY <1>2 DEF Headed

\* Before the first line of such a file no section is open.
LEMMA CurrentHeaded ==
  ASSUME StepInv, SectionsOnce, lines # <<>>
  PROVE  curSection \in Sections /\ Headed(curSection)
<1>1. lines \in Seq(Lines) /\ Len(lines) \in DOMAIN lines
  BY DEF StepInv, TypeOK
<1>2. SectionOf(Len(lines)) = curSection
  BY DEF StepInv, HeadersInv
<1> QED
  BY <1>1, <1>2, HeadedSections DEF StepInv, SectionsOnce

LEMMA SectionNested ==
  ASSUME StepInv, CompletedInv, NestedInv, NEW name \in Sections, ReadSection(name)
  PROVE  CompletedInv' /\ NestedInv'
<1> DEFINE line == [kind |-> "section", name |-> name]
<1>1. line \in Lines /\ line.kind = "section" /\ line.name = name
  BY LineKinds
<1>2. /\ pc = "parse" /\ pc' = "parse" /\ lines' = Append(lines, line) /\ curSection' = name
      /\ curSection = NoName => UNCHANGED <<toml, curSectionData>>
      /\ curSection # NoName => toml' = Put(toml, curSection, curSectionData)
  BY DEF ReadSection, Read
<1> HIDE DEF line
<1>3. PICK n \in Nat : n = Len(lines)
  BY <1>1, <1>2, LineAdded DEF StepInv
<1>4. /\ DOMAIN lines = 1 .. n /\ DOMAIN lines' = 1 .. n + 1 /\ Len(lines') = n + 1
      /\ lines'[n + 1] = line /\ lines \in Seq(Lines)
  BY <1>1, <1>2, <1>3, LineAdded DEF StepInv, TypeOK
<1>5. /\ \A i \in 1 .. n :
           /\ lines'[i] = lines[i] /\ SectionOf(i)' = SectionOf(i)
           /\ Child(i)' = Child(i) /\ (i > 1 => ChildKey(i)' = ChildKey(i))
      /\ \A s : Headed(s) => Headed(s)'
      /\ SectionsOnce' => SectionsOnce
  BY <1>1, <1>2, <1>3, Prefix DEF StepInv
<1>6. DOMAIN toml' = DOMAIN toml \/ (curSection # NoName /\ DOMAIN toml' = DOMAIN toml \cup {curSection})
  BY <1>2 DEF Put
<1>7. curSection # NoName => Headed(curSection)
  <2> SUFFICES ASSUME curSection # NoName
               PROVE  Headed(curSection)
    OBVIOUS
  <2>1. SectionOf(n) = curSection /\ n \in 0 .. Len(lines)
    BY <1>3 DEF StepInv, HeadersInv
  <2>2. \E j \in 1 .. n : IsHeader(j)
    BY <2>1, SectionDef, SectionBeforeHeaders DEF IsHeader
  <2>3. PICK j \in 1 .. n : LastHeader(lines, n, j)
    BY <2>1, <2>2 DEF StepInv, HeadersInv
  <2>4. lines[j].name = curSection
    BY <2>1, <2>3, SectionByHeader, SectionDef
  <2> QED
    BY <1>4, <2>3, <2>4 DEF Headed, IsHeader, LastHeader
<1>8. CompletedInv'
  BY <1>2, <1>5, <1>6, <1>7 DEF CompletedInv
<1>9. ASSUME SectionsOnce'
       PROVE  name \notin DOMAIN toml'
  <2>1. ~Headed(name)
    BY <1>1, <1>2, <1>9, NewSection
  <2> QED
    BY <1>6, <1>7, <2>1, NamesAssumption DEF CompletedInv
<1>10. ~Parent(n + 1)' /\ ~Child(n + 1)'
  BY <1>1, <1>4 DEF Parent, Child, IsPair
<1>11. ASSUME SectionsOnce', NEW i \in DOMAIN lines', Child(i)'
       PROVE  ChildKept(i)'
  <2>1. i \in 1 .. n /\ i > 1 /\ Child(i)
    BY <1>4, <1>5, <1>10, <1>11 DEF Child
  <2>2. SectionsOnce /\ ChildKept(i) /\ curSection \notin DOMAIN toml
    BY <1>2, <1>4, <1>5, <1>11, <2>1 DEF NestedInv
  <2>3. curSection # NoName
    BY <1>4, <2>1, <2>2, CurrentHeaded, NamesAssumption
  <2>4. PICK s : s = SectionOf(i)
    OBVIOUS
  <2>5. PICK key : key = ChildKey(i)
    OBVIOUS
  <2>6. s \in DOMAIN toml' /\ key \in DOMAIN toml'[s]
    <3>1. CASE s \in DOMAIN toml
      BY <1>2, <2>2, <2>3, <2>4, <2>5, <3>1 DEF ChildKept, Put
    <3>2. CASE s \notin DOMAIN toml
      BY <1>2, <2>2, <2>3, <2>4, <2>5, <3>2 DEF ChildKept, Put
    <3> QED
      BY <3>1, <3>2
  <2>7. SectionOf(i)' = s /\ ChildKey(i)' = key
    BY <1>5, <2>1, <2>4, <2>5
  <2> QED
    BY <2>6, <2>7 DEF ChildKept
<1>12. NestedInv'
  BY <1>2, <1>4, <1>9, <1>10, <1>11 DEF NestedInv, ParentWaits
<1> QED
  BY <1>8, <1>12

\* A line that is no header and no pair: entries may be added.
LEMMA OtherLineNested ==
  ASSUME StepInv, CompletedInv, NestedInv, pc = "parse", pc' \in {"parse", "exited"},
         NEW line \in Lines, line.kind \in {"comment", "text"}, lines' = Append(lines, line),
         UNCHANGED <<curSection, toml>>,
         DOMAIN curSectionData \subseteq DOMAIN curSectionData'
  PROVE  CompletedInv' /\ NestedInv'
<1>1. PICK n \in Nat : n = Len(lines)
  BY LineAdded DEF StepInv
<1>2. /\ DOMAIN lines = 1 .. n /\ DOMAIN lines' = 1 .. n + 1 /\ Len(lines') = n + 1
      /\ lines'[n + 1] = line
  BY <1>1, LineAdded DEF StepInv
<1>3. /\ \A i \in 1 .. n :
           /\ lines'[i] = lines[i] /\ SectionOf(i)' = SectionOf(i)
           /\ Child(i)' = Child(i) /\ (i > 1 => ChildKey(i)' = ChildKey(i))
      /\ \A s : Headed(s) => Headed(s)'
      /\ SectionsOnce' => SectionsOnce
  BY <1>1, Prefix DEF StepInv
<1>4. CompletedInv'
  BY <1>3 DEF CompletedInv
<1>5. ~Parent(n + 1)' /\ ~Child(n + 1)'
  BY <1>2 DEF Parent, Child, IsPair
<1>6. ASSUME SectionsOnce', NEW i \in DOMAIN lines', Child(i)'
      PROVE  ChildKept(i) /\ i \in 1 .. n /\ i > 1
  <2>1. i \in 1 .. n /\ i > 1 /\ Child(i)
    BY <1>2, <1>3, <1>5, <1>6 DEF Child
  <2> QED
    BY <1>2, <1>3, <1>6, <2>1 DEF NestedInv
<1>7. ASSUME SectionsOnce', pc' = "parse", NEW i \in DOMAIN lines', Child(i)'
      PROVE  ChildKept(i)'
  <2>1. ChildKept(i) /\ SectionOf(i)' = SectionOf(i) /\ ChildKey(i)' = ChildKey(i)
    BY <1>3, <1>6, <1>7
  <2> QED
    BY <1>7, <2>1 DEF ChildKept
<1>8. CASE pc' = "parse"
  <2>1. SectionsOnce' => curSection' \notin DOMAIN toml'
    BY <1>3 DEF NestedInv
  <2>2. ParentWaits'
    BY <1>2, <1>5 DEF ParentWaits
  <2>3. NestedInv'
    BY <1>7, <1>8, <2>1, <2>2 DEF NestedInv
  <2> QED
    BY <1>4, <2>3
<1>9. CASE pc' = "exited"
  BY <1>4, <1>9 DEF NestedInv, Parsed
<1> QED
  BY <1>8, <1>9

\* A step that reads no line and leaves the section in hand.
LEMMA SameLines ==
  ASSUME UNCHANGED lines
  PROVE  /\ \A i : SectionOf(i)' = SectionOf(i) /\ Child(i)' = Child(i) /\ ChildKey(i)' = ChildKey(i)
         /\ \A s : Headed(s)' = Headed(s)
         /\ SectionsOnce' = SectionsOnce
<1>1. \A i : SectionOf(i)' = SectionOf(i)
  BY SectionDef
<1> QED
  BY <1>1 DEF Child, Parent, ChildKey, Headed, SectionsOnce, IsPair, IsHeader

LEMMA EndNested ==
  ASSUME StepInv, CompletedInv, NestedInv, EndFile
  PROVE  CompletedInv' /\ NestedInv'
<1>1. /\ pc = "parse" /\ pc' = "lookup"
      /\ UNCHANGED <<lines, curSection, curSectionData>>
      /\ toml' = IF curSection \in DOMAIN toml THEN toml
                 ELSE Put(toml, curSection, curSectionData)
  BY DEF EndFile
<1>2. DOMAIN toml' = DOMAIN toml \cup {curSection}
  BY <1>1 DEF Put
<1>3. curSection = NoName \/ Headed(curSection)
  <2>1. CASE curSection # NoName
    <3>1. Len(lines) \in 0 .. Len(lines) /\ SectionOf(Len(lines)) = curSection
      BY DEF StepInv, TypeOK, HeadersInv
    <3>2. \E j \in 1 .. Len(lines) : IsHeader(j)
      BY <2>1, <3>1, SectionDef, SectionBeforeHeaders DEF IsHeader
    <3>3. PICK j \in 1 .. Len(lines) : LastHeader(lines, Len(lines), j)
      BY <3>1, <3>2 DEF StepInv, HeadersInv
    <3>4. lines[j].name = curSection /\ j \in DOMAIN lines
      BY <3>1, <3>3, SectionByHeader, SectionDef DEF StepInv, TypeOK
    <3> QED
      BY <3>3, <3>4 DEF Headed, IsHeader, LastHeader
  <2> QED
    BY <2>1
<1>4. CompletedInv'
  BY <1>1, <1>2, <1>3, SameLines DEF CompletedInv
<1>5. ASSUME SectionsOnce, NEW i \in DOMAIN lines, Child(i)
      PROVE  ChildKept(i)'
  <2>1. ChildKept(i) /\ curSection \notin DOMAIN toml
    BY <1>1, <1>5 DEF NestedInv
  <2>2. PICK s : s = SectionOf(i)
    OBVIOUS
  <2>3. PICK key : key = ChildKey(i)
    OBVIOUS
  <2>4. s \in DOMAIN toml' /\ key \in DOMAIN toml'[s]
    BY <1>1, <2>1, <2>2, <2>3 DEF ChildKept, Put
  <2>5. SectionOf(i)' = s /\ ChildKey(i)' = key
    BY <1>1, <2>2, <2>3, SameLines
  <2> QED
    BY <2>4, <2>5 DEF ChildKept
<1>6. NestedInv'
  BY <1>1, <1>5, SameLines DEF NestedInv
<1> QED
  BY <1>4, <1>6

LEMMA ConfigureNested ==
  ASSUME CompletedInv, NestedInv, Configure \/ UNCHANGED vars
  PROVE  CompletedInv' /\ NestedInv'
<1>1. UNCHANGED <<lines, curSection, curSectionData, lastKey, toml>>
  BY DEF Configure, ProfileMissing, ReadKeys, RejectKeys, AcceptKeys, parseVars, vars
<1>2. pc' = pc \/ (pc # "parse" /\ pc' # "parse" /\ (Parsed' => Parsed))
  BY DEF Configure, ProfileMissing, ReadKeys, RejectKeys, AcceptKeys, vars, Parsed
<1>3. CompletedInv'
  BY <1>1, <1>2, SameLines DEF CompletedInv
<1>4. \A i : ChildKept(i) => ChildKept(i)'
  BY <1>1, <1>2, SameLines DEF ChildKept
<1>5. ParentWaits' = ParentWaits
  BY <1>1, SectionDef DEF ParentWaits, Parent, IsPair
<1>6. NestedInv'
  BY <1>1, <1>2, <1>4, <1>5, SameLines DEF NestedInv, Parsed
<1> QED
  BY <1>3, <1>6

LEMMA PairNested ==
  ASSUME StepInv, CompletedInv, NestedInv, NEW name \in Keys, NEW value \in Values,
         NEW nested \in BOOLEAN, ReadPair(name, value, nested)
  PROVE  CompletedInv' /\ NestedInv'
<1> DEFINE line == [kind |-> "pair", name |-> name, value |-> value, nested |-> nested]
           before == IF lastKey = NoName THEN curSectionData
                     ELSE Touch(curSectionData, <<lastKey>>)
           key == EntryKey(name)
<1>1. /\ line \in Lines /\ line.kind = "pair" /\ line.name = name /\ line.value = value
      /\ line.nested = nested
  BY LineKinds
<1>2. /\ pc = "parse" /\ pc' = "parse" /\ lines' = Append(lines, line)
      /\ curSectionData' = Put(before, key, value) /\ lastKey' = name
      /\ UNCHANGED <<curSection, toml>>
  BY DEF ReadPair, Read
<1> HIDE DEF line
<1>3. PICK n \in Nat : n = Len(lines)
  BY <1>1, <1>2, LineAdded DEF StepInv
<1>4. /\ DOMAIN lines = 1 .. n /\ DOMAIN lines' = 1 .. n + 1 /\ Len(lines') = n + 1
      /\ lines'[n + 1] = line
  BY <1>1, <1>2, <1>3, LineAdded DEF StepInv
<1>5. /\ \A i \in 1 .. n :
           /\ lines'[i] = lines[i] /\ SectionOf(i)' = SectionOf(i)
           /\ Parent(i)' = Parent(i) /\ Child(i)' = Child(i)
           /\ (i > 1 => ChildKey(i)' = ChildKey(i))
      /\ \A s : Headed(s) => Headed(s)'
      /\ SectionsOnce' => SectionsOnce
  BY <1>1, <1>2, <1>3, Prefix DEF StepInv
<1>6. PICK c : c = curSection /\ c = curSection'
  BY <1>2
<1>7. \A i : i = n + 1 => SectionOf(i)' = c
  <2>1. SectionIn(lines', n + 1) = c
    BY <1>1, <1>2, <1>3, <1>6, HeadersKept DEF StepInv
  <2> QED
    BY <2>1, SectionDef
<1>8. CompletedInv'
  BY <1>2, <1>5 DEF CompletedInv
<1>9. key \in DOMAIN curSectionData' /\ DOMAIN curSectionData \subseteq DOMAIN curSectionData'
  BY <1>2 DEF Touch, Put
<1> HIDE DEF before
<1>10. ASSUME SectionsOnce', NEW i \in 1 .. n, Child(i)'
       PROVE  ChildKept(i)'
  <2>1. i > 1 /\ Child(i)
    BY <1>5, <1>10 DEF Child
  <2>2. ChildKept(i) /\ SectionOf(i)' = SectionOf(i) /\ ChildKey(i)' = ChildKey(i)
    BY <1>2, <1>4, <1>5, <1>10, <2>1 DEF NestedInv
  <2> QED
    BY <1>2, <1>9, <2>2 DEF ChildKept
<1>11. ASSUME SectionsOnce', Child(n + 1)'
       PROVE  ChildKept(n + 1)'
  <2>1. n + 1 > 1 /\ Parent((n + 1) - 1)'
    BY <1>11 DEF Child
  <2>2. n \in 1 .. n /\ (n + 1) - 1 = n
    BY <2>1
  <2>3. Parent(n)
    BY <1>5, <2>1, <2>2
  <2>4. lines # <<>> /\ SectionsOnce
    BY <1>4, <1>5, <1>11, <2>2
  <2>5. /\ lastKey = lines[n].name
        /\ <<lastKey>> \in DOMAIN curSectionData /\ curSectionData[<<lastKey>>] = Empty
        /\ curSection \notin DOMAIN toml
    BY <1>2, <1>3, <2>3, <2>4 DEF NestedInv, ParentWaits
  <2>6. lastKey # NoName
    <3>1. lines \in Seq(Lines) /\ n \in DOMAIN lines /\ lines[n].kind = "pair"
      BY <1>4, <2>2, <2>3 DEF StepInv, TypeOK, Parent, IsPair
    <3>2. lines[n] \in Lines
      BY <3>1
    <3>3. lines[n].name \in Keys
      BY <3>1, <3>2 DEF Lines
    <3> QED
      BY <2>5, <3>3, NamesAssumption
  <2>7. key = <<lastKey, name>>
    BY <2>5, <2>6 DEF EntryKey, Prefixed, At, Touch
  <2>8. \A i : i = n + 1 => ChildKey(i)' = key
    BY <1>1, <1>4, <1>5, <2>2, <2>5, <2>7 DEF ChildKey
  <2> QED
    BY <1>2, <1>6, <1>7, <1>9, <2>5, <2>8 DEF ChildKept
<1>12. ASSUME SectionsOnce', Parent(n + 1)'
       PROVE  key = <<name>> /\ value = Empty
  <2>1. /\ lines'[n + 1].value = Empty
        /\ \A j \in 1 .. (n + 1) - 1 : SectionOf(j)' = SectionOf(n + 1)' => ~IsPair(j)'
    BY <1>12 DEF Parent
  <2>2. \A j \in DOMAIN lines : SectionOf(j) = curSection => ~IsPair(j)
    <3> TAKE j \in DOMAIN lines
    <3>1. j \in 1 .. n /\ j \in 1 .. (n + 1) - 1
      BY <1>4
    <3> QED
      BY <1>5, <1>6, <1>7, <2>1, <3>1 DEF IsPair
  <2>3. lastKey = NoName
    BY <1>5, <1>12, <2>2, FirstOfSection
  <2> QED
    BY <1>1, <1>4, <2>1, <2>3 DEF EntryKey, Prefixed
<1>13. ASSUME SectionsOnce', NEW i \in DOMAIN lines', i = n + 1, Parent(i)'
       PROVE  /\ lastKey' = lines'[i].name
              /\ <<lastKey'>> \in DOMAIN curSectionData' /\ curSectionData'[<<lastKey'>>] = Empty
  <2>1. key = <<name>> /\ value = Empty
    BY <1>12, <1>13
  <2>2. lastKey' = lines'[i].name
    BY <1>1, <1>2, <1>4, <1>13
  <2> HIDE DEF key
  <2> QED
    BY <1>2, <1>9, <2>1, <2>2 DEF Put
<1>14. ASSUME SectionsOnce', NEW i \in DOMAIN lines', Child(i)'
       PROVE  ChildKept(i)'
  <2>1. CASE i \in 1 .. n
    BY <1>10, <1>14, <2>1
  <2>2. CASE i = n + 1
    BY <1>11, <1>14, <2>2
  <2> QED
    BY <1>4, <2>1, <2>2
<1>15. NestedInv'
  <2>1. SectionsOnce' => ParentWaits'
    BY <1>4, <1>13 DEF ParentWaits
  <2> QED
    BY <1>2, <1>5, <1>14, <2>1 DEF NestedInv
<1> QED
  BY <1>8, <1>15

LEMMA InitNested == Init => CompletedInv /\ NestedInv
<1> SUFFICES ASSUME Init PROVE CompletedInv /\ NestedInv
  OBVIOUS
<1>1. DOMAIN toml = {} /\ DOMAIN lines = {} /\ lines = <<>>
  BY DEF Init
<1> QED
  BY <1>1 DEF CompletedInv, NestedInv, ParentWaits

LEMMA NextNested ==
  StepInv /\ CompletedInv /\ NestedInv /\ [Next]_vars => CompletedInv' /\ NestedInv'
<1> SUFFICES ASSUME StepInv, CompletedInv, NestedInv, [Next]_vars
             PROVE  CompletedInv' /\ NestedInv'
  OBVIOUS
<1>1. CASE SkipLine
  <2>1. /\ pc = "parse" /\ pc' = "parse" /\ lines' = Append(lines, [kind |-> "comment"])
        /\ UNCHANGED <<curSection, toml, curSectionData>>
    BY <1>1 DEF SkipLine, Read
  <2> QED
    BY <2>1, OtherLineNested, LineKinds
<1>2. CASE ReadText
  <2>1. /\ pc = "parse" /\ pc' = "parse" /\ lines' = Append(lines, [kind |-> "text"])
        /\ UNCHANGED <<curSection, toml>>
        /\ DOMAIN curSectionData \subseteq DOMAIN curSectionData'
    BY <1>2 DEF ReadText, Read, Put
  <2> QED
    BY <2>1, OtherLineNested, LineKinds
<1>3. CASE RejectText
  <2>1. /\ pc = "parse" /\ pc' = "exited" /\ lines' = Append(lines, [kind |-> "text"])
        /\ UNCHANGED <<curSection, toml, curSectionData>>
    BY <1>3 DEF RejectText
  <2> QED
    BY <2>1, OtherLineNested, LineKinds
<1>4. ASSUME NEW name \in Sections, ReadSection(name)
      PROVE  CompletedInv' /\ NestedInv'
  BY <1>4, SectionNested
<1>5. ASSUME NEW name \in Keys, NEW value \in Values, NEW nested \in BOOLEAN,
             ReadPair(name, value, nested)
      PROVE  CompletedInv' /\ NestedInv'
  BY <1>5, PairNested
<1>6. CASE EndFile
  BY <1>6, EndNested
<1>7. CASE Configure \/ UNCHANGED vars
  BY <1>7, ConfigureNested
<1> QED
  BY <1>1, <1>2, <1>3, <1>4, <1>5, <1>6, <1>7 DEF Next, Parse, Ended

\* A line that is no header stands in the section of the line before it.
LEMMA SameSection ==
  ASSUME StepInv, NEW i \in DOMAIN lines, i > 1, ~IsHeader(i)
  PROVE  SectionOf(i) = SectionOf(i - 1)
<1>1. lines \in Seq(Lines) /\ i \in 1 .. Len(lines) /\ Len(lines) \in Nat
  BY DEF StepInv, TypeOK
<1>2. i \in Nat /\ i - 1 \in Nat /\ i - 1 \in 0 .. Len(lines)
  BY <1>1
<1>3. ASSUME NEW j \in 1 .. i - 1, LastHeader(lines, i - 1, j)
      PROVE  LastHeader(lines, i, j)
  BY <1>1, <1>3 DEF LastHeader, IsHeader
<1>4. CASE \E j \in 1 .. i - 1 : IsHeader(j)
  <2>1. PICK j \in 1 .. i - 1 : LastHeader(lines, i - 1, j)
    BY <1>2, <1>4 DEF StepInv, HeadersInv
  <2> QED
    BY <1>2, <1>3, <2>1, SectionByHeader, SectionDef
<1>5. CASE ~ \E j \in 1 .. i - 1 : IsHeader(j)
  <2>1. ~ \E j \in 1 .. i : lines[j].kind = "section"
    BY <1>1, <1>5 DEF IsHeader
  <2> QED
    BY <1>5, <2>1, SectionBeforeHeaders, SectionDef DEF IsHeader
<1> QED
  BY <1>4, <1>5

\* The only pair a child can stand under is the one before it.
LEMMA ChildsKey ==
  ASSUME StepInv, NEW i \in DOMAIN lines, Child(i)
  PROVE  FullKey(i) = ChildKey(i)
<1>1. i \in Nat /\ i > 1 /\ i - 1 \in 1 .. i - 1 /\ IsPair(i) /\ lines[i].nested
  BY DEF StepInv, TypeOK, Child
<1>2. IsPair(i - 1) /\ ~lines[i - 1].nested
  BY DEF Child, Parent
<1>3. SectionOf(i - 1) = SectionOf(i)
  BY <1>1, SameSection DEF IsPair, IsHeader
<1>4. i - 1 \in Parents(i)
  BY <1>1, <1>2, <1>3 DEF Parents
<1>5. ASSUME NEW j \in Parents(i)
      PROVE  j = i - 1
  <2>1. j \in 1 .. i - 1 /\ \A k \in j + 1 .. i - 1 : IsPair(k) => lines[k].nested
    BY DEF Parents
  <2> QED
    BY <1>1, <1>2, <2>1
<1>6. (CHOOSE j \in Parents(i) : TRUE) = i - 1
  BY <1>4, <1>5
<1> QED
  BY <1>1, <1>6 DEF FullKey, ChildKey

\* The first key under one without a value is stored under its parent's name and
\* its own, in the section it stands in.
THEOREM FirstChildHasParent == Spec => []FirstChildIsNested
<1>1. Spec => [](StepInv /\ CompletedInv /\ NestedInv)
  BY InitFile, NextFile, InitNested, NextNested, PTL DEF Spec
<1>2. StepInv /\ CompletedInv /\ NestedInv => FirstChildIsNested
  <2> SUFFICES ASSUME StepInv, NestedInv, Parsed, SectionsOnce, NEW i \in DOMAIN lines,
                      i > 1, IsPair(i), lines[i].nested, IsPair(i - 1), ~lines[i - 1].nested,
                      lines[i - 1].value = Empty,
                      \A j \in 1 .. i - 2 : SectionOf(j) = SectionOf(i) => ~IsPair(j)
               PROVE  FullKey(i) \in DOMAIN toml[SectionOf(i)]
    BY DEF FirstChildIsNested
  <2>1. SectionOf(i - 1) = SectionOf(i)
    BY SameSection DEF IsPair, IsHeader
  <2>2. i \in Int
    BY DEF StepInv, TypeOK
  <2>3. (i - 1) - 1 = i - 2
    BY <2>2
  <2>4. Child(i)
    BY <2>1, <2>3 DEF Child, Parent
  <2>5. ChildKept(i) /\ pc # "parse"
    BY <2>4 DEF NestedInv, Parsed
  <2> QED
    BY <2>4, <2>5, ChildsKey DEF ChildKept
<1> QED
  BY <1>1, <1>2, PTL
-------------------------------------------------------------------------------
\* Files in which every key has a value, for any lines ls.

\* h is the header over line i.
OverIn(ls, i, h) ==
  /\ h \in 1 .. i
  /\ ls[h].kind = "section"
  /\ \A k \in h + 1 .. i : ls[k].kind # "section"

\* A header that another follows.
Closed(ls, h) ==
  h \in DOMAIN ls /\ ls[h].kind = "section" /\ ~OverIn(ls, Len(ls), h)

\* The last pair of its name under a header.
LastIn(ls, i, h) ==
  /\ i \in DOMAIN ls /\ ls[i].kind = "pair" /\ OverIn(ls, i, h)
  /\ \A j \in i + 1 .. Len(ls) :
       ls[j].kind = "pair" /\ OverIn(ls, j, h) => ls[j].name # ls[i].name

OthersIn(ls, i) == {j \in i + 1 .. Len(ls) : ls[j].kind \in {"pair", "section"}}
TextsIn(ls, i) ==
  {j \in i + 1 .. Len(ls) : ls[j].kind = "text" /\ \A k \in OthersIn(ls, i) : j < k}
ValueIn(ls, i) == ls[i].value \o [k \in 1 .. Cardinality(TextsIn(ls, i)) |-> "text"]

\* The entries are those of the pairs under the header.
Describes(ls, m, h) ==
  /\ \A i \in DOMAIN ls : LastIn(ls, i, h) =>
       <<ls[i].name>> \in DOMAIN m /\ m[<<ls[i].name>>] = ValueIn(ls, i)
  /\ \A k \in DOMAIN m : \E i \in DOMAIN ls : LastIn(ls, i, h) /\ k = <<ls[i].name>>

IsFlat(ls) ==
  /\ ls # <<>> => ls[1].kind = "section"
  /\ \A i \in DOMAIN ls : ls[i].kind = "pair" => ls[i].value # Empty /\ ~ls[i].nested

\* The last key is that of the last pair.
LastKeyHeld ==
  lastKey # NoName =>
    \E i \in DOMAIN lines :
      lines[i].kind = "pair" /\ OthersIn(lines, i) = {} /\ lastKey = lines[i].name

\* The section in hand: what has been read of it, and its last key.
InHand ==
  /\ lines = <<>> =>
       curSection = NoName /\ lastKey = NoName /\ DOMAIN curSectionData = {} /\ DOMAIN toml = {}
  /\ \A h \in DOMAIN lines : OverIn(lines, Len(lines), h) =>
       curSection = lines[h].name /\ Describes(lines, curSectionData, h)
  /\ LastKeyHeld

\* Of the completed sections of a name the last is kept.
IsKept(ls, m, h, s) ==
  /\ Closed(ls, h) /\ ls[h].name = s
  /\ \A g \in DOMAIN ls : Closed(ls, g) /\ ls[g].name = s => g <= h
  /\ Describes(ls, m, h)

CompletedRight ==
  /\ \A h \in DOMAIN lines : Closed(lines, h) => lines[h].name \in DOMAIN toml
  /\ \A s \in DOMAIN toml : \E h \in DOMAIN lines : IsKept(lines, toml[s], h, s)

\* What is left when the file has been read.
ParsedRight ==
  \A s \in DOMAIN toml :
    IF lines = <<>> THEN DOMAIN toml[s] = {}
    ELSE \E h \in DOMAIN lines :
           /\ lines[h].kind = "section" /\ lines[h].name = s /\ Counts(h)
           /\ Describes(lines, toml[s], h)

FlatInv ==
  IsFlat(lines) =>
    /\ pc = "parse" => InHand /\ CompletedRight
    /\ Parsed => ParsedRight

LEMMA Appended ==
  ASSUME NEW ls \in Seq(Lines), NEW line \in Lines, NEW ls2, ls2 = Append(ls, line)
  PROVE  /\ Len(ls) \in Nat /\ ls2 \in Seq(Lines) /\ Len(ls2) = Len(ls) + 1
         /\ DOMAIN ls = 1 .. Len(ls) /\ DOMAIN ls2 = 1 .. Len(ls) + 1
         /\ ls2[Len(ls) + 1] = line
         /\ \A i \in 1 .. Len(ls) : ls2[i] = ls[i]
OBVIOUS

LEMMA OverUnique ==
  ASSUME NEW ls, NEW i \in Nat, NEW g, NEW h, OverIn(ls, i, g), OverIn(ls, i, h)
  PROVE  g = h
<1>1. g \in 1 .. i /\ h \in 1 .. i
  BY DEF OverIn
<1>2. ~(g < h) /\ ~(h < g)
  BY <1>1 DEF OverIn
<1> QED
  BY <1>1, <1>2

LEMMA OverAppend ==
  ASSUME NEW ls \in Seq(Lines), NEW line \in Lines, NEW ls2, ls2 = Append(ls, line)
  PROVE  /\ \A h : \A i \in 1 .. Len(ls) : OverIn(ls2, i, h) <=> OverIn(ls, i, h)
         /\ line.kind = "section" =>
              \A h : OverIn(ls2, Len(ls) + 1, h) <=> h = Len(ls) + 1
         /\ line.kind # "section" =>
              \A h : OverIn(ls2, Len(ls) + 1, h) <=> OverIn(ls, Len(ls), h)
<1>0. PICK n \in Nat : n = Len(ls)
  OBVIOUS
<1>1. /\ ls2[n + 1] = line /\ \A i \in 1 .. n : ls2[i] = ls[i]
  BY <1>0, Appended
<1>2. ASSUME NEW i \in 1 .. n, NEW h
      PROVE  OverIn(ls2, i, h) <=> OverIn(ls, i, h)
  <2>1. \A k \in 1 .. i : k \in 1 .. n
    OBVIOUS
  <2>2. \A k \in 1 .. i : ls2[k] = ls[k]
    BY <1>1, <2>1
  <2>3. ASSUME h \in 1 .. i
        PROVE  \A k \in h + 1 .. i : k \in 1 .. i
    BY <2>3
  <2> QED
    BY <2>2, <2>3 DEF OverIn
<1>3. ASSUME line.kind = "section", NEW h
      PROVE  OverIn(ls2, n + 1, h) <=> h = n + 1
  <2>1. OverIn(ls2, n + 1, h) => h = n + 1
    <3>1. h \in 1 .. n + 1 /\ h # n + 1 => n + 1 \in h + 1 .. n + 1
      OBVIOUS
    <3> QED
      BY <1>1, <1>3, <3>1 DEF OverIn
  <2>2. OverIn(ls2, n + 1, n + 1)
    BY <1>1, <1>3 DEF OverIn
  <2> QED
    BY <2>1, <2>2
<1>4. ASSUME line.kind # "section", NEW h
      PROVE  OverIn(ls2, n + 1, h) <=> OverIn(ls, n, h)
  <2>1. ASSUME OverIn(ls2, n + 1, h)
        PROVE  OverIn(ls, n, h)
    <3>0. h \in 1 .. n + 1 /\ ls2[h].kind = "section"
      BY <2>1 DEF OverIn
    <3>1. h # n + 1
      BY <1>1, <1>4, <3>0
    <3>2. h \in 1 .. n /\ \A k \in h + 1 .. n : k \in h + 1 .. n + 1 /\ k \in 1 .. n
      BY <3>0, <3>1
    <3> QED
      BY <1>1, <2>1, <3>2 DEF OverIn
  <2>2. ASSUME OverIn(ls, n, h)
        PROVE  OverIn(ls2, n + 1, h)
    <3>1. h \in 1 .. n /\ h \in 1 .. n + 1
      BY <2>2 DEF OverIn
    <3>2. \A k \in h + 1 .. n + 1 : k = n + 1 \/ (k \in h + 1 .. n /\ k \in 1 .. n)
      BY <3>1
    <3> QED
      BY <1>1, <1>4, <2>2, <3>1, <3>2 DEF OverIn
  <2> QED
    BY <2>1, <2>2
<1> QED
  BY <1>0, <1>2, <1>3, <1>4

LEMMA ClosedAppend ==
  ASSUME NEW ls \in Seq(Lines), NEW line \in Lines, NEW ls2, ls2 = Append(ls, line)
  PROVE  \A h : Closed(ls2, h) <=>
           Closed(ls, h) \/ (line.kind = "section" /\ OverIn(ls, Len(ls), h))
<1>0. PICK n \in Nat : n = Len(ls)
  OBVIOUS
<1>1. /\ Len(ls2) = n + 1 /\ DOMAIN ls = 1 .. n /\ DOMAIN ls2 = 1 .. n + 1
      /\ ls2[n + 1] = line /\ \A i \in 1 .. n : ls2[i] = ls[i]
  BY <1>0, Appended
<1>2. /\ line.kind = "section" => \A h : OverIn(ls2, n + 1, h) <=> h = n + 1
      /\ line.kind # "section" => \A h : OverIn(ls2, n + 1, h) <=> OverIn(ls, n, h)
  BY <1>0, OverAppend
<1> SUFFICES ASSUME NEW h
             PROVE  Closed(ls2, h) <=>
                      Closed(ls, h) \/ (line.kind = "section" /\ OverIn(ls, n, h))
  BY <1>0
<1>3. OverIn(ls, n, h) => h \in 1 .. n /\ ls[h].kind = "section"
  BY DEF OverIn
<1>4. Closed(ls, h) <=> h \in 1 .. n /\ ls[h].kind = "section" /\ ~OverIn(ls, n, h)
  BY <1>0, <1>1 DEF Closed
<1>5. Closed(ls2, h) <=> h \in 1 .. n + 1 /\ ls2[h].kind = "section" /\ ~OverIn(ls2, n + 1, h)
  BY <1>1 DEF Closed
<1>6. CASE line.kind = "section"
  BY <1>1, <1>2, <1>3, <1>4, <1>5, <1>6
<1>7. CASE line.kind # "section"
  BY <1>1, <1>2, <1>3, <1>4, <1>5, <1>7
<1> QED
  BY <1>6, <1>7

-------------------------------------------------------------------------------
\* The texts that are joined to a value.

LEMMA TextsFinite ==
  ASSUME NEW ls \in Seq(Lines), NEW i \in Nat
  PROVE  IsFiniteSet(TextsIn(ls, i)) /\ Cardinality(TextsIn(ls, i)) \in Nat
<1>1. IsFiniteSet(i + 1 .. Len(ls))
  BY FS_Interval
<1>2. TextsIn(ls, i) \in SUBSET (i + 1 .. Len(ls))
  BY DEF TextsIn
<1>3. IsFiniteSet(TextsIn(ls, i))
  BY <1>1, <1>2, FS_Subset
<1> QED
  BY <1>3, FS_CardinalityType

\* The last line joins the texts of a pair.
TextJoins(ls, ls2, i) ==
  /\ TextsIn(ls2, i) = TextsIn(ls, i) \cup {Len(ls) + 1}
  /\ Len(ls) + 1 \notin TextsIn(ls, i)

LEMMA OthersAppend ==
  ASSUME NEW ls \in Seq(Lines), NEW line \in Lines, NEW ls2, ls2 = Append(ls, line),
         NEW i \in 1 .. Len(ls)
  PROVE  OthersIn(ls2, i) = IF line.kind \in {"pair", "section"}
                            THEN OthersIn(ls, i) \cup {Len(ls) + 1} ELSE OthersIn(ls, i)
<1>1. Len(ls2) = Len(ls) + 1 /\ ls2[Len(ls) + 1] = line /\ \A j \in 1 .. Len(ls) : ls2[j] = ls[j]
  BY Appended
<1>2. i + 1 .. Len(ls) + 1 = (i + 1 .. Len(ls)) \cup {Len(ls) + 1}
      /\ \A j \in i + 1 .. Len(ls) : j \in 1 .. Len(ls)
  OBVIOUS
<1> QED
  BY <1>1, <1>2 DEF OthersIn

LEMMA TextsAppend ==
  ASSUME NEW ls \in Seq(Lines), NEW line \in Lines, NEW ls2, ls2 = Append(ls, line),
         NEW i \in 1 .. Len(ls)
  PROVE  /\ line.kind = "text" /\ OthersIn(ls, i) = {} => TextJoins(ls, ls2, i)
         /\ ~(line.kind = "text" /\ OthersIn(ls, i) = {}) => TextsIn(ls2, i) = TextsIn(ls, i)
<1>0. PICK n \in Nat : n = Len(ls)
  OBVIOUS
<1>1. /\ Len(ls2) = n + 1 /\ ls2[n + 1] = line /\ \A j \in 1 .. n : ls2[j] = ls[j]
  BY <1>0, Appended
<1>2. i + 1 .. n + 1 = (i + 1 .. n) \cup {n + 1} /\ \A j \in i + 1 .. n : j \in 1 .. n /\ j < n + 1
  BY <1>0
<1>3. OthersIn(ls2, i) = IF line.kind \in {"pair", "section"}
                         THEN OthersIn(ls, i) \cup {n + 1} ELSE OthersIn(ls, i)
  BY <1>0, OthersAppend
<1>4. OthersIn(ls, i) \subseteq i + 1 .. n
  BY <1>0 DEF OthersIn
<1>5. ASSUME NEW j
      PROVE  j \in TextsIn(ls2, i) <=>
               \/ j \in TextsIn(ls, i)
               \/ j = n + 1 /\ line.kind = "text" /\ OthersIn(ls, i) = {}
  <2>1. j \in TextsIn(ls2, i) <=>
          /\ j \in i + 1 .. n \/ j = n + 1
          /\ ls2[j].kind = "text" /\ \A k \in OthersIn(ls2, i) : j < k
    BY <1>1, <1>2 DEF TextsIn
  <2>2. j \in TextsIn(ls, i) <=>
          j \in i + 1 .. n /\ ls[j].kind = "text" /\ \A k \in OthersIn(ls, i) : j < k
    BY <1>0 DEF TextsIn
  <2>3. CASE j \in i + 1 .. n
    <3>1. (\A k \in OthersIn(ls2, i) : j < k) <=> (\A k \in OthersIn(ls, i) : j < k)
      BY <1>2, <1>3, <2>3
    <3> QED
      BY <1>1, <1>2, <2>1, <2>2, <2>3, <3>1
  <2>4. CASE j = n + 1
    <3>1. j \notin i + 1 .. n
      BY <1>2, <2>4
    <3>2. line.kind = "text" =>
            ((\A k \in OthersIn(ls2, i) : j < k) <=> OthersIn(ls, i) = {})
      BY <1>2, <1>3, <1>4, <2>4
    <3> QED
      BY <1>1, <2>1, <2>2, <2>4, <3>1, <3>2
  <2>5. CASE j \notin i + 1 .. n /\ j # n + 1
    BY <2>1, <2>2, <2>5
  <2> QED
    BY <2>3, <2>4, <2>5
<1>6. n + 1 \notin TextsIn(ls, i)
  BY <1>0 DEF TextsIn
<1>7. CASE line.kind = "text" /\ OthersIn(ls, i) = {}
  <2>1. TextsIn(ls2, i) = TextsIn(ls, i) \cup {n + 1}
    BY <1>5, <1>7
  <2> QED
    BY <1>0, <1>6, <1>7, <2>1 DEF TextJoins
<1>8. CASE ~(line.kind = "text" /\ OthersIn(ls, i) = {})
  <2>1. TextsIn(ls2, i) = TextsIn(ls, i)
    BY <1>5, <1>8
  <2> QED
    BY <1>8, <2>1
<1> QED
  BY <1>7, <1>8

\* A text goes on the value of a pair that no pair and no header follows.
LEMMA ValueAppend ==
  ASSUME NEW ls \in Seq(Lines), NEW line \in Lines, NEW ls2, ls2 = Append(ls, line),
         NEW i \in 1 .. Len(ls), ls[i].kind = "pair"
  PROVE  /\ ValueIn(ls, i) \in Seq(Texts)
         /\ ValueIn(ls2, i) = IF line.kind = "text" /\ OthersIn(ls, i) = {}
                              THEN Append(ValueIn(ls, i), "text") ELSE ValueIn(ls, i)
<1>1. i \in Nat /\ ls2[i] = ls[i] /\ ls2 \in Seq(Lines)
  BY Appended
<1>2. ls[i].value \in Seq(Texts)
  <2>1. ls[i] \in Lines
    OBVIOUS
  <2>2. ls[i].value \in Values
    BY <2>1 DEF Lines
  <2>3. <<"value">> \in Seq({"value", "text"})
    OBVIOUS
  <2> QED
    BY <2>2, <2>3, EmptyText DEF Values, Texts
<1>3. PICK c \in Nat : c = Cardinality(TextsIn(ls, i))
  BY <1>1, TextsFinite
<1>4. [k \in 1 .. c |-> "text"] \in Seq(Texts)
  BY DEF Texts
<1>5. ValueIn(ls, i) = ls[i].value \o [k \in 1 .. c |-> "text"]
  BY <1>3 DEF ValueIn
<1>6. ValueIn(ls, i) \in Seq(Texts)
  BY <1>2, <1>4, <1>5
<1>7. CASE line.kind = "text" /\ OthersIn(ls, i) = {}
  <2>1. Cardinality(TextsIn(ls2, i)) = c + 1
    <3>1. TextJoins(ls, ls2, i)
      BY <1>7, TextsAppend
    <3>2. IsFiniteSet(TextsIn(ls, i))
      BY <1>1, TextsFinite
    <3> QED
      BY <1>3, <3>1, <3>2, FS_AddElement DEF TextJoins
  <2>2. ValueIn(ls2, i) = ls[i].value \o [k \in 1 .. c + 1 |-> "text"]
    BY <1>1, <2>1 DEF ValueIn
  <2>3. [k \in 1 .. c + 1 |-> "text"] = Append([k \in 1 .. c |-> "text"], "text")
    OBVIOUS
  <2>4. \A s, t \in Seq(Texts) : s \o Append(t, "text") = Append(s \o t, "text")
    BY DEF Texts
  <2> QED
    BY <1>2, <1>4, <1>5, <1>6, <1>7, <2>2, <2>3, <2>4
<1>8. CASE ~(line.kind = "text" /\ OthersIn(ls, i) = {})
  <2>1. TextsIn(ls2, i) = TextsIn(ls, i)
    BY <1>8, TextsAppend
  <2> QED
    BY <1>1, <1>6, <1>8, <2>1 DEF ValueIn
<1> QED
  BY <1>7, <1>8

LEMMA ValueNew ==
  ASSUME NEW ls \in Seq(Lines), NEW line \in Lines, NEW ls2, ls2 = Append(ls, line),
         line.kind = "pair", NEW i, i = Len(ls) + 1
  PROVE  ValueIn(ls2, i) = line.value
<1>1. i \in Nat /\ Len(ls2) = i /\ ls2[i] = line
  BY Appended
<1>2. TextsIn(ls2, i) = {}
  BY <1>1 DEF TextsIn
<1>3. Cardinality(TextsIn(ls2, i)) = 0
  BY <1>2, FS_EmptySet
<1>4. ValueIn(ls2, i) = line.value \o [k \in 1 .. 0 |-> "text"]
  BY <1>1, <1>3 DEF ValueIn
<1>5. [k \in 1 .. 0 |-> "text"] = <<>>
  OBVIOUS
<1>6. line.value = <<>> \/ line.value = <<"value">>
  BY DEF Lines, Values, Empty
<1>7. <<>> \o <<>> = <<>> /\ <<"value">> \o <<>> = <<"value">>
  OBVIOUS
<1> QED
  BY <1>4, <1>5, <1>6, <1>7

-------------------------------------------------------------------------------
\* What a line does to the pairs of a section.

\* The last pairs of their names under h, before and after a line.
LastMoves(ls, ls2, line, n, h) ==
  /\ \A i \in 1 .. n : LastIn(ls2, i, h) <=>
       /\ LastIn(ls, i, h)
       /\ ~(line.kind = "pair" /\ OverIn(ls, n, h) /\ line.name = ls[i].name)
  /\ \A i : i = n + 1 => (LastIn(ls2, i, h) <=> line.kind = "pair" /\ OverIn(ls, n, h))

LEMMA LastAppend ==
  ASSUME NEW ls \in Seq(Lines), NEW line \in Lines, NEW ls2, ls2 = Append(ls, line),
         NEW n \in Nat, n = Len(ls), NEW h
  PROVE  LastMoves(ls, ls2, line, n, h)
<1>1. /\ Len(ls2) = n + 1 /\ DOMAIN ls = 1 .. n /\ DOMAIN ls2 = 1 .. n + 1
      /\ ls2[n + 1] = line /\ \A i \in 1 .. n : ls2[i] = ls[i]
  BY Appended
<1>2. /\ \A i \in 1 .. n : OverIn(ls2, i, h) <=> OverIn(ls, i, h)
      /\ line.kind # "section" => (OverIn(ls2, n + 1, h) <=> OverIn(ls, n, h))
  BY OverAppend
<1>3. ASSUME NEW i \in 1 .. n
      PROVE  LastIn(ls2, i, h) <=>
               /\ LastIn(ls, i, h)
               /\ ~(line.kind = "pair" /\ OverIn(ls, n, h) /\ line.name = ls[i].name)
  <2>1. i + 1 .. n + 1 = (i + 1 .. n) \cup {n + 1} /\ \A j \in i + 1 .. n : j \in 1 .. n
    OBVIOUS
  <2>2. LastIn(ls2, i, h) <=>
          /\ ls[i].kind = "pair" /\ OverIn(ls, i, h)
          /\ \A j \in i + 1 .. n : ls[j].kind = "pair" /\ OverIn(ls, j, h) => ls[j].name # ls[i].name
          /\ line.kind = "pair" /\ OverIn(ls, n, h) => line.name # ls[i].name
    <3>1. LastIn(ls2, i, h) <=>
            /\ ls2[i].kind = "pair" /\ OverIn(ls2, i, h)
            /\ \A j \in (i + 1 .. n) \cup {n + 1} :
                 ls2[j].kind = "pair" /\ OverIn(ls2, j, h) => ls2[j].name # ls2[i].name
      BY <1>1, <2>1 DEF LastIn
    <3>2. \A j \in i + 1 .. n : ls2[j] = ls[j] /\ (OverIn(ls2, j, h) <=> OverIn(ls, j, h))
      BY <1>1, <1>2, <2>1
    <3>3. line.kind = "pair" => (OverIn(ls2, n + 1, h) <=> OverIn(ls, n, h))
      BY <1>2
    <3> QED
      BY <1>1, <1>2, <3>1, <3>2, <3>3
  <2>3. LastIn(ls, i, h) <=>
          /\ ls[i].kind = "pair" /\ OverIn(ls, i, h)
          /\ \A j \in i + 1 .. n : ls[j].kind = "pair" /\ OverIn(ls, j, h) => ls[j].name # ls[i].name
    BY <1>1 DEF LastIn
  <2> QED
    BY <2>2, <2>3
<1>4. ASSUME NEW i, i = n + 1
      PROVE  LastIn(ls2, i, h) <=> line.kind = "pair" /\ OverIn(ls, n, h)
  <2>1. i + 1 .. n + 1 = {} /\ i \in 1 .. n + 1
    BY <1>4
  <2>2. LastIn(ls2, i, h) <=> line.kind = "pair" /\ OverIn(ls2, n + 1, h)
    BY <1>1, <1>4, <2>1 DEF LastIn
  <2> QED
    BY <1>2, <2>2
<1> QED
  BY <1>3, <1>4 DEF LastMoves

\* A header or a pair follows each pair of a section that is not in hand.
LEMMA FollowedIfClosed ==
  ASSUME NEW ls \in Seq(Lines), NEW h, NEW i \in 1 .. Len(ls), OverIn(ls, i, h),
         ~OverIn(ls, Len(ls), h)
  PROVE  OthersIn(ls, i) # {}
<1>1. PICK n \in Nat : n = Len(ls)
  OBVIOUS
<1>2. h \in 1 .. i /\ h \in 1 .. n /\ ls[h].kind = "section"
  BY <1>1 DEF OverIn
<1>3. PICK k \in h + 1 .. n : ls[k].kind = "section"
  BY <1>1, <1>2 DEF OverIn
<1>4. k \notin h + 1 .. i
  BY <1>3 DEF OverIn
<1>5. k \in i + 1 .. n
  BY <1>1, <1>2, <1>3, <1>4
<1> QED
  BY <1>1, <1>3, <1>5 DEF OthersIn

\* The entries of a section stay right: it is not in hand, or the line adds none.
LEMMA DescribesKept ==
  ASSUME NEW ls \in Seq(Lines), NEW line \in Lines, NEW ls2, ls2 = Append(ls, line),
         NEW h, NEW m, Describes(ls, m, h),
         line.kind \in {"comment", "section"} \/ ~OverIn(ls, Len(ls), h)
  PROVE  Describes(ls2, m, h)
<1>1. PICK n \in Nat : n = Len(ls)
  OBVIOUS
<1>2. /\ DOMAIN ls = 1 .. n /\ DOMAIN ls2 = 1 .. n + 1 /\ \A i \in 1 .. n : ls2[i] = ls[i]
  BY <1>1, Appended
<1>3. ~(line.kind = "pair" /\ OverIn(ls, n, h)) /\ LastMoves(ls, ls2, line, n, h)
  BY <1>1, LastAppend
<1>4. \A i \in 1 .. n : LastIn(ls2, i, h) <=> LastIn(ls, i, h)
  BY <1>3 DEF LastMoves
<1>5. \A i : i = n + 1 => ~LastIn(ls2, i, h)
  BY <1>3 DEF LastMoves
<1>6. ASSUME NEW i \in 1 .. n, LastIn(ls, i, h)
      PROVE  ValueIn(ls2, i) = ValueIn(ls, i)
  <2>1. ls[i].kind = "pair" /\ OverIn(ls, i, h)
    BY <1>6 DEF LastIn
  <2>2. ~(line.kind = "text" /\ OthersIn(ls, i) = {})
    BY <1>1, <2>1, FollowedIfClosed
  <2> QED
    BY <1>1, <2>1, <2>2, ValueAppend
<1>7. ASSUME NEW i \in DOMAIN ls2, LastIn(ls2, i, h)
      PROVE  i \in 1 .. n /\ LastIn(ls, i, h)
  <2>1. i # n + 1
    BY <1>5, <1>7
  <2>2. i \in 1 .. n
    BY <1>2, <2>1
  <2> QED
    BY <1>4, <1>7, <2>2
<1>8. ASSUME NEW i \in DOMAIN ls2, LastIn(ls2, i, h)
      PROVE  <<ls2[i].name>> \in DOMAIN m /\ m[<<ls2[i].name>>] = ValueIn(ls2, i)
  <2>1. i \in 1 .. n /\ LastIn(ls, i, h)
    BY <1>7, <1>8
  <2> QED
    BY <1>2, <1>6, <2>1 DEF Describes
<1>9. ASSUME NEW k \in DOMAIN m
      PROVE  \E i \in DOMAIN ls2 : LastIn(ls2, i, h) /\ k = <<ls2[i].name>>
  <2>1. PICK i \in 1 .. n : LastIn(ls, i, h) /\ k = <<ls[i].name>>
    BY <1>2 DEF Describes
  <2>2. i \in 1 .. n + 1
    OBVIOUS
  <2> QED
    BY <1>2, <1>4, <2>1, <2>2
<1> QED
  BY <1>8, <1>9 DEF Describes

\* A new section has no entries.
LEMMA DescribesNew ==
  ASSUME NEW ls \in Seq(Lines), NEW line \in Lines, NEW ls2, ls2 = Append(ls, line),
         line.kind = "section", NEW h, h = Len(ls) + 1, NEW m, DOMAIN m = {}
  PROVE  Describes(ls2, m, h)
<1>1. PICK n \in Nat : n = Len(ls)
  OBVIOUS
<1>2. DOMAIN ls2 = 1 .. n + 1 /\ ls2[n + 1] = line
  BY <1>1, Appended
<1>3. ASSUME NEW i \in DOMAIN ls2, LastIn(ls2, i, h)
      PROVE  FALSE
  <2>1. h \in 1 .. i /\ ls2[i].kind = "pair"
    BY <1>3 DEF LastIn, OverIn
  <2>2. i = n + 1
    BY <1>1, <1>2, <2>1
  <2> QED
    BY <1>2, <2>1, <2>2
<1> QED
  BY <1>3 DEF Describes

LEMMA ValueNotEmpty ==
  ASSUME NEW ls \in Seq(Lines), NEW i \in 1 .. Len(ls), ls[i].kind = "pair", ls[i].value # Empty
  PROVE  ValueIn(ls, i) # Empty
<1>1. ls[i].value = <<"value">>
  <2>1. ls[i] \in Lines
    OBVIOUS
  <2> QED
    BY <2>1 DEF Lines, Values
<1>2. PICK c \in Nat : c = Cardinality(TextsIn(ls, i))
  BY TextsFinite
<1>3. ValueIn(ls, i) = <<"value">> \o [k \in 1 .. c |-> "text"]
  BY <1>1, <1>2 DEF ValueIn
<1>4. [k \in 1 .. c |-> "text"] \in Seq(Texts) /\ <<"value">> \in Seq(Texts)
  BY DEF Texts
<1>5. \A s \in Seq(Texts) : Len(<<"value">> \o s) = 1 + Len(s) /\ Len(s) \in Nat
  BY <1>4
<1>6. Len(ValueIn(ls, i)) # 0
  BY <1>3, <1>4, <1>5
<1> QED
  BY <1>6 DEF Empty

\* The pair that is not followed by another is the last of the section in hand.
LEMMA LastOfAll ==
  ASSUME NEW ls \in Seq(Lines), NEW h, OverIn(ls, Len(ls), h),
         NEW l \in 1 .. Len(ls), ls[l].kind = "pair", OthersIn(ls, l) = {}
  PROVE  /\ LastIn(ls, l, h)
         /\ \A i \in 1 .. Len(ls) : LastIn(ls, i, h) /\ i # l =>
              OthersIn(ls, i) # {} /\ ls[i].name # ls[l].name
<1>1. PICK n \in Nat : n = Len(ls)
  OBVIOUS
<1>2. DOMAIN ls = 1 .. n
  BY <1>1
<1>3. /\ h \in 1 .. n /\ ls[h].kind = "section"
      /\ \A k \in h + 1 .. n : ls[k].kind # "section"
  BY <1>1 DEF OverIn
<1>4. \A j \in l + 1 .. n : ls[j].kind # "pair" /\ ls[j].kind # "section"
  BY <1>1 DEF OthersIn
<1>5. OverIn(ls, l, h)
  <2>1. h \notin l + 1 .. n /\ h # l
    BY <1>3, <1>4
  <2>2. h \in 1 .. l
    BY <1>1, <1>3, <2>1
  <2>3. \A k \in h + 1 .. l : k \in h + 1 .. n
    BY <1>1, <2>2
  <2> QED
    BY <1>3, <2>2, <2>3 DEF OverIn
<1>6. LastIn(ls, l, h)
  BY <1>1, <1>2, <1>4, <1>5 DEF LastIn
<1>7. ASSUME NEW i \in 1 .. n, LastIn(ls, i, h), i # l
      PROVE  OthersIn(ls, i) # {} /\ ls[i].name # ls[l].name
  <2>1. ls[i].kind = "pair"
    BY <1>7 DEF LastIn
  <2>2. i \notin l + 1 .. n
    BY <1>4, <2>1
  <2>3. l \in i + 1 .. n
    BY <1>1, <1>7, <2>2
  <2>4. l \in OthersIn(ls, i)
    BY <1>1, <2>3 DEF OthersIn
  <2>5. ls[l].name # ls[i].name
    BY <1>1, <1>5, <1>7, <2>3 DEF LastIn
  <2> QED
    BY <2>4, <2>5
<1> QED
  BY <1>1, <1>6, <1>7

\* Text goes on the value of the last pair.
LEMMA DescribesText ==
  ASSUME NEW ls \in Seq(Lines), NEW line \in Lines, NEW ls2, ls2 = Append(ls, line),
         line.kind = "text", NEW h, OverIn(ls, Len(ls), h), NEW m, Describes(ls, m, h),
         NEW l \in 1 .. Len(ls), ls[l].kind = "pair", OthersIn(ls, l) = {},
         NEW key, key = <<ls[l].name>>,
         NEW m2, m2 = Put(m, key, Append(At(m, key), "text"))
  PROVE  Describes(ls2, m2, h)
<1>1. PICK n \in Nat : n = Len(ls)
  OBVIOUS
<1>2. /\ DOMAIN ls = 1 .. n /\ DOMAIN ls2 = 1 .. n + 1 /\ \A i \in 1 .. n : ls2[i] = ls[i]
  BY <1>1, Appended
<1>3. /\ \A i \in 1 .. n : LastIn(ls2, i, h) <=> LastIn(ls, i, h)
      /\ \A i : i = n + 1 => ~LastIn(ls2, i, h)
  <2>1. LastMoves(ls, ls2, line, n, h)
    BY <1>1, LastAppend
  <2> QED
    BY <2>1 DEF LastMoves
<1>4. LastIn(ls, l, h)
  BY LastOfAll
<1>5. \A i \in 1 .. n : LastIn(ls, i, h) /\ i # l => OthersIn(ls, i) # {} /\ ls[i].name # ls[l].name
  BY <1>1, LastOfAll
<1>6. key \in DOMAIN m /\ m[key] = ValueIn(ls, l)
  BY <1>4, <1>2, <1>1 DEF Describes
<1>7. /\ DOMAIN m2 = DOMAIN m
      /\ m2[key] = Append(ValueIn(ls, l), "text")
      /\ \A k \in DOMAIN m : k # key => m2[k] = m[k]
  BY <1>6 DEF Put, At, Touch
<1>8. ValueIn(ls2, l) = Append(ValueIn(ls, l), "text")
  BY ValueAppend
<1>9. ASSUME NEW i \in DOMAIN ls2, LastIn(ls2, i, h)
      PROVE  i \in 1 .. n /\ LastIn(ls, i, h)
  <2>1. i # n + 1
    BY <1>3, <1>9
  <2>2. i \in 1 .. n
    BY <1>2, <2>1
  <2> QED
    BY <1>3, <1>9, <2>2
<1>10. ASSUME NEW i \in DOMAIN ls2, LastIn(ls2, i, h)
       PROVE  <<ls2[i].name>> \in DOMAIN m2 /\ m2[<<ls2[i].name>>] = ValueIn(ls2, i)
  <2>1. i \in 1 .. n /\ LastIn(ls, i, h) /\ ls2[i] = ls[i]
    BY <1>2, <1>9, <1>10
  <2>2. CASE i = l
    BY <1>6, <1>7, <1>8, <2>1, <2>2
  <2>3. CASE i # l
    <3>1. OthersIn(ls, i) # {} /\ ls[i].name # ls[l].name
      BY <1>5, <2>1, <2>3
    <3>2. ls[i].kind = "pair"
      BY <2>1 DEF LastIn
    <3>3. ValueIn(ls2, i) = ValueIn(ls, i)
      BY <1>1, <2>1, <3>1, <3>2, ValueAppend
    <3>4. <<ls[i].name>> \in DOMAIN m /\ m[<<ls[i].name>>] = ValueIn(ls, i)
      BY <1>2, <2>1 DEF Describes
    <3>5. <<ls[i].name>> # key
      BY <3>1
    <3> QED
      BY <1>7, <2>1, <3>3, <3>4, <3>5
  <2> QED
    BY <2>2, <2>3
<1>11. ASSUME NEW k \in DOMAIN m2
       PROVE  \E i \in DOMAIN ls2 : LastIn(ls2, i, h) /\ k = <<ls2[i].name>>
  <2>1. PICK i \in 1 .. n : LastIn(ls, i, h) /\ k = <<ls[i].name>>
    BY <1>2, <1>7 DEF Describes
  <2>2. i \in 1 .. n + 1
    OBVIOUS
  <2> QED
    BY <1>2, <1>3, <2>1, <2>2
<1> QED
  BY <1>10, <1>11 DEF Describes

\* A pair replaces the one of its name.
LEMMA DescribesPair ==
  ASSUME NEW ls \in Seq(Lines), NEW line \in Lines, NEW ls2, ls2 = Append(ls, line),
         line.kind = "pair", NEW h, OverIn(ls, Len(ls), h), NEW m, Describes(ls, m, h),
         NEW key, key = <<line.name>>, NEW m2, m2 = Put(m, key, line.value)
  PROVE  Describes(ls2, m2, h)
<1>1. PICK n \in Nat : n = Len(ls)
  OBVIOUS
<1>2. /\ DOMAIN ls = 1 .. n /\ DOMAIN ls2 = 1 .. n + 1 /\ ls2[n + 1] = line
      /\ \A i \in 1 .. n : ls2[i] = ls[i]
  BY <1>1, Appended
<1>0. OverIn(ls, n, h) /\ LastMoves(ls, ls2, line, n, h)
  BY <1>1, LastAppend
<1>3. \A i \in 1 .. n : LastIn(ls2, i, h) <=> LastIn(ls, i, h) /\ line.name # ls[i].name
  BY <1>0 DEF LastMoves
<1>4. \A i : i = n + 1 => LastIn(ls2, i, h)
  BY <1>0 DEF LastMoves
<1>5. /\ DOMAIN m2 = DOMAIN m \cup {key}
      /\ m2[key] = line.value
      /\ \A k \in DOMAIN m : k # key => m2[k] = m[k]
  BY DEF Put
<1>6. \A i : i = n + 1 => ValueIn(ls2, i) = line.value
  BY <1>1, ValueNew
<1>7. ASSUME NEW i \in DOMAIN ls2, LastIn(ls2, i, h)
      PROVE  <<ls2[i].name>> \in DOMAIN m2 /\ m2[<<ls2[i].name>>] = ValueIn(ls2, i)
  <2>1. CASE i = n + 1
    BY <1>2, <1>5, <1>6, <2>1
  <2>2. CASE i # n + 1
    <3>1. i \in 1 .. n
      BY <1>2, <2>2
    <3>2. LastIn(ls, i, h) /\ line.name # ls[i].name
      BY <1>3, <1>7, <3>1
    <3>3. ls[i].kind = "pair"
      BY <3>2 DEF LastIn
    <3>4. ValueIn(ls2, i) = ValueIn(ls, i)
      BY <1>1, <3>1, <3>3, ValueAppend
    <3>5. <<ls[i].name>> \in DOMAIN m /\ m[<<ls[i].name>>] = ValueIn(ls, i)
      BY <1>2, <3>1, <3>2 DEF Describes
    <3>6. <<ls[i].name>> # key
      BY <3>2
    <3> QED
      BY <1>2, <1>5, <3>1, <3>4, <3>5, <3>6
  <2> QED
    BY <2>1, <2>2
<1>8. ASSUME NEW k \in DOMAIN m2
      PROVE  \E i \in DOMAIN ls2 : LastIn(ls2, i, h) /\ k = <<ls2[i].name>>
  <2>1. CASE k = key
    <3>1. n + 1 \in 1 .. n + 1
      OBVIOUS
    <3> QED
      BY <1>2, <1>4, <2>1, <3>1
  <2>2. CASE k # key
    <3>1. PICK i \in 1 .. n : LastIn(ls, i, h) /\ k = <<ls[i].name>>
      BY <1>2, <1>5, <2>2 DEF Describes
    <3>2. i \in 1 .. n + 1 /\ line.name # ls[i].name
      BY <2>2, <3>1
    <3> QED
      BY <1>2, <1>3, <3>1, <3>2
  <2> QED
    BY <2>1, <2>2
<1> QED
  BY <1>7, <1>8 DEF Describes

-------------------------------------------------------------------------------
\* Sections completed.

\* A section is the last of its name until another of that name is.
LEMMA KeptAppend ==
  ASSUME NEW ls \in Seq(Lines), NEW line \in Lines, NEW ls2, ls2 = Append(ls, line),
         NEW m, NEW h, NEW s, IsKept(ls, m, h, s),
         \A g \in DOMAIN ls : line.kind = "section" /\ OverIn(ls, Len(ls), g) => ls[g].name # s
  PROVE  IsKept(ls2, m, h, s)
<1>1. /\ DOMAIN ls = 1 .. Len(ls) /\ DOMAIN ls2 = 1 .. Len(ls) + 1
      /\ Len(ls) \in Nat /\ \A i \in 1 .. Len(ls) : ls2[i] = ls[i]
  BY Appended
<1>2. \A g : Closed(ls2, g) <=>
        Closed(ls, g) \/ (line.kind = "section" /\ OverIn(ls, Len(ls), g))
  BY ClosedAppend
<1>3. /\ Closed(ls, h) /\ ls[h].name = s /\ Describes(ls, m, h)
      /\ \A g \in DOMAIN ls : Closed(ls, g) /\ ls[g].name = s => g <= h
  BY DEF IsKept
<1>4. h \in DOMAIN ls /\ ~OverIn(ls, Len(ls), h)
  BY <1>3 DEF Closed
<1>5. Closed(ls2, h) /\ ls2[h].name = s
  BY <1>1, <1>2, <1>3, <1>4
<1>6. ASSUME NEW g \in DOMAIN ls2, Closed(ls2, g), ls2[g].name = s
      PROVE  g <= h
  <2>1. Closed(ls, g) \/ (line.kind = "section" /\ OverIn(ls, Len(ls), g))
    BY <1>2, <1>6
  <2>2. Closed(ls, g) => g \in DOMAIN ls
    BY DEF Closed
  <2>3. OverIn(ls, Len(ls), g) => g \in DOMAIN ls
    BY <1>1 DEF OverIn
  <2>4. g \in DOMAIN ls /\ ls[g].name = s
    BY <1>1, <1>6, <2>1, <2>2, <2>3
  <2> QED
    BY <1>3, <2>1, <2>4
<1>7. Describes(ls2, m, h)
  BY <1>3, <1>4, DescribesKept
<1> QED
  BY <1>5, <1>6, <1>7 DEF IsKept

\* A header completes the section in hand, the last of its name.
LEMMA KeptClosing ==
  ASSUME NEW ls \in Seq(Lines), NEW line \in Lines, NEW ls2, ls2 = Append(ls, line),
         line.kind = "section",
         NEW m, NEW h, NEW s, OverIn(ls, Len(ls), h), ls[h].name = s, Describes(ls, m, h)
  PROVE  IsKept(ls2, m, h, s)
<1>1. /\ DOMAIN ls = 1 .. Len(ls) /\ DOMAIN ls2 = 1 .. Len(ls) + 1
      /\ Len(ls) \in Nat /\ \A i \in 1 .. Len(ls) : ls2[i] = ls[i]
  BY Appended
<1>2. \A g : Closed(ls2, g) <=> Closed(ls, g) \/ OverIn(ls, Len(ls), g)
  BY ClosedAppend
<1>3. h \in 1 .. Len(ls) /\ \A k \in h + 1 .. Len(ls) : ls[k].kind # "section"
  BY DEF OverIn
<1>4. ASSUME NEW g \in DOMAIN ls2, Closed(ls2, g)
      PROVE  g <= h
  <2>1. Closed(ls, g) => g \in 1 .. Len(ls) /\ ls[g].kind = "section"
    BY <1>1 DEF Closed
  <2>2. OverIn(ls, Len(ls), g) => g \in 1 .. Len(ls) /\ ls[g].kind = "section"
    BY DEF OverIn
  <2>3. g \in 1 .. Len(ls) /\ ls[g].kind = "section"
    BY <1>2, <1>4, <2>1, <2>2
  <2>4. g \notin h + 1 .. Len(ls)
    BY <1>3, <2>3
  <2> QED
    BY <1>1, <1>3, <2>3, <2>4
<1>5. Describes(ls2, m, h)
  BY DescribesKept
<1> QED
  BY <1>1, <1>2, <1>3, <1>4, <1>5 DEF IsKept

-------------------------------------------------------------------------------
\* The steps, in a flat file.

\* A line of a flat file stands under a header, that of its section.
LEMMA Under ==
  ASSUME StepInv, IsFlat(lines), NEW i \in DOMAIN lines
  PROVE  \E h \in DOMAIN lines : OverIn(lines, i, h) /\ SectionOf(i) = lines[h].name
<1>1. PICK n \in Nat : n = Len(lines)
  BY DEF StepInv, TypeOK
<1>2. DOMAIN lines = 1 .. n /\ i \in 0 .. n
  BY <1>1 DEF StepInv, TypeOK
<1>3. lines # <<>>
  BY <1>2
<1>4. 1 \in 1 .. i /\ IsHeader(1)
  BY <1>2, <1>3 DEF IsFlat, IsHeader
<1>5. PICK h \in 1 .. i : LastHeader(lines, i, h)
  BY <1>1, <1>2, <1>4 DEF StepInv, HeadersInv
<1>6. OverIn(lines, i, h)
  <2>1. lines[h].kind = "section" /\ \A k \in 1 .. i : lines[k].kind = "section" => k <= h
    BY <1>5 DEF LastHeader
  <2>2. \A k \in h + 1 .. i : k \in 1 .. i /\ ~(k <= h)
    BY <1>2
  <2> QED
    BY <2>1, <2>2 DEF OverIn
<1>7. SectionOf(i) = lines[h].name
  BY <1>2, <1>5, SectionByHeader, SectionDef
<1> QED
  BY <1>2, <1>6, <1>7

\* What a flat file is before its last line.
LEMMA FlatBefore ==
  ASSUME NEW ls \in Seq(Lines), NEW line \in Lines, NEW ls2, ls2 = Append(ls, line), IsFlat(ls2)
  PROVE  /\ IsFlat(ls)
         /\ line.kind # "section" => ls # <<>>
         /\ line.kind = "pair" => line.value # Empty /\ ~line.nested
<1>1. PICK n \in Nat : n = Len(ls)
  OBVIOUS
<1>2. /\ DOMAIN ls = 1 .. n /\ DOMAIN ls2 = 1 .. n + 1 /\ Len(ls2) = n + 1
      /\ ls2[n + 1] = line /\ \A i \in 1 .. n : ls2[i] = ls[i]
  BY <1>1, Appended
<1>3. ls2 # <<>> /\ n + 1 \in 1 .. n + 1 /\ \A i \in 1 .. n : i \in 1 .. n + 1
  BY <1>2
<1>4. ls2[1].kind = "section" /\ \A i \in 1 .. n + 1 : ls2[i].kind = "pair" => ls2[i].value # Empty /\ ~ls2[i].nested
  BY <1>2, <1>3 DEF IsFlat
<1>5. line.kind = "pair" => line.value # Empty /\ ~line.nested
  BY <1>2, <1>3, <1>4
<1>6. ls # <<>> => 1 \in 1 .. n
  BY <1>1
<1>7. ls = <<>> => n = 0
  BY <1>1
<1>8. line.kind # "section" => ls # <<>>
  BY <1>2, <1>4, <1>7
<1>9. IsFlat(ls)
  BY <1>2, <1>3, <1>4, <1>6 DEF IsFlat
<1> QED
  BY <1>5, <1>8, <1>9

\* The section in hand has a header, and its name.
LEMMA HandNamed ==
  ASSUME StepInv, IsFlat(lines), lines # <<>>
  PROVE  \E h \in DOMAIN lines : OverIn(lines, Len(lines), h) /\ lines[h].name # NoName
<1>1. lines \in Seq(Lines)
  BY DEF StepInv, TypeOK
<1>2. Len(lines) \in DOMAIN lines
  BY <1>1
<1>3. PICK h \in DOMAIN lines : OverIn(lines, Len(lines), h)
  BY <1>2, Under
<1>4. lines[h] \in Lines /\ lines[h].kind = "section"
  BY <1>1, <1>3 DEF OverIn
<1>5. lines[h].name \in Sections
  BY <1>4 DEF Lines
<1> QED
  BY <1>3, <1>5, NamesAssumption

LEMMA CompletedStays ==
  ASSUME StepInv, CompletedRight, NEW line \in Lines, line.kind # "section",
         lines' = Append(lines, line), UNCHANGED toml
  PROVE  CompletedRight'
<1>1. lines \in Seq(Lines)
  BY DEF StepInv, TypeOK
<1>2. \A h \in DOMAIN lines : h \in DOMAIN lines' /\ lines'[h] = lines[h]
  BY <1>1, Appended
<1>3. \A h : Closed(lines', h) <=> Closed(lines, h)
  BY <1>1, ClosedAppend
<1>4. ASSUME NEW h \in DOMAIN lines', Closed(lines', h)
      PROVE  lines'[h].name \in DOMAIN toml'
  <2>1. h \in DOMAIN lines /\ Closed(lines, h)
    BY <1>3, <1>4 DEF Closed
  <2> QED
    BY <1>2, <2>1 DEF CompletedRight
<1>5. ASSUME NEW s \in DOMAIN toml'
      PROVE  \E h \in DOMAIN lines' : IsKept(lines', toml'[s], h, s)
  <2>1. PICK h \in DOMAIN lines : IsKept(lines, toml[s], h, s)
    BY <1>5 DEF CompletedRight
  <2>2. IsKept(lines', toml[s], h, s)
    BY <1>1, <2>1, KeptAppend
  <2> QED
    BY <1>2, <2>1, <2>2
<1> QED
  BY <1>4, <1>5 DEF CompletedRight

\* The last key stays that of the last pair.
LEMMA HeldStays ==
  ASSUME StepInv, LastKeyHeld, NEW line \in Lines, line.kind \in {"comment", "text"},
         lines' = Append(lines, line), UNCHANGED lastKey
  PROVE  LastKeyHeld'
<1>1. lines \in Seq(Lines) /\ DOMAIN lines = 1 .. Len(lines)
  BY DEF StepInv, TypeOK
<1>2. ASSUME lastKey # NoName
      PROVE  \E i \in DOMAIN lines' :
               lines'[i].kind = "pair" /\ OthersIn(lines', i) = {} /\ lastKey = lines'[i].name
  <2>1. PICK i \in DOMAIN lines :
          lines[i].kind = "pair" /\ OthersIn(lines, i) = {} /\ lastKey = lines[i].name
    BY <1>2 DEF LastKeyHeld
  <2>2. i \in DOMAIN lines' /\ lines'[i] = lines[i]
    BY <1>1, <2>1, Appended
  <2>3. i \in 1 .. Len(lines) /\ line.kind \notin {"pair", "section"}
    BY <1>1
  <2>4. OthersIn(lines', i) = IF line.kind \in {"pair", "section"}
                              THEN OthersIn(lines, i) \cup {Len(lines) + 1} ELSE OthersIn(lines, i)
    BY <1>1, <2>3, OthersAppend
  <2> QED
    BY <2>1, <2>2, <2>3, <2>4
<1> QED
  BY <1>2 DEF LastKeyHeld

\* A line that is no header, when the entries and the last key are kept right.
LEMMA LineFlat ==
  ASSUME StepInv, FlatInv, pc = "parse", pc' = "parse", NEW line \in Lines,
         line.kind # "section", lines' = Append(lines, line), UNCHANGED <<curSection, toml>>,
         \A h : IsFlat(lines') /\ OverIn(lines, Len(lines), h)
                  /\ Describes(lines, curSectionData, h) => Describes(lines', curSectionData', h),
         IsFlat(lines') => LastKeyHeld'
  PROVE  FlatInv'
<1> SUFFICES ASSUME IsFlat(lines')
             PROVE  InHand' /\ CompletedRight'
  BY DEF FlatInv, Parsed
<1>1. lines \in Seq(Lines)
  BY DEF StepInv, TypeOK
<1>2. IsFlat(lines) /\ lines # <<>>
  BY <1>1, FlatBefore
<1>3. InHand /\ CompletedRight
  BY <1>2 DEF FlatInv
<1>4. CompletedRight'
  BY <1>3, CompletedStays
<1>5. Len(lines') = Len(lines) + 1 /\ lines' # <<>> /\ \A h \in DOMAIN lines : lines'[h] = lines[h]
  BY <1>1, Appended
<1>6. ASSUME NEW h, OverIn(lines', Len(lines'), h)
      PROVE  curSection' = lines'[h].name /\ Describes(lines', curSectionData', h)
  <2>0. OverIn(lines', Len(lines) + 1, h)
    BY <1>5, <1>6
  <2>1. OverIn(lines, Len(lines), h)
    BY <1>1, <2>0, OverAppend
  <2>2. h \in DOMAIN lines
    BY <1>1, <2>1 DEF OverIn
  <2>3. curSection = lines[h].name /\ Describes(lines, curSectionData, h)
    BY <1>3, <2>1, <2>2 DEF InHand
  <2> QED
    BY <1>5, <2>1, <2>2, <2>3
<1>7. InHand'
  BY <1>5, <1>6 DEF InHand
<1> QED
  BY <1>4, <1>7

LEMMA SkipFlat ==
  ASSUME StepInv, FlatInv, SkipLine
  PROVE  FlatInv'
<1> DEFINE line == [kind |-> "comment"]
<1>1. line \in Lines /\ line.kind = "comment"
  BY LineKinds
<1>2. /\ pc = "parse" /\ pc' = "parse" /\ lines' = Append(lines, line)
      /\ UNCHANGED <<curSection, curSectionData, lastKey, toml>>
  BY DEF SkipLine, Read
<1> HIDE DEF line
<1>3. lines \in Seq(Lines)
  BY DEF StepInv, TypeOK
<1>4. \A h : Describes(lines, curSectionData, h) => Describes(lines', curSectionData', h)
  BY <1>1, <1>2, <1>3, DescribesKept
<1>5. IsFlat(lines') => LastKeyHeld
  BY <1>1, <1>2, <1>3, FlatBefore DEF FlatInv, InHand
<1>6. IsFlat(lines') => LastKeyHeld'
  BY <1>1, <1>2, <1>5, HeldStays
<1> QED
  BY <1>1, <1>2, <1>4, <1>6, LineFlat

LEMMA TextFlat ==
  ASSUME StepInv, FlatInv, ReadText
  PROVE  FlatInv'
<1> DEFINE line == [kind |-> "text"]
<1>1. line \in Lines /\ line.kind = "text"
  BY LineKinds
<1>2. /\ pc = "parse" /\ pc' = "parse" /\ lines' = Append(lines, line) /\ lastKey # NoName
      /\ UNCHANGED <<curSection, lastKey, toml>>
  BY DEF ReadText, Read
<1>3. curSectionData' =
        Put(curSectionData, <<lastKey>>, Append(At(curSectionData, <<lastKey>>), "text"))
  BY DEF ReadText
<1> HIDE DEF line
<1>4. lines \in Seq(Lines)
  BY DEF StepInv, TypeOK
<1>5. IsFlat(lines') => LastKeyHeld
  BY <1>1, <1>2, <1>4, FlatBefore DEF FlatInv, InHand
<1>6. IsFlat(lines') => LastKeyHeld'
  BY <1>1, <1>2, <1>5, HeldStays
<1>7. ASSUME NEW h, IsFlat(lines'), OverIn(lines, Len(lines), h),
             Describes(lines, curSectionData, h)
      PROVE  Describes(lines', curSectionData', h)
  <2>1. PICK l \in DOMAIN lines :
          lines[l].kind = "pair" /\ OthersIn(lines, l) = {} /\ lastKey = lines[l].name
    BY <1>2, <1>5, <1>7 DEF LastKeyHeld
  <2>2. l \in 1 .. Len(lines) /\ <<lastKey>> = <<lines[l].name>>
    BY <1>4, <2>1
  <2> QED
    BY <1>1, <1>2, <1>3, <1>4, <1>7, <2>1, <2>2, DescribesText
<1> QED
  BY <1>1, <1>2, <1>6, <1>7, LineFlat

LEMMA PairFlat ==
  ASSUME StepInv, FlatInv, NEW name \in Keys, NEW value \in Values, NEW nested \in BOOLEAN,
         ReadPair(name, value, nested)
  PROVE  FlatInv'
<1> DEFINE line == [kind |-> "pair", name |-> name, value |-> value, nested |-> nested]
<1>1. line \in Lines /\ line.kind = "pair" /\ line.name = name /\ line.value = value
  BY LineKinds
<1>2. /\ pc = "parse" /\ pc' = "parse" /\ lines' = Append(lines, line) /\ lastKey' = name
      /\ UNCHANGED <<curSection, toml>>
  BY DEF ReadPair, Read
<1>3. curSectionData' =
        Put(IF lastKey = NoName THEN curSectionData ELSE Touch(curSectionData, <<lastKey>>),
            EntryKey(name), value)
  BY DEF ReadPair
<1> HIDE DEF line
<1>4. lines \in Seq(Lines) /\ DOMAIN lines = 1 .. Len(lines)
  BY DEF StepInv, TypeOK
<1>5. LastKeyHeld'
  <2>1. PICK i : i = Len(lines) + 1
    OBVIOUS
  <2>2. i \in DOMAIN lines' /\ lines'[i] = line /\ Len(lines') = i /\ i \in Nat
    BY <1>1, <1>2, <1>4, <2>1, Appended
  <2>3. OthersIn(lines', i) = {}
    BY <2>2 DEF OthersIn
  <2> QED
    BY <1>1, <1>2, <2>2, <2>3 DEF LastKeyHeld
<1>6. ASSUME NEW h, IsFlat(lines'), OverIn(lines, Len(lines), h),
             Describes(lines, curSectionData, h)
      PROVE  Describes(lines', curSectionData', h)
  <2>1. IsFlat(lines)
    BY <1>1, <1>2, <1>4, <1>6, FlatBefore
  <2>2. LastKeyHeld
    BY <1>2, <2>1 DEF FlatInv, InHand
  <2>3. ASSUME lastKey # NoName
        PROVE  <<lastKey>> \in DOMAIN curSectionData /\ curSectionData[<<lastKey>>] # Empty
    <3>1. PICK l \in DOMAIN lines :
            lines[l].kind = "pair" /\ OthersIn(lines, l) = {} /\ lastKey = lines[l].name
      BY <2>2, <2>3 DEF LastKeyHeld
    <3>2. LastIn(lines, l, h)
      BY <1>4, <1>6, <3>1, LastOfAll
    <3>3. /\ <<lines[l].name>> \in DOMAIN curSectionData
          /\ curSectionData[<<lines[l].name>>] = ValueIn(lines, l)
      BY <1>6, <3>1, <3>2 DEF Describes
    <3>4. ValueIn(lines, l) # Empty
      BY <1>4, <2>1, <3>1, ValueNotEmpty DEF IsFlat
    <3> QED
      BY <3>1, <3>3, <3>4
  <2>4. EntryKey(name) = <<name>>
    BY <2>3 DEF EntryKey, Prefixed, At, Touch
  <2>5. (IF lastKey = NoName THEN curSectionData ELSE Touch(curSectionData, <<lastKey>>))
          = curSectionData
    BY <2>3 DEF Touch
  <2>6. curSectionData' = Put(curSectionData, <<line.name>>, line.value)
    BY <1>1, <1>3, <2>4, <2>5
  <2> QED
    BY <1>1, <1>2, <1>4, <1>6, <2>6, DescribesPair
<1> QED
  BY <1>1, <1>2, <1>5, <1>6, LineFlat

\* The first header of the file.
LEMMA FirstHeaderFlat ==
  ASSUME StepInv, FlatInv, NEW name \in Sections, ReadSection(name), lines = <<>>
  PROVE  FlatInv'
<1> DEFINE line == [kind |-> "section", name |-> name]
<1>1. line \in Lines /\ line.kind = "section" /\ line.name = name
  BY LineKinds
<1>2. pc = "parse" /\ pc' = "parse" /\ lines' = Append(lines, line) /\ curSection' = name
  BY DEF ReadSection, Read
<1> HIDE DEF line
<1>3. InHand /\ CompletedRight
  BY <1>2 DEF FlatInv, IsFlat
<1>4. curSection = NoName /\ lastKey = NoName /\ DOMAIN curSectionData = {} /\ DOMAIN toml = {}
  BY <1>3 DEF InHand
<1>5. UNCHANGED <<curSectionData, lastKey, toml>>
  BY <1>4 DEF ReadSection
<1>6. lines \in Seq(Lines) /\ Len(lines) = 0
  BY DEF StepInv, TypeOK
<1>7. /\ lines' # <<>> /\ Len(lines') = 1 /\ DOMAIN lines' = 1 .. 1 /\ lines'[1] = line
  BY <1>1, <1>2, <1>6, Appended
<1>8. \A h : ~OverIn(lines, 0, h) /\ ~Closed(lines, h)
  BY <1>6 DEF OverIn, Closed
<1>9. \A h : ~Closed(lines', h)
  BY <1>1, <1>2, <1>6, <1>8, ClosedAppend
<1>10. Describes(lines', curSectionData', 1)
  <2>1. 1 = Len(lines) + 1 /\ DOMAIN curSectionData' = {}
    BY <1>4, <1>5, <1>6
  <2> QED
    BY <1>1, <1>2, <1>6, <2>1, DescribesNew
<1>11. LastKeyHeld'
  BY <1>4, <1>5 DEF LastKeyHeld
<1>12. \A h \in DOMAIN lines' : h = 1
  BY <1>7
<1>13. InHand'
  BY <1>1, <1>2, <1>7, <1>10, <1>11, <1>12 DEF InHand
<1>14. CompletedRight'
  BY <1>4, <1>5, <1>9 DEF CompletedRight
<1> QED
  BY <1>2, <1>13, <1>14 DEF FlatInv, Parsed

\* Another header: the section in hand joins those completed.
LEMMA NextHeaderFlat ==
  ASSUME StepInv, FlatInv, NEW name \in Sections, ReadSection(name), lines # <<>>
  PROVE  FlatInv'
<1> DEFINE line == [kind |-> "section", name |-> name]
<1>1. line \in Lines /\ line.kind = "section" /\ line.name = name
  BY LineKinds
<1>2. pc = "parse" /\ pc' = "parse" /\ lines' = Append(lines, line) /\ curSection' = name
  BY DEF ReadSection, Read
<1> HIDE DEF line
<1> SUFFICES ASSUME IsFlat(lines')
             PROVE  InHand' /\ CompletedRight'
  BY <1>2 DEF FlatInv, Parsed
<1>3. lines \in Seq(Lines) /\ DOMAIN lines = 1 .. Len(lines) /\ Len(lines) \in Nat
  BY DEF StepInv, TypeOK
<1>4. IsFlat(lines)
  BY <1>1, <1>2, <1>3, FlatBefore
<1>5. InHand /\ CompletedRight
  BY <1>2, <1>4 DEF FlatInv
<1>6. PICK o \in DOMAIN lines : OverIn(lines, Len(lines), o) /\ lines[o].name # NoName
  BY <1>4, HandNamed
<1>7. curSection = lines[o].name /\ Describes(lines, curSectionData, o)
  BY <1>5, <1>6 DEF InHand
<1>8. /\ toml' = Put(toml, curSection, curSectionData)
      /\ DOMAIN curSectionData' = {} /\ lastKey' = NoName
  BY <1>6, <1>7, NothingIn DEF ReadSection
<1>9. /\ lines' # <<>> /\ Len(lines') = Len(lines) + 1 /\ lines'[Len(lines) + 1] = line
      /\ \A h \in DOMAIN lines : h \in DOMAIN lines' /\ lines'[h] = lines[h]
  BY <1>1, <1>2, <1>3, Appended
<1>10. InHand'
  <2>1. ASSUME NEW h \in DOMAIN lines', OverIn(lines', Len(lines'), h)
        PROVE  curSection' = lines'[h].name /\ Describes(lines', curSectionData', h)
    <3>0. OverIn(lines', Len(lines) + 1, h)
      BY <1>9, <2>1
    <3>1. h = Len(lines) + 1
      BY <1>1, <1>2, <1>3, <3>0, OverAppend
    <3>2. Describes(lines', curSectionData', h)
      BY <1>1, <1>2, <1>3, <1>8, <3>1, DescribesNew
    <3> QED
      BY <1>1, <1>2, <1>9, <3>1, <3>2
  <2>2. LastKeyHeld'
    BY <1>8 DEF LastKeyHeld
  <2> QED
    BY <1>9, <2>1, <2>2 DEF InHand
<1>11. /\ DOMAIN toml' = DOMAIN toml \cup {curSection}
       /\ toml'[curSection] = curSectionData
       /\ \A s \in DOMAIN toml : s # curSection => toml'[s] = toml[s]
  BY <1>8 DEF Put
<1>12. ASSUME NEW h \in DOMAIN lines', Closed(lines', h)
       PROVE  lines'[h].name \in DOMAIN toml'
  <2>1. Closed(lines, h) \/ OverIn(lines, Len(lines), h)
    BY <1>1, <1>2, <1>3, <1>12, ClosedAppend
  <2>2. CASE Closed(lines, h)
    <3>1. h \in DOMAIN lines /\ lines[h].name \in DOMAIN toml
      BY <1>5, <2>2 DEF Closed, CompletedRight
    <3> QED
      BY <1>9, <1>11, <3>1
  <2>3. CASE OverIn(lines, Len(lines), h)
    <3>1. h = o
      BY <1>3, <1>6, <2>3, OverUnique
    <3> QED
      BY <1>6, <1>7, <1>9, <1>11, <3>1
  <2> QED
    BY <2>1, <2>2, <2>3
<1>13. ASSUME NEW s \in DOMAIN toml'
       PROVE  \E h \in DOMAIN lines' : IsKept(lines', toml'[s], h, s)
  <2>1. CASE s = curSection
    <3>1. IsKept(lines', curSectionData, o, s)
      BY <1>1, <1>2, <1>3, <1>6, <1>7, <2>1, KeptClosing
    <3> QED
      BY <1>6, <1>9, <1>11, <2>1, <3>1
  <2>2. CASE s # curSection
    <3>1. s \in DOMAIN toml /\ toml'[s] = toml[s]
      BY <1>11, <1>13, <2>2
    <3>2. PICK h \in DOMAIN lines : IsKept(lines, toml[s], h, s)
      BY <1>5, <3>1 DEF CompletedRight
    <3>3. \A g \in DOMAIN lines : OverIn(lines, Len(lines), g) => lines[g].name # s
      BY <1>3, <1>6, <1>7, <2>2, OverUnique
    <3>4. IsKept(lines', toml[s], h, s)
      BY <1>1, <1>2, <1>3, <3>2, <3>3, KeptAppend
    <3> QED
      BY <1>9, <3>1, <3>2, <3>4
  <2> QED
    BY <2>1, <2>2
<1>14. CompletedRight'
  BY <1>12, <1>13 DEF CompletedRight
<1> QED
  BY <1>10, <1>14

\* The header over a line is one only.
LEMMA HeaderFound ==
  ASSUME NEW i \in DOMAIN lines, NEW h, OverIn(lines, i, h), i \in Nat
  PROVE  HeaderOver(i) = h
<1>1. h \in 0 .. i /\ h # 0 /\ IsHeader(h) /\ \A k \in h + 1 .. i : ~IsHeader(k)
  BY DEF OverIn, IsHeader
<1>2. ASSUME NEW j \in 0 .. i, j = 0 \/ IsHeader(j), \A k \in j + 1 .. i : ~IsHeader(k)
      PROVE  j = h
  <2>1. j # 0
    <3>1. h \in 1 .. i
      BY <1>1
    <3> QED
      BY <1>1, <1>2, <3>1
  <2>2. OverIn(lines, i, j)
    BY <1>2, <2>1 DEF OverIn, IsHeader
  <2> QED
    BY <2>2, OverUnique
<1> QED
  BY <1>1, <1>2 DEF HeaderOver

LEMMA EndFlat ==
  ASSUME StepInv, FlatInv, EndFile
  PROVE  FlatInv'
<1>1. /\ pc = "parse" /\ pc' = "lookup" /\ UNCHANGED lines
      /\ toml' = IF curSection \in DOMAIN toml THEN toml
                 ELSE Put(toml, curSection, curSectionData)
  BY DEF EndFile
<1> SUFFICES ASSUME IsFlat(lines)
             PROVE  ParsedRight'
  BY <1>1 DEF FlatInv
<1>2. InHand /\ CompletedRight
  BY <1>1 DEF FlatInv
<1>3. ASSUME NEW s \in DOMAIN toml'
      PROVE  \/ s \in DOMAIN toml /\ toml'[s] = toml[s]
             \/ s \notin DOMAIN toml /\ s = curSection /\ toml'[s] = curSectionData
  BY <1>1, <1>3 DEF Put
<1>4. CASE lines = <<>>
  <2>1. DOMAIN curSectionData = {} /\ DOMAIN toml = {}
    BY <1>2, <1>4 DEF InHand
  <2>2. \A s \in DOMAIN toml' : DOMAIN toml'[s] = {}
    BY <1>3, <2>1
  <2> QED
    BY <1>1, <1>4, <2>2 DEF ParsedRight
<1>5. CASE lines # <<>>
  <2>1. lines \in Seq(Lines) /\ DOMAIN lines = 1 .. Len(lines) /\ Len(lines) \in Nat
    BY DEF StepInv, TypeOK
  <2>2. PICK o \in DOMAIN lines : OverIn(lines, Len(lines), o)
    BY <1>5, HandNamed
  <2>3. HeaderOver(Len(lines)) = o
    <3>1. Len(lines) \in DOMAIN lines
      BY <1>5, <2>1
    <3> QED
      BY <2>1, <2>2, <3>1, HeaderFound
  <2>4. \A g \in DOMAIN lines : IsHeader(g) => g = o \/ Closed(lines, g)
    BY <2>1, <2>2, OverUnique DEF Closed, IsHeader
  <2>5. ASSUME NEW s \in DOMAIN toml'
        PROVE  \E h \in DOMAIN lines :
                 /\ lines[h].kind = "section" /\ lines[h].name = s /\ Counts(h)
                 /\ Describes(lines, toml'[s], h)
    <3>1. CASE s \in DOMAIN toml /\ toml'[s] = toml[s]
      <4>1. PICK h \in DOMAIN lines : IsKept(lines, toml[s], h, s)
        BY <1>2, <3>1 DEF CompletedRight
      <4>2. /\ Closed(lines, h) /\ lines[h].name = s /\ Describes(lines, toml[s], h)
            /\ \A g \in DOMAIN lines : Closed(lines, g) /\ lines[g].name = s => g <= h
        BY <4>1 DEF IsKept
      <4>3. IsHeader(h) /\ lines[h].kind = "section" /\ h # o
        BY <2>2, <4>2 DEF Closed, IsHeader
      <4>4. \A g \in DOMAIN lines : IsHeader(g) /\ g # h /\ lines[g].name = lines[h].name =>
              g < h \/ g = o
        BY <2>1, <2>4, <4>2
      <4>5. Counts(h)
        BY <2>3, <4>3, <4>4 DEF Counts
      <4> QED
        BY <3>1, <4>2, <4>3, <4>5
    <3>2. CASE s \notin DOMAIN toml /\ s = curSection /\ toml'[s] = curSectionData
      <4>1. curSection = lines[o].name /\ Describes(lines, curSectionData, o)
        BY <1>2, <2>2 DEF InHand
      <4>2. IsHeader(o) /\ lines[o].kind = "section"
        BY <2>2 DEF OverIn, IsHeader
      <4>3. \A g \in DOMAIN lines : IsHeader(g) /\ lines[g].name = lines[o].name => g = o
        BY <1>2, <2>4, <3>2, <4>1 DEF CompletedRight
      <4>4. Counts(o)
        BY <4>2, <4>3 DEF Counts
      <4> QED
        BY <3>2, <4>1, <4>2, <4>4
    <3> QED
      BY <1>3, <2>5, <3>1, <3>2
  <2>6. \A h : Counts(h)' = Counts(h)
    BY <1>1 DEF Counts, HeaderOver, IsHeader
  <2> QED
    BY <1>1, <1>5, <2>5, <2>6 DEF ParsedRight
<1> QED
  BY <1>4, <1>5

LEMMA ConfigureFlat ==
  ASSUME FlatInv, Configure \/ UNCHANGED vars
  PROVE  FlatInv'
<1>1. UNCHANGED <<lines, curSection, curSectionData, lastKey, toml>>
  BY DEF Configure, ProfileMissing, ReadKeys, RejectKeys, AcceptKeys, parseVars, vars
<1>2. pc' = pc \/ (pc # "parse" /\ pc' # "parse" /\ (Parsed' => Parsed))
  BY DEF Configure, ProfileMissing, ReadKeys, RejectKeys, AcceptKeys, vars, Parsed
<1>3. \A h : Counts(h)' = Counts(h)
  BY <1>1 DEF Counts, HeaderOver, IsHeader
<1>4. ParsedRight' = ParsedRight
  BY <1>1, <1>3 DEF ParsedRight
<1>5. InHand' = InHand /\ CompletedRight' = CompletedRight
  BY <1>1 DEF InHand, LastKeyHeld, CompletedRight
<1> QED
  BY <1>1, <1>2, <1>4, <1>5 DEF FlatInv, Parsed

LEMMA InitFlat == Init => FlatInv
<1> SUFFICES ASSUME Init PROVE FlatInv
  OBVIOUS
<1>1. /\ lines = <<>> /\ DOMAIN lines = {} /\ DOMAIN toml = {} /\ DOMAIN curSectionData = {}
      /\ pc = "parse" /\ lastKey = NoName /\ curSection = NoName
  BY NothingIn DEF Init
<1>2. \A h : ~Closed(lines, h)
  BY <1>1 DEF Closed
<1> QED
  BY <1>1, <1>2 DEF FlatInv, Parsed, InHand, LastKeyHeld, CompletedRight

LEMMA NextFlat == StepInv /\ FlatInv /\ [Next]_vars => FlatInv'
<1> SUFFICES ASSUME StepInv, FlatInv, [Next]_vars
             PROVE  FlatInv'
  OBVIOUS
<1>1. CASE SkipLine
  BY <1>1, SkipFlat
<1>2. CASE ReadText
  BY <1>2, TextFlat
<1>3. CASE RejectText
  BY <1>3 DEF RejectText, FlatInv, Parsed
<1>4. ASSUME NEW name \in Sections, ReadSection(name)
      PROVE  FlatInv'
  BY <1>4, FirstHeaderFlat, NextHeaderFlat
<1>5. ASSUME NEW name \in Keys, NEW value \in Values, NEW nested \in BOOLEAN,
             ReadPair(name, value, nested)
      PROVE  FlatInv'
  BY <1>5, PairFlat
<1>6. CASE EndFile
  BY <1>6, EndFlat
<1>7. CASE Configure \/ UNCHANGED vars
  BY <1>7, ConfigureFlat
<1> QED
  BY <1>1, <1>2, <1>3, <1>4, <1>5, <1>6, <1>7 DEF Next, Parse, Ended

\* What the property calls the pairs of a section, their keys and values.
LEMMA PairsOfHeader ==
  ASSUME StepInv, IsFlat(lines), NEW h \in DOMAIN lines, lines[h].kind = "section", Counts(h)
  PROVE  \A i : i \in LastPairs(lines[h].name) <=> LastIn(lines, i, h)
<1>1. DOMAIN lines = 1 .. Len(lines) /\ Len(lines) \in Nat
  BY DEF StepInv, TypeOK
<1>2. ASSUME NEW i \in DOMAIN lines
      PROVE  \E g \in DOMAIN lines :
               /\ OverIn(lines, i, g) /\ HeaderOver(i) = g /\ SectionOf(i) = lines[g].name
  <2>1. PICK g \in DOMAIN lines : OverIn(lines, i, g) /\ SectionOf(i) = lines[g].name
    BY Under
  <2>2. i \in Nat
    BY <1>1
  <2> QED
    BY <2>1, <2>2, HeaderFound
<1>3. ASSUME NEW i \in DOMAIN lines
      PROVE  OverIn(lines, i, h) <=> HeaderOver(i) = h
  <2>1. PICK g \in DOMAIN lines : OverIn(lines, i, g) /\ HeaderOver(i) = g
    BY <1>2
  <2>2. i \in Nat
    BY <1>1
  <2> QED
    BY <2>1, <2>2, OverUnique
<1>4. ASSUME NEW g \in DOMAIN lines, Counts(g), lines[g].name = lines[h].name
      PROVE  g = h
  <2>1. h \in Nat /\ g \in Nat
    BY <1>1
  <2> QED
    BY <1>4, <2>1 DEF Counts
<1>5. ASSUME NEW i \in DOMAIN lines
      PROVE  SectionOf(i) = lines[h].name /\ Counts(HeaderOver(i)) <=> HeaderOver(i) = h
  BY <1>2, <1>4
<1>6. ASSUME NEW i \in DOMAIN lines
      PROVE  i \in LastPairs(lines[h].name) <=> LastIn(lines, i, h)
  <2>1. \A j \in i + 1 .. Len(lines) : j \in DOMAIN lines
    BY <1>1
  <2>2. i \in LastPairs(lines[h].name) <=>
          /\ IsPair(i) /\ HeaderOver(i) = h
          /\ \A j \in i + 1 .. Len(lines) :
               IsPair(j) /\ HeaderOver(j) = HeaderOver(i) => lines[j].name # lines[i].name
    BY <1>5 DEF LastPairs
  <2>3. LastIn(lines, i, h) <=>
          /\ IsPair(i) /\ HeaderOver(i) = h
          /\ \A j \in i + 1 .. Len(lines) :
               IsPair(j) /\ HeaderOver(j) = h => lines[j].name # lines[i].name
    BY <1>3, <2>1 DEF LastIn, IsPair
  <2> QED
    BY <2>2, <2>3
<1> QED
  BY <1>6 DEF LastPairs, LastIn

LEMMA ValueOfPair ==
  ASSUME NEW i
  PROVE  FullValue(i) = ValueIn(lines, i)
<1>1. \A j : IsPair(j) \/ IsHeader(j) <=> lines[j].kind \in {"pair", "section"}
  BY DEF IsPair, IsHeader
<1> DEFINE others == {j \in i + 1 .. Len(lines) : IsPair(j) \/ IsHeader(j)}
<1>2. others = OthersIn(lines, i)
  BY <1>1 DEF OthersIn
<1> HIDE DEF others
<1>3. {j \in i + 1 .. Len(lines) : lines[j].kind = "text" /\ \A k \in others : j < k}
        = TextsIn(lines, i)
  BY <1>2 DEF TextsIn
<1> QED
  BY <1>3 DEF FullValue, ValueIn, others

\* A file in which every key has a value is read as it stands, for files of any
\* length: the entries of a section that is kept are those of the header that
\* counts for its name, each with the value and the texts of its last pair.
THEOREM FlatFilesAreRead == Spec => []FlatFilesAreRight
<1>1. Spec => [](StepInv /\ FlatInv)
  BY InitFile, NextFile, InitFlat, NextFlat, PTL DEF Spec
<1>2. StepInv /\ FlatInv => FlatFilesAreRight
  <2> SUFFICES ASSUME StepInv, FlatInv, Parsed, lines # <<>> => IsHeader(1),
                      \A i \in DOMAIN lines : IsPair(i) => lines[i].value # Empty /\ ~lines[i].nested,
                      NEW s \in DOMAIN toml
               PROVE  /\ DOMAIN toml[s] = {FullKey(i) : i \in LastPairs(s)}
                      /\ \A i \in LastPairs(s) : toml[s][FullKey(i)] = FullValue(i)
    BY DEF FlatFilesAreRight
  <2>1. IsFlat(lines)
    BY DEF IsFlat, IsPair, IsHeader
  <2>2. ParsedRight
    BY <2>1 DEF FlatInv
  <2>3. CASE lines = <<>>
    <3>1. DOMAIN toml[s] = {} /\ DOMAIN lines = {}
      BY <2>2, <2>3 DEF ParsedRight
    <3>2. LastPairs(s) = {}
      BY <3>1 DEF LastPairs
    <3> QED
      BY <3>1, <3>2
  <2>4. CASE lines # <<>>
    <3>1. PICK h \in DOMAIN lines :
            /\ lines[h].kind = "section" /\ lines[h].name = s /\ Counts(h)
            /\ Describes(lines, toml[s], h)
      BY <2>2, <2>4 DEF ParsedRight
    <3>2. \A i : i \in LastPairs(s) <=> LastIn(lines, i, h)
      BY <2>1, <3>1, PairsOfHeader
    <3>3. ASSUME NEW i \in LastPairs(s)
          PROVE  FullKey(i) = <<lines[i].name>>
      <4>1. i \in DOMAIN lines /\ IsPair(i)
        BY DEF LastPairs
      <4> QED
        BY <4>1 DEF FullKey
    <3>4. ASSUME NEW i \in LastPairs(s)
          PROVE  FullKey(i) \in DOMAIN toml[s] /\ toml[s][FullKey(i)] = FullValue(i)
      <4>1. i \in DOMAIN lines
        BY DEF LastPairs
      <4>2. <<lines[i].name>> \in DOMAIN toml[s] /\ toml[s][<<lines[i].name>>] = ValueIn(lines, i)
        BY <3>1, <3>2, <4>1 DEF Describes
      <4> QED
        BY <3>3, <4>2, ValueOfPair
    <3>5. ASSUME NEW k \in DOMAIN toml[s]
          PROVE  \E i \in LastPairs(s) : k = FullKey(i)
      <4>1. PICK i \in DOMAIN lines : LastIn(lines, i, h) /\ k = <<lines[i].name>>
        BY <3>1 DEF Describes
      <4> QED
        BY <3>2, <3>3, <4>1
    <3>6. DOMAIN toml[s] = {FullKey(i) : i \in LastPairs(s)}
      BY <3>4, <3>5
    <3> QED
      BY <3>4, <3>6
  <2> QED
    BY <2>3, <2>4
<1> QED
  BY <1>1, <1>2, PTL

===============================================================================
