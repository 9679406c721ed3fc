------------------------------ MODULE UrlUtility ------------------------------
(***************************************************************************)
(* Texts, and the dictionaries that are read from and written to them      *)
(* (src/src/url_utility.cpp, src/include/url_utility.h).                   *)
(*                                                                         *)
(* A text is a sequence of tokens: a character the code looks at, or a     *)
(* word it does not look into.  A dictionary, Map in the code, is a        *)
(* function from texts to texts.                                           *)
(***************************************************************************)
EXTENDS Integers, Sequences, FiniteSets, SequencesExt

Space == " "
Semicolon == ";"

\* In the order of their bytes; words stand where their first letters put them.
Tokens == <<Space, "%", "-", "/", "0", "1", "2", "3", "5", ":", Semicolon, "=",
            "A", "B", "D", "F",
            "X-Amz-Algorithm", "X-Amz-Credential", "X-Amz-Date",
            "X-Amz-Expires", "X-Amz-SignedHeaders",
            "a", "host", "partNumber", "uploadId", "x-amz-",
            "content-sha256", "date", "meta-a">>

Code == [c \in ToSet(Tokens) |-> CHOOSE k \in DOMAIN Tokens : Tokens[k] = c]

\* operator< of std::string, the order of a Map: s ends first, or has the
\* smaller token where the two part.
Less(s, t) ==
  \E k \in DOMAIN t :
    /\ k <= Len(s) + 1 /\ \A j \in 1 .. k - 1 : s[j] = t[j]
    /\ k <= Len(s) => Code[s[k]] < Code[t[k]]

\* The members of a finite set, one after another; before holds the pairs of
\* which the first comes first.
InOrder(S, before) ==
  [k \in 1 .. Cardinality(S) |->
     CHOOSE x \in S : Cardinality({y \in S : <<y, x>> \in before}) = k - 1]

EmptyMap == <<>>

\* insert: what is there stays.
Insert(m, other) ==
  [n \in DOMAIN m \cup DOMAIN other |-> IF n \in DOMAIN m THEN m[n] ELSE other[n]]

Select(m, names) == [n \in DOMAIN m \cap names |-> m[n]]

-------------------------------------------------------------------------------
\* Reading.

Positions(text, delim) ==
  LET found == {k \in 1 .. Len(text) : text[k] = delim}
  IN  InOrder(found, {p \in found \X found : p[1] < p[2]})

\* The first count delimiters cut, the text after them is one piece.
Split(text, delim, count) ==
  LET found == Positions(text, delim)
      cuts == <<0>> \o SubSeq(found, 1, IF count < Len(found) THEN count ELSE Len(found))
                    \o <<Len(text) + 1>>
  IN  [k \in 1 .. Len(cuts) - 1 |-> SubSeq(text, cuts[k] + 1, cuts[k + 1] - 1)]

SplitAtAll(text, delim) == Split(text, delim, Len(text))

\* kv[0], and kv[1] if there is one.
Key(kv) == kv[1]
Value(kv) == IF Len(kv) = 2 THEN kv[2] ELSE <<>>

InsertPair(m, pair) ==
  [n \in DOMAIN m \cup {pair[1]} |-> IF n \in DOMAIN m THEN m[n] ELSE pair[2]]

\* Of two pairs with one key the first is kept.
Dictionary(pairs) == FoldLeft(LAMBDA m, pair : InsertPair(m, pair), EmptyMap, pairs)

\* A piece without '=' is given one.
ParamPair(piece) ==
  LET kv == Split(IF Contains(piece, "=") THEN piece ELSE Append(piece, "="), "=", 1)
  IN  <<Key(kv), Value(kv)>>

\* Mutant: the last piece with a key is kept.
ParseParamsLast(text) ==
  LET pieces == SplitAtAll(text, Semicolon)
      pairs == [k \in DOMAIN pieces |-> ParamPair(pieces[k])]
  IN  IF text = <<>> THEN EmptyMap ELSE Dictionary(Reverse(pairs))

ParseParams(text) ==
  LET pieces == SplitAtAll(text, Semicolon)
  IN  IF text = <<>> THEN EmptyMap
      ELSE Dictionary([k \in DOMAIN pieces |-> ParamPair(pieces[k])])

ToLower(text) == [k \in DOMAIN text |-> IF text[k] = "A" THEN "a" ELSE text[k]]

\* Mutant: the names keep their case.
HeaderPairAsWritten(piece) ==
  LET kv == Split(piece, ":", 1)
  IN  <<Key(kv), Value(kv)>>

HeaderPair(piece) ==
  LET kv == Split(piece, ":", 1)
  IN  <<ToLower(Key(kv)), Value(kv)>>

ParseHeaders(text) ==
  LET pieces == SplitAtAll(text, Semicolon)
  IN  IF text = <<>> THEN EmptyMap
      ELSE Dictionary([k \in DOMAIN pieces |-> HeaderPair(pieces[k])])

-------------------------------------------------------------------------------
\* Writing.

\* What is not alphanumeric, '-', '_', '.' or '~'.
Escape ==
  [c \in {Space, "%", "/", ":", Semicolon, "="} |->
     CASE c = Space -> <<"%", "2", "0">> [] c = "%" -> <<"%", "2", "5">>
       [] c = "/" -> <<"%", "2", "F">> [] c = ":" -> <<"%", "3", "A">>
       [] c = Semicolon -> <<"%", "3", "B">> [] c = "=" -> <<"%", "3", "D">>]

Escaped(c) == IF c \in DOMAIN Escape THEN Escape[c] ELSE <<c>>

UrlEncode(text) == FlattenSeq([k \in DOMAIN text |-> Escaped(text[k])])

\* The pairs in the order of the names as they were before they are encoded; a
\* pair is kept apart from the next, as '&' does.  Never called with no pairs.
UrlEncodeMap(m) ==
  LET names == InOrder(DOMAIN m, {p \in (DOMAIN m) \X (DOMAIN m) : Less(p[1], p[2])})
  IN  [k \in DOMAIN names |-> <<UrlEncode(names[k]), UrlEncode(m[names[k]])>>]

-------------------------------------------------------------------------------
\* What the texts mean, whoever reads them.

\* A field is where it begins and where it ends: between semicolons.
Fields(text) ==
  {f \in (1 .. Len(text) + 1) \X (0 .. Len(text)) :
     /\ f[1] <= f[2] + 1
     /\ \A k \in f[1] .. f[2] : text[k] # Semicolon
     /\ f[1] > 1 => text[f[1] - 1] = Semicolon
     /\ f[2] < Len(text) => text[f[2] + 1] = Semicolon}

\* The position of the first separator in a field, or of its end.
Middle(text, f, separator) ==
  CHOOSE k \in f[1] .. f[2] + 1 :
    /\ k = f[2] + 1 \/ text[k] = separator
    /\ \A j \in f[1] .. k - 1 : text[j] # separator

Name(text, f, separator) == SubSeq(text, f[1], Middle(text, f, separator) - 1)
Rest(text, f, separator) == SubSeq(text, Middle(text, f, separator) + 1, f[2])

\* "name=value;name=value", the first of the fields with a name counting.
Meaning(text, separator) ==
  IF text = <<>> THEN {}
  ELSE {<<Name(text, f, separator), Rest(text, f, separator)>> :
          f \in {f \in Fields(text) :
                   \A g \in Fields(text) :
                     g[1] < f[1] => Name(text, g, separator) # Name(text, f, separator)}}

\* The text with every name in lower case.
ToLowerNames(text) ==
  [k \in DOMAIN text |->
     IF \E f \in Fields(text) : k \in f[1] .. Middle(text, f, ":") - 1
     THEN ToLower(text)[k] ELSE text[k]]

Pairs(m) == {<<n, m[n]>> : n \in DOMAIN m}

\* Decoding: an escape is three tokens long.
UrlDecode(text) ==
  FlattenSeq([k \in DOMAIN text |->
    IF text[k] = "%"
    THEN <<CHOOSE c \in DOMAIN Escape : Escape[c] = SubSeq(text, k, k + 2)>>
    ELSE IF \E j \in {k - 1, k - 2} \cap DOMAIN text : text[j] = "%" THEN <<>>
    ELSE <<text[k]>>])

===============================================================================
