----------------------------- MODULE LibraryProofs -----------------------------
(***************************************************************************)
(* What is proved of the operators that several programs are built from:   *)
(* what the setters of WebClient make of a handle, whatever it was before  *)
(* (WebClientRequest), and what is read from texts and written of them,    *)
(* for texts of any length (UrlUtility, SignHeaders).                      *)
(*                                                                         *)
(* The backends take no theorem about an operator, so induction is stated  *)
(* of sets (Induction, TurnByTurn), and a loop by the values it goes       *)
(* through (LoopRuns).                                                     *)
(***************************************************************************)
EXTENDS WebClientRequest, SignHeaders,
        FiniteSetTheorems, SequenceTheorems, WellFoundedInduction, TLAPS

\* The handles whose data is from D.
Handles(D) ==
  [method : Methods,
   kind : {"GET", "HEAD", "PUT", "POST"},
   customRequest : MethodNames \cup {"none"},
   infileSize : Int,
   postFields : D,
   fieldsIn : {"copy", "object", "other"},
   urlEncoded : D,
   readBuffer : D,
   reader : {"readBuffer", "file"},
   file : D]

-------------------------------------------------------------------------------
\* Methods.

LEMMA UpperMethod ==
  ASSUME NEW method \in Methods
  PROVE  /\ ToUpper(method) \in Methods
         /\ ToUpper(method) = [name |-> method.name, case |-> "upper"]
         /\ ToUpper(ToUpper(method)) = ToUpper(method)
         /\ \A name : Is(ToUpper(method), name) <=> method.name = name
         /\ \A name : Is(method, name) <=> (method.name = name /\ method.case = "upper")
<1>1. PICK name \in MethodNames, case \in {"lower", "upper"} : method = [name |-> name, case |-> case]
  BY DEF Methods
<1>2. method.name = name /\ method.case = case
  BY <1>1
<1>3. ToUpper(method) = [name |-> name, case |-> "upper"]
  BY <1>1 DEF ToUpper
<1>4. ToUpper(method) \in Methods
  BY <1>3 DEF Methods
<1>5. ToUpper(ToUpper(method)) = ToUpper(method)
  BY <1>3 DEF ToUpper
<1>6. \A n : Is(ToUpper(method), n) <=> method.name = n
  BY <1>2, <1>3 DEF Is
<1>7. \A n : Is(method, n) <=> (method.name = n /\ method.case = "upper")
  BY <1>1, <1>2 DEF Is
<1> QED
  BY <1>2, <1>3, <1>4, <1>5, <1>6, <1>7

\* What SetMethod makes of a handle, name by name: the options it sets, the
\* others being what they were.
Getting(h, method) == [h EXCEPT !.method = ToUpper(method), !.kind = "GET"]
Heading(h, method) ==
  [h EXCEPT !.method = ToUpper(method), !.kind = "HEAD", !.customRequest = "HEAD"]
Deleting(h, method) == [h EXCEPT !.method = ToUpper(method), !.customRequest = "DELETE"]
Posting(h, method) ==
  [h EXCEPT !.method = ToUpper(method), !.customRequest = "POST", !.kind = "POST",
            !.postFields = h.urlEncoded, !.fieldsIn = "object"]
Putting(h, method, size) ==
  [h EXCEPT !.method = ToUpper(method), !.kind = "PUT", !.infileSize = size,
            !.customRequest = "PUT"]
Unheeding(h, method) == [h EXCEPT !.method = ToUpper(method)]

LEMMA SetGet ==
  ASSUME NEW D, NEW h \in Handles(D), NEW method \in Methods, NEW size \in Int,
         method.name = "GET"
  PROVE  SetMethod(h, method, size) = Getting(h, method)
BY UpperMethod DEF Getting, SetMethod, HttpGet

LEMMA SetHead ==
  ASSUME NEW D, NEW h \in Handles(D), NEW method \in Methods, NEW size \in Int,
         method.name = "HEAD", method.case = "upper"
  PROVE  SetMethod(h, method, size) = Heading(h, method)
BY UpperMethod DEF Heading, SetMethod, NoBody, CustomRequest

LEMMA SetDelete ==
  ASSUME NEW D, NEW h \in Handles(D), NEW method \in Methods, NEW size \in Int,
         method.name = "DELETE", method.case = "upper"
  PROVE  SetMethod(h, method, size) = Deleting(h, method)
BY UpperMethod DEF Deleting, SetMethod, CustomRequest

LEMMA SetPost ==
  ASSUME NEW D, NEW h \in Handles(D), NEW method \in Methods, NEW size \in Int,
         method.name = "POST", method.case = "upper"
  PROVE  SetMethod(h, method, size) = Posting(h, method)
BY UpperMethod DEF Posting, SetMethod, CustomRequest, PostFields, Handles

LEMMA SetPut ==
  ASSUME NEW D, NEW h \in Handles(D), NEW method \in Methods, NEW size \in Int,
         method.name = "PUT"
  PROVE  SetMethod(h, method, size) = Putting(h, method, size)
BY UpperMethod DEF Putting, SetMethod, CustomRequest, Upload

LEMMA SetUnheard ==
  ASSUME NEW D, NEW h \in Handles(D), NEW method \in Methods, NEW size \in Int,
         method.name \notin {"GET", "PUT"}, method.case # "upper"
  PROVE  SetMethod(h, method, size) = Unheeding(h, method)
BY UpperMethod DEF Unheeding, SetMethod

\* A name that SetMethod compares as it was written, and in lower case.
Unheard(method) == method.name \notin {"GET", "PUT"} /\ method.case # "upper"

\* Every option after SetMethod: which names set it, and to what.
LEMMA SetMethodGives ==
  ASSUME NEW D, NEW h \in Handles(D), NEW method \in Methods, NEW size \in Int,
         NEW g, g = SetMethod(h, method, size)
  PROVE  /\ g \in Handles(D)
         /\ g.method = ToUpper(method)
         /\ g.kind = IF Unheard(method) \/ method.name = "DELETE" THEN h.kind ELSE method.name
         /\ g.customRequest = IF Unheard(method) \/ method.name = "GET" THEN h.customRequest
                              ELSE method.name
         /\ g.infileSize = IF method.name = "PUT" THEN size ELSE h.infileSize
         /\ g.postFields = IF ~Unheard(method) /\ method.name = "POST" THEN h.urlEncoded
                           ELSE h.postFields
         /\ g.fieldsIn = IF ~Unheard(method) /\ method.name = "POST" THEN "object"
                         ELSE h.fieldsIn
         /\ g.urlEncoded = h.urlEncoded /\ g.readBuffer = h.readBuffer
         /\ g.reader = h.reader /\ g.file = h.file
<1>1. ToUpper(method) \in Methods
  BY UpperMethod
<1>2. CASE method.name = "GET"
  <2>1. g = Getting(h, method)
    BY <1>2, SetGet
  <2>2. g \in Handles(D)
    BY <1>1, <2>1 DEF Getting, Handles, MethodNames
  <2> QED
    BY <1>2, <2>1, <2>2 DEF Getting, Handles, Unheard
<1>3. CASE method.name = "PUT"
  <2>1. g = Putting(h, method, size)
    BY <1>3, SetPut
  <2>2. g \in Handles(D)
    BY <1>1, <2>1 DEF Putting, Handles, MethodNames
  <2> QED
    BY <1>3, <2>1, <2>2 DEF Putting, Handles, Unheard
<1>4. CASE Unheard(method)
  <2>1. g = Unheeding(h, method)
    BY <1>4, SetUnheard DEF Unheard
  <2>2. g \in Handles(D)
    BY <1>1, <2>1 DEF Unheeding, Handles, MethodNames
  <2> QED
    BY <1>4, <2>1, <2>2 DEF Unheeding, Handles, Unheard
<1>5. CASE method.name = "HEAD" /\ method.case = "upper"
  <2>1. g = Heading(h, method)
    BY <1>5, SetHead
  <2>2. g \in Handles(D)
    BY <1>1, <2>1 DEF Heading, Handles, MethodNames
  <2> QED
    BY <1>5, <2>1, <2>2 DEF Heading, Handles, Unheard
<1>6. CASE method.name = "DELETE" /\ method.case = "upper"
  <2>1. g = Deleting(h, method)
    BY <1>6, SetDelete
  <2>2. g \in Handles(D)
    BY <1>1, <2>1 DEF Deleting, Handles, MethodNames
  <2> QED
    BY <1>6, <2>1, <2>2 DEF Deleting, Handles, Unheard
<1>7. CASE method.name = "POST" /\ method.case = "upper"
  <2>1. g = Posting(h, method)
    BY <1>7, SetPost
  <2>2. g \in Handles(D)
    BY <1>1, <2>1 DEF Posting, Handles, MethodNames
  <2> QED
    BY <1>7, <2>1, <2>2 DEF Posting, Handles, Unheard
<1> QED
  BY <1>2, <1>3, <1>4, <1>5, <1>6, <1>7 DEF Methods, MethodNames, Unheard

\* Data to post makes the request a POST, and leaves the word on its first line.
LEMMA PostDataGives ==
  ASSUME NEW D, NEW h \in Handles(D), NEW data \in D, NEW g, g = SetPostData(h, data)
  PROVE  /\ g \in Handles(D)
         /\ g.kind = "POST" /\ g.postFields = data /\ g.fieldsIn = "copy"
         /\ g.method = h.method /\ g.customRequest = h.customRequest
         /\ g.infileSize = h.infileSize /\ g.urlEncoded = h.urlEncoded
         /\ g.readBuffer = h.readBuffer /\ g.reader = h.reader /\ g.file = h.file
BY DEF SetPostData, CopyPostFields, PostFields, Handles

LEMMA UrlEncodedPostDataGives ==
  ASSUME NEW D, NEW h \in Handles(D), NEW data \in D,
         NEW g, g = SetUrlEncodedPostData(h, data)
  PROVE  /\ g \in Handles(D)
         /\ g.kind = "POST" /\ g.postFields = data /\ g.fieldsIn = "copy"
         /\ g.method = h.method /\ g.customRequest = h.customRequest
         /\ g.infileSize = h.infileSize /\ g.urlEncoded = data
         /\ g.readBuffer = h.readBuffer /\ g.reader = h.reader /\ g.file = h.file
BY DEF SetUrlEncodedPostData, CopyPostFields, PostFields, Handles

-------------------------------------------------------------------------------
\* The constructor.

LEMMA NewIsHandle ==
  ASSUME NEW D, NoData \in D, NEW method \in Methods
  PROVE  NewHandle(method) \in Handles(D)
BY DEF NewHandle, Handles

\* The kind of request and the word that each method makes of a new handle,
\* in whatever case it is written.
LEMMA ConstructGives ==
  ASSUME NEW D, NoData \in D, NEW method \in Methods, NEW h, h = Construct(method)
  PROVE  /\ h \in Handles(D)
         /\ h.method = ToUpper(method)
         /\ h.kind = IF method.name = "DELETE" THEN "GET" ELSE method.name
         /\ h.customRequest = IF method.name = "GET" THEN "none" ELSE method.name
         /\ h.infileSize = IF method.name = "PUT" THEN 0 ELSE -1
         /\ h.fieldsIn = IF method.name = "POST" THEN "object" ELSE "copy"
         /\ h.postFields = NoData /\ h.urlEncoded = NoData
         /\ h.readBuffer = NoData /\ h.reader = "readBuffer" /\ h.file = NoData
<1> DEFINE new == NewHandle(method)
           upper == ToUpper(method)
<1>1. new \in Handles(D)
  BY NewIsHandle
<1>2. /\ new.method = method /\ new.kind = "GET" /\ new.customRequest = "none"
      /\ new.infileSize = -1 /\ new.postFields = NoData /\ new.fieldsIn = "copy"
      /\ new.urlEncoded = NoData /\ new.readBuffer = NoData
      /\ new.reader = "readBuffer" /\ new.file = NoData
  BY DEF NewHandle
<1>3. upper \in Methods /\ upper.name = method.name /\ ~Unheard(upper) /\ ToUpper(upper) = upper
  BY UpperMethod DEF Unheard
<1>4. h = SetMethod(new, upper, 0)
  BY <1>2 DEF Construct, SetOwnMethod
<1> HIDE DEF new, upper
<1>5. /\ h \in Handles(D)
      /\ h.method = ToUpper(upper)
      /\ h.kind = IF upper.name = "DELETE" THEN new.kind ELSE upper.name
      /\ h.customRequest = IF upper.name = "GET" THEN new.customRequest ELSE upper.name
      /\ h.infileSize = IF upper.name = "PUT" THEN 0 ELSE new.infileSize
      /\ h.postFields = IF upper.name = "POST" THEN new.urlEncoded ELSE new.postFields
      /\ h.fieldsIn = IF upper.name = "POST" THEN "object" ELSE new.fieldsIn
      /\ h.urlEncoded = new.urlEncoded /\ h.readBuffer = new.readBuffer
      /\ h.reader = new.reader /\ h.file = new.file
  BY <1>1, <1>3, <1>4, SetMethodGives
<1> QED
  BY <1>2, <1>3, <1>5 DEF upper

-------------------------------------------------------------------------------
\* Loops.

\* Induction over data: the provers take no theorem about an operator, so it is
\* stated of sets.
LEMMA LeastOfNaturals ==
  ASSUME NEW T, T \subseteq Nat, T # {}
  PROVE  \E x \in T : \A y \in T : x <= y
<1>1. IsWellFoundedOn(OpToRel(<, Nat), Nat)
  BY NatLessThanWellFounded
<1> DEFINE R == OpToRel(<, Nat)
<1>2. \A x, y \in Nat : x < y => <<x, y>> \in R
  BY DEF OpToRel
<1>3. IsWellFoundedOn(R, Nat)
  BY <1>1
<1> HIDE DEF R
<1>4. PICK x \in T : \A y \in T : ~ (<<y, x>> \in R)
  BY <1>3, WFMin
<1>5. \A y \in T : ~(y < x)
  BY <1>2, <1>4
<1> QED
  BY <1>5

LEMMA Induction ==
  ASSUME NEW T, 0 \in T, \A n \in Nat : n \in T => n + 1 \in T
  PROVE  Nat \subseteq T
<1> SUFFICES ASSUME Nat \ T # {} PROVE FALSE
  OBVIOUS
<1>1. PICK x \in Nat \ T : \A y \in Nat \ T : x <= y
  BY LeastOfNaturals
<1>2. x # 0 /\ x - 1 \in Nat /\ x - 1 \notin Nat \ T
  BY <1>1
<1>3. (x - 1) + 1 = x
  BY <1>1
<1> QED
  BY <1>1, <1>2, <1>3

\* A loop of n turns that starts in state base; turn[k][s] is the state after
\* the k-th turn, if it was s before.
Runs(n, S, base, turn) ==
  \E r \in [0 .. n -> S] : r[0] = base /\ \A k \in 1 .. n : r[k] = turn[k][r[k - 1]]

LEMMA LoopRuns ==
  ASSUME NEW n \in Nat, NEW S, NEW base \in S, NEW turn \in [1 .. n -> [S -> S]]
  PROVE  Runs(n, S, base, turn)
<1> DEFINE Good(m, r) == r[0] = base /\ \A k \in 1 .. m : r[k] = turn[k][r[k - 1]]
           T == {m \in Nat : m <= n => \E r \in [0 .. m -> S] : Good(m, r)}
<1>1. 0 \in T
  <2> DEFINE r == [k \in 0 .. 0 |-> base]
  <2>1. r \in [0 .. 0 -> S] /\ Good(0, r)
    OBVIOUS
  <2> QED
    BY <2>1
<1>2. ASSUME NEW m \in Nat, m \in T
      PROVE  m + 1 \in T
  <2> SUFFICES ASSUME m + 1 <= n
               PROVE  \E r \in [0 .. m + 1 -> S] : Good(m + 1, r)
    OBVIOUS
  <2>1. PICK r \in [0 .. m -> S] : Good(m, r)
    BY <1>2
  <2> DEFINE q == [k \in 0 .. m + 1 |-> IF k = m + 1 THEN turn[m + 1][r[m]] ELSE r[k]]
  <2>2. q \in [0 .. m + 1 -> S]
    OBVIOUS
  <2>3. ASSUME NEW k \in 1 .. m + 1
        PROVE  q[k] = turn[k][q[k - 1]]
    <3>1. CASE k = m + 1
      <4>1. m \in 0 .. m + 1 /\ m # m + 1 /\ (m + 1) - 1 = m
        OBVIOUS
      <4> QED
        BY <3>1, <4>1
    <3>2. CASE k # m + 1
      <4>1. k \in 1 .. m /\ k - 1 \in 0 .. m /\ k - 1 # m + 1
        BY <3>2
      <4>2. q[k] = r[k] /\ q[k - 1] = r[k - 1]
        BY <4>1, <3>2
      <4> QED
        BY <2>1, <4>1, <4>2
    <3> QED
      BY <3>1, <3>2
  <2>4. q[0] = base
    BY <2>1
  <2> QED
    BY <2>2, <2>3, <2>4
<1>3. n \in T
  <2> HIDE DEF T
  <2> QED
    BY <1>1, <1>2, Induction
<1> QED
  BY <1>3 DEF Runs

\* What is true of the first turn and goes from a turn to the next is true of all.
LEMMA TurnByTurn ==
  ASSUME NEW n \in Nat, NEW a \in 0 .. n, NEW T, a \in T,
         \A k \in a .. n - 1 : k \in T => k + 1 \in T
  PROVE  a .. n \subseteq T
<1> DEFINE U == {m \in Nat : a + m <= n => a + m \in T}
<1>1. 0 \in U
  OBVIOUS
<1>2. ASSUME NEW m \in Nat, m \in U
      PROVE  m + 1 \in U
  <2>1. ASSUME a + (m + 1) <= n
        PROVE  a + (m + 1) \in T
    <3>1. a + m \in a .. n - 1 /\ (a + m) + 1 = a + (m + 1)
      BY <2>1
    <3>2. a + m \in T
      BY <1>2, <3>1
    <3> QED
      BY <3>1, <3>2
  <2> QED
    BY <2>1
<1>3. Nat \subseteq U
  <2> HIDE DEF U
  <2> QED
    BY <1>1, <1>2, Induction
<1>4. ASSUME NEW k \in a .. n
      PROVE  k \in T
  <2>1. k - a \in Nat /\ a + (k - a) = k
    OBVIOUS
  <2>2. k - a \in U
    BY <1>3, <2>1
  <2> QED
    BY <2>1, <2>2
<1> QED
  BY <1>4

\* The texts that FlattenSeq goes through.
LEMMA FlattenRuns ==
  ASSUME NEW S, NEW seqs \in Seq(Seq(S))
  PROVE  \E r \in [0 .. Len(seqs) -> Seq(S)] :
           /\ r[0] = <<>>
           /\ \A k \in 1 .. Len(seqs) : r[k] = r[k - 1] \o seqs[k]
           /\ FlattenSeq(seqs) = r[Len(seqs)]
<1> DEFINE n == Len(seqs)
           turn == [k \in 1 .. n |-> [s \in Seq(S) |-> s \o seqs[k]]]
           f == CHOOSE f : f = [i \in 1 .. n |-> IF i = 1 THEN seqs[i] ELSE f[i - 1] \o seqs[i]]
<1>1. n \in Nat /\ turn \in [1 .. n -> [Seq(S) -> Seq(S)]] /\ <<>> \in Seq(S)
  OBVIOUS
<1>2. PICK r \in [0 .. n -> Seq(S)] : r[0] = <<>> /\ \A k \in 1 .. n : r[k] = turn[k][r[k - 1]]
  <2> HIDE DEF n, turn
  <2>1. <<>> \in Seq(S)
    BY EmptySeq
  <2>2. Runs(n, Seq(S), <<>>, turn)
    BY <1>1, <2>1, LoopRuns
  <2> QED
    BY <2>2 DEF Runs
<1>3. \A k \in 1 .. n : r[k] = r[k - 1] \o seqs[k]
  <2>1. \A k \in 1 .. n : k - 1 \in 0 .. n
    BY <1>1
  <2> QED
    BY <1>2, <2>1
<1>4. CASE n = 0
  <2>1. FlattenSeq(seqs) = <<>>
    BY <1>4 DEF FlattenSeq
  <2> QED
    BY <1>2, <1>3, <1>4, <2>1
<1>5. CASE n # 0
  <2>1. FlattenSeq(seqs) = f[n]
    BY <1>5 DEF FlattenSeq
  <2> HIDE DEF n
  <2> DEFINE g == [i \in 1 .. n |-> r[i]]
  <2>2. \A i \in 1 .. n : g[i] = IF i = 1 THEN seqs[i] ELSE g[i - 1] \o seqs[i]
    <3>1. ASSUME NEW i \in 1 .. n, i # 1
          PROVE  i - 1 \in 1 .. n
      BY <3>1, <1>1
    <3>2. r[1] = seqs[1]
      <4>1. 1 \in 1 .. n /\ seqs[1] \in Seq(S)
        BY <1>1, <1>5 DEF n
      <4>2. r[1] = r[1 - 1] \o seqs[1]
        BY <1>3, <4>1, Zenon
      <4> 1 - 1 = 0
        OBVIOUS
      <4>3. <<>> \o seqs[1] = seqs[1]
        BY <4>1
      <4> QED
        BY <1>2, <4>2, <4>3
    <3> QED
      BY <1>3, <3>1, <3>2
  <2>3. g = [i \in 1 .. n |-> IF i = 1 THEN seqs[i] ELSE g[i - 1] \o seqs[i]]
    BY <2>2
  <2> HIDE DEF g
  <2>4. f = [i \in 1 .. n |-> IF i = 1 THEN seqs[i] ELSE f[i - 1] \o seqs[i]]
    BY <2>3, Zenon
  <2> HIDE DEF f
  <2> DEFINE T == {i \in 1 .. n : f[i] = g[i]}
  <2>5. 1 \in T
    BY <1>1, <1>5, <2>3, <2>4
  <2>6. ASSUME NEW k \in 1 .. n - 1, k \in T
        PROVE  k + 1 \in T
    <3>1. k + 1 \in 1 .. n /\ k + 1 # 1 /\ (k + 1) - 1 = k
      BY <1>1
    <3>2. f[k + 1] = f[k] \o seqs[k + 1]
      BY <2>4, <3>1
    <3>3. g[k + 1] = g[k] \o seqs[k + 1]
      BY <2>3, <3>1
    <3> QED
      BY <2>6, <3>1, <3>2, <3>3
  <2>7. n \in T
    <3>1. 1 \in 0 .. n
      BY <1>1, <1>5
    <3> HIDE DEF T
    <3>2. 1 .. n \subseteq T
      BY <1>1, <2>5, <2>6, <3>1, TurnByTurn
    <3> QED
      BY <1>1, <1>5, <3>2
  <2>8. f[n] = r[n]
    BY <2>7, <1>1, <1>5 DEF g
  <2> QED
    BY <1>2, <1>3, <2>1, <2>8 DEF n
<1> QED
  BY <1>4, <1>5

-------------------------------------------------------------------------------
\* Dictionaries (InsertPair, Dictionary).

\* The first of the pairs whose positions are in s that has the key.
First(pairs, s, n) == CHOOSE i \in s : pairs[i][1] = n /\ \A j \in s : pairs[j][1] = n => i <= j

\* What a dictionary holds of the pairs whose positions are in s.
FirstOnes(pairs, s) ==
  [n \in {pairs[i][1] : i \in s} |-> pairs[First(pairs, s, n)][2]]

\* The first of the pairs with a key is one of them, and none is before it.
LEMMA FirstIs ==
  ASSUME NEW pairs, NEW s, s \subseteq Nat, NEW i \in s
  PROVE  /\ First(pairs, s, pairs[i][1]) \in s
         /\ pairs[First(pairs, s, pairs[i][1])][1] = pairs[i][1]
         /\ \A j \in s : pairs[j][1] = pairs[i][1] => First(pairs, s, pairs[i][1]) <= j
<1> DEFINE n == pairs[i][1]
           T == {j \in s : pairs[j][1] = n}
<1>1. PICK x \in T : \A y \in T : x <= y
  BY LeastOfNaturals
<1>2. \E k \in s : pairs[k][1] = n /\ \A j \in s : pairs[j][1] = n => k <= j
  BY <1>1
<1> QED
  BY <1>2 DEF First

LEMMA GreatestIs ==
  ASSUME NEW n \in Nat, NEW s, s \subseteq 1 .. n, s # {}
  PROVE  Max(s) \in s /\ \A y \in s : y <= Max(s)
<1> DEFINE T == {n - x : x \in s}
<1>0. T \subseteq Nat /\ T # {}
  <2>1. \A x \in s : n - x \in Nat
    OBVIOUS
  <2> QED
    BY <2>1, Zenon
<1>1. PICK z \in T : \A y \in T : z <= y
  <2> HIDE DEF T
  <2> QED
    BY <1>0, LeastOfNaturals
<1>2. PICK x \in s : z = n - x
  BY <1>1
<1>3. \A y \in s : n - x <= n - y
  BY <1>1, <1>2
<1>4. ASSUME NEW y \in s
      PROVE  x >= y
  <2>1. x \in Int /\ y \in Int /\ n - x <= n - y
    BY <1>3
  <2> QED
    BY <2>1
<1>5. \E u \in s : \A y \in s : u >= y
  BY <1>4
<1>6. Max(s) \in s /\ \A y \in s : Max(s) >= y
  BY <1>5 DEF Max
<1> QED
  BY <1>6

\* A pair that comes after the others is inserted.
LEMMA LastIsInserted ==
  ASSUME NEW pairs, NEW s, s \subseteq Nat, NEW x \in s, \A y \in s : y <= x
  PROVE  FirstOnes(pairs, s) = InsertPair(FirstOnes(pairs, s \ {x}), pairs[x])
<1> DEFINE r == s \ {x}
           m == FirstOnes(pairs, r)
           D == {pairs[i][1] : i \in r}
<1>1. DOMAIN m = D
  BY DEF FirstOnes
<1>2. {pairs[i][1] : i \in s} = D \cup {pairs[x][1]}
  OBVIOUS
<1>3. ASSUME NEW n \in D
      PROVE  First(pairs, s, n) = First(pairs, r, n)
  <2>1. PICK i \in r : n = pairs[i][1]
    BY <1>3
  <2>2. r \subseteq Nat
    OBVIOUS
  <2>3. /\ First(pairs, r, n) \in r
        /\ pairs[First(pairs, r, n)][1] = n
        /\ \A j \in r : pairs[j][1] = n => First(pairs, r, n) <= j
    BY <2>1, <2>2, FirstIs
  <2>4. /\ First(pairs, s, n) \in s
        /\ pairs[First(pairs, s, n)][1] = n
        /\ \A j \in s : pairs[j][1] = n => First(pairs, s, n) <= j
    BY <2>1, FirstIs
  <2>5. First(pairs, s, n) <= First(pairs, r, n)
    BY <2>3, <2>4
  <2>6. First(pairs, s, n) \in r
    <3>1. CASE First(pairs, s, n) = x
      <4>1. First(pairs, r, n) \in Nat /\ x \in Nat /\ First(pairs, r, n) <= x
        BY <2>3
      <4>2. First(pairs, r, n) = x
        BY <4>1, <3>1, <2>5
      <4> QED
        BY <2>3, <4>2
    <3> QED
      BY <3>1, <2>4
  <2>7. First(pairs, r, n) <= First(pairs, s, n)
    BY <2>3, <2>4, <2>6
  <2>8. First(pairs, s, n) \in Nat /\ First(pairs, r, n) \in Nat
    BY <2>2, <2>3, <2>6
  <2> HIDE DEF r
  <2> QED
    BY <2>5, <2>7, <2>8
<1>4. ASSUME pairs[x][1] \notin D
      PROVE  First(pairs, s, pairs[x][1]) = x
  <2>1. /\ First(pairs, s, pairs[x][1]) \in s
        /\ pairs[First(pairs, s, pairs[x][1])][1] = pairs[x][1]
    BY FirstIs
  <2> QED
    BY <1>4, <2>1
<1>5. \A n \in D : m[n] = pairs[First(pairs, r, n)][2]
  BY DEF FirstOnes
<1>6. InsertPair(m, pairs[x]) =
        [n \in D \cup {pairs[x][1]} |-> IF n \in D THEN m[n] ELSE pairs[x][2]]
  BY <1>1, Zenon DEF InsertPair
<1>7. FirstOnes(pairs, s) = [n \in D \cup {pairs[x][1]} |-> pairs[First(pairs, s, n)][2]]
  BY <1>2, Zenon DEF FirstOnes
<1>8. \A n \in D \cup {pairs[x][1]} :
        pairs[First(pairs, s, n)][2] = IF n \in D THEN m[n] ELSE pairs[x][2]
  BY <1>3, <1>4, <1>5
<1>9. FirstOnes(pairs, s) = InsertPair(m, pairs[x])
  <2> HIDE DEF m, D
  <2> QED
    BY <1>6, <1>7, <1>8
<1> QED
  BY <1>9

\* A dictionary holds the first of the pairs with each key (Dictionary).
LEMMA DictionaryIs ==
  ASSUME NEW n \in Nat, NEW pairs, DOMAIN pairs = 1 .. n
  PROVE  Dictionary(pairs) = FirstOnes(pairs, 1 .. n)
<1> DEFINE Iterates(f) ==
             f = [s \in SUBSET (1 .. n) |->
                    IF s = {} THEN EmptyMap
                    ELSE InsertPair(f[s \ {Max(s)}], pairs[Max(s)])]
           iter == CHOOSE f : Iterates(f)
           ones == [s \in SUBSET (1 .. n) |-> FirstOnes(pairs, s)]
<1>1. Dictionary(pairs) = iter[1 .. n]
  BY DEF Dictionary, FoldLeft, MapThenFoldSet
<1>2. Iterates(ones)
  <2>1. FirstOnes(pairs, {}) = EmptyMap
    BY DEF FirstOnes, EmptyMap
  <2>2. ASSUME NEW s \in SUBSET (1 .. n), s # {}
        PROVE  ones[s] = InsertPair(ones[s \ {Max(s)}], pairs[Max(s)])
    <3>1. Max(s) \in s /\ \A y \in s : y <= Max(s)
      BY <2>2, GreatestIs
    <3>2. s \subseteq Nat /\ s \ {Max(s)} \in SUBSET (1 .. n)
      <4>1. 1 .. n \subseteq Nat
        OBVIOUS
      <4> QED
        BY <4>1, Zenon
    <3>3. FirstOnes(pairs, s) = InsertPair(FirstOnes(pairs, s \ {Max(s)}), pairs[Max(s)])
      BY <3>1, <3>2, LastIsInserted
    <3> QED
      BY <3>2, <3>3
  <2> QED
    BY <2>1, <2>2, Zenon
<1>3. Iterates(iter)
  <2> HIDE DEF Iterates
  <2> QED
    BY <1>2, Zenon
<1> HIDE DEF iter
<1> DEFINE T == {k \in 0 .. n : iter[1 .. k] = FirstOnes(pairs, 1 .. k)}
<1>4. 0 \in T
  <2>1. 1 .. 0 = {} /\ {} \in SUBSET (1 .. n)
    OBVIOUS
  <2>2. iter[{}] = EmptyMap
    BY <1>3, <2>1
  <2>3. FirstOnes(pairs, {}) = EmptyMap
    BY DEF FirstOnes, EmptyMap
  <2> QED
    BY <2>1, <2>2, <2>3
<1>5. ASSUME NEW k \in 0 .. n - 1, k \in T
      PROVE  k + 1 \in T
  <2>1. 1 .. k + 1 \in SUBSET (1 .. n) /\ 1 .. k + 1 # {} /\ k + 1 \in 1 .. k + 1
    <3>1. k + 1 \in 1 .. k + 1
      OBVIOUS
    <3>2. ASSUME NEW i \in 1 .. k + 1
          PROVE  i \in 1 .. n
      OBVIOUS
    <3> QED
      BY <3>1, <3>2
  <2>2. Max(1 .. k + 1) = k + 1
    <3>1. Max(1 .. k + 1) \in 1 .. k + 1 /\ k + 1 <= Max(1 .. k + 1)
      BY <2>1, GreatestIs
    <3> QED
      BY <3>1
  <2>3. (1 .. k + 1) \ {k + 1} = 1 .. k
    OBVIOUS
  <2>4. iter[1 .. k + 1] = InsertPair(iter[1 .. k], pairs[k + 1])
    BY <1>3, <2>1, <2>2, <2>3
  <2>5. FirstOnes(pairs, 1 .. k + 1) = InsertPair(FirstOnes(pairs, 1 .. k), pairs[k + 1])
    <3>1. 1 .. k + 1 \subseteq Nat /\ \A y \in 1 .. k + 1 : y <= k + 1
      OBVIOUS
    <3>2. FirstOnes(pairs, 1 .. k + 1) =
            InsertPair(FirstOnes(pairs, (1 .. k + 1) \ {k + 1}), pairs[k + 1])
      BY <2>1, <3>1, LastIsInserted
    <3> QED
      BY <2>3, <3>2
  <2>6. k + 1 \in 0 .. n
    OBVIOUS
  <2> QED
    BY <1>5, <2>4, <2>5, <2>6
<1> HIDE DEF T
<1>6. 0 .. n \subseteq T
  <2>1. 0 \in 0 .. n
    OBVIOUS
  <2> QED
    BY <1>4, <1>5, <2>1, TurnByTurn
<1>7. n \in T
  BY <1>6
<1> QED
  BY <1>1, <1>7 DEF T

-------------------------------------------------------------------------------
\* Sets in an order (InOrder), and the order of the texts (Less).

\* before holds the pairs of a strict order of which any two are one before the other.
Sorts(S, before) ==
  /\ \A x \in S : <<x, x>> \notin before
  /\ \A x, y, z \in S : <<x, y>> \in before /\ <<y, z>> \in before => <<x, z>> \in before
  /\ \A x, y \in S : x = y \/ <<x, y>> \in before \/ <<y, x>> \in before

Earlier(S, before, x) == {y \in S : <<y, x>> \in before}

\* How many come before x.
Rank(S, before, x) == Cardinality(Earlier(S, before, x))

\* Fewer come before one than there are.
LEMMA RankIsSmall ==
  ASSUME NEW S, IsFiniteSet(S), NEW before, Sorts(S, before), NEW x \in S
  PROVE  Rank(S, before, x) \in 0 .. Cardinality(S) - 1
<1> DEFINE E == Earlier(S, before, x)
<1>1. E \in SUBSET S /\ x \notin E
  BY DEF Earlier, Sorts
<1> HIDE DEF E
<1>2. Cardinality(E) \in Nat /\ Cardinality(S) \in Nat /\ Cardinality(E) <= Cardinality(S)
      /\ Cardinality(E) # Cardinality(S)
  BY <1>1, FS_Subset, FS_CardinalityType
<1> QED
  BY <1>2 DEF Rank, E

\* More come before the later of two.
LEMMA RankGrows ==
  ASSUME NEW S, IsFiniteSet(S), NEW before, Sorts(S, before), NEW x \in S, NEW y \in S,
         <<x, y>> \in before
  PROVE  Rank(S, before, x) < Rank(S, before, y)
<1> DEFINE E == Earlier(S, before, x)
           F == Earlier(S, before, y)
<1>1. E \in SUBSET F /\ x \notin E /\ x \in F /\ F \in SUBSET S
  BY DEF Earlier, Sorts
<1> HIDE DEF E, F
<1>2. IsFiniteSet(F) /\ IsFiniteSet(E)
  BY <1>1, FS_Subset
<1>3. Cardinality(E) \in Nat /\ Cardinality(F) \in Nat
  BY <1>2, FS_CardinalityType
<1>4. Cardinality(E) <= Cardinality(F) /\ Cardinality(E) # Cardinality(F)
  BY <1>1, <1>2, FS_Subset
<1> QED
  BY <1>3, <1>4 DEF Rank, E, F

\* The rank tells one from another, and which is before which.
LEMMA RankTells ==
  ASSUME NEW S, IsFiniteSet(S), NEW before, Sorts(S, before), NEW x \in S, NEW y \in S
  PROVE  /\ Rank(S, before, x) = Rank(S, before, y) => x = y
         /\ Rank(S, before, x) < Rank(S, before, y) => <<x, y>> \in before
<1>1. Rank(S, before, x) \in Int /\ Rank(S, before, y) \in Int
  BY RankIsSmall
<1>2. <<x, y>> \in before => Rank(S, before, x) < Rank(S, before, y)
  BY RankGrows
<1>3. <<y, x>> \in before => Rank(S, before, y) < Rank(S, before, x)
  BY RankGrows
<1>4. x = y \/ <<x, y>> \in before \/ <<y, x>> \in before
  BY DEF Sorts
<1> QED
  BY <1>1, <1>2, <1>3, <1>4

\* One has each rank: so many different ranks fill their range.
LEMMA EveryRank ==
  ASSUME NEW S, IsFiniteSet(S), NEW before, Sorts(S, before), NEW k \in 1 .. Cardinality(S)
  PROVE  \E x \in S : Rank(S, before, x) = k - 1
<1> DEFINE n == Cardinality(S)
           T == 0 .. n - 1
           f == [x \in S |-> Rank(S, before, x)]
<1>1. n \in Nat
  BY FS_CardinalityType
<1>2. f \in [S -> T]
  BY RankIsSmall
<1>3. \A x, y \in S : f[x] = f[y] => x = y
  BY RankTells
<1>4. IsFiniteSet(T) /\ Cardinality(T) = n
  <2>1. PICK b \in Int : b = n - 1
    BY <1>1
  <2>2. IsFiniteSet(0 .. b) /\ Cardinality(0 .. b) = IF 0 > b THEN 0 ELSE b - 0 + 1
    BY FS_Interval
  <2>3. T = 0 .. b /\ (b = -1 \/ b \in Nat) /\ n = b + 1
    BY <1>1, <2>1
  <2> QED
    BY <2>2, <2>3
<1>5. f \in Surjection(S, T)
  <2> HIDE DEF f, T
  <2>1. f \in Injection(S, T)
    BY <1>2, <1>3 DEF Injection, IsInjective
  <2> QED
    BY <1>4, <2>1, FS_Injection DEF n
<1>6. k - 1 \in T
  BY <1>1
<1>7. PICK x \in S : f[x] = k - 1
  <2> HIDE DEF f, T
  <2> QED
    BY <1>5, <1>6 DEF Surjection
<1> QED
  BY <1>7

\* The k-th has k - 1 before it.
LEMMA InOrderIs ==
  ASSUME NEW S, IsFiniteSet(S), NEW before, Sorts(S, before)
  PROVE  /\ InOrder(S, before) \in [1 .. Cardinality(S) -> S]
         /\ \A k \in 1 .. Cardinality(S) : Rank(S, before, InOrder(S, before)[k]) = k - 1
<1>1. ASSUME NEW k \in 1 .. Cardinality(S)
      PROVE  /\ InOrder(S, before)[k] \in S
             /\ Rank(S, before, InOrder(S, before)[k]) = k - 1
  <2>1. InOrder(S, before)[k] = CHOOSE x \in S : Rank(S, before, x) = k - 1
    BY DEF InOrder, Rank, Earlier
  <2>2. \E x \in S : Rank(S, before, x) = k - 1
    BY EveryRank
  <2> QED
    BY <2>1, <2>2
<1>2. InOrder(S, before) = [k \in 1 .. Cardinality(S) |-> InOrder(S, before)[k]]
  <2> DEFINE x(k) == CHOOSE x \in S : Cardinality({y \in S : <<y, x>> \in before}) = k - 1
  <2>1. InOrder(S, before) = [k \in 1 .. Cardinality(S) |-> x(k)]
    BY DEF InOrder
  <2> HIDE DEF x
  <2> QED
    BY <2>1
<1> QED
  BY <1>1, <1>2

\* They all stand in their order (InOrder).
LEMMA InOrderSorts ==
  ASSUME NEW S, IsFiniteSet(S), NEW before, Sorts(S, before),
         NEW q, q = InOrder(S, before), NEW n, n = Cardinality(S)
  PROVE  /\ n \in Nat
         /\ q \in [1 .. n -> S]
         /\ \A x \in S : \E k \in 1 .. n : q[k] = x
         /\ \A j, k \in 1 .. n : j < k => <<q[j], q[k]>> \in before
<1>1. n \in Nat
  BY FS_CardinalityType
<1>2. q \in [1 .. n -> S] /\ \A k \in 1 .. n : Rank(S, before, q[k]) = k - 1
  BY InOrderIs
<1>3. ASSUME NEW x \in S
      PROVE  \E k \in 1 .. n : q[k] = x
  <2>1. PICK k : k = Rank(S, before, x) + 1
    OBVIOUS
  <2>2. k \in 1 .. n /\ k - 1 = Rank(S, before, x)
    BY <1>1, <2>1, RankIsSmall
  <2>3. Rank(S, before, q[k]) = Rank(S, before, x) /\ q[k] \in S
    BY <1>2, <2>2
  <2>4. q[k] = x
    BY <2>3, RankTells
  <2> QED
    BY <2>2, <2>4
<1>4. ASSUME NEW j \in 1 .. n, NEW k \in 1 .. n, j < k
      PROVE  <<q[j], q[k]>> \in before
  <2>1. Rank(S, before, q[j]) < Rank(S, before, q[k]) /\ q[j] \in S /\ q[k] \in S
    BY <1>1, <1>2, <1>4
  <2> QED
    BY <2>1, RankTells
<1> QED
  BY <1>1, <1>2, <1>3, <1>4

\* There is one way to put them in order.
LEMMA InOrderIsOne ==
  ASSUME NEW S, NEW n \in Nat, NEW before, Sorts(S, before),
         NEW w \in [1 .. n -> S], \A x \in S : \E k \in 1 .. n : w[k] = x,
         \A j, k \in 1 .. n : j < k => <<w[j], w[k]>> \in before
  PROVE  w = InOrder(S, before) /\ IsFiniteSet(S) /\ Cardinality(S) = n
<1>1. \A j, k \in 1 .. n : w[j] = w[k] => j = k
  <2>1. \A j, k \in 1 .. n : j # k => j < k \/ k < j
    OBVIOUS
  <2> QED
    BY <2>1 DEF Sorts
<1>2. \A j, k \in 1 .. n : j < k <=> <<w[j], w[k]>> \in before
  <2>1. \A j, k \in 1 .. n : j < k \/ k < j \/ j = k
    OBVIOUS
  <2>2. \A j, k \in 1 .. n : <<w[j], w[k]>> \in before => ~(<<w[k], w[j]>> \in before)
    BY DEF Sorts
  <2>3. \A j, k \in 1 .. n : <<w[j], w[k]>> \in before => j # k
    BY DEF Sorts
  <2> QED
    BY <2>1, <2>2, <2>3
<1>3. IsFiniteSet(S) /\ Cardinality(S) = n
  <2>1. w \in Bijection(1 .. n, S)
    BY <1>1 DEF Bijection, Injection, Surjection, IsInjective
  <2>2. ExistsBijection(1 .. n, S)
    BY <2>1 DEF ExistsBijection
  <2> QED
    BY <2>2, FS_NatBijection, FS_CountingElements
<1>4. ASSUME NEW k \in 1 .. n
      PROVE  Rank(S, before, w[k]) = k - 1
  <2> DEFINE E == Earlier(S, before, w[k])
             m == k - 1
             v == [j \in 1 .. m |-> w[j]]
  <2>1. m \in Nat /\ \A j \in 1 .. m : j \in 1 .. n /\ j < k
    OBVIOUS
  <2>2. \A j \in 1 .. m : w[j] \in E
    BY <1>2, <2>1 DEF Earlier
  <2>3. ASSUME NEW x \in E
        PROVE  \E j \in 1 .. m : w[j] = x
    <3>1. x \in S /\ <<x, w[k]>> \in before
      BY DEF Earlier
    <3>2. PICK j \in 1 .. n : w[j] = x
      BY <3>1
    <3>3. j < k
      BY <1>2, <3>1, <3>2
    <3>4. j \in 1 .. m
      BY <3>3
    <3> QED
      BY <3>2, <3>4
  <2>4. v \in Bijection(1 .. m, E)
    <3>1. \A i, j \in 1 .. m : v[i] = v[j] => i = j
      BY <1>1, <2>1
    <3>2. v \in [1 .. m -> E]
      BY <2>2
    <3>3. \A x \in E : \E j \in 1 .. m : v[j] = x
      BY <2>3
    <3> HIDE DEF m, v, E
    <3> QED
      BY <3>1, <3>2, <3>3 DEF Bijection, Injection, Surjection, IsInjective
  <2>5. ExistsBijection(1 .. m, E)
    BY <2>4 DEF ExistsBijection
  <2>6. Cardinality(E) = m
    <3> HIDE DEF m, E
    <3> QED
      BY <2>1, <2>5, FS_CountingElements
  <2> QED
    BY <2>6 DEF Rank
<1>5. ASSUME NEW k \in 1 .. n
      PROVE  InOrder(S, before)[k] = w[k]
  <2>1. Rank(S, before, InOrder(S, before)[k]) = k - 1 /\ InOrder(S, before)[k] \in S
    BY <1>3, InOrderIs
  <2> QED
    BY <1>3, <1>4, <2>1, RankTells
<1>6. InOrder(S, before) \in [1 .. n -> S]
  BY <1>3, InOrderIs
<1> QED
  BY <1>3, <1>5, <1>6

\* The tokens a text may be of.
Alphabet == ToSet(Tokens)

LEMMA CodeIs ==
  ASSUME NEW c \in Alphabet
  PROVE  Code[c] \in Nat /\ Tokens[Code[c]] = c
<1>1. DOMAIN Tokens = 1 .. 29
  BY DEF Tokens
<1>2. \E k \in DOMAIN Tokens : Tokens[k] = c
  BY DEF Alphabet, ToSet
<1>3. Code[c] = CHOOSE k \in DOMAIN Tokens : Tokens[k] = c
  BY DEF Code, Alphabet
<1>4. Code[c] \in DOMAIN Tokens /\ Tokens[Code[c]] = c
  BY <1>2, <1>3
<1> QED
  BY <1>1, <1>4

\* operator< of std::string: no text is before itself, the order goes from one
\* to the next, and of two texts one is before the other (Less).
LEMMA LessIsStrict ==
  ASSUME NEW s \in Seq(Alphabet)
  PROVE  ~Less(s, s)
<1> SUFFICES ASSUME NEW k \in DOMAIN s, Code[s[k]] < Code[s[k]] PROVE FALSE
  BY DEF Less
<1> QED
  BY CodeIs

LEMMA LessGoesOn ==
  ASSUME NEW s \in Seq(Alphabet), NEW v \in Seq(Alphabet), NEW u \in Seq(Alphabet),
         Less(s, v), Less(v, u)
  PROVE  Less(s, u)
<1>1. PICK k \in 1 .. Len(v) :
        /\ k <= Len(s) + 1 /\ \A i \in 1 .. k - 1 : s[i] = v[i]
        /\ k <= Len(s) => Code[s[k]] < Code[v[k]]
  <2>1. DOMAIN v = 1 .. Len(v)
    OBVIOUS
  <2> QED
    BY <2>1, Zenon DEF Less
<1>2. PICK l \in 1 .. Len(u) :
        /\ l <= Len(v) + 1 /\ \A i \in 1 .. l - 1 : v[i] = u[i]
        /\ l <= Len(v) => Code[v[l]] < Code[u[l]]
  <2>1. DOMAIN u = 1 .. Len(u)
    OBVIOUS
  <2> QED
    BY <2>1, Zenon DEF Less
<1>3. ASSUME NEW m \in 1 .. Len(u), m <= Len(s) + 1, \A i \in 1 .. m - 1 : s[i] = u[i],
             m <= Len(s) => Code[s[m]] < Code[u[m]]
      PROVE  Less(s, u)
  BY <1>3 DEF Less
<1>4. CASE k < l
  <2>1. v[k] = u[k] /\ k \in 1 .. Len(u)
    BY <1>2, <1>4
  <2>2. \A i \in 1 .. k - 1 : s[i] = u[i]
    BY <1>1, <1>2, <1>4
  <2> QED
    BY <1>1, <1>3, <2>1, <2>2
<1>5. CASE l < k
  <2>0. l \in 1 .. k - 1 /\ \A i \in 1 .. l - 1 : i \in 1 .. k - 1
    BY <1>5
  <2>1. s[l] = v[l] /\ l <= Len(s) /\ l <= Len(v)
    BY <1>1, <2>0
  <2>2. \A i \in 1 .. l - 1 : s[i] = u[i]
    BY <1>1, <1>2, <2>0
  <2>3. l <= Len(s) + 1 /\ (l <= Len(s) => Code[s[l]] < Code[u[l]])
    BY <1>2, <2>1
  <2> QED
    BY <1>3, <2>2, <2>3
<1>6. CASE k = l
  <2>1. \A i \in 1 .. k - 1 : s[i] = u[i]
    BY <1>1, <1>2, <1>6
  <2>2. ASSUME k <= Len(s)
        PROVE  Code[s[k]] < Code[u[k]]
    <3>1. s[k] \in Alphabet /\ v[k] \in Alphabet /\ u[k] \in Alphabet
      BY <1>6, <2>2
    <3>2. Code[s[k]] < Code[v[k]] /\ Code[v[k]] < Code[u[k]]
      BY <1>1, <1>2, <1>6, <2>2
    <3> QED
      BY <3>1, <3>2, CodeIs
  <2> QED
    BY <1>1, <1>3, <1>6, <2>1, <2>2
<1> QED
  BY <1>4, <1>5, <1>6

LEMMA LessTells ==
  ASSUME NEW s \in Seq(Alphabet), NEW u \in Seq(Alphabet)
  PROVE  s = u \/ Less(s, u) \/ Less(u, s)
<1> DEFINE Ends(k) == k = Len(s) + 1 \/ k = Len(u) + 1
           T == {k \in Nat \ {0} : Ends(k) \/ s[k] # u[k]}
<1>1. T \subseteq Nat /\ Len(s) + 1 \in T /\ Len(u) + 1 \in T
  OBVIOUS
<1>2. PICK k \in T : \A j \in T : k <= j
  <2> HIDE DEF T
  <2> QED
    BY <1>1, LeastOfNaturals
<1>3. k \in Nat /\ k >= 1 /\ k <= Len(s) + 1 /\ k <= Len(u) + 1
  BY <1>1, <1>2
<1>4. ASSUME NEW j \in 1 .. k - 1
      PROVE  s[j] = u[j]
  <2>1. j \in Nat \ {0} /\ j \notin T
    BY <1>2, <1>3
  <2> QED
    BY <2>1
<1>5. CASE k = Len(s) + 1 /\ k = Len(u) + 1
  <2>1. Len(s) = Len(u) /\ \A j \in 1 .. Len(s) : s[j] = u[j]
    BY <1>4, <1>5
  <2>2. s = u
    BY <2>1, SeqEqual
  <2> QED
    BY <2>2
<1>6. CASE k = Len(s) + 1 /\ k <= Len(u)
  <2>1. k \in DOMAIN u /\ ~(k <= Len(s))
    BY <1>3, <1>6
  <2>2. Less(s, u)
    BY <1>3, <1>4, <2>1 DEF Less
  <2> QED
    BY <2>2
<1>7. CASE k = Len(u) + 1 /\ k <= Len(s)
  <2>1. k \in DOMAIN s /\ ~(k <= Len(u))
    BY <1>3, <1>7
  <2>2. Less(u, s)
    BY <1>3, <1>4, <2>1 DEF Less
  <2> QED
    BY <2>2
<1>8. CASE k <= Len(s) /\ k <= Len(u)
  <2>1. k \in DOMAIN s /\ k \in DOMAIN u /\ s[k] # u[k]
    BY <1>2, <1>3, <1>8
  <2>2. s[k] \in Alphabet /\ u[k] \in Alphabet
    BY <2>1
  <2>3. Code[s[k]] \in Nat /\ Code[u[k]] \in Nat /\ Code[s[k]] # Code[u[k]]
    BY <2>1, <2>2, CodeIs
  <2>4. CASE Code[s[k]] < Code[u[k]]
    BY <1>3, <1>4, <2>1, <2>4 DEF Less
  <2>5. CASE Code[u[k]] < Code[s[k]]
    BY <1>3, <1>4, <2>1, <2>5 DEF Less
  <2> QED
    BY <2>3, <2>4, <2>5
<1> QED
  BY <1>3, <1>5, <1>6, <1>7, <1>8

\* The order of a Map, as the set of pairs it holds for.
LEMMA LessSorts ==
  ASSUME NEW S, S \subseteq Seq(Alphabet)
  PROVE  Sorts(S, {p \in S \X S : Less(p[1], p[2])})
<1> DEFINE before == {p \in S \X S : Less(p[1], p[2])}
<1>1. \A x, y \in S : <<x, y>> \in before <=> Less(x, y)
  OBVIOUS
<1> HIDE DEF before
<1>2. \A x \in S : <<x, x>> \notin before
  BY <1>1, LessIsStrict
<1>3. \A x, y, z \in S : <<x, y>> \in before /\ <<y, z>> \in before => <<x, z>> \in before
  BY <1>1, LessGoesOn
<1>4. \A x, y \in S : x = y \/ <<x, y>> \in before \/ <<y, x>> \in before
  BY <1>1, LessTells
<1>5. Sorts(S, before)
  BY <1>2, <1>3, <1>4 DEF Sorts
<1> QED
  BY <1>5 DEF before

\* Of pairs, by their first members, no two of which are the same.
LEMMA LessSortsPairs ==
  ASSUME NEW S, \A p \in S : p[1] \in Seq(Alphabet), \A p, q \in S : p[1] = q[1] => p = q
  PROVE  Sorts(S, {p \in S \X S : Less(p[1][1], p[2][1])})
<1> DEFINE before == {p \in S \X S : Less(p[1][1], p[2][1])}
<1>1. \A x, y \in S : <<x, y>> \in before <=> Less(x[1], y[1])
  OBVIOUS
<1> HIDE DEF before
<1>2. \A x \in S : <<x, x>> \notin before
  BY <1>1, LessIsStrict
<1>3. \A x, y, z \in S : <<x, y>> \in before /\ <<y, z>> \in before => <<x, z>> \in before
  BY <1>1, LessGoesOn
<1>4. \A x, y \in S : x = y \/ <<x, y>> \in before \/ <<y, x>> \in before
  BY <1>1, LessTells
<1>5. Sorts(S, before)
  BY <1>2, <1>3, <1>4 DEF Sorts
<1> QED
  BY <1>5 DEF before

-------------------------------------------------------------------------------
\* Cutting (Positions, Split), and the fields between the cuts.

\* p holds, in their order, the n positions at which text has delim.
ArePositions(p, n, text, delim) ==
  /\ n \in 0 .. Len(text)
  /\ p \in Seq(1 .. Len(text)) /\ p \in [1 .. n -> 1 .. Len(text)]
  /\ \A k \in 1 .. n : text[p[k]] = delim
  /\ \A i \in 1 .. Len(text) : text[i] = delim => \E k \in 1 .. n : p[k] = i
  /\ \A j, k \in 1 .. n : j < k => p[j] < p[k]

\* The positions are those of the delimiter (Positions).
LEMMA PositionsAre ==
  ASSUME NEW A, NEW text \in Seq(A), NEW delim
  PROVE  ArePositions(Positions(text, delim), Len(Positions(text, delim)), text, delim)
<1>0. PICK p : p = Positions(text, delim)
  OBVIOUS
<1>9. PICK n : n = Len(p)
  OBVIOUS
<1> DEFINE found == {k \in 1 .. Len(text) : text[k] = delim}
           before == {q \in found \X found : q[1] < q[2]}
           m == Cardinality(found)
<1>1. p = InOrder(found, before)
  BY <1>0 DEF Positions
<1>2. IsFiniteSet(found) /\ m \in 0 .. Len(text)
  <2>1. PICK l \in Nat : l = Len(text)
    OBVIOUS
  <2>2. PICK a \in Int : a = 1
    OBVIOUS
  <2>3. IsFiniteSet(a .. l) /\ Cardinality(a .. l) = l
    <3>1. l \in Int
      OBVIOUS
    <3>2. IsFiniteSet(a .. l) /\ Cardinality(a .. l) = IF a > l THEN 0 ELSE l - a + 1
      BY <3>1, FS_Interval
    <3> QED
      BY <2>2, <3>2
  <2>4. found \in SUBSET (a .. l)
    BY <2>1, <2>2
  <2> HIDE DEF found
  <2>5. IsFiniteSet(found) /\ m <= l
    BY <2>3, <2>4, FS_Subset
  <2>6. m \in Nat
    BY <2>5, FS_CardinalityType
  <2> QED
    BY <2>1, <2>5, <2>6
<1>3. Sorts(found, before)
  <2>1. \A x, y \in found : <<x, y>> \in before <=> x < y
    OBVIOUS
  <2>2. found \subseteq Int
    OBVIOUS
  <2> HIDE DEF found, before
  <2> QED
    BY <2>1, <2>2 DEF Sorts
<1>4. /\ p \in [1 .. m -> found]
      /\ \A x \in found : \E k \in 1 .. m : p[k] = x
      /\ \A j, k \in 1 .. m : j < k => <<p[j], p[k]>> \in before
  <2> HIDE DEF found, before, m
  <2> QED
    BY <1>1, <1>2, <1>3, InOrderSorts DEF m
<1>5. p \in [1 .. m -> 1 .. Len(text)] /\ \A k \in 1 .. m : text[p[k]] = delim
  BY <1>4
<1>6. \A i \in 1 .. Len(text) : text[i] = delim => \E k \in 1 .. m : p[k] = i
  BY <1>4
<1>7. \A j, k \in 1 .. m : j < k => p[j] < p[k]
  BY <1>4
<1> HIDE DEF found, before, m
<1>8. p \in Seq(1 .. Len(text)) /\ n = m
  BY <1>2, <1>5, <1>9
<1>10. ArePositions(p, n, text, delim)
  BY <1>2, <1>5, <1>6, <1>7, <1>8 DEF ArePositions
<1> QED
  BY <1>0, <1>9, <1>10, Zenon

\* The n pieces of a text lie between the cuts c.
AreCuts(c, n, text, delim, count) ==
  /\ n \in Nat /\ n >= 1 /\ n <= count + 1
  /\ c \in [1 .. n + 1 -> 0 .. Len(text) + 1]
  /\ c[1] = 0 /\ c[n + 1] = Len(text) + 1
  /\ \A k \in 2 .. n : c[k] \in 1 .. Len(text) /\ text[c[k]] = delim
  /\ \A j, k \in 1 .. n + 1 : j < k => c[j] < c[k]
  /\ \A i \in 1 .. Len(text) : text[i] = delim =>
       (\E k \in 2 .. n : c[k] = i) \/ (n = count + 1 /\ c[n] < i)
  /\ Split(text, delim, count) = [k \in 1 .. n |-> SubSeq(text, c[k] + 1, c[k + 1] - 1)]

\* The pieces are what lies between the cuts, count of them at most (Split).
LEMMA SplitIs ==
  ASSUME NEW A, NEW text \in Seq(A), NEW delim, NEW count \in Nat
  PROVE  \E c, n : AreCuts(c, n, text, delim, count)
<1>1. PICK p : p = Positions(text, delim)
  OBVIOUS
<1>2. PICK f : f = Len(p)
  OBVIOUS
<1>3. PICK l \in Nat : l = Len(text)
  OBVIOUS
<1>4. /\ f \in 0 .. l
      /\ p \in Seq(1 .. l) /\ p \in [1 .. f -> 1 .. l]
      /\ \A k \in 1 .. f : text[p[k]] = delim
      /\ \A i \in 1 .. l : text[i] = delim => \E k \in 1 .. f : p[k] = i
      /\ \A j, k \in 1 .. f : j < k => p[j] < p[k]
  <2>1. ArePositions(p, f, text, delim)
    BY <1>1, <1>2, PositionsAre
  <2> QED
    BY <1>3, <2>1 DEF ArePositions
<1>5. PICK m \in Nat : m = IF count < f THEN count ELSE f
  BY <1>4
<1>6. m <= f /\ m <= count /\ (m = f \/ m = count)
  BY <1>4, <1>5
<1> DEFINE n == m + 1
           q == SubSeq(p, 1, m)
           c == <<0>> \o q \o <<l + 1>>
<1>7. q \in Seq(1 .. l) /\ Len(q) = m /\ \A k \in 1 .. m : q[k] = p[k]
  <2>1. p \in Seq(1 .. l) /\ Len(p) = f /\ m <= Len(p)
    BY <1>2, <1>4, <1>6
  <2> QED
    BY <2>1
<1> HIDE DEF q
<1>8. /\ c \in Seq(0 .. l + 1) /\ Len(c) = m + 2 /\ c[1] = 0 /\ c[m + 2] = l + 1
      /\ \A k \in 2 .. m + 1 : c[k] = p[k - 1]
  <2>1. q \in Seq(0 .. l + 1)
    BY <1>7
  <2>2. <<0>> \in Seq(0 .. l + 1) /\ <<l + 1>> \in Seq(0 .. l + 1) /\ Len(<<0>>) = 1 /\ Len(<<l + 1>>) = 1
    OBVIOUS
  <2> DEFINE d == <<0>> \o q
  <2>3. d \in Seq(0 .. l + 1) /\ Len(d) = m + 1 /\ d[1] = 0 /\ \A k \in 2 .. m + 1 : d[k] = q[k - 1]
    BY <1>7, <2>1, <2>2
  <2> HIDE DEF d
  <2>4. PICK e : e = <<l + 1>>
    OBVIOUS
  <2>5. c = d \o e /\ e \in Seq(0 .. l + 1) /\ Len(e) = 1 /\ e[1] = l + 1
    BY <2>2, <2>4 DEF d
  <2>7. /\ c \in Seq(0 .. l + 1) /\ Len(c) = (m + 1) + 1
        /\ \A k \in 1 .. (m + 1) + 1 : c[k] = IF k <= m + 1 THEN d[k] ELSE e[k - (m + 1)]
    <3> HIDE DEF c
    <3>1. /\ d \o e \in Seq(0 .. l + 1) /\ Len(d \o e) = Len(d) + Len(e)
          /\ \A i \in 1 .. Len(d) + Len(e) :
               (d \o e)[i] = IF i <= Len(d) THEN d[i] ELSE e[i - Len(d)]
      BY <2>3, <2>5, ConcatProperties
    <3> QED
      BY <2>3, <2>5, <3>1
  <2>8. (m + 1) + 1 = m + 2 /\ 1 \in 1 .. m + 2 /\ m + 2 \in 1 .. m + 2 /\ (m + 2) - (m + 1) = 1
    OBVIOUS
  <2> HIDE DEF c
  <2>6. \A k \in 2 .. m + 1 : k - 1 \in 1 .. m /\ k \in 1 .. (m + 1) + 1 /\ k <= m + 1
    OBVIOUS
  <2>9. c[1] = d[1] /\ c[m + 2] = e[1]
    <3>1. c[1] = d[1]
      BY <2>7, <2>8
    <3>2. c[m + 2] = e[(m + 2) - (m + 1)]
      BY <2>7, <2>8
    <3> QED
      BY <2>8, <3>1, <3>2
  <2>10. \A k \in 2 .. m + 1 : c[k] = p[k - 1]
    BY <1>7, <2>3, <2>6, <2>7
  <2> QED
    BY <2>3, <2>5, <2>7, <2>8, <2>9, <2>10
<1>9. Split(text, delim, count) = [k \in 1 .. Len(c) - 1 |-> SubSeq(text, c[k] + 1, c[k + 1] - 1)]
  BY <1>1, <1>2, <1>3, <1>5 DEF Split, q
<1> HIDE DEF c
<1>10. c \in [1 .. n + 1 -> 0 .. l + 1]
  BY <1>8
<1>11. n \in Nat /\ n >= 1 /\ n <= count + 1 /\ n + 1 = m + 2 /\ Len(c) - 1 = n
  BY <1>6, <1>8
<1>12. \A k \in 2 .. n : k - 1 \in 1 .. m /\ k - 1 \in 1 .. f /\ c[k] = p[k - 1]
  BY <1>4, <1>6, <1>8
<1>13. \A k \in 2 .. n : c[k] \in 1 .. l /\ text[c[k]] = delim
  BY <1>4, <1>12
<1>14. ASSUME NEW j \in 1 .. n + 1, NEW k \in 1 .. n + 1, j < k
       PROVE  c[j] < c[k]
  <2>1. CASE j = 1 /\ k = n + 1
    BY <1>8, <2>1
  <2>2. CASE j = 1 /\ k # n + 1
    <3>1. k \in 2 .. n
      BY <1>14, <2>2
    <3> QED
      BY <1>8, <1>13, <2>2, <3>1
  <2>3. CASE j # 1 /\ k = n + 1
    <3>1. j \in 2 .. n
      BY <1>14, <2>3
    <3> QED
      BY <1>8, <1>13, <2>3, <3>1
  <2>4. CASE j # 1 /\ k # n + 1
    <3>1. j \in 2 .. n /\ k \in 2 .. n /\ j - 1 < k - 1
      BY <1>14, <2>4
    <3>2. c[j] = p[j - 1] /\ c[k] = p[k - 1] /\ j - 1 \in 1 .. f /\ k - 1 \in 1 .. f
      BY <1>12, <3>1
    <3> QED
      BY <1>4, <3>1, <3>2
  <2> QED
    BY <2>1, <2>2, <2>3, <2>4
<1>15. ASSUME NEW i \in 1 .. l, text[i] = delim
       PROVE  (\E k \in 2 .. n : c[k] = i) \/ (n = count + 1 /\ c[n] < i)
  <2>1. PICK k \in 1 .. f : p[k] = i
    BY <1>4, <1>15
  <2>2. CASE k <= m
    <3>1. k + 1 \in 2 .. n /\ (k + 1) - 1 = k
      BY <2>2
    <3> QED
      BY <1>12, <2>1, <3>1
  <2>3. CASE k > m
    <3>1. m = count /\ n = count + 1
      BY <1>4, <1>6, <2>3
    <3>2. CASE m = 0
      BY <1>8, <3>1, <3>2
    <3>3. CASE m # 0
      <4>1. m \in 1 .. f /\ n \in 2 .. n /\ n - 1 = m
        BY <1>4, <1>6, <3>3
      <4>2. c[n] = p[m] /\ p[m] < p[k]
        BY <1>4, <1>12, <2>1, <2>3, <4>1
      <4> QED
        BY <2>1, <3>1, <4>2
    <3> QED
      BY <3>2, <3>3
  <2> QED
    BY <1>4, <2>2, <2>3
<1> HIDE DEF n
<1>16. AreCuts(c, n, text, delim, count)
  BY <1>3, <1>8, <1>9, <1>10, <1>11, <1>13, <1>14, <1>15 DEF AreCuts
<1> QED
  BY <1>16

\* One cut: what is before the first delimiter, and what is after it.
IsFirst(k, s, l, delim) ==
  /\ k \in 1 .. l + 1
  /\ k = l + 1 \/ s[k] = delim
  /\ \A j \in 1 .. k - 1 : s[j] # delim

SplitsAt(k, s, l, delim) ==
  /\ Key(Split(s, delim, 1)) = SubSeq(s, 1, k - 1)
  /\ Value(Split(s, delim, 1)) = SubSeq(s, k + 1, l)

\* Split at the first delimiter only gives a key and a value.
LEMMA SplitOnce ==
  ASSUME NEW A, NEW s \in Seq(A), NEW delim, NEW l \in Nat, l = Len(s),
         NEW k, IsFirst(k, s, l, delim)
  PROVE  SplitsAt(k, s, l, delim)
<1>0. k \in 1 .. l + 1 /\ (k = l + 1 \/ s[k] = delim) /\ \A j \in 1 .. k - 1 : s[j] # delim
  BY DEF IsFirst
<1>1. PICK c, n : AreCuts(c, n, s, delim, 1)
  BY SplitIs
<1> DEFINE kv == Split(s, delim, 1)
<1> n \in Nat
  BY <1>1 DEF AreCuts
<1>2. /\ n \in Nat /\ n >= 1 /\ n <= 1 + 1
      /\ c[1] = 0 /\ c[n + 1] = l + 1
      /\ \A i \in 2 .. n : c[i] \in 1 .. l /\ s[c[i]] = delim
      /\ \A i \in 1 .. l : s[i] = delim => (\E h \in 2 .. n : c[h] = i) \/ (n = 1 + 1 /\ c[n] < i)
      /\ kv = [i \in 1 .. n |-> SubSeq(s, c[i] + 1, c[i + 1] - 1)]
  BY <1>1 DEF AreCuts
<1>3. Len(kv) = n /\ \A i \in 1 .. n : kv[i] = SubSeq(s, c[i] + 1, c[i + 1] - 1)
  BY <1>2
<1> HIDE DEF kv
<1>4. CASE k = l + 1
  <2>1. n = 1
    <3> SUFFICES ASSUME n = 2 PROVE FALSE
      BY <1>2
    <3>1. 2 \in 2 .. n
      OBVIOUS
    <3>2. c[2] \in 1 .. l /\ s[c[2]] = delim
      BY <1>2, <3>1
    <3> QED
      BY <1>0, <1>4, <3>2
  <2>2. kv[1] = SubSeq(s, 0 + 1, (l + 1) - 1)
    BY <1>2, <1>3, <2>1
  <2>3. SubSeq(s, k + 1, l) = <<>>
    BY <1>4, SubSeqEmpty
  <2>4. 0 + 1 = 1 /\ (l + 1) - 1 = k - 1 /\ Len(kv) # 2
    BY <1>3, <1>4, <2>1
  <2> QED
    BY <2>2, <2>3, <2>4 DEF SplitsAt, Key, Value, kv
<1>5. CASE k # l + 1
  <2>1. k \in 1 .. l /\ s[k] = delim
    BY <1>0, <1>5
  <2>2. n = 2 /\ c[2] = k
    <3>1. CASE \E h \in 2 .. n : c[h] = k
      BY <1>2, <3>1
    <3>2. CASE n = 1 + 1 /\ c[n] < k
      <4>1. n \in 2 .. n
        BY <3>2
      <4>2. c[n] \in 1 .. l /\ s[c[n]] = delim
        BY <1>2, <4>1
      <4> QED
        BY <1>0, <2>1, <3>2, <4>2
    <3> QED
      BY <1>2, <2>1, <3>1, <3>2
  <2>3. kv[1] = SubSeq(s, 0 + 1, k - 1)
    BY <1>2, <1>3, <2>2
  <2>4. kv[2] = SubSeq(s, k + 1, (l + 1) - 1)
    <3>1. 2 \in 1 .. n /\ 2 + 1 = n + 1
      BY <2>2
    <3> QED
      BY <1>2, <1>3, <2>2, <3>1
  <2>5. 0 + 1 = 1 /\ (l + 1) - 1 = l
    OBVIOUS
  <2> QED
    BY <1>3, <2>2, <2>3, <2>4, <2>5 DEF SplitsAt, Key, Value, kv
<1> QED
  BY <1>4, <1>5

\* A part of a part.
LEMMA PartOfPart ==
  ASSUME NEW A, NEW s \in Seq(A), NEW i \in 1 .. Len(s) + 1, NEW j \in i - 1 .. Len(s),
         NEW m \in 1 .. j - i + 2, NEW n \in m - 1 .. j - i + 1
  PROVE  SubSeq(SubSeq(s, i, j), m, n) = SubSeq(s, i + m - 1, i + n - 1)
<1>1. PICK p : p = SubSeq(s, i, j)
  OBVIOUS
<1>2. \A h \in i .. j : s[h] \in A
  OBVIOUS
<1>3. p \in Seq(A) /\ Len(p) = j - i + 1 /\ \A h \in 1 .. j - i + 1 : p[h] = s[i + h - 1]
  BY <1>1, <1>2, SubSeqProperties
<1>4. PICK a \in Int, b \in Int : a = i + m - 1 /\ b = i + n - 1
  OBVIOUS
<1>5. \A h \in a .. b : s[h] \in A
  BY <1>4
<1>6. \A h \in m .. n : p[h] \in A
  BY <1>3
<1>7. PICK q : q = SubSeq(p, m, n)
  OBVIOUS
<1>8. PICK r : r = SubSeq(s, a, b)
  OBVIOUS
<1>9. q \in Seq(A) /\ Len(q) = n - m + 1 /\ \A h \in 1 .. n - m + 1 : q[h] = p[m + h - 1]
  BY <1>6, <1>7, SubSeqProperties
<1>10. r \in Seq(A) /\ Len(r) = n - m + 1 /\ \A h \in 1 .. n - m + 1 : r[h] = s[a + h - 1]
  <2>1. /\ r \in Seq(A) /\ Len(r) = IF a <= b THEN b - a + 1 ELSE 0
        /\ \A h \in 1 .. b - a + 1 : r[h] = s[a + h - 1]
    BY <1>5, <1>8, SubSeqProperties
  <2>2. b - a + 1 = n - m + 1 /\ (a <= b <=> m <= n)
    BY <1>4
  <2> QED
    BY <2>1, <2>2
<1>11. \A h \in 1 .. n - m + 1 : q[h] = r[h]
  <2> TAKE h \in 1 .. n - m + 1
  <2>1. m + h - 1 \in 1 .. j - i + 1 /\ i + (m + h - 1) - 1 = a + h - 1
    BY <1>4
  <2> QED
    BY <1>3, <1>9, <1>10, <2>1
<1>12. q = r
  BY <1>9, <1>10, <1>11, SeqEqual
<1> QED
  BY <1>1, <1>4, <1>7, <1>8, <1>12

\* The fields of a text, each of them once, from the first to the last.
FieldsInOrder(c, n, text) ==
  /\ c \in [1 .. n -> Fields(text)]
  /\ \A f \in Fields(text) : \E k \in 1 .. n : c[k] = f
  /\ \A j, k \in 1 .. n : j < k => c[j][1] < c[k][1]

\* Every field is a piece, and the other way round.
LEMMA FieldsArePieces ==
  ASSUME NEW A, NEW text \in Seq(A)
  PROVE  \E n \in Nat : \E c :
           /\ FieldsInOrder(c, n, text)
           /\ SplitAtAll(text, Semicolon) = [k \in 1 .. n |-> SubSeq(text, c[k][1], c[k][2])]
<1>1. PICK l \in Nat : l = Len(text)
  OBVIOUS
<1>2. PICK d, n : AreCuts(d, n, text, Semicolon, l)
  BY <1>1, SplitIs
<1> n \in Nat /\ n >= 1 /\ n <= l + 1
  BY <1>1, <1>2 DEF AreCuts
<1>a. d \in [1 .. n + 1 -> 0 .. l + 1] /\ d[1] = 0 /\ d[n + 1] = l + 1
  BY <1>1, <1>2 DEF AreCuts
<1>3. \A k \in 2 .. n : d[k] \in 1 .. l /\ text[d[k]] = Semicolon
  BY <1>1, <1>2 DEF AreCuts
<1>b. \A k \in 1 .. n + 1 : d[k] \in 0 .. l + 1 /\ d[k] \in Int
  BY <1>a
<1>c. \A j, k \in 1 .. n + 1 : j < k => d[j] < d[k]
  BY <1>1, <1>2 DEF AreCuts
<1>d. \A i \in 1 .. l : text[i] = Semicolon =>
        (\E k \in 2 .. n : d[k] = i) \/ (n = l + 1 /\ d[n] < i)
  BY <1>1, <1>2 DEF AreCuts
<1>e. SplitAtAll(text, Semicolon) = [k \in 1 .. n |-> SubSeq(text, d[k] + 1, d[k + 1] - 1)]
  BY <1>1, <1>2 DEF AreCuts, SplitAtAll
<1>4. d[n] >= n - 1
  <2> DEFINE T == {k \in 1 .. n : d[k] >= k - 1}
  <2>1. 1 \in T
    BY <1>a
  <2>2. ASSUME NEW k \in 1 .. n - 1, k \in T
        PROVE  k + 1 \in T
    <3>1. k \in 1 .. n + 1 /\ k + 1 \in 1 .. n + 1 /\ k < k + 1
      BY <1>3
    <3>2. d[k] < d[k + 1] /\ d[k] \in Int /\ d[k + 1] \in Int
      BY <1>b, <1>c, <3>1
    <3> QED
      BY <2>2, <3>1, <3>2
  <2>3. 1 \in 0 .. n /\ n \in 1 .. n
    OBVIOUS
  <2>4. n \in T
    <3> HIDE DEF T
    <3>1. 1 .. n \subseteq T
      BY <2>1, <2>2, <2>3, TurnByTurn
    <3> QED
      BY <2>3, <3>1
  <2> QED
    BY <2>4
<1>5. \A i \in 1 .. l : text[i] = Semicolon => \E k \in 2 .. n : d[k] = i
  <2> TAKE i \in 1 .. l
  <2>1. d[n] \in Int
    BY <1>b
  <2> QED
    BY <1>4, <1>d, <2>1
<1>6. \A j, k \in 1 .. n + 1 : d[j] < d[k] => j < k
  <2> TAKE j, k \in 1 .. n + 1
  <2>1. d[j] \in Int /\ d[k] \in Int
    BY <1>b
  <2>2. k < j => d[k] < d[j]
    BY <1>c
  <2> QED
    BY <2>1, <2>2
<1> DEFINE c == [k \in 1 .. n |-> <<d[k] + 1, d[k + 1] - 1>>]
<1>7. ASSUME NEW k \in 1 .. n
      PROVE  <<d[k] + 1, d[k + 1] - 1>> \in Fields(text)
  <2>1. k \in 1 .. n + 1 /\ k + 1 \in 1 .. n + 1 /\ k < k + 1
    OBVIOUS
  <2>2. PICK a \in Int, b \in Int : a = d[k] /\ b = d[k + 1] /\ a \in 0 .. l + 1 /\ b \in 0 .. l + 1 /\ a < b
    BY <1>b, <1>c, <2>1
  <2>3. \A i \in a + 1 .. b - 1 : text[i] # Semicolon
    <3> SUFFICES ASSUME NEW i \in a + 1 .. b - 1, text[i] = Semicolon PROVE FALSE
      OBVIOUS
    <3>1. i \in 1 .. l
      BY <2>2
    <3>2. PICK h \in 2 .. n : d[h] = i
      BY <1>5, <3>1
    <3>3. h \in 1 .. n + 1 /\ d[k] < d[h] /\ d[h] < d[k + 1]
      BY <2>2, <3>2
    <3>4. k < h /\ h < k + 1
      BY <1>6, <2>1, <3>3
    <3> QED
      BY <3>4
  <2>4. a + 1 > 1 => text[(a + 1) - 1] = Semicolon
    <3>1. k = 1 \/ k \in 2 .. n
      OBVIOUS
    <3>2. (a + 1) - 1 = a
      OBVIOUS
    <3>3. k # 1 => text[a] = Semicolon
      BY <1>3, <2>2, <3>1
    <3>4. k = 1 => a = 0
      BY <1>a, <2>2
    <3> QED
      BY <3>2, <3>3, <3>4
  <2>5. b - 1 < l => text[(b - 1) + 1] = Semicolon
    <3>1. k = n \/ k + 1 \in 2 .. n
      OBVIOUS
    <3>2. (b - 1) + 1 = b
      OBVIOUS
    <3>3. k # n => text[b] = Semicolon
      BY <1>3, <2>2, <3>1
    <3>4. k = n => b = l + 1
      BY <1>a, <2>2
    <3> QED
      BY <3>2, <3>3, <3>4
  <2>6. a + 1 \in 1 .. l + 1 /\ b - 1 \in 0 .. l /\ a + 1 <= (b - 1) + 1
    BY <2>2
  <2>7. PICK f : f = <<a + 1, b - 1>>
    OBVIOUS
  <2>8. f \in (1 .. l + 1) \X (0 .. l) /\ f[1] = a + 1 /\ f[2] = b - 1
    BY <2>6, <2>7
  <2>9. /\ f[1] <= f[2] + 1
        /\ \A i \in f[1] .. f[2] : text[i] # Semicolon
        /\ f[1] > 1 => text[f[1] - 1] = Semicolon
        /\ f[2] < l => text[f[2] + 1] = Semicolon
    BY <2>3, <2>4, <2>5, <2>6, <2>8
  <2>10. f \in Fields(text)
    BY <1>1, <2>8, <2>9 DEF Fields
  <2> QED
    BY <2>2, <2>7, <2>10
<1>8. ASSUME NEW f \in Fields(text)
      PROVE  \E k \in 1 .. n : f = <<d[k] + 1, d[k + 1] - 1>>
  <2>1. PICK a \in Int, b \in Int : f = <<a, b>> /\ a \in 1 .. l + 1 /\ b \in 0 .. l /\ a <= b + 1
    BY <1>1 DEF Fields
  <2>2. /\ \A k \in a .. b : text[k] # Semicolon
        /\ a > 1 => text[a - 1] = Semicolon
        /\ b < l => text[b + 1] = Semicolon
    BY <1>1, <2>1 DEF Fields
  <2>3. PICK j \in 1 .. n : d[j] = a - 1
    <3>1. CASE a = 1
      BY <1>a, <3>1
    <3>2. CASE a # 1
      <4>1. a - 1 \in 1 .. l /\ text[a - 1] = Semicolon
        BY <2>1, <2>2, <3>2
      <4> QED
        BY <1>5, <4>1
    <3> QED
      BY <3>1, <3>2
  <2>4. PICK h \in 2 .. n + 1 : d[h] = b + 1
    <3>1. CASE b = l
      BY <1>a, <3>1
    <3>2. CASE b # l
      <4>1. b + 1 \in 1 .. l /\ text[b + 1] = Semicolon
        BY <2>1, <2>2, <3>2
      <4> QED
        BY <1>5, <4>1
    <3> QED
      BY <3>1, <3>2
  <2>5. j < h
    BY <1>6, <2>1, <2>3, <2>4
  <2>6. h = j + 1
    <3> SUFFICES ASSUME h # j + 1 PROVE FALSE
      OBVIOUS
    <3>1. j + 1 \in 2 .. n /\ j + 1 \in 1 .. n + 1 /\ j \in 1 .. n + 1 /\ h \in 1 .. n + 1 /\ j + 1 < h /\ j < j + 1
      BY <2>5
    <3>2. text[d[j + 1]] = Semicolon /\ d[j] < d[j + 1] /\ d[j + 1] < d[h] /\ d[j + 1] \in 1 .. l
      BY <1>3, <1>c, <3>1
    <3>3. d[j + 1] \in a .. b
      BY <2>3, <2>4, <3>2
    <3> QED
      BY <2>2, <3>2, <3>3
  <2>7. d[j] + 1 = a /\ d[j + 1] - 1 = b
    BY <2>1, <2>3, <2>4, <2>6
  <2> QED
    BY <2>1, <2>3, <2>7
<1>9. c \in [1 .. n -> Fields(text)]
  BY <1>7
<1>10. \A f \in Fields(text) : \E k \in 1 .. n : c[k] = f
  BY <1>8
<1>11. ASSUME NEW j \in 1 .. n, NEW k \in 1 .. n, j < k
       PROVE  c[j][1] < c[k][1]
  <2>1. j \in 1 .. n + 1 /\ k \in 1 .. n + 1
    OBVIOUS
  <2>2. d[j] < d[k] /\ d[j] \in Int /\ d[k] \in Int
    BY <1>11, <1>b, <1>c, <2>1
  <2> QED
    BY <2>2
<1>12. SplitAtAll(text, Semicolon) = [k \in 1 .. n |-> SubSeq(text, c[k][1], c[k][2])]
  <2>1. \A k \in 1 .. n : c[k][1] = d[k] + 1 /\ c[k][2] = d[k + 1] - 1
    OBVIOUS
  <2> HIDE DEF c
  <2> QED
    BY <1>e, <2>1
<1> HIDE DEF c
<1> QED
  BY <1>9, <1>10, <1>11, <1>12 DEF FieldsInOrder

-------------------------------------------------------------------------------
\* Reading (ParseParams, ParseHeaders), and what the texts mean.

\* The pairs of a dictionary: of those with one key, the first.
LEMMA PairsOfFirst ==
  ASSUME NEW n \in Nat, NEW pairs,
         \A i \in 1 .. n : pairs[i] = <<pairs[i][1], pairs[i][2]>>
  PROVE  Pairs(FirstOnes(pairs, 1 .. n))
           = {pairs[i] : i \in {i \in 1 .. n : \A j \in 1 .. n : j < i => pairs[j][1] # pairs[i][1]}}
<1> DEFINE s == 1 .. n
           m == FirstOnes(pairs, s)
           firsts == {i \in s : \A j \in s : j < i => pairs[j][1] # pairs[i][1]}
<1>1. s \subseteq Nat
  OBVIOUS
<1> HIDE DEF s
<1>2. DOMAIN m = {pairs[i][1] : i \in s} /\ \A x \in DOMAIN m : m[x] = pairs[First(pairs, s, x)][2]
  BY DEF FirstOnes
<1> HIDE DEF m
<1>3. \A i \in s : First(pairs, s, pairs[i][1]) \in firsts /\ pairs[First(pairs, s, pairs[i][1])][1] = pairs[i][1]
  <2> TAKE i \in s
  <2> DEFINE f == First(pairs, s, pairs[i][1])
  <2>1. f \in s /\ pairs[f][1] = pairs[i][1] /\ \A j \in s : pairs[j][1] = pairs[i][1] => f <= j
    BY <1>1, FirstIs
  <2> HIDE DEF f
  <2>2. \A j \in s : j < f => pairs[j][1] # pairs[f][1]
    <3> SUFFICES ASSUME NEW j \in s, j < f, pairs[j][1] = pairs[f][1] PROVE FALSE
      OBVIOUS
    <3>1. f <= j
      BY <2>1
    <3>2. j \in Nat /\ f \in Nat
      BY <1>1, <2>1
    <3> QED
      BY <3>1, <3>2
  <2> QED
    BY <2>1, <2>2 DEF f
<1>4. \A i \in firsts : First(pairs, s, pairs[i][1]) = i
  <2> TAKE i \in firsts
  <2> DEFINE f == First(pairs, s, pairs[i][1])
  <2>1. f \in s /\ pairs[f][1] = pairs[i][1] /\ \A j \in s : pairs[j][1] = pairs[i][1] => f <= j
    BY <1>1, FirstIs
  <2> HIDE DEF f
  <2> QED
    BY <1>1, <2>1 DEF f
<1>5. ASSUME NEW p \in Pairs(m)
      PROVE  p \in {pairs[i] : i \in firsts}
  <2>1. PICK x \in DOMAIN m : p = <<x, m[x]>>
    BY DEF Pairs
  <2>2. PICK i \in s : x = pairs[i][1]
    BY <1>2, <2>1
  <2>3. PICK f : f = First(pairs, s, pairs[i][1])
    OBVIOUS
  <2>4. f \in firsts /\ pairs[f][1] = x /\ m[x] = pairs[f][2]
    BY <1>2, <1>3, <2>2, <2>3
  <2>5. p = <<pairs[f][1], pairs[f][2]>> /\ f \in s
    BY <2>1, <2>4
  <2>6. p = pairs[f]
    BY <2>5 DEF s
  <2> QED
    BY <2>4, <2>6
<1>6. ASSUME NEW i \in firsts
      PROVE  pairs[i] \in Pairs(m)
  <2>1. i \in s /\ pairs[i][1] \in DOMAIN m
    BY <1>2
  <2>2. m[pairs[i][1]] = pairs[i][2]
    BY <1>2, <1>4, <2>1
  <2>3. pairs[i] = <<pairs[i][1], pairs[i][2]>>
    BY <2>1 DEF s
  <2> QED
    BY <2>1, <2>2, <2>3 DEF Pairs
<1> HIDE DEF firsts
<1>7. Pairs(m) = {pairs[i] : i \in firsts}
  BY <1>5, <1>6
<1> QED
  BY <1>7 DEF firsts, m, s

\* What pieces mean that are the fields of a text, in their order.
LEMMA MeaningIs ==
  ASSUME NEW text, text # <<>>, NEW separator, NEW n \in Nat, NEW c, FieldsInOrder(c, n, text),
         NEW pairs,
         \A k \in 1 .. n : pairs[k] = <<Name(text, c[k], separator), Rest(text, c[k], separator)>>
  PROVE  Pairs(FirstOnes(pairs, 1 .. n)) = Meaning(text, separator)
<1> DEFINE firsts == {i \in 1 .. n : \A j \in 1 .. n : j < i => pairs[j][1] # pairs[i][1]}
           fields == {f \in Fields(text) : \A g \in Fields(text) :
                        g[1] < f[1] => Name(text, g, separator) # Name(text, f, separator)}
           pair(f) == <<Name(text, f, separator), Rest(text, f, separator)>>
<1>1. c \in [1 .. n -> Fields(text)] /\ \A f \in Fields(text) : \E k \in 1 .. n : c[k] = f
  BY DEF FieldsInOrder
<1>2. \A j, k \in 1 .. n : j < k => c[j][1] < c[k][1]
  BY DEF FieldsInOrder
<1>3. \A k \in 1 .. n : pairs[k][1] = Name(text, c[k], separator)
  OBVIOUS
<1>4. \A i \in 1 .. n : pairs[i] = <<pairs[i][1], pairs[i][2]>>
  OBVIOUS
<1>5. Pairs(FirstOnes(pairs, 1 .. n)) = {pairs[i] : i \in firsts}
  BY <1>4, PairsOfFirst
<1>6. \A k \in 1 .. n : c[k][1] \in Int
  BY <1>1 DEF Fields
<1>7. \A j, k \in 1 .. n : c[j][1] < c[k][1] => j < k
  <2> TAKE j, k \in 1 .. n
  <2>1. c[j][1] \in Int /\ c[k][1] \in Int /\ (k < j => c[k][1] < c[j][1])
    BY <1>6, <1>2
  <2> QED
    BY <2>1
<1>8. \A k \in 1 .. n : k \in firsts <=> c[k] \in fields
  <2> SUFFICES ASSUME NEW k \in 1 .. n
               PROVE  k \in firsts <=> c[k] \in fields
    OBVIOUS
  <2>1. ASSUME k \in firsts, NEW g \in Fields(text), g[1] < c[k][1]
        PROVE  Name(text, g, separator) # Name(text, c[k], separator)
    <3>1. PICK j \in 1 .. n : c[j] = g
      BY <1>1
    <3>2. j < k
      BY <1>7, <2>1, <3>1
    <3> QED
      BY <1>3, <2>1, <3>1, <3>2
  <2>2. ASSUME c[k] \in fields, NEW j \in 1 .. n, j < k
        PROVE  pairs[j][1] # pairs[k][1]
    BY <1>3, <1>1, <1>2, <2>2
  <2> QED
    BY <1>1, <2>1, <2>2
<1>9. Meaning(text, separator) = {pair(f) : f \in fields}
  BY DEF Meaning
<1>10. \A k \in 1 .. n : pairs[k] = pair(c[k])
  OBVIOUS
<1>11. \A f \in fields : f \in Fields(text)
  OBVIOUS
<1> HIDE DEF firsts, fields, pair
<1>12. \A p : p \in {pairs[i] : i \in firsts} <=> p \in {pair(f) : f \in fields}
  <2> SUFFICES ASSUME NEW p
               PROVE  p \in {pairs[i] : i \in firsts} <=> p \in {pair(f) : f \in fields}
    OBVIOUS
  <2>1. firsts \subseteq 1 .. n
    BY DEF firsts
  <2>2. ASSUME NEW i \in firsts, p = pairs[i]
        PROVE  p \in {pair(f) : f \in fields}
    <3>1. c[i] \in fields /\ p = pair(c[i])
      BY <1>8, <1>10, <2>1, <2>2
    <3> QED
      BY <3>1
  <2>3. ASSUME NEW f \in fields, p = pair(f)
        PROVE  p \in {pairs[i] : i \in firsts}
    <3>1. PICK k \in 1 .. n : c[k] = f
      BY <1>11, <1>1
    <3>2. k \in firsts /\ p = pairs[k]
      BY <1>8, <1>10, <2>3, <3>1
    <3> QED
      BY <3>2
  <2> QED
    BY <2>2, <2>3
<1> QED
  BY <1>5, <1>9, <1>12

\* Where the first separator of a field is.
LEMMA MiddleIs ==
  ASSUME NEW A, NEW text \in Seq(A), NEW f \in Fields(text), NEW separator
  PROVE  LET m == Middle(text, f, separator)
         IN  /\ f \in Nat \X Nat /\ f[1] >= 1 /\ f[2] <= Len(text) /\ f[1] <= f[2] + 1
             /\ m \in f[1] .. f[2] + 1
             /\ m = f[2] + 1 \/ text[m] = separator
             /\ \A j \in f[1] .. m - 1 : text[j] # separator
<1>1. PICK a \in Nat, b \in Nat : f = <<a, b>> /\ a >= 1 /\ b <= Len(text) /\ a <= b + 1
  BY DEF Fields
<1> DEFINE T == {k \in a .. b + 1 : k = b + 1 \/ text[k] = separator}
<1>2. T \subseteq Nat /\ T # {}
  BY <1>1
<1>3. PICK x \in T : \A y \in T : x <= y
  <2> HIDE DEF T
  <2> QED
    BY <1>2, LeastOfNaturals
<1>4. /\ x \in a .. b + 1
      /\ x = b + 1 \/ text[x] = separator
      /\ \A j \in a .. x - 1 : text[j] # separator
  <2>1. x \in a .. b + 1 /\ (x = b + 1 \/ text[x] = separator)
    OBVIOUS
  <2>2. \A j \in a .. x - 1 : j \in a .. b + 1 /\ ~(x <= j)
    BY <2>1
  <2>3. \A j \in a .. x - 1 : j \notin T
    BY <1>3, <2>2
  <2> QED
    BY <2>1, <2>2, <2>3
<1> HIDE DEF T
<1> DEFINE Good(k) == /\ k = f[2] + 1 \/ text[k] = separator
                      /\ \A j \in f[1] .. k - 1 : text[j] # separator
<1>5. x \in f[1] .. f[2] + 1 /\ Good(x)
  BY <1>1, <1>4
<1>6. Middle(text, f, separator) = CHOOSE k \in f[1] .. f[2] + 1 : Good(k)
  BY DEF Middle
<1>7. Middle(text, f, separator) \in f[1] .. f[2] + 1 /\ Good(Middle(text, f, separator))
  <2> HIDE DEF Good
  <2> QED
    BY <1>5, <1>6, Zenon
<1>8. f \in Nat \X Nat /\ f[1] >= 1 /\ f[2] <= Len(text) /\ f[1] <= f[2] + 1
  BY <1>1
<1> QED
  BY <1>7, <1>8

\* A field, and what it is cut into at the separator.
IsCut(piece, text, f, separator) ==
  /\ Key(Split(piece, separator, 1)) = Name(text, f, separator)
  /\ Value(Split(piece, separator, 1)) = Rest(text, f, separator)
  /\ (\A i \in 1 .. Len(piece) : piece[i] # separator) =>
       Name(text, f, separator) = piece /\ Rest(text, f, separator) = <<>>

\* Split cuts a field where its first separator is.
LEMMA FieldIsCut ==
  ASSUME NEW A, NEW text \in Seq(A), NEW f \in Fields(text), NEW separator, NEW piece,
         piece = SubSeq(text, f[1], f[2])
  PROVE  piece \in Seq(A) /\ IsCut(piece, text, f, separator)
<1>1. PICK m : m = Middle(text, f, separator)
  OBVIOUS
<1>2. PICK a \in Nat, b \in Nat : f = <<a, b>>
  BY MiddleIs
<1>3. /\ a >= 1 /\ b <= Len(text) /\ a <= b + 1
      /\ m \in a .. b + 1
      /\ m = b + 1 \/ text[m] = separator
      /\ \A j \in a .. m - 1 : text[j] # separator
  <2>1. /\ f[1] >= 1 /\ f[2] <= Len(text) /\ f[1] <= f[2] + 1
        /\ m \in f[1] .. f[2] + 1
        /\ m = f[2] + 1 \/ text[m] = separator
        /\ \A j \in f[1] .. m - 1 : text[j] # separator
    BY <1>1, MiddleIs
  <2> QED
    BY <1>2, <2>1
<1>4. \A i \in a .. b : text[i] \in A
  BY <1>3
<1>5. piece \in Seq(A) /\ Len(piece) = b - a + 1 /\ \A i \in 1 .. b - a + 1 : piece[i] = text[a + i - 1]
  <2>1. piece = SubSeq(text, a, b)
    BY <1>2
  <2>2. /\ piece \in Seq(A) /\ Len(piece) = IF a <= b THEN b - a + 1 ELSE 0
        /\ \A i \in 1 .. b - a + 1 : piece[i] = text[a + i - 1]
    BY <1>4, <2>1, SubSeqProperties
  <2>3. (IF a <= b THEN b - a + 1 ELSE 0) = b - a + 1
    BY <1>3
  <2> QED
    BY <2>2, <2>3
<1>6. PICK l \in Nat : l = b - a + 1
  BY <1>3
<1>7. PICK k \in 1 .. l + 1 : k = m - a + 1
  BY <1>3, <1>6
<1>8. k = l + 1 \/ piece[k] = separator
  <2>1. CASE m = b + 1
    BY <1>6, <1>7, <2>1
  <2>2. CASE m # b + 1
    <3>1. k \in 1 .. b - a + 1 /\ a + k - 1 = m
      BY <1>3, <1>7, <2>2
    <3> QED
      BY <1>3, <1>5, <2>2, <3>1
  <2> QED
    BY <2>1, <2>2
<1>9. \A j \in 1 .. k - 1 : piece[j] # separator
  <2> TAKE j \in 1 .. k - 1
  <2>1. j \in 1 .. b - a + 1 /\ a + j - 1 \in a .. m - 1
    BY <1>3, <1>6, <1>7
  <2> QED
    BY <1>3, <1>5, <2>1
<1>10. /\ Key(Split(piece, separator, 1)) = SubSeq(piece, 1, k - 1)
       /\ Value(Split(piece, separator, 1)) = SubSeq(piece, k + 1, l)
  <2>1. piece \in Seq(A) /\ l = Len(piece)
    BY <1>5, <1>6
  <2>2. IsFirst(k, piece, l, separator)
    BY <1>8, <1>9 DEF IsFirst
  <2>3. SplitsAt(k, piece, l, separator)
    BY <2>1, <2>2, SplitOnce
  <2> QED
    BY <2>3 DEF SplitsAt
<1>11. Name(text, f, separator) = SubSeq(text, a, m - 1) /\ Rest(text, f, separator) = SubSeq(text, m + 1, b)
  BY <1>1, <1>2 DEF Name, Rest
<1>12. SubSeq(piece, 1, k - 1) = SubSeq(text, a, m - 1)
  <2>1. a \in 1 .. Len(text) + 1 /\ b \in a - 1 .. Len(text) /\ piece = SubSeq(text, a, b)
    BY <1>2, <1>3
  <2>2. 1 \in 1 .. b - a + 2 /\ k - 1 \in 1 - 1 .. b - a + 1
    BY <1>3, <1>6
  <2>3. SubSeq(piece, 1, k - 1) = SubSeq(text, a + 1 - 1, a + (k - 1) - 1)
    BY <2>1, <2>2, PartOfPart
  <2>4. a + 1 - 1 = a /\ a + (k - 1) - 1 = m - 1
    BY <1>3, <1>7
  <2> QED
    BY <2>3, <2>4
<1>13. SubSeq(piece, k + 1, l) = SubSeq(text, m + 1, b)
  <2>1. a \in 1 .. Len(text) + 1 /\ b \in a - 1 .. Len(text) /\ piece = SubSeq(text, a, b)
    BY <1>2, <1>3
  <2>2. CASE k <= l
    <3>1. k + 1 \in 1 .. b - a + 2 /\ l \in (k + 1) - 1 .. b - a + 1
      BY <1>3, <1>6, <2>2
    <3>2. SubSeq(piece, k + 1, l) = SubSeq(text, a + (k + 1) - 1, a + l - 1)
      BY <2>1, <3>1, PartOfPart
    <3>3. a + (k + 1) - 1 = m + 1 /\ a + l - 1 = b
      BY <1>3, <1>6, <1>7
    <3> QED
      BY <3>2, <3>3
  <2>3. CASE ~(k <= l)
    <3>1. l < k + 1 /\ b < m + 1 /\ k + 1 \in Int /\ m + 1 \in Int /\ b \in Int /\ l \in Int
      BY <1>3, <1>6, <1>7, <2>3
    <3>2. SubSeq(piece, k + 1, l) = <<>>
      BY <3>1, SubSeqEmpty
    <3>3. SubSeq(text, m + 1, b) = <<>>
      BY <3>1, SubSeqEmpty
    <3> QED
      BY <3>2, <3>3
  <2> QED
    BY <2>2, <2>3
<1>14. ASSUME \A i \in 1 .. Len(piece) : piece[i] # separator
       PROVE  Name(text, f, separator) = piece /\ Rest(text, f, separator) = <<>>
  <2>1. k = l + 1
    <3> SUFFICES ASSUME k # l + 1 PROVE FALSE
      OBVIOUS
    <3>1. k \in 1 .. Len(piece)
      BY <1>5, <1>6
    <3> QED
      BY <1>8, <1>14, <3>1
  <2>2. m = b + 1
    BY <1>3, <1>6, <1>7, <2>1
  <2>3. SubSeq(text, m + 1, b) = <<>>
    <3>1. b < m + 1 /\ m + 1 \in Int /\ b \in Int
      BY <2>2
    <3> QED
      BY <3>1, SubSeqEmpty
  <2>4. m - 1 = b
    BY <2>2
  <2> QED
    BY <1>2, <1>11, <2>3, <2>4
<1> QED
  BY <1>5, <1>10, <1>11, <1>12, <1>13, <1>14 DEF IsCut

\* A piece is read as the pair that the field means (ParamPair, HeaderPair).
LEMMA ParamPairIs ==
  ASSUME NEW A, "=" \in A, NEW text \in Seq(A), NEW f \in Fields(text)
  PROVE  ParamPair(SubSeq(text, f[1], f[2])) = <<Name(text, f, "="), Rest(text, f, "=")>>
<1>1. PICK piece : piece = SubSeq(text, f[1], f[2])
  OBVIOUS
<1>0. piece \in Seq(A) /\ IsCut(piece, text, f, "=")
  BY <1>1, FieldIsCut
<1>2. /\ piece \in Seq(A)
      /\ Key(Split(piece, "=", 1)) = Name(text, f, "=")
      /\ Value(Split(piece, "=", 1)) = Rest(text, f, "=")
      /\ (\A i \in 1 .. Len(piece) : piece[i] # "=") =>
           Name(text, f, "=") = piece /\ Rest(text, f, "=") = <<>>
  BY <1>0 DEF IsCut
<1>3. CASE Contains(piece, "=")
  BY <1>1, <1>2, <1>3 DEF ParamPair
<1>4. CASE ~Contains(piece, "=")
  <2>1. \A i \in 1 .. Len(piece) : piece[i] # "="
    BY <1>4 DEF Contains
  <2>2. PICK longer : longer = Append(piece, "=")
    OBVIOUS
  <2>3. PICK l \in Nat : l = Len(piece)
    BY <1>2
  <2>4. /\ longer \in Seq(A) /\ Len(longer) = l + 1
        /\ \A i \in 1 .. l : longer[i] = piece[i]
        /\ longer[l + 1] = "="
    BY <1>2, <2>2, <2>3, AppendProperties
  <2>5. l + 1 \in 1 .. (l + 1) + 1 /\ \A j \in 1 .. (l + 1) - 1 : longer[j] # "="
    BY <2>1, <2>3, <2>4
  <2>6. /\ Key(Split(longer, "=", 1)) = SubSeq(longer, 1, (l + 1) - 1)
        /\ Value(Split(longer, "=", 1)) = SubSeq(longer, (l + 1) + 1, l + 1)
    <3>1. l + 1 \in Nat /\ IsFirst(l + 1, longer, l + 1, "=")
      BY <2>4, <2>5 DEF IsFirst
    <3> QED
      BY <2>4, <3>1, SplitOnce DEF SplitsAt
  <2>7. SubSeq(longer, (l + 1) + 1, l + 1) = <<>>
    BY SubSeqEmpty
  <2>8. SubSeq(longer, 1, l) = piece
    <3>1. PICK p : p = SubSeq(longer, 1, l)
      OBVIOUS
    <3>2. \A i \in 1 .. l : longer[i] \in A
      BY <2>4
    <3>3. p \in Seq(A) /\ Len(p) = l /\ \A i \in 1 .. l : p[i] = longer[i]
      BY <2>4, <3>1, <3>2
    <3>4. p = piece
      BY <1>2, <2>3, <2>4, <3>3, SeqEqual
    <3> QED
      BY <3>1, <3>4
  <2>9. ParamPair(piece) = <<Key(Split(longer, "=", 1)), Value(Split(longer, "=", 1))>>
    BY <1>4, <2>2 DEF ParamPair
  <2>10. (l + 1) - 1 = l
    OBVIOUS
  <2> QED
    BY <1>1, <1>2, <2>1, <2>6, <2>7, <2>8, <2>9, <2>10
<1> QED
  BY <1>3, <1>4

LEMMA HeaderPairIs ==
  ASSUME NEW A, NEW text \in Seq(A), NEW f \in Fields(text)
  PROVE  HeaderPair(SubSeq(text, f[1], f[2])) = <<ToLower(Name(text, f, ":")), Rest(text, f, ":")>>
<1>1. PICK piece : piece = SubSeq(text, f[1], f[2])
  OBVIOUS
<1>2. IsCut(piece, text, f, ":")
  BY <1>1, FieldIsCut
<1> QED
  BY <1>1, <1>2 DEF IsCut, HeaderPair

\* What ParseParams reads is what the text means, for every text: "=" inside a
\* value, a name without one, a name twice, nothing between two semicolons.
THEOREM ParamsMean ==
  ASSUME NEW A, "=" \in A, NEW text \in Seq(A)
  PROVE  Pairs(ParseParams(text)) = Meaning(text, "=")
<1>1. CASE text = <<>>
  <2>1. Meaning(text, "=") = {} /\ ParseParams(text) = EmptyMap
    BY <1>1, Zenon DEF Meaning, ParseParams
  <2>2. DOMAIN EmptyMap = {}
    BY DEF EmptyMap
  <2>3. Pairs(EmptyMap) = {}
    BY <2>2 DEF Pairs
  <2> QED
    BY <2>1, <2>3
<1>2. CASE text # <<>>
  <2>0. PICK n \in Nat : \E c :
          /\ FieldsInOrder(c, n, text)
          /\ SplitAtAll(text, Semicolon) = [k \in 1 .. n |-> SubSeq(text, c[k][1], c[k][2])]
    BY FieldsArePieces
  <2>1. PICK c :
          /\ FieldsInOrder(c, n, text)
          /\ SplitAtAll(text, Semicolon) = [k \in 1 .. n |-> SubSeq(text, c[k][1], c[k][2])]
    BY <2>0
  <2> DEFINE pieces == SplitAtAll(text, Semicolon)
             pairs == [k \in DOMAIN pieces |-> ParamPair(pieces[k])]
  <2>2. DOMAIN pieces = 1 .. n /\ \A k \in 1 .. n : pieces[k] = SubSeq(text, c[k][1], c[k][2])
    BY <2>1
  <2>3. ParseParams(text) = Dictionary(pairs)
    BY <1>2 DEF ParseParams
  <2> HIDE DEF pieces
  <2>4. DOMAIN pairs = 1 .. n /\ \A k \in 1 .. n : pairs[k] = ParamPair(pieces[k])
    BY <2>2
  <2> HIDE DEF pairs
  <2>5. \A k \in 1 .. n : pairs[k] = <<Name(text, c[k], "="), Rest(text, c[k], "=")>>
    <3> TAKE k \in 1 .. n
    <3>1. c[k] \in Fields(text)
      BY <2>1 DEF FieldsInOrder
    <3>2. ParamPair(SubSeq(text, c[k][1], c[k][2])) = <<Name(text, c[k], "="), Rest(text, c[k], "=")>>
      BY <3>1, ParamPairIs
    <3> QED
      BY <2>2, <2>4, <3>2
  <2>6. Dictionary(pairs) = FirstOnes(pairs, 1 .. n)
    BY <2>4, DictionaryIs
  <2>7. Pairs(FirstOnes(pairs, 1 .. n)) = Meaning(text, "=")
    BY <1>2, <2>1, <2>5, MeaningIs
  <2> QED
    BY <2>3, <2>6, <2>7
<1> QED
  BY <1>1, <1>2

\* Texts that agree from m to n have the same part there.
LEMMA SameParts ==
  ASSUME NEW A, NEW s, NEW u, NEW m \in Int, NEW n \in Int,
         \A i \in m .. n : s[i] \in A /\ u[i] = s[i]
  PROVE  SubSeq(s, m, n) = SubSeq(u, m, n)
<1>1. PICK p : p = SubSeq(s, m, n)
  OBVIOUS
<1>2. PICK q : q = SubSeq(u, m, n)
  OBVIOUS
<1>3. p \in Seq(A) /\ Len(p) = (IF m <= n THEN n - m + 1 ELSE 0) /\ \A i \in 1 .. n - m + 1 : p[i] = s[m + i - 1]
  <2>1. \A i \in m .. n : s[i] \in A
    OBVIOUS
  <2> QED
    BY <1>1, <2>1, SubSeqProperties
<1>4. q \in Seq(A) /\ Len(q) = (IF m <= n THEN n - m + 1 ELSE 0) /\ \A i \in 1 .. n - m + 1 : q[i] = u[m + i - 1]
  <2>1. \A i \in m .. n : u[i] \in A
    OBVIOUS
  <2> QED
    BY <1>2, <2>1, SubSeqProperties
<1>5. \A i \in 1 .. Len(p) : p[i] = q[i]
  <2> TAKE i \in 1 .. Len(p)
  <2>1. i \in 1 .. n - m + 1 /\ m + i - 1 \in m .. n
    BY <1>3
  <2> QED
    BY <1>3, <1>4, <2>1
<1>6. p = q
  BY <1>3, <1>4, <1>5, SeqEqual
<1> QED
  BY <1>1, <1>2, <1>6

\* No two fields overlap.
LEMMA FieldsApart ==
  ASSUME NEW text, Len(text) \in Nat, NEW f \in Fields(text), NEW g \in Fields(text),
         NEW k \in f[1] .. f[2], k \in g[1] .. g[2]
  PROVE  f = g
<1>1. PICK l \in Nat : l = Len(text)
  OBVIOUS
<1>2. PICK a \in Nat, b \in Nat : f = <<a, b>>
  BY DEF Fields
<1>3. PICK c \in Nat, d \in Nat : g = <<c, d>>
  BY DEF Fields
<1>4. /\ \A i \in a .. b : text[i] # Semicolon
      /\ a > 1 => text[a - 1] = Semicolon
      /\ b < l => text[b + 1] = Semicolon
      /\ a \in 1 .. l + 1 /\ b \in 0 .. l
  BY <1>1, <1>2 DEF Fields
<1>5. /\ \A i \in c .. d : text[i] # Semicolon
      /\ c > 1 => text[c - 1] = Semicolon
      /\ d < l => text[d + 1] = Semicolon
      /\ c \in 1 .. l + 1 /\ d \in 0 .. l
  BY <1>1, <1>3 DEF Fields
<1>6. k \in a .. b /\ k \in c .. d
  BY <1>2, <1>3
<1>7. ~(a < c) /\ ~(c < a)
  <2>1. a < c => c - 1 \in a .. b /\ c > 1
    BY <1>4, <1>6
  <2>2. c < a => a - 1 \in c .. d /\ a > 1
    BY <1>5, <1>6
  <2> QED
    BY <1>4, <1>5, <2>1, <2>2
<1>8. ~(b < d) /\ ~(d < b)
  <2>1. b < d => b + 1 \in c .. d /\ b < l
    BY <1>5, <1>6
  <2>2. d < b => d + 1 \in a .. b /\ d < l
    BY <1>4, <1>6
  <2> QED
    BY <1>4, <1>5, <2>1, <2>2
<1>9. a = c /\ b = d
  BY <1>7, <1>8
<1> QED
  BY <1>2, <1>3, <1>9

\* Lower case (ToLower).
LEMMA LowerIs ==
  ASSUME NEW A, "a" \in A, NEW text \in Seq(A)
  PROVE  /\ ToLower(text) \in Seq(A) /\ Len(ToLower(text)) = Len(text)
         /\ \A k \in 1 .. Len(text) : ToLower(text)[k] = IF text[k] = "A" THEN "a" ELSE text[k]
<1>1. PICK l \in Nat : l = Len(text) /\ DOMAIN text = 1 .. l /\ text \in [1 .. l -> A]
  OBVIOUS
<1>2. ToLower(text) = [k \in 1 .. l |-> IF text[k] = "A" THEN "a" ELSE text[k]]
  BY <1>1 DEF ToLower
<1> QED
  BY <1>1, <1>2

LEMMA SemicolonIsNoLetter == Semicolon # "a" /\ Semicolon # "A" /\ Semicolon # ":"
BY Zenon DEF Semicolon

\* Lower case changes neither the fields nor where they are cut.
LEMMA LowerNamesAre ==
  ASSUME NEW A, "a" \in A, NEW text \in Seq(A), NEW low, low = ToLowerNames(text)
  PROVE  /\ low \in Seq(A) /\ Len(low) = Len(text)
         /\ Fields(low) = Fields(text)
         /\ \A f \in Fields(text) : /\ Name(low, f, ":") = ToLower(Name(text, f, ":"))
                                    /\ Rest(low, f, ":") = Rest(text, f, ":")
<1>1. PICK l \in Nat : l = Len(text) /\ DOMAIN text = 1 .. l /\ text \in [1 .. l -> A]
  OBVIOUS
<1> DEFINE In(k) == \E f \in Fields(text) : k \in f[1] .. Middle(text, f, ":") - 1
<1>2. low = [k \in 1 .. l |-> IF In(k) THEN ToLower(text)[k] ELSE text[k]]
  BY <1>1 DEF ToLowerNames
<1> HIDE DEF In
<1>3. \A k \in 1 .. l : /\ ToLower(text)[k] = (IF text[k] = "A" THEN "a" ELSE text[k])
                        /\ ToLower(text)[k] \in A
  <2>1. \A k \in 1 .. l : ToLower(text)[k] = IF text[k] = "A" THEN "a" ELSE text[k]
    BY <1>1, LowerIs
  <2> QED
    BY <1>1, <2>1
<1>4. low \in Seq(A) /\ Len(low) = l
  BY <1>1, <1>2, <1>3
<1>5. \A k \in 1 .. l : low[k] = (IF In(k) THEN ToLower(text)[k] ELSE text[k])
  BY <1>2
<1>6. \A k \in 1 .. l : (low[k] = Semicolon <=> text[k] = Semicolon) /\ (low[k] = ":" <=> text[k] = ":")
  BY <1>3, <1>5, SemicolonIsNoLetter
<1>7. Fields(low) = Fields(text)
  <2> DEFINE all == (1 .. l + 1) \X (0 .. l)
             IsField(s, f) == /\ f[1] <= f[2] + 1
                              /\ \A k \in f[1] .. f[2] : s[k] # Semicolon
                              /\ f[1] > 1 => s[f[1] - 1] = Semicolon
                              /\ f[2] < l => s[f[2] + 1] = Semicolon
  <2>1. Fields(low) = {f \in all : IsField(low, f)} /\ Fields(text) = {f \in all : IsField(text, f)}
    BY <1>1, <1>4 DEF Fields
  <2>2. \A f \in all : IsField(low, f) <=> IsField(text, f)
    <3> SUFFICES ASSUME NEW f \in all
                 PROVE  IsField(low, f) <=> IsField(text, f)
      OBVIOUS
    <3>0. PICK a \in 1 .. l + 1, b \in 0 .. l : a = f[1] /\ b = f[2]
      OBVIOUS
    <3>1. \A k \in a .. b : k \in 1 .. l
      OBVIOUS
    <3>2. (a > 1 => a - 1 \in 1 .. l) /\ (b < l => b + 1 \in 1 .. l)
      OBVIOUS
    <3> QED
      BY <1>6, <3>0, <3>1, <3>2
  <2> HIDE DEF all, IsField
  <2> QED
    BY <2>1, <2>2
<1>8. ASSUME NEW f \in Fields(text)
      PROVE  /\ Name(low, f, ":") = ToLower(Name(text, f, ":"))
             /\ Rest(low, f, ":") = Rest(text, f, ":")
  <2>1. PICK m : m = Middle(text, f, ":")
    OBVIOUS
  <2>2. PICK h : h = Middle(low, f, ":")
    OBVIOUS
  <2>3. PICK a \in Nat, b \in Nat : f = <<a, b>>
    BY MiddleIs
  <2>4. /\ a >= 1 /\ b <= l /\ a <= b + 1
        /\ m \in a .. b + 1
        /\ m = b + 1 \/ text[m] = ":"
        /\ \A j \in a .. m - 1 : text[j] # ":"
    <3>1. /\ f[1] >= 1 /\ f[2] <= l /\ f[1] <= f[2] + 1
          /\ m \in f[1] .. f[2] + 1
          /\ m = f[2] + 1 \/ text[m] = ":"
          /\ \A j \in f[1] .. m - 1 : text[j] # ":"
      BY <1>1, <2>1, MiddleIs
    <3> QED
      BY <2>3, <3>1
  <2>5. /\ h \in a .. b + 1
        /\ h = b + 1 \/ low[h] = ":"
        /\ \A j \in a .. h - 1 : low[j] # ":"
    <3>1. f \in Fields(low)
      BY <1>7
    <3>2. /\ h \in f[1] .. f[2] + 1
          /\ h = f[2] + 1 \/ low[h] = ":"
          /\ \A j \in f[1] .. h - 1 : low[j] # ":"
      BY <1>4, <2>2, <3>1, MiddleIs
    <3> QED
      BY <2>3, <3>2
  <2>6. h = m
    <3>1. ~(h < m)
      <4> SUFFICES ASSUME h < m PROVE FALSE
        OBVIOUS
      <4>1. h \in a .. m - 1 /\ h \in 1 .. l /\ h # b + 1
        BY <2>4, <2>5
      <4> QED
        BY <1>6, <2>4, <2>5, <4>1
    <3>2. ~(m < h)
      <4> SUFFICES ASSUME m < h PROVE FALSE
        OBVIOUS
      <4>1. m \in a .. h - 1 /\ m \in 1 .. l /\ m # b + 1
        BY <2>4, <2>5
      <4> QED
        BY <1>6, <2>4, <2>5, <4>1
    <3> QED
      BY <2>4, <2>5, <3>1, <3>2
  <2>7. \A k \in a .. m - 1 : k \in 1 .. l /\ low[k] = (IF text[k] = "A" THEN "a" ELSE text[k]) /\ low[k] \in A /\ text[k] \in A
    <3> TAKE k \in a .. m - 1
    <3>1. k \in 1 .. l
      BY <2>4
    <3>2. In(k)
      BY <2>1, <2>3 DEF In
    <3> QED
      BY <1>1, <1>3, <1>5, <3>1, <3>2
  <2>8. \A k \in m + 1 .. b : low[k] \in A /\ text[k] = low[k]
    <3> TAKE k \in m + 1 .. b
    <3>1. k \in 1 .. l /\ k \in a .. b
      BY <2>4
    <3>2. ~In(k)
      <4> SUFFICES ASSUME NEW g \in Fields(text), k \in g[1] .. Middle(text, g, ":") - 1
                   PROVE  FALSE
        BY DEF In
      <4>1. PICK n : n = Middle(text, g, ":")
        OBVIOUS
      <4>2. g \in Nat \X Nat /\ n \in g[1] .. g[2] + 1
        BY <4>1, MiddleIs
      <4>3. k \in g[1] .. g[2]
        BY <4>1, <4>2
      <4>4. k \in f[1] .. f[2]
        BY <2>3, <3>1
      <4>5. f = g
        BY <1>1, <4>3, <4>4, FieldsApart
      <4>6. k <= m - 1
        BY <2>1, <4>5
      <4> QED
        BY <2>4, <4>6
    <3> QED
      BY <1>1, <1>5, <3>1, <3>2
  <2>9. Rest(low, f, ":") = SubSeq(low, m + 1, b) /\ Rest(text, f, ":") = SubSeq(text, m + 1, b)
    BY <2>1, <2>2, <2>3, <2>6 DEF Rest
  <2>10. SubSeq(low, m + 1, b) = SubSeq(text, m + 1, b)
    <3>1. m + 1 \in Int /\ b \in Int
      BY <2>4
    <3> QED
      BY <2>8, <3>1, SameParts
  <2>11. Name(low, f, ":") = SubSeq(low, a, m - 1) /\ Name(text, f, ":") = SubSeq(text, a, m - 1)
    BY <2>1, <2>2, <2>3, <2>6 DEF Name
  <2>12. PICK p : p = SubSeq(low, a, m - 1)
    OBVIOUS
  <2>13. PICK q : q = SubSeq(text, a, m - 1)
    OBVIOUS
  <2>14. a \in Int /\ m - 1 \in Int /\ (IF a <= m - 1 THEN (m - 1) - a + 1 ELSE 0) = m - a /\ (m - 1) - a + 1 = m - a
    BY <2>4
  <2>15. p \in Seq(A) /\ Len(p) = m - a /\ \A i \in 1 .. m - a : p[i] = low[a + i - 1]
    <3>1. /\ p \in Seq(A) /\ Len(p) = (IF a <= m - 1 THEN (m - 1) - a + 1 ELSE 0)
          /\ \A i \in 1 .. (m - 1) - a + 1 : p[i] = low[a + i - 1]
      BY <2>7, <2>12, <2>14, SubSeqProperties
    <3> QED
      BY <2>14, <3>1
  <2>16. q \in Seq(A) /\ Len(q) = m - a /\ \A i \in 1 .. m - a : q[i] = text[a + i - 1]
    <3>1. /\ q \in Seq(A) /\ Len(q) = (IF a <= m - 1 THEN (m - 1) - a + 1 ELSE 0)
          /\ \A i \in 1 .. (m - 1) - a + 1 : q[i] = text[a + i - 1]
      BY <2>7, <2>13, <2>14, SubSeqProperties
    <3> QED
      BY <2>14, <3>1
  <2>17. PICK r : r = ToLower(q)
    OBVIOUS
  <2>18. r \in Seq(A) /\ Len(r) = m - a /\ \A i \in 1 .. m - a : r[i] = (IF q[i] = "A" THEN "a" ELSE q[i])
    BY <2>16, <2>17, LowerIs
  <2>19. \A i \in 1 .. m - a : p[i] = r[i]
    <3> TAKE i \in 1 .. m - a
    <3>1. a + i - 1 \in a .. m - 1
      BY <2>4
    <3> QED
      BY <2>7, <2>15, <2>16, <2>18, <3>1
  <2>20. p = r
    BY <2>15, <2>18, <2>19, SeqEqual
  <2> QED
    BY <2>9, <2>10, <2>11, <2>12, <2>13, <2>17, <2>20
<1> QED
  BY <1>1, <1>4, <1>7, <1>8

\* What ParseHeaders reads is what the text means, its names in lower case, for
\* every text.
THEOREM HeadersMean ==
  ASSUME NEW A, "a" \in A, NEW text \in Seq(A)
  PROVE  Pairs(ParseHeaders(text)) = Meaning(ToLowerNames(text), ":")
<1>1. PICK low : low = ToLowerNames(text)
  OBVIOUS
<1>2. low \in Seq(A) /\ Len(low) = Len(text) /\ Fields(low) = Fields(text)
  BY <1>1, LowerNamesAre
<1>3. \A f \in Fields(text) : /\ Name(low, f, ":") = ToLower(Name(text, f, ":"))
                              /\ Rest(low, f, ":") = Rest(text, f, ":")
  BY <1>1, LowerNamesAre
<1>4. low = <<>> <=> text = <<>>
  <2>1. \A s \in Seq(A) : s = <<>> <=> Len(s) = 0
    BY EmptySeq
  <2> QED
    BY <1>2, <2>1
<1>5. CASE text = <<>>
  <2>1. Meaning(low, ":") = {} /\ ParseHeaders(text) = EmptyMap
    BY <1>4, <1>5, Zenon DEF Meaning, ParseHeaders
  <2>2. DOMAIN EmptyMap = {}
    BY DEF EmptyMap
  <2>3. Pairs(EmptyMap) = {}
    BY <2>2 DEF Pairs
  <2> QED
    BY <1>1, <2>1, <2>3
<1>6. CASE text # <<>>
  <2>0. PICK n \in Nat : \E c :
          /\ FieldsInOrder(c, n, text)
          /\ SplitAtAll(text, Semicolon) = [k \in 1 .. n |-> SubSeq(text, c[k][1], c[k][2])]
    BY FieldsArePieces
  <2>1. PICK c :
          /\ FieldsInOrder(c, n, text)
          /\ SplitAtAll(text, Semicolon) = [k \in 1 .. n |-> SubSeq(text, c[k][1], c[k][2])]
    BY <2>0
  <2> DEFINE pieces == SplitAtAll(text, Semicolon)
             pairs == [k \in DOMAIN pieces |-> HeaderPair(pieces[k])]
  <2>2. DOMAIN pieces = 1 .. n /\ \A k \in 1 .. n : pieces[k] = SubSeq(text, c[k][1], c[k][2])
    BY <2>1
  <2>3. ParseHeaders(text) = Dictionary(pairs)
    BY <1>6 DEF ParseHeaders
  <2> HIDE DEF pieces
  <2>4. DOMAIN pairs = 1 .. n /\ \A k \in 1 .. n : pairs[k] = HeaderPair(pieces[k])
    BY <2>2
  <2> HIDE DEF pairs
  <2>5. \A k \in 1 .. n : pairs[k] = <<Name(low, c[k], ":"), Rest(low, c[k], ":")>>
    <3> TAKE k \in 1 .. n
    <3>1. c[k] \in Fields(text)
      BY <2>1 DEF FieldsInOrder
    <3>2. HeaderPair(SubSeq(text, c[k][1], c[k][2])) = <<ToLower(Name(text, c[k], ":")), Rest(text, c[k], ":")>>
      BY <3>1, HeaderPairIs
    <3> QED
      BY <1>3, <2>2, <2>4, <3>1, <3>2
  <2>6. Dictionary(pairs) = FirstOnes(pairs, 1 .. n)
    BY <2>4, DictionaryIs
  <2>7. Pairs(FirstOnes(pairs, 1 .. n)) = Meaning(low, ":")
    <3>1. FieldsInOrder(c, n, low) /\ low # <<>>
      BY <1>2, <1>4, <1>6, <2>1 DEF FieldsInOrder
    <3> QED
      BY <2>5, <3>1, MeaningIs
  <2> QED
    BY <1>1, <2>3, <2>6, <2>7
<1> QED
  BY <1>5, <1>6

-------------------------------------------------------------------------------
\* Writing (UrlEncode, UrlEncodeMap), and reading it back.

\* The characters that are escaped, and what with (Escape).
LEMMA CharactersDiffer ==
  /\ Space # "%" /\ Space # "/" /\ Space # ":" /\ Space # "=" /\ Space # Semicolon
  /\ Semicolon # "%" /\ Semicolon # "/" /\ Semicolon # ":" /\ Semicolon # "="
BY Zenon DEF Space, Semicolon

LEMMA AlphabetHolds ==
  /\ Space \in Alphabet /\ Semicolon \in Alphabet
  /\ {"%", "/", "0", "1", "2", "3", "5", ":", "=", "A", "B", "D", "F", "a"} \subseteq Alphabet
<1>1. \A k \in 1 .. 29 : Tokens[k] \in Alphabet
  BY DEF Alphabet, ToSet, Tokens
<1>2. /\ Tokens[1] = Space /\ Tokens[2] = "%" /\ Tokens[4] = "/" /\ Tokens[5] = "0"
      /\ Tokens[6] = "1" /\ Tokens[7] = "2" /\ Tokens[8] = "3" /\ Tokens[9] = "5"
      /\ Tokens[10] = ":" /\ Tokens[11] = Semicolon /\ Tokens[12] = "=" /\ Tokens[13] = "A"
      /\ Tokens[14] = "B" /\ Tokens[15] = "D" /\ Tokens[16] = "F" /\ Tokens[22] = "a"
  BY DEF Tokens
<1> QED
  BY <1>1, <1>2

LEMMA EscapeIs ==
  /\ DOMAIN Escape = {Space, "%", "/", ":", Semicolon, "="}
  /\ Escape[Space] = <<"%", "2", "0">> /\ Escape["%"] = <<"%", "2", "5">>
  /\ Escape["/"] = <<"%", "2", "F">> /\ Escape[":"] = <<"%", "3", "A">>
  /\ Escape[Semicolon] = <<"%", "3", "B">> /\ Escape["="] = <<"%", "3", "D">>
BY CharactersDiffer DEF Escape

\* An escape tells which character it stands for.
LEMMA EscapeTells ==
  /\ DOMAIN Escape \subseteq Alphabet
  /\ \A c \in DOMAIN Escape :
       /\ Escape[c] \in Seq(Alphabet) /\ Len(Escape[c]) = 3
       /\ Escape[c][1] = "%" /\ Escape[c][2] # "%" /\ Escape[c][3] # "%"
  /\ \A c, d \in DOMAIN Escape : Escape[c] = Escape[d] => c = d
<1>1. DOMAIN Escape \subseteq Alphabet
  BY AlphabetHolds, EscapeIs
<1>2. \A x, y, z \in Alphabet : <<x, y, z>> \in Seq(Alphabet) /\ Len(<<x, y, z>>) = 3
  OBVIOUS
<1>3. ASSUME NEW c \in DOMAIN Escape
      PROVE  \E y, z \in Alphabet : Escape[c] = <<"%", y, z>> /\ y # "%" /\ z # "%"
  BY AlphabetHolds, EscapeIs
<1>4. \A c \in DOMAIN Escape :
       /\ Escape[c] \in Seq(Alphabet) /\ Len(Escape[c]) = 3
       /\ Escape[c][1] = "%" /\ Escape[c][2] # "%" /\ Escape[c][3] # "%"
  <2> TAKE c \in DOMAIN Escape
  <2>1. PICK y \in Alphabet, z \in Alphabet : Escape[c] = <<"%", y, z>> /\ y # "%" /\ z # "%"
    BY <1>3
  <2> QED
    BY <1>2, <2>1, AlphabetHolds
<1>5. \A c, d \in DOMAIN Escape : Escape[c][3] = Escape[d][3] => c = d
  <2>1. /\ Escape[Space][3] = "0" /\ Escape["%"][3] = "5" /\ Escape["/"][3] = "F"
        /\ Escape[":"][3] = "A" /\ Escape[Semicolon][3] = "B" /\ Escape["="][3] = "D"
    BY EscapeIs
  <2>2. DOMAIN Escape = {Space, "%", "/", ":", Semicolon, "="}
    BY EscapeIs
  <2> QED
    BY <2>1, <2>2
<1> QED
  BY <1>1, <1>4, <1>5

LEMMA EscapedIs ==
  ASSUME NEW c \in Alphabet
  PROVE  /\ Escaped(c) \in Seq(Alphabet)
         /\ c \in DOMAIN Escape => Escaped(c) = Escape[c]
         /\ c \notin DOMAIN Escape => Escaped(c) = <<c>>
BY EscapeTells DEF Escaped

\* e[k] is what the first k tokens of a text are encoded to.
Written(e, text, n) ==
  /\ e \in [0 .. n -> Seq(Alphabet)]
  /\ e[0] = <<>>
  /\ \A k \in 1 .. n : e[k] = e[k - 1] \o Escaped(text[k])

\* What UrlEncode writes is the last of them.
LEMMA EncodeRuns ==
  ASSUME NEW text \in Seq(Alphabet), NEW n \in Nat, n = Len(text)
  PROVE  \E e : Written(e, text, n) /\ UrlEncode(text) = e[n]
<1> DEFINE seqs == [k \in DOMAIN text |-> Escaped(text[k])]
<1>1. DOMAIN text = 1 .. n /\ \A k \in 1 .. n : text[k] \in Alphabet
  OBVIOUS
<1>2. seqs \in [1 .. n -> Seq(Alphabet)] /\ \A k \in 1 .. n : seqs[k] = Escaped(text[k])
  BY <1>1, EscapedIs
<1>3. UrlEncode(text) = FlattenSeq(seqs)
  BY DEF UrlEncode
<1> HIDE DEF seqs
<1>4. seqs \in Seq(Seq(Alphabet)) /\ Len(seqs) = n
  BY <1>2
<1>5. PICK e \in [0 .. Len(seqs) -> Seq(Alphabet)] :
        /\ e[0] = <<>>
        /\ \A k \in 1 .. Len(seqs) : e[k] = e[k - 1] \o seqs[k]
        /\ FlattenSeq(seqs) = e[Len(seqs)]
  BY <1>4, FlattenRuns
<1>6. \A k \in 1 .. n : e[k] = e[k - 1] \o Escaped(text[k])
  BY <1>2, <1>4, <1>5
<1>7. Written(e, text, n)
  BY <1>4, <1>5, <1>6 DEF Written
<1> QED
  BY <1>3, <1>4, <1>5, <1>7

\* What is written stays.
LEMMA WrittenStays ==
  ASSUME NEW n \in Nat, NEW text \in Seq(Alphabet), n = Len(text), NEW e, Written(e, text, n), NEW k \in 0 .. n
  PROVE  /\ Len(e[k]) <= Len(e[n])
         /\ \A i \in 1 .. Len(e[k]) : e[n][i] = e[k][i]
<1>1. \A j \in 0 .. n : e[j] \in Seq(Alphabet) /\ Len(e[j]) \in Nat
  BY DEF Written
<1>2. \A j \in 1 .. n : e[j] = e[j - 1] \o Escaped(text[j])
  BY DEF Written
<1> DEFINE T == {j \in k .. n : Len(e[k]) <= Len(e[j]) /\ \A i \in 1 .. Len(e[k]) : e[j][i] = e[k][i]}
<1>3. k \in T
  BY <1>1
<1>4. ASSUME NEW j \in k .. n - 1, j \in T
      PROVE  j + 1 \in T
  <2>1. j + 1 \in k .. n /\ j + 1 \in 1 .. n /\ (j + 1) - 1 = j /\ j \in 0 .. n
    OBVIOUS
  <2>2. PICK c : c = Escaped(text[j + 1])
    OBVIOUS
  <2>3. c \in Seq(Alphabet)
    <3>1. text[j + 1] \in Alphabet
      BY <2>1
    <3> QED
      BY <2>2, <3>1, EscapedIs
  <2>4. e[j + 1] = e[j] \o c
    BY <1>2, <2>1, <2>2
  <2>5. /\ Len(e[j + 1]) = Len(e[j]) + Len(c)
        /\ \A i \in 1 .. Len(e[j]) + Len(c) : e[j + 1][i] = IF i <= Len(e[j]) THEN e[j][i] ELSE c[i - Len(e[j])]
    BY <1>1, <2>1, <2>3, <2>4, ConcatProperties
  <2>6. Len(e[j]) \in Nat /\ Len(c) \in Nat /\ Len(e[k]) \in Nat
    BY <1>1, <2>1, <2>3
  <2>7. Len(e[k]) <= Len(e[j]) /\ \A i \in 1 .. Len(e[k]) : e[j][i] = e[k][i]
    BY <1>4
  <2>8. Len(e[k]) <= Len(e[j + 1])
    BY <2>5, <2>6, <2>7
  <2>9. ASSUME NEW i \in 1 .. Len(e[k])
        PROVE  e[j + 1][i] = e[k][i]
    <3>1. i \in 1 .. Len(e[j]) + Len(c) /\ i <= Len(e[j])
      BY <2>6, <2>7
    <3>2. e[j + 1][i] = e[j][i]
      BY <2>5, <3>1
    <3> QED
      BY <2>7, <3>2
  <2> QED
    BY <2>1, <2>8, <2>9
<1>5. n \in T
  <2> HIDE DEF T
  <2>1. k .. n \subseteq T
    BY <1>3, <1>4, TurnByTurn
  <2> QED
    BY <2>1
<1> QED
  BY <1>5

\* What is decoded at position k.
Decoded(text, k) ==
  IF text[k] = "%"
  THEN <<CHOOSE c \in DOMAIN Escape : Escape[c] = SubSeq(text, k, k + 2)>>
  ELSE IF \E j \in {k - 1, k - 2} \cap DOMAIN text : text[j] = "%" THEN <<>>
  ELSE <<text[k]>>

\* UrlDecode joins what is decoded at each position.
LEMMA DecodeRuns ==
  ASSUME NEW text \in Seq(Alphabet), NEW n \in Nat, n = Len(text)
  PROVE  \E S : Alphabet \subseteq S /\ \E d \in [0 .. n -> Seq(S)] :
           /\ d[0] = <<>>
           /\ \A k \in 1 .. n : Decoded(text, k) \in Seq(S) /\ d[k] = d[k - 1] \o Decoded(text, k)
           /\ UrlDecode(text) = d[n]
<1> DEFINE chosen(k) == CHOOSE c \in DOMAIN Escape : Escape[c] = SubSeq(text, k, k + 2)
           S == Alphabet \cup {chosen(k) : k \in 1 .. n}
           seqs == [k \in DOMAIN text |-> Decoded(text, k)]
<1>1. DOMAIN text = 1 .. n /\ \A k \in 1 .. n : text[k] \in Alphabet
  OBVIOUS
<1>2. ASSUME NEW k \in 1 .. n
      PROVE  Decoded(text, k) \in Seq(S)
  <2>1. chosen(k) \in S /\ text[k] \in S
    BY <1>1
  <2>2. Decoded(text, k) \in {<<chosen(k)>>, <<>>, <<text[k]>>}
    BY Zenon DEF Decoded
  <2> HIDE DEF S, chosen
  <2>3. \A x \in S : <<x>> \in Seq(S)
    OBVIOUS
  <2>4. <<>> \in Seq(S)
    BY EmptySeq
  <2> QED
    BY <2>1, <2>2, <2>3, <2>4
<1>3. Alphabet \subseteq S
  OBVIOUS
<1>4. UrlDecode(text) = FlattenSeq(seqs)
  BY DEF UrlDecode, Decoded
<1> HIDE DEF S, chosen
<1>5. seqs \in [1 .. n -> Seq(S)] /\ \A k \in 1 .. n : seqs[k] = Decoded(text, k)
  BY <1>1, <1>2
<1> HIDE DEF seqs
<1>6. seqs \in Seq(Seq(S)) /\ Len(seqs) = n
  BY <1>5
<1>7. PICK d \in [0 .. Len(seqs) -> Seq(S)] :
        /\ d[0] = <<>>
        /\ \A k \in 1 .. Len(seqs) : d[k] = d[k - 1] \o seqs[k]
        /\ FlattenSeq(seqs) = d[Len(seqs)]
  BY <1>6, FlattenRuns
<1>8. /\ d \in [0 .. n -> Seq(S)] /\ d[0] = <<>> /\ UrlDecode(text) = d[n]
      /\ \A k \in 1 .. n : d[k] = d[k - 1] \o Decoded(text, k)
  BY <1>4, <1>5, <1>6, <1>7
<1> QED
  BY <1>2, <1>3, <1>8

\* The last two tokens that are written do not begin an escape.
Ends(s) == \A i \in {Len(s), Len(s) - 1} \cap 1 .. Len(s) : s[i] # "%"

\* An escape is decoded where it begins, the rest of it is not, and every other
\* token is itself.
LEMMA DecodeEscape ==
  ASSUME NEW text, NEW k, text[k] = "%", NEW c \in DOMAIN Escape,
         Escape[c] = SubSeq(text, k, k + 2)
  PROVE  Decoded(text, k) = <<c>>
<1>1. \A b \in DOMAIN Escape : Escape[b] = SubSeq(text, k, k + 2) => b = c
  BY EscapeTells
<1>2. (CHOOSE b \in DOMAIN Escape : Escape[b] = SubSeq(text, k, k + 2)) = c
  BY <1>1, Zenon
<1> QED
  BY <1>2, Zenon DEF Decoded

LEMMA DecodeInside ==
  ASSUME NEW text \in Seq(Alphabet), NEW n \in Nat, n = Len(text), NEW k \in 1 .. n, text[k] # "%",
         \E j \in {k - 1, k - 2} \cap 1 .. n : text[j] = "%"
  PROVE  Decoded(text, k) = <<>>
<1>1. DOMAIN text = 1 .. n
  OBVIOUS
<1> QED
  BY <1>1, Zenon DEF Decoded

LEMMA DecodePlain ==
  ASSUME NEW text \in Seq(Alphabet), NEW n \in Nat, n = Len(text), NEW k \in 1 .. n, text[k] # "%",
         \A j \in {k - 1, k - 2} \cap 1 .. n : text[j] # "%"
  PROVE  Decoded(text, k) = <<text[k]>>
<1>1. DOMAIN text = 1 .. n
  OBVIOUS
<1> QED
  BY <1>1, Zenon DEF Decoded

\* UrlDecode takes back what UrlEncode does, for every text.
THEOREM DecodeEncode ==
  ASSUME NEW text \in Seq(Alphabet)
  PROVE  UrlDecode(UrlEncode(text)) = text
<1>1. PICK n \in Nat : n = Len(text)
  OBVIOUS
<1>2. PICK e : Written(e, text, n) /\ UrlEncode(text) = e[n]
  BY <1>1, EncodeRuns
<1>3. /\ \A k \in 0 .. n : e[k] \in Seq(Alphabet) /\ Len(e[k]) \in Nat
      /\ e[0] = <<>>
      /\ \A k \in 1 .. n : e[k] = e[k - 1] \o Escaped(text[k])
  <2>1. e \in [0 .. n -> Seq(Alphabet)]
    BY <1>2 DEF Written
  <2>2. \A k \in 0 .. n : e[k] \in Seq(Alphabet) /\ Len(e[k]) \in Nat
    BY <2>1
  <2>3. e[0] = <<>> /\ \A k \in 1 .. n : e[k] = e[k - 1] \o Escaped(text[k])
    BY <1>2 DEF Written
  <2> QED
    BY <2>2, <2>3
<1>4. PICK E : E = e[n]
  OBVIOUS
<1>5. PICK N \in Nat : N = Len(E)
  BY <1>3, <1>4
<1>6. E \in Seq(Alphabet)
  BY <1>3, <1>4
<1>7. PICK S : Alphabet \subseteq S /\ \E d \in [0 .. N -> Seq(S)] :
           /\ d[0] = <<>>
           /\ \A k \in 1 .. N : Decoded(E, k) \in Seq(S) /\ d[k] = d[k - 1] \o Decoded(E, k)
           /\ UrlDecode(E) = d[N]
  BY <1>5, <1>6, DecodeRuns
<1>8. PICK d \in [0 .. N -> Seq(S)] :
           /\ d[0] = <<>>
           /\ \A k \in 1 .. N : Decoded(E, k) \in Seq(S) /\ d[k] = d[k - 1] \o Decoded(E, k)
           /\ UrlDecode(E) = d[N]
  BY <1>7
<1>9. \A k \in 0 .. n : Len(e[k]) \in 0 .. N /\ \A i \in 1 .. Len(e[k]) : E[i] = e[k][i]
  <2> TAKE k \in 0 .. n
  <2>1. Len(e[k]) <= Len(e[n]) /\ \A i \in 1 .. Len(e[k]) : e[n][i] = e[k][i]
    BY <1>1, <1>2, WrittenStays
  <2> QED
    BY <1>3, <1>4, <1>5, <2>1
<1>10. \A k \in 0 .. n : SubSeq(text, 1, k) \in Seq(S) /\ Len(SubSeq(text, 1, k)) = k
  <2> TAKE k \in 0 .. n
  <2>1. \A i \in 1 .. k : text[i] \in S
    BY <1>1, <1>7
  <2> QED
    BY <2>1, SubSeqProperties
<1> DEFINE T == {k \in 0 .. n : Ends(e[k]) /\ d[Len(e[k])] = SubSeq(text, 1, k)}
<1>11. 0 \in T
  <2>1. Len(e[0]) = 0
    BY <1>3, EmptySeq
  <2>2. Ends(e[0])
    BY <2>1 DEF Ends
  <2>3. SubSeq(text, 1, 0) = <<>>
    BY SubSeqEmpty
  <2> QED
    BY <1>8, <2>1, <2>2, <2>3
<1>12. ASSUME NEW k \in 0 .. n - 1, k \in T
       PROVE  k + 1 \in T
  <2>1. k + 1 \in 1 .. n /\ k + 1 \in 0 .. n /\ (k + 1) - 1 = k /\ k \in 0 .. n
    OBVIOUS
  <2>2. PICK c \in Alphabet : c = text[k + 1]
    BY <1>1, <2>1
  <2>3. PICK p \in 0 .. N : p = Len(e[k])
    BY <1>9, <2>1
  <2>4. PICK w : w = Escaped(c)
    OBVIOUS
  <2>5. w \in Seq(Alphabet) /\ (c \in DOMAIN Escape => w = Escape[c]) /\ (c \notin DOMAIN Escape => w = <<c>>)
    BY <2>4, EscapedIs
  <2>6. PICK l \in Nat : l = Len(w)
    <3>1. w \in Seq(Alphabet)
      BY <2>5
    <3> QED
      BY <3>1
  <2>7. PICK g : g = e[k + 1]
    OBVIOUS
  <2>8. g = e[k] \o w
    BY <1>3, <2>1, <2>2, <2>4, <2>7
  <2>9. /\ g \in Seq(Alphabet) /\ Len(g) = p + l
        /\ \A i \in 1 .. p + l : g[i] = IF i <= p THEN e[k][i] ELSE w[i - p]
    BY <1>3, <2>1, <2>3, <2>5, <2>6, <2>8, ConcatProperties
  <2>10. p + l \in 0 .. N /\ \A i \in 1 .. p + l : E[i] = g[i]
    BY <1>9, <2>1, <2>7, <2>9
  <2>11. \A i \in {p, p - 1} \cap 1 .. N : E[i] # "%"
    <3> TAKE i \in {p, p - 1} \cap 1 .. N
    <3>1. i \in 1 .. p /\ i \in {p, p - 1} \cap 1 .. p
      OBVIOUS
    <3>2. E[i] = e[k][i]
      BY <1>9, <2>1, <2>3, <3>1
    <3>3. Ends(e[k])
      BY <1>12
    <3>4. e[k][i] # "%"
      BY <2>3, <3>1, <3>3 DEF Ends
    <3> QED
      BY <3>2, <3>4
  <2>12. \A i \in 1 .. l : E[p + i] = w[i] /\ g[p + i] = w[i]
    <3> TAKE i \in 1 .. l
    <3>1. p + i \in 1 .. p + l /\ ~(p + i <= p) /\ (p + i) - p = i
      OBVIOUS
    <3> QED
      BY <2>9, <2>10, <3>1
  <2>13. d[p] = SubSeq(text, 1, k)
    BY <1>12, <2>3
  <2>14. SubSeq(text, 1, k + 1) = d[p] \o <<c>>
    <3>1. k + 1 \in 1 .. Len(text) /\ 1 \in 1 .. Len(text) /\ k + 1 \in 1 .. Len(text)
      BY <1>1
    <3>2. SubSeq(text, 1, k + 1) = SubSeq(text, 1, (k + 1) - 1) \o <<text[k + 1]>>
      BY <3>1, SubSeqRecursiveSecond
    <3> QED
      BY <2>1, <2>2, <2>13, <3>2
  <2>15. CASE c \notin DOMAIN Escape
    <3>1. w = <<c>> /\ l = 1 /\ w[1] = c
      BY <2>5, <2>6, <2>15
    <3>2. c # "%"
      BY <2>15, EscapeIs
    <3>3. p + 1 \in 1 .. N /\ (p + 1) - 1 = p /\ (p + 1) - 2 = p - 1
      <4>1. p + 1 \in 0 .. N
        BY <2>10, <3>1
      <4> QED
        BY <4>1
    <3>4. E[p + 1] = c /\ g[p + 1] = c
      BY <2>12, <3>1
    <3>5. Decoded(E, p + 1) = <<c>>
      <4>1. \A j \in {(p + 1) - 1, (p + 1) - 2} \cap 1 .. N : E[j] # "%"
        BY <2>11, <3>3
      <4> QED
        BY <1>5, <1>6, <3>2, <3>3, <3>4, <4>1, DecodePlain
    <3>6. d[p + 1] = d[p] \o <<c>>
      BY <1>8, <3>3, <3>5
    <3>7. Ends(g)
      <4>1. Len(g) = p + 1
        BY <2>9, <3>1
      <4>2. \A i \in {p + 1, p} \cap 1 .. p + 1 : g[i] # "%"
        <5>1. p \in 1 .. p => g[p] = E[p] /\ p \in {p, p - 1} \cap 1 .. N
          BY <2>10, <3>1
        <5> QED
          BY <2>11, <3>2, <3>4, <5>1
      <4> QED
        BY <4>1, <4>2 DEF Ends
    <3>8. Len(g) = p + 1
      BY <2>9, <3>1
    <3> QED
      BY <2>1, <2>7, <2>14, <3>6, <3>7, <3>8
  <2>16. CASE c \in DOMAIN Escape
    <3>1. /\ w = Escape[c] /\ l = 3
          /\ w[1] = "%" /\ w[2] # "%" /\ w[3] # "%"
      BY <2>5, <2>6, <2>16, EscapeTells
    <3>2. /\ p + 1 \in 1 .. N /\ p + 2 \in 1 .. N /\ p + 3 \in 1 .. N
          /\ (p + 1) - 1 = p /\ (p + 2) - 1 = p + 1 /\ (p + 3) - 1 = p + 2 /\ (p + 3) - 2 = p + 1
          /\ (p + 1) + 2 = p + 3
      BY <2>10, <3>1
    <3>3. /\ E[p + 1] = "%" /\ E[p + 2] # "%" /\ E[p + 3] # "%"
          /\ g[p + 2] # "%" /\ g[p + 3] # "%"
      BY <2>12, <3>1
    <3>4. SubSeq(E, p + 1, p + 3) = w
      <4>1. PICK q : q = SubSeq(E, p + 1, p + 3)
        OBVIOUS
      <4>2. \A i \in p + 1 .. p + 3 : E[i] \in Alphabet
        BY <1>5, <1>6, <3>2
      <4>3. /\ q \in Seq(Alphabet) /\ Len(q) = IF p + 1 <= p + 3 THEN (p + 3) - (p + 1) + 1 ELSE 0
            /\ \A i \in 1 .. (p + 3) - (p + 1) + 1 : q[i] = E[(p + 1) + i - 1]
        BY <4>1, <4>2, SubSeqProperties
      <4>4. Len(q) = l /\ \A i \in 1 .. l : q[i] = E[p + i]
        <5>1. (p + 3) - (p + 1) + 1 = l /\ \A i \in 1 .. l : (p + 1) + i - 1 = p + i
          BY <3>1
        <5> QED
          BY <3>1, <4>3, <5>1
      <4>5. \A i \in 1 .. Len(q) : q[i] = w[i]
        BY <2>12, <4>4
      <4>6. q = w
        BY <2>5, <2>6, <4>3, <4>4, <4>5, SeqEqual
      <4> QED
        BY <4>1, <4>6
    <3>5. Decoded(E, p + 1) = <<c>>
      <4>1. Escape[c] = SubSeq(E, p + 1, (p + 1) + 2)
        BY <3>1, <3>2, <3>4
      <4> QED
        BY <2>16, <3>3, <4>1, DecodeEscape
    <3>6. Decoded(E, p + 2) = <<>>
      <4>1. p + 1 \in {(p + 2) - 1, (p + 2) - 2} \cap 1 .. N
        BY <3>2
      <4> QED
        BY <1>5, <1>6, <3>2, <3>3, <4>1, DecodeInside
    <3>7. Decoded(E, p + 3) = <<>>
      <4>1. p + 1 \in {(p + 3) - 1, (p + 3) - 2} \cap 1 .. N
        BY <3>2
      <4> QED
        BY <1>5, <1>6, <3>2, <3>3, <4>1, DecodeInside
    <3>8. d[p + 1] = d[p] \o <<c>>
      BY <1>8, <3>2, <3>5
    <3>9. d[p + 2] = d[p + 1]
      <4>1. d[p + 2] = d[p + 1] \o <<>>
        BY <1>8, <3>2, <3>6
      <4>2. d[p + 1] \in Seq(S)
        BY <3>2
      <4> QED
        BY <4>1, <4>2, ConcatEmptySeq
    <3>10. d[p + 3] = d[p + 2]
      <4>1. d[p + 3] = d[p + 2] \o <<>>
        BY <1>8, <3>2, <3>7
      <4>2. d[p + 2] \in Seq(S)
        BY <3>2
      <4> QED
        BY <4>1, <4>2, ConcatEmptySeq
    <3>11. Len(g) = p + 3
      BY <2>9, <3>1
    <3>12. Ends(g)
      <4>1. \A i \in {p + 3, (p + 3) - 1} \cap 1 .. p + 3 : g[i] # "%"
        BY <3>2, <3>3
      <4> QED
        BY <3>11, <4>1 DEF Ends
    <3> QED
      BY <2>1, <2>7, <2>14, <3>8, <3>9, <3>10, <3>11, <3>12
  <2> QED
    BY <2>15, <2>16
<1>13. n \in T
  <2> HIDE DEF T
  <2>1. 0 \in 0 .. n
    OBVIOUS
  <2>2. 0 .. n \subseteq T
    BY <1>11, <1>12, <2>1, TurnByTurn
  <2> QED
    BY <2>2
<1>14. SubSeq(text, 1, n) = text
  BY <1>1, SubSeqFull
<1>15. d[N] = text
  BY <1>4, <1>5, <1>13, <1>14
<1> QED
  BY <1>2, <1>4, <1>8, <1>15

\* What is written is a text, of no other text but the one it was written of.
LEMMA EncodeIsText ==
  ASSUME NEW text \in Seq(Alphabet)
  PROVE  UrlEncode(text) \in Seq(Alphabet)
<1>1. PICK n \in Nat : n = Len(text)
  OBVIOUS
<1>2. PICK e : Written(e, text, n) /\ UrlEncode(text) = e[n]
  BY <1>1, EncodeRuns
<1>3. e \in [0 .. n -> Seq(Alphabet)]
  BY <1>2 DEF Written
<1> QED
  BY <1>2, <1>3

LEMMA EncodeTells ==
  ASSUME NEW s \in Seq(Alphabet), NEW u \in Seq(Alphabet), UrlEncode(s) = UrlEncode(u)
  PROVE  s = u
<1>1. UrlDecode(UrlEncode(s)) = s /\ UrlDecode(UrlEncode(u)) = u
  BY DecodeEncode
<1> QED
  BY <1>1

\* What is written of a dictionary: its pairs, by the names before they are encoded.
EncodedInOrder(q, n, m) ==
  \E w \in [1 .. n -> DOMAIN m] :
    /\ \A x \in DOMAIN m : \E k \in 1 .. n : w[k] = x
    /\ \A j, k \in 1 .. n : j < k => Less(w[j], w[k])
    /\ q = [k \in 1 .. n |-> <<UrlEncode(w[k]), UrlEncode(m[w[k]])>>]

\* UrlEncodeMap writes the pairs in that order.
LEMMA EncodeMapIs ==
  ASSUME NEW m, DOMAIN m \subseteq Seq(Alphabet), IsFiniteSet(DOMAIN m)
  PROVE  \E n \in Nat : EncodedInOrder(UrlEncodeMap(m), n, m)
<1> DEFINE S == DOMAIN m
           before == {p \in S \X S : Less(p[1], p[2])}
           w == InOrder(S, before)
           n == Cardinality(S)
<1>1. Sorts(S, before)
  BY LessSorts
<1>2. \A x, y \in S : <<x, y>> \in before => Less(x, y)
  OBVIOUS
<1>3. UrlEncodeMap(m) = [k \in DOMAIN w |-> <<UrlEncode(w[k]), UrlEncode(m[w[k]])>>]
  BY DEF UrlEncodeMap
<1> HIDE DEF before
<1>4. PICK v : v = w
  OBVIOUS
<1>5. PICK l : l = n
  OBVIOUS
<1>6. /\ l \in Nat /\ v \in [1 .. l -> S]
      /\ \A x \in S : \E k \in 1 .. l : v[k] = x
      /\ \A j, k \in 1 .. l : j < k => <<v[j], v[k]>> \in before
  BY <1>1, <1>4, <1>5, InOrderSorts
<1>7. \A j, k \in 1 .. l : j < k => Less(v[j], v[k])
  BY <1>2, <1>6
<1>8. UrlEncodeMap(m) = [k \in 1 .. l |-> <<UrlEncode(v[k]), UrlEncode(m[v[k]])>>]
  <2>1. UrlEncodeMap(m) = [k \in DOMAIN v |-> <<UrlEncode(v[k]), UrlEncode(m[v[k]])>>]
    BY <1>3, <1>4
  <2>2. DOMAIN v = 1 .. l
    BY <1>6
  <2> QED
    BY <2>1, <2>2
<1>9. EncodedInOrder(UrlEncodeMap(m), l, m)
  BY <1>6, <1>7, <1>8 DEF EncodedInOrder
<1> QED
  BY <1>6, <1>9

\* What is read is texts, and not without end.
LEMMA MeaningIsText ==
  ASSUME NEW A, NEW text \in Seq(A), NEW separator, NEW m, Pairs(m) = Meaning(text, separator)
  PROVE  /\ IsFiniteSet(DOMAIN m)
         /\ DOMAIN m \subseteq Seq(A) /\ \A n \in DOMAIN m : m[n] \in Seq(A)
<1>1. \A f \in Fields(text) : Name(text, f, separator) \in Seq(A) /\ Rest(text, f, separator) \in Seq(A)
  <2> TAKE f \in Fields(text)
  <2>1. PICK k : k = Middle(text, f, separator)
    OBVIOUS
  <2>2. /\ f \in Nat \X Nat /\ f[1] >= 1 /\ f[2] <= Len(text) /\ f[1] <= f[2] + 1
        /\ k \in f[1] .. f[2] + 1
    BY <2>1, MiddleIs
  <2>3. PICK a \in Nat, b \in Nat : f = <<a, b>>
    BY <2>2
  <2>4. a >= 1 /\ b <= Len(text) /\ k \in a .. b + 1
    BY <2>2, <2>3
  <2>5. /\ \A i \in a .. k - 1 : text[i] \in A
        /\ \A i \in k + 1 .. b : text[i] \in A
    BY <2>4
  <2>6. a \in Int /\ k - 1 \in Int /\ k + 1 \in Int /\ b \in Int
    BY <2>4
  <2>7. SubSeq(text, a, k - 1) \in Seq(A)
    BY <2>5, <2>6, SubSeqProperties
  <2>8. SubSeq(text, k + 1, b) \in Seq(A)
    BY <2>5, <2>6, SubSeqProperties
  <2> QED
    BY <2>1, <2>3, <2>7, <2>8 DEF Name, Rest
<1>2. \A p \in Meaning(text, separator) : \E f \in Fields(text) : p = <<Name(text, f, separator), Rest(text, f, separator)>>
  BY Zenon DEF Meaning
<1>3. \A n \in DOMAIN m : \E f \in Fields(text) : n = Name(text, f, separator) /\ m[n] = Rest(text, f, separator)
  <2> TAKE n \in DOMAIN m
  <2>1. <<n, m[n]>> \in Meaning(text, separator)
    BY DEF Pairs
  <2>2. PICK f \in Fields(text) : <<n, m[n]>> = <<Name(text, f, separator), Rest(text, f, separator)>>
    BY <1>2, <2>1
  <2> QED
    BY <2>2
<1>4. IsFiniteSet(Fields(text))
  <2>1. PICK l \in Nat : l = Len(text)
    OBVIOUS
  <2>2. PICK a \in Int, b \in Int, c \in Int : a = 1 /\ b = l + 1 /\ c = 0
    OBVIOUS
  <2>3. IsFiniteSet(a .. b) /\ IsFiniteSet(c .. l)
    <3>1. l \in Int
      OBVIOUS
    <3> QED
      BY <3>1, FS_Interval
  <2>4. IsFiniteSet((a .. b) \X (c .. l))
    BY <2>3, FS_Product
  <2>5. Fields(text) \in SUBSET ((a .. b) \X (c .. l))
    BY <2>1, <2>2 DEF Fields
  <2> QED
    BY <2>4, <2>5, FS_Subset
<1>5. IsFiniteSet(DOMAIN m)
  <2> DEFINE name == [f \in Fields(text) |-> Name(text, f, separator)]
             names == {name[f] : f \in Fields(text)}
  <2>1. name \in [Fields(text) -> names]
    OBVIOUS
  <2>2. name \in Surjection(Fields(text), names)
    BY DEF Surjection
  <2>3. IsFiniteSet(names)
    <3> HIDE DEF name, names
    <3> QED
      BY <1>4, <2>2, FS_Surjection
  <2>4. DOMAIN m \in SUBSET names
    BY <1>3
  <2> HIDE DEF names
  <2> QED
    BY <2>3, <2>4, FS_Subset
<1> QED
  BY <1>1, <1>3, <1>5

\* What the server decodes from the query that is written of a dictionary.
LEMMA DecodedQuery ==
  ASSUME NEW m, DOMAIN m \subseteq Seq(Alphabet), IsFiniteSet(DOMAIN m),
         \A n \in DOMAIN m : m[n] \in Seq(Alphabet)
  PROVE  {<<UrlDecode(pair[1]), UrlDecode(pair[2])>> : pair \in ToSet(UrlEncodeMap(m))} = Pairs(m)
<1>1. PICK n \in Nat : EncodedInOrder(UrlEncodeMap(m), n, m)
  BY EncodeMapIs
<1>2. PICK q : q = UrlEncodeMap(m)
  OBVIOUS
<1>3. PICK w \in [1 .. n -> DOMAIN m] :
        /\ \A x \in DOMAIN m : \E k \in 1 .. n : w[k] = x
        /\ q = [k \in 1 .. n |-> <<UrlEncode(w[k]), UrlEncode(m[w[k]])>>]
  BY <1>1, <1>2 DEF EncodedInOrder
<1>4. ToSet(q) = {q[k] : k \in 1 .. n}
  BY <1>3 DEF ToSet
<1>5. \A k \in 1 .. n : q[k][1] = UrlEncode(w[k]) /\ q[k][2] = UrlEncode(m[w[k]])
  BY <1>3
<1>6. \A k \in 1 .. n : UrlDecode(q[k][1]) = w[k] /\ UrlDecode(q[k][2]) = m[w[k]]
  <2> TAKE k \in 1 .. n
  <2>1. w[k] \in DOMAIN m /\ w[k] \in Seq(Alphabet) /\ m[w[k]] \in Seq(Alphabet)
    OBVIOUS
  <2> QED
    BY <1>5, <2>1, DecodeEncode
<1> DEFINE decoded == {<<UrlDecode(pair[1]), UrlDecode(pair[2])>> : pair \in ToSet(q)}
<1>7. ASSUME NEW p \in decoded
      PROVE  p \in Pairs(m)
  <2>1. PICK k \in 1 .. n : p = <<UrlDecode(q[k][1]), UrlDecode(q[k][2])>>
    BY <1>4
  <2>2. p = <<w[k], m[w[k]]>> /\ w[k] \in DOMAIN m
    BY <1>6, <2>1
  <2> QED
    BY <2>2 DEF Pairs
<1>8. ASSUME NEW p \in Pairs(m)
      PROVE  p \in decoded
  <2>1. PICK x \in DOMAIN m : p = <<x, m[x]>>
    BY DEF Pairs
  <2>2. PICK k \in 1 .. n : w[k] = x
    BY <1>3
  <2>3. p = <<UrlDecode(q[k][1]), UrlDecode(q[k][2])>> /\ q[k] \in ToSet(q)
    BY <1>4, <1>6, <2>1, <2>2
  <2> QED
    BY <2>3
<1> HIDE DEF decoded
<1>9. decoded = Pairs(m)
  BY <1>7, <1>8
<1> QED
  BY <1>2, <1>9 DEF decoded

\* What joins a dictionary without taking a place (Insert).
LEMMA InsertIs ==
  ASSUME NEW m, NEW other
  PROVE  Pairs(Insert(m, other)) = Pairs(m) \cup {p \in Pairs(other) : p[1] \notin DOMAIN m}
<1>1. DOMAIN Insert(m, other) = DOMAIN m \cup DOMAIN other
  BY DEF Insert
<1>2. \A n \in DOMAIN m \cup DOMAIN other : Insert(m, other)[n] = IF n \in DOMAIN m THEN m[n] ELSE other[n]
  BY DEF Insert
<1> DEFINE i == Insert(m, other)
<1> HIDE DEF i
<1>3. DOMAIN i = DOMAIN m \cup DOMAIN other
  BY <1>1 DEF i
<1>4. \A n \in DOMAIN m : i[n] = m[n]
  BY <1>2 DEF i
<1>5. \A n \in DOMAIN other : n \notin DOMAIN m => i[n] = other[n]
  BY <1>2 DEF i
<1>6. \A p : p \in Pairs(i) <=> p \in Pairs(m) \cup {q \in Pairs(other) : q[1] \notin DOMAIN m}
  <2> TAKE p
  <2>1. ASSUME p \in Pairs(i) PROVE p \in Pairs(m) \cup {q \in Pairs(other) : q[1] \notin DOMAIN m}
    <3>1. PICK n \in DOMAIN i : p = <<n, i[n]>>
      BY <2>1 DEF Pairs
    <3> QED
      BY <1>3, <1>4, <1>5, <3>1 DEF Pairs
  <2>2. ASSUME p \in Pairs(m) PROVE p \in Pairs(i)
    BY <1>3, <1>4, <2>2 DEF Pairs
  <2>3. ASSUME p \in Pairs(other), p[1] \notin DOMAIN m PROVE p \in Pairs(i)
    <3>1. PICK n \in DOMAIN other : p = <<n, other[n]>>
      BY <2>3 DEF Pairs
    <3>2. p[1] = n /\ n \notin DOMAIN m
      BY <2>3, <3>1
    <3>3. n \in DOMAIN i /\ p = <<n, i[n]>>
      BY <1>3, <1>5, <3>1, <3>2
    <3> QED
      BY <3>3 DEF Pairs
  <2> QED
    BY <2>1, <2>2, <2>3
<1>7. Pairs(i) = Pairs(m) \cup {p \in Pairs(other) : p[1] \notin DOMAIN m}
  BY <1>6
<1> QED
  BY <1>7 DEF i

-------------------------------------------------------------------------------
\* What the server makes of a path, a query and a header.

\* A text of which every token is written as it is.
LEMMA FlattenSingles ==
  ASSUME NEW S, NEW s \in Seq(S)
  PROVE  FlattenSeq([k \in DOMAIN s |-> <<s[k]>>]) = s
<1> DEFINE seqs == [k \in DOMAIN s |-> <<s[k]>>]
<1>1. PICK n \in Nat : n = Len(s) /\ DOMAIN s = 1 .. n /\ s \in [1 .. n -> S]
  OBVIOUS
<1>2. \A k \in 1 .. n : <<s[k]>> \in Seq(S)
  BY <1>1
<1>3. seqs \in [1 .. n -> Seq(S)] /\ \A k \in 1 .. n : seqs[k] = <<s[k]>>
  BY <1>1, <1>2
<1> HIDE DEF seqs
<1>4. seqs \in Seq(Seq(S)) /\ Len(seqs) = n
  BY <1>3
<1>5. PICK r \in [0 .. Len(seqs) -> Seq(S)] :
        /\ r[0] = <<>>
        /\ \A k \in 1 .. Len(seqs) : r[k] = r[k - 1] \o seqs[k]
        /\ FlattenSeq(seqs) = r[Len(seqs)]
  BY <1>4, FlattenRuns
<1>6. /\ r[0] = <<>> /\ FlattenSeq(seqs) = r[n]
      /\ \A k \in 1 .. n : r[k] = r[k - 1] \o <<s[k]>>
  BY <1>3, <1>4, <1>5
<1> DEFINE T == {k \in 0 .. n : r[k] = SubSeq(s, 1, k)}
<1>7. 0 \in T
  <2>1. SubSeq(s, 1, 0) = <<>>
    BY SubSeqEmpty
  <2> QED
    BY <1>6, <2>1
<1>8. ASSUME NEW k \in 0 .. n - 1, k \in T
      PROVE  k + 1 \in T
  <2>1. k + 1 \in 1 .. n /\ (k + 1) - 1 = k
    OBVIOUS
  <2>2. r[k + 1] = r[k] \o <<s[k + 1]>>
    BY <1>6, <2>1
  <2>3. SubSeq(s, 1, k + 1) = SubSeq(s, 1, (k + 1) - 1) \o <<s[k + 1]>>
    <3>1. 1 \in 1 .. Len(s) /\ k + 1 \in 1 .. Len(s)
      BY <1>1, <2>1
    <3> QED
      BY <3>1, SubSeqRecursiveSecond
  <2>4. r[k] = SubSeq(s, 1, k)
    BY <1>8
  <2>5. r[k + 1] = SubSeq(s, 1, k + 1)
    BY <2>1, <2>2, <2>3, <2>4, Zenon
  <2>6. k + 1 \in 0 .. n
    BY <2>1
  <2> QED
    BY <2>5, <2>6
<1>9. n \in T
  <2> HIDE DEF T
  <2>1. 0 \in 0 .. n
    OBVIOUS
  <2>2. 0 .. n \subseteq T
    BY <1>7, <1>8, <2>1, TurnByTurn
  <2> QED
    BY <2>2
<1>10. SubSeq(s, 1, n) = s
  BY <1>1, SubSeqFull
<1> QED
  BY <1>6, <1>9, <1>10 DEF seqs

\* A path without characters to escape stays as it is (CanonicalPath).
LEMMA PathStays ==
  ASSUME NEW path \in Seq(Alphabet), \A k \in DOMAIN path : path[k] \notin DOMAIN Escape \ {"/"}
  PROVE  CanonicalPath(path) = path
<1>1. \A k \in DOMAIN path : (IF path[k] = "/" THEN <<"/">> ELSE Escaped(path[k])) = <<path[k]>>
  BY DEF Escaped
<1>2. CanonicalPath(path) = FlattenSeq([k \in DOMAIN path |-> <<path[k]>>])
  BY <1>1 DEF CanonicalPath
<1> QED
  BY <1>2, FlattenSingles

\* So does such a text (UrlEncode).
LEMMA EncodeStays ==
  ASSUME NEW text \in Seq(Alphabet), \A k \in DOMAIN text : text[k] \notin DOMAIN Escape
  PROVE  UrlEncode(text) = text
<1>1. \A k \in DOMAIN text : Escaped(text[k]) = <<text[k]>>
  BY DEF Escaped
<1>2. UrlEncode(text) = FlattenSeq([k \in DOMAIN text |-> <<text[k]>>])
  BY <1>1 DEF UrlEncode
<1> QED
  BY <1>2, FlattenSingles

\* A value without spaces stays too (Trimmed).
LEMMA TrimmedStays ==
  ASSUME NEW S, NEW value \in Seq(S), \A k \in 1 .. Len(value) : value[k] # Space
  PROVE  Trimmed(value) = value
<1>1. PICK n \in Nat : n = Len(value) /\ DOMAIN value = 1 .. n
  OBVIOUS
<1>2. PICK i : i = Inside(value)
  OBVIOUS
<1>3. i = 1 .. n
  <2>1. \A k \in 1 .. n : k \in 1 .. k /\ k \in k .. Len(value)
    BY <1>1
  <2>2. \A k \in 1 .. n : value[k] # Space
    BY <1>1
  <2>3. i = {k \in 1 .. n : /\ \E j \in 1 .. k : value[j] # Space
                            /\ \E j \in k .. Len(value) : value[j] # Space}
    BY <1>1, <1>2 DEF Inside
  <2> QED
    BY <2>1, <2>2, <2>3
<1>4. CASE n = 0
  <2>1. i = {}
    BY <1>3, <1>4
  <2>2. Trimmed(value) = <<>>
    BY <1>2, <2>1, Zenon DEF Trimmed
  <2>3. value = <<>>
    BY <1>1, <1>4, EmptySeq
  <2> QED
    BY <2>2, <2>3
<1>5. CASE n # 0
  <2>1. i # {} /\ 1 \in i /\ \A k \in i : 1 <= k
    <3>1. 1 \in 1 .. n /\ \A k \in 1 .. n : 1 <= k
      BY <1>5
    <3>2. 1 \in i /\ \A k \in i : 1 <= k
      BY <1>3, <3>1, Zenon
    <3> QED
      BY <3>2
  <2> DEFINE first == CHOOSE k \in i : \A j \in i : k <= j
  <2>2. first = 1
    <3>1. first \in i /\ \A j \in i : first <= j
      <4> DEFINE Least(k) == \A j \in i : k <= j
      <4>1. 1 \in i /\ Least(1)
        BY <2>1
      <4>2. first = CHOOSE k \in i : Least(k)
        OBVIOUS
      <4> HIDE DEF Least, first
      <4>3. first \in i /\ Least(first)
        BY <4>1, <4>2, Zenon
      <4> QED
        BY <4>3 DEF Least
    <3> HIDE DEF first
    <3> QED
      BY <1>3, <2>1, <3>1
  <2>3. Cardinality(i) = n
    <3>1. PICK a \in Int : a = 1
      OBVIOUS
    <3>2. n \in Int
      OBVIOUS
    <3>3. Cardinality(a .. n) = IF a > n THEN 0 ELSE n - a + 1
      BY <3>2, FS_Interval
    <3> QED
      BY <1>3, <1>5, <3>1, <3>3
  <2>4. Trimmed(value) = SubSeq(value, first, first + Cardinality(i) - 1)
    BY <1>2, <2>1, Zenon DEF Trimmed
  <2> HIDE DEF first
  <2>5. 1 + n - 1 = n
    OBVIOUS
  <2>6. SubSeq(value, 1, n) = value
    BY <1>1, SubSeqFull
  <2> QED
    BY <2>2, <2>3, <2>4, <2>5, <2>6
<1> QED
  BY <1>4, <1>5

\* The server sorts a query as it was written, unless the encoding changes the order.
LEMMA QueryStays ==
  ASSUME NEW m, DOMAIN m \subseteq Seq(Alphabet), IsFiniteSet(DOMAIN m),
         \A x, y \in DOMAIN m : Less(x, y) => ~Less(UrlEncode(y), UrlEncode(x))
  PROVE  CanonicalQuery(UrlEncodeMap(m)) = UrlEncodeMap(m)
<1>1. PICK n \in Nat : EncodedInOrder(UrlEncodeMap(m), n, m)
  BY EncodeMapIs
<1>2. PICK q : q = UrlEncodeMap(m)
  OBVIOUS
<1>3. PICK w \in [1 .. n -> DOMAIN m] :
        /\ \A x \in DOMAIN m : \E k \in 1 .. n : w[k] = x
        /\ \A j, k \in 1 .. n : j < k => Less(w[j], w[k])
        /\ q = [k \in 1 .. n |-> <<UrlEncode(w[k]), UrlEncode(m[w[k]])>>]
  BY <1>1, <1>2 DEF EncodedInOrder
<1> DEFINE S == ToSet(q)
           before == {p \in S \X S : Less(p[1][1], p[2][1])}
<1>4. S = {q[k] : k \in 1 .. n}
  BY <1>3 DEF ToSet
<1>5. \A k \in 1 .. n : q[k][1] = UrlEncode(w[k]) /\ w[k] \in Seq(Alphabet) /\ UrlEncode(w[k]) \in Seq(Alphabet)
  <2> TAKE k \in 1 .. n
  <2>1. w[k] \in DOMAIN m
    OBVIOUS
  <2>2. w[k] \in Seq(Alphabet)
    BY <2>1
  <2>3. UrlEncode(w[k]) \in Seq(Alphabet)
    BY <2>2, EncodeIsText
  <2> QED
    BY <1>3, <2>2, <2>3
<1>6. \A p \in S : p[1] \in Seq(Alphabet)
  BY <1>4, <1>5
<1>7. \A j, k \in 1 .. n : q[j][1] = q[k][1] => q[j] = q[k]
  <2> TAKE j, k \in 1 .. n
  <2>1. UrlEncode(w[j]) = UrlEncode(w[k]) => w[j] = w[k]
    BY <1>5, EncodeTells
  <2> QED
    BY <1>3, <1>5, <2>1
<1>8. \A p, r \in S : p[1] = r[1] => p = r
  BY <1>4, <1>7
<1>9. Sorts(S, before)
  <2> HIDE DEF S
  <2> QED
    BY <1>6, <1>8, LessSortsPairs
<1>10. q \in [1 .. n -> S]
  BY <1>3, <1>4
<1>11. \A x \in S : \E k \in 1 .. n : q[k] = x
  BY <1>4
<1>12. ASSUME NEW j \in 1 .. n, NEW k \in 1 .. n, j < k
       PROVE  <<q[j], q[k]>> \in before
  <2>1. PICK x \in DOMAIN m, y \in DOMAIN m : x = w[j] /\ y = w[k]
    OBVIOUS
  <2>2. Less(x, y)
    BY <1>3, <1>12, <2>1
  <2>3. ~Less(UrlEncode(y), UrlEncode(x))
    BY <2>2
  <2>4. x \in Seq(Alphabet) /\ y \in Seq(Alphabet)
    BY <1>5, <2>1
  <2>5. UrlEncode(x) # UrlEncode(y)
    BY <2>2, <2>4, EncodeTells, LessIsStrict
  <2>6. Less(UrlEncode(x), UrlEncode(y))
    BY <2>3, <2>4, <2>5, EncodeIsText, LessTells
  <2>7. q[j] \in S /\ q[k] \in S /\ q[j][1] = UrlEncode(x) /\ q[k][1] = UrlEncode(y)
    BY <1>4, <1>5, <2>1
  <2> HIDE DEF S
  <2> QED
    BY <2>6, <2>7
<1>13. CanonicalQuery(q) = InOrder(S, before)
  BY DEF CanonicalQuery
<1> HIDE DEF S, before
<1>14. q = InOrder(S, before)
  BY <1>9, <1>10, <1>11, <1>12, InOrderIsOne
<1> QED
  BY <1>2, <1>13, <1>14

\* A request without parameters.
LEMMA NoQueryStays == CanonicalQuery(<<>>) = <<>>
<1> DEFINE S == ToSet(<<>>)
           before == {p \in S \X S : Less(p[1][1], p[2][1])}
<1>1. S = {}
  BY DEF ToSet
<1>2. Cardinality(S) = 0
  BY <1>1, FS_EmptySet
<1>3. CanonicalQuery(<<>>) = InOrder(S, before)
  BY DEF CanonicalQuery
<1> HIDE DEF S, before
<1>4. InOrder(S, before) = [k \in 1 .. 0 |-> CHOOSE x \in S : Cardinality({y \in S : <<y, x>> \in before}) = k - 1]
  BY <1>2 DEF InOrder
<1> QED
  BY <1>3, <1>4

================================================================================
