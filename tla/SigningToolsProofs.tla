-------------------------- MODULE SigningToolsProofs --------------------------
(***************************************************************************)
(* The programs that sign, proved for every set of threads, every calendar *)
(* and all the texts their command lines may hold: the stamps of GetDates, *)
(* what is signed, and what the server says.  What is read from the texts  *)
(* and written of them is proved in LibraryProofs.                         *)
(***************************************************************************)
EXTENDS SigningTools, LibraryProofs

\* The fields that a thread has written, and those it has formatted.
Before(order, p) == {order[k] : k \in 1 .. p - 1}

FieldsWritten(th) ==
  IF at[th] = "gmtime" THEN Before(WriteOrder, pos[th])
  ELSE IF at[th] \in {"format", "formatDate", "done"} THEN TmFields ELSE {}
Formatted(th) ==
  IF at[th] = "format" THEN Before(FormatOrder, pos[th])
  ELSE IF at[th] \in {"formatDate", "done"} THEN TmFields ELSE {}
DateFormatted(th) ==
  IF at[th] = "formatDate" THEN Before(DateOrder, pos[th])
  ELSE IF at[th] = "done" THEN DateFields ELSE {}

\* v is field f of a moment that some thread has read, th's own if nobody has
\* disturbed it.
FromMoment(f, v) == \E u \in HasRead : v = StampOf(t[u])[f]
Explained(th, f, v) == FromMoment(f, v) /\ (~disturbed[th] => v = StampOf(t[th])[f])

PosInv(th) ==
  /\ at[th] \notin {"gmtime", "format", "formatDate"} => pos[th] = 1
  /\ at[th] = "formatDate" => pos[th] \in 1 .. 3

\* What ts and the stamps hold, where a thread has got to.
TsInv(th) ==
  \A f \in FieldsWritten(th) :
    FromMoment(f, ts[f]) /\ (at[th] # "done" => Explained(th, f, ts[f]))

StampInv(th) ==
  /\ \A f \in Formatted(th) : Explained(th, f, timeStamp[th][f])
  /\ \A f \in DateFormatted(th) : Explained(th, f, dateStamp[th][f])

DatesInv == DatesTypeOK /\ \A th \in Threads : PosInv(th) /\ TsInv(th) /\ StampInv(th)

-------------------------------------------------------------------------------

LEMMA Moment ==
  ASSUME NEW m \in Moments
  PROVE  StampOf(m) \in Stamps /\ DateOf(StampOf(m)) \in Dates
<1> DEFINE minute == m \div Length.sec
           hour == minute \div Length.min
           day == hour \div Length.hour
           month == day \div Length.mday
<1>1. /\ m \in Int /\ Length.sec \in Nat \ {0} /\ Length.min \in Nat \ {0}
      /\ Length.hour \in Nat \ {0} /\ Length.mday \in Nat \ {0} /\ Length.mon \in Nat \ {0}
  BY ClockAssumption DEF Moments, TmFields
<1>2. minute \in Int /\ m % Length.sec \in Int
  BY <1>1
<1>3. hour \in Int /\ minute % Length.min \in Int
  <2> HIDE DEF minute
  <2> QED
    BY <1>1, <1>2
<1>4. day \in Int /\ hour % Length.hour \in Int
  <2> HIDE DEF hour
  <2> QED
    BY <1>1, <1>3
<1>5. month \in Int /\ day % Length.mday \in Int
  <2> HIDE DEF day
  <2> QED
    BY <1>1, <1>4
<1>6. month \div Length.mon \in Int /\ month % Length.mon \in Int
  <2> HIDE DEF month
  <2> QED
    BY <1>1, <1>5
<1>7. StampOf(m) = [year |-> month \div Length.mon, mon |-> month % Length.mon,
                    mday |-> day % Length.mday, hour |-> hour % Length.hour,
                    min |-> minute % Length.min, sec |-> m % Length.sec]
  BY DEF StampOf
<1> HIDE DEF minute, hour, day, month
<1>8. StampOf(m) \in Stamps
  BY <1>2, <1>3, <1>4, <1>5, <1>6, <1>7 DEF Stamps, TmFields
<1> QED
  BY <1>8 DEF Stamps, TmFields, Dates, DateFields, DateOf

\* Each order goes through its fields once.
LEMMA OrdersAre ==
  /\ Len(WriteOrder) = 6 /\ \A k \in 1 .. 6 : WriteOrder[k] \in TmFields
  /\ Len(FormatOrder) = 6 /\ \A k \in 1 .. 6 : FormatOrder[k] \in TmFields
  /\ Len(DateOrder) = 3 /\ \A k \in 1 .. 3 : DateOrder[k] \in DateFields
  /\ Before(WriteOrder, 7) = TmFields /\ Before(FormatOrder, 7) = TmFields
  /\ Before(DateOrder, 4) = DateFields
<1>1. /\ Len(WriteOrder) = 6
      /\ WriteOrder[1] = "hour" /\ WriteOrder[2] = "min" /\ WriteOrder[3] = "sec"
      /\ WriteOrder[4] = "year" /\ WriteOrder[5] = "mon" /\ WriteOrder[6] = "mday"
  BY DEF WriteOrder
<1>2. /\ Len(FormatOrder) = 6
      /\ FormatOrder[1] = "year" /\ FormatOrder[2] = "mon" /\ FormatOrder[3] = "mday"
      /\ FormatOrder[4] = "hour" /\ FormatOrder[5] = "min" /\ FormatOrder[6] = "sec"
  BY DEF FormatOrder
<1>3. /\ Len(DateOrder) = 3
      /\ DateOrder[1] = "year" /\ DateOrder[2] = "mon" /\ DateOrder[3] = "mday"
  BY DEF DateOrder
<1>4. 1 .. 7 - 1 = {1, 2, 3, 4, 5, 6} /\ 1 .. 6 = {1, 2, 3, 4, 5, 6}
      /\ 1 .. 4 - 1 = {1, 2, 3} /\ 1 .. 3 = {1, 2, 3}
  OBVIOUS
<1>5. Before(WriteOrder, 7) = TmFields
  BY <1>1, <1>4 DEF Before, TmFields
<1>6. Before(FormatOrder, 7) = TmFields
  BY <1>2, <1>4 DEF Before, TmFields
<1>7. Before(DateOrder, 4) = DateFields
  BY <1>3, <1>4 DEF Before, DateFields
<1>8. \A k \in 1 .. 6 : WriteOrder[k] \in TmFields /\ FormatOrder[k] \in TmFields
  BY <1>1, <1>2, <1>4 DEF TmFields
<1>9. \A k \in 1 .. 3 : DateOrder[k] \in DateFields
  BY <1>3, <1>4 DEF DateFields
<1> QED
  BY <1>1, <1>2, <1>3, <1>5, <1>6, <1>7, <1>8, <1>9

LEMMA BeforeGrows ==
  ASSUME NEW order, NEW p \in Nat \ {0}
  PROVE  Before(order, p + 1) = Before(order, p) \cup {order[p]} /\ Before(order, 1) = {}
<1>1. 1 .. (p + 1) - 1 = (1 .. p - 1) \cup {p} /\ 1 .. 1 - 1 = {}
  OBVIOUS
<1> QED
  BY <1>1 DEF Before

LEMMA InitialDates == Init => DatesInv
<1> SUFFICES ASSUME Init PROVE DatesInv
  OBVIOUS
<1> DEFINE callers == IF program = "transfer" THEN Threads ELSE {MainThread}
<1>1. InitDates(callers)
  BY DEF Init
<1>2. Start \in Moments
  BY ClockAssumption DEF Moments
<1>3. StampOf(Start) \in Stamps /\ DateOf(StampOf(Start)) \in Dates
  BY <1>2, Moment
<1> HIDE DEF callers
<1>4. DatesTypeOK
  BY <1>1, <1>2, <1>3 DEF InitDates, DatesTypeOK, Steps
<1>5. \A th \in Threads : at[th] \in {"out", "time"} /\ pos[th] = 1
  BY <1>1 DEF InitDates
<1> QED
  BY <1>4, <1>5 DEF DatesInv, PosInv, TsInv, StampInv, FieldsWritten, Formatted, DateFormatted

-------------------------------------------------------------------------------
\* One step of a thread.

\* Where the next field leads: on in the order, or to the next call.
LEMMA NextFieldIs ==
  ASSUME DatesTypeOK, NEW th \in Threads, NEW order, NEW n \in {3, 6}, Len(order) = n,
         pos[th] \in 1 .. n, NEW call, NextField(th, order, call)
  PROVE  /\ \A u \in Threads : u # th => at'[u] = at[u] /\ pos'[u] = pos[u]
         /\ at' = [at EXCEPT ![th] = at'[th]] /\ pos' = [pos EXCEPT ![th] = pos'[th]]
         /\ \/ /\ pos[th] < n /\ at'[th] = at[th] /\ pos'[th] = pos[th] + 1
               /\ Before(order, pos'[th]) = Before(order, pos[th]) \cup {order[pos[th]]}
            \/ /\ pos[th] = n /\ at'[th] = call /\ pos'[th] = 1
               /\ Before(order, n + 1) = Before(order, pos[th]) \cup {order[pos[th]]}
<1>1. Before(order, pos[th] + 1) = Before(order, pos[th]) \cup {order[pos[th]]}
  <2>1. PICK p \in Nat \ {0} : p = pos[th]
    OBVIOUS
  <2> QED
    BY <2>1, BeforeGrows
<1>2. pos[th] \in Nat /\ n \in Nat /\ (pos[th] < n \/ pos[th] = n)
  OBVIOUS
<1>3. CASE pos[th] < n
  BY <1>1, <1>2, <1>3 DEF NextField, DatesTypeOK
<1>4. CASE pos[th] = n
  BY <1>1, <1>2, <1>4 DEF NextField, DatesTypeOK
<1> QED
  BY <1>2, <1>3, <1>4

LEMMA NextFieldType ==
  ASSUME DatesTypeOK, NEW th \in Threads, NEW order, NEW n \in {3, 6}, Len(order) = n,
         pos[th] \in 1 .. n, NEW call \in {"format", "formatDate", "done"},
         NextField(th, order, call),
         at[th] = "formatDate" => n = 3,
         at[th] \in {"gmtime", "format", "formatDate"}
  PROVE  at' \in [Threads -> Steps] /\ pos' \in [Threads -> 1 .. 6] /\ PosInv(th)'
<1>1. /\ at' = [at EXCEPT ![th] = at'[th]] /\ pos' = [pos EXCEPT ![th] = pos'[th]]
      /\ \/ pos[th] < n /\ at'[th] = at[th] /\ pos'[th] = pos[th] + 1
         \/ at'[th] = call /\ pos'[th] = 1
  BY DEF NextField, DatesTypeOK
<1>2. at'[th] \in Steps /\ pos'[th] \in 1 .. 6 /\ PosInv(th)'
  BY <1>1 DEF Steps, PosInv
<1> QED
  BY <1>1, <1>2 DEF DatesTypeOK

LEMMA StepType ==
  ASSUME DatesTypeOK, NEW th \in Threads, PosInv(th), StepOfDates(th)
  PROVE  DatesTypeOK' /\ PosInv(th)'
<1> USE DEF DatesTypeOK
<1>1. CASE ReadClock(th)
  BY <1>1 DEF ReadClock, Steps, PosInv
<1>2. CASE WriteField(th)
  <2>1. pos[th] \in 1 .. 6 /\ WriteOrder[pos[th]] \in TmFields /\ StampOf(t[th]) \in Stamps
    BY OrdersAre, Moment
  <2>2. ts' \in Stamps
    BY <1>2, <2>1 DEF WriteField, Stamps
  <2>3. disturbed' \in [Threads -> BOOLEAN]
    BY <1>2 DEF WriteField
  <2>4. at' \in [Threads -> Steps] /\ pos' \in [Threads -> 1 .. 6] /\ PosInv(th)'
    BY <1>2, <2>1, OrdersAre, NextFieldType DEF WriteField
  <2> QED
    BY <1>2, <2>2, <2>3, <2>4 DEF WriteField
<1>3. CASE FormatField(th)
  <2>1. pos[th] \in 1 .. 6 /\ FormatOrder[pos[th]] \in TmFields
    BY OrdersAre
  <2>2. timeStamp' \in [Threads -> Stamps]
    BY <1>3, <2>1 DEF FormatField, Stamps
  <2>3. at' \in [Threads -> Steps] /\ pos' \in [Threads -> 1 .. 6] /\ PosInv(th)'
    BY <1>3, <2>1, OrdersAre, NextFieldType DEF FormatField
  <2> QED
    BY <1>3, <2>2, <2>3 DEF FormatField
<1>4. CASE FormatDateField(th)
  <2>1. pos[th] \in 1 .. 3 /\ DateOrder[pos[th]] \in DateFields
    BY <1>4, OrdersAre DEF FormatDateField, PosInv
  <2>2. dateStamp' \in [Threads -> Dates]
    BY <1>4, <2>1 DEF FormatDateField, Stamps, Dates, DateFields, TmFields
  <2>3. at' \in [Threads -> Steps] /\ pos' \in [Threads -> 1 .. 6] /\ PosInv(th)'
    BY <1>4, <2>1, OrdersAre, NextFieldType DEF FormatDateField
  <2> QED
    BY <1>4, <2>2, <2>3 DEF FormatDateField
<1> QED
  BY <1>1, <1>2, <1>3, <1>4 DEF StepOfDates

\* The other threads stand where they stood, and know if ts was written to.
LEMMA OthersStand ==
  ASSUME DatesTypeOK, NEW th \in Threads, StepOfDates(th), NEW u \in Threads, u # th
  PROVE  /\ at'[u] = at[u] /\ pos'[u] = pos[u] /\ t'[u] = t[u]
         /\ timeStamp'[u] = timeStamp[u] /\ dateStamp'[u] = dateStamp[u]
         /\ disturbed[u] => disturbed'[u]
         /\ Using(u) /\ ~disturbed'[u] => ts' = ts
BY DEF DatesTypeOK, StepOfDates, ReadClock, WriteField, FormatField, FormatDateField, NextField

\* What a thread has read from the clock stays.
LEMMA ReadStays ==
  ASSUME DatesTypeOK, NEW th \in Threads, StepOfDates(th)
  PROVE  /\ \A u \in HasRead : u \in HasRead' /\ t'[u] = t[u]
         /\ th \in HasRead'
<1>1. \A u \in Threads \ {th} : at'[u] = at[u] /\ t'[u] = t[u]
  BY OthersStand
<1>2. at'[th] \notin {"out", "time"} /\ (th \in HasRead => t'[th] = t[th])
  BY DEF DatesTypeOK, StepOfDates, ReadClock, WriteField, FormatField, FormatDateField,
         NextField, HasRead
<1> QED
  BY <1>1, <1>2 DEF HasRead

LEMMA FromStays ==
  ASSUME DatesTypeOK, NEW th \in Threads, StepOfDates(th), NEW f, NEW v, FromMoment(f, v)
  PROVE  \E u \in HasRead' : v = StampOf(t'[u])[f]
BY ReadStays DEF FromMoment

\* A thread writes fields of the moment it has read.
LEMMA TsIs ==
  ASSUME DatesTypeOK, NEW th \in Threads, StepOfDates(th), NEW f \in TmFields
  PROVE  /\ ts'[f] = ts[f] \/ (th \in HasRead /\ t'[th] = t[th] /\ ts'[f] = StampOf(t'[th])[f])
         /\ ~WriteField(th) => ts' = ts
<1>1. CASE WriteField(th)
  <2>1. /\ ts' = [ts EXCEPT ![WriteOrder[pos[th]]] = StampOf(t[th])[WriteOrder[pos[th]]]]
        /\ t' = t /\ at[th] = "gmtime"
    BY <1>1 DEF WriteField
  <2>2. ts'[f] = ts[f] \/ ts'[f] = StampOf(t[th])[f]
    BY <2>1 DEF DatesTypeOK, Stamps
  <2> QED
    BY <1>1, <2>1, <2>2 DEF HasRead
<1>2. CASE ~WriteField(th)
  BY <1>2 DEF StepOfDates, ReadClock, FormatField, FormatDateField
<1> QED
  BY <1>1, <1>2

\* ts goes on holding what is of some moment read.
LEMMA TsStays ==
  ASSUME DatesTypeOK, NEW th \in Threads, StepOfDates(th), NEW f \in TmFields,
         FromMoment(f, ts[f])
  PROVE  FromMoment(f, ts[f])'
<1>1. CASE ts'[f] = ts[f]
  BY <1>1, FromStays DEF FromMoment
<1>2. CASE th \in HasRead /\ ts'[f] = StampOf(t'[th])[f]
  BY <1>2, ReadStays DEF FromMoment
<1> QED
  BY <1>1, <1>2, TsIs

LEMMA FieldsOf ==
  ASSUME DatesTypeOK, NEW th \in Threads, PosInv(th)
  PROVE  /\ FieldsWritten(th) \subseteq TmFields /\ Formatted(th) \subseteq TmFields
         /\ DateFormatted(th) \subseteq DateFields
         /\ FieldsWritten(th) # {} /\ at[th] # "done" => Using(th)
<1>1. pos[th] \in 1 .. 6 /\ (at[th] = "formatDate" => pos[th] \in 1 .. 3)
  BY DEF DatesTypeOK, PosInv
<1>2. /\ Before(WriteOrder, pos[th]) \subseteq TmFields /\ Before(FormatOrder, pos[th]) \subseteq TmFields
      /\ at[th] = "formatDate" => Before(DateOrder, pos[th]) \subseteq DateFields
  BY <1>1, OrdersAre DEF Before
<1>3. Before(WriteOrder, pos[th]) # {} => pos[th] > 1
  BY <1>1 DEF Before
<1> QED
  BY <1>2, <1>3 DEF FieldsWritten, Formatted, DateFormatted, Using

LEMMA OthersInv ==
  ASSUME DatesInv, NEW th \in Threads, StepOfDates(th), NEW u \in Threads, u # th
  PROVE  PosInv(u)' /\ TsInv(u)' /\ StampInv(u)'
<1>1. DatesTypeOK /\ PosInv(u) /\ TsInv(u) /\ StampInv(u)
  BY DEF DatesInv
<1>2. /\ at'[u] = at[u] /\ pos'[u] = pos[u] /\ t'[u] = t[u]
      /\ timeStamp'[u] = timeStamp[u] /\ dateStamp'[u] = dateStamp[u]
      /\ disturbed[u] => disturbed'[u]
      /\ Using(u) /\ ~disturbed'[u] => ts' = ts
  BY <1>1, OthersStand
<1>3. FieldsWritten(u)' = FieldsWritten(u) /\ Formatted(u)' = Formatted(u) /\ DateFormatted(u)' = DateFormatted(u)
  BY <1>2 DEF FieldsWritten, Formatted, DateFormatted
<1>4. ASSUME NEW f \in FieldsWritten(u)
      PROVE  FromMoment(f, ts[f])' /\ (at'[u] # "done" => Explained(u, f, ts[f])')
  <2>1. f \in TmFields /\ (at[u] # "done" => Using(u))
    BY <1>1, <1>4, FieldsOf
  <2>2. FromMoment(f, ts[f])'
    BY <1>1, <1>4, <2>1, TsStays DEF TsInv
  <2>3. ASSUME at[u] # "done", ~disturbed'[u]
        PROVE  ts'[f] = StampOf(t'[u])[f]
    BY <1>1, <1>2, <1>4, <2>1, <2>3 DEF TsInv, Explained
  <2> QED
    BY <1>2, <2>2, <2>3 DEF Explained
<1>5. ASSUME NEW f, NEW v, Explained(u, f, v)
      PROVE  FromMoment(f, v)' /\ (~disturbed'[u] => v = StampOf(t'[u])[f])
  BY <1>1, <1>2, <1>5, FromStays DEF Explained, FromMoment
<1>6. StampInv(u)'
  <2>1. ASSUME NEW f \in Formatted(u) PROVE Explained(u, f, timeStamp[u][f])'
    <3>1. PICK v : v = timeStamp[u][f]
      OBVIOUS
    <3>2. Explained(u, f, v)
      BY <1>1, <3>1 DEF StampInv
    <3>3. FromMoment(f, v)' /\ (~disturbed'[u] => v = StampOf(t'[u])[f])
      BY <1>5, <3>2
    <3> QED
      BY <1>2, <3>1, <3>3 DEF Explained, FromMoment
  <2>2. ASSUME NEW f \in DateFormatted(u) PROVE Explained(u, f, dateStamp[u][f])'
    <3>1. PICK v : v = dateStamp[u][f]
      OBVIOUS
    <3>2. Explained(u, f, v)
      BY <1>1, <3>1 DEF StampInv
    <3>3. FromMoment(f, v)' /\ (~disturbed'[u] => v = StampOf(t'[u])[f])
      BY <1>5, <3>2
    <3> QED
      BY <1>2, <3>1, <3>3 DEF Explained, FromMoment
  <2> QED
    BY <1>3, <2>1, <2>2 DEF StampInv
<1>7. TsInv(u)'
  BY <1>3, <1>4 DEF TsInv
<1>8. PosInv(u)'
  BY <1>1, <1>2 DEF PosInv
<1> QED
  BY <1>6, <1>7, <1>8

LEMMA OwnInv ==
  ASSUME DatesInv, NEW th \in Threads, StepOfDates(th)
  PROVE  TsInv(th)' /\ StampInv(th)'
<1>1. DatesTypeOK /\ PosInv(th) /\ TsInv(th) /\ StampInv(th)
  BY DEF DatesInv
<1>2. pos[th] \in 1 .. 6 /\ 3 \in {3, 6} /\ 6 \in {3, 6} /\ 6 + 1 = 7 /\ 3 + 1 = 4
  BY <1>1 DEF DatesTypeOK
<1>3. CASE ReadClock(th)
  <2>1. at'[th] = "gmtime" /\ pos'[th] = 1
    BY <1>1, <1>3 DEF ReadClock, DatesTypeOK, PosInv
  <2>2. FieldsWritten(th)' = {} /\ Formatted(th)' = {} /\ DateFormatted(th)' = {}
    BY <2>1, BeforeGrows DEF FieldsWritten, Formatted, DateFormatted
  <2> QED
    BY <2>2 DEF TsInv, StampInv
<1>4. ASSUME ts' = ts, t'[th] = t[th], disturbed'[th] = disturbed[th], NEW f, NEW v,
             Explained(th, f, v)
      PROVE  FromMoment(f, v)' /\ (~disturbed'[th] => v = StampOf(t'[th])[f])
  BY <1>1, <1>4, FromStays DEF Explained, FromMoment
<1>5. CASE WriteField(th)
  <2> DEFINE g == WriteOrder[pos[th]]
  <2>1. /\ at[th] = "gmtime" /\ t' = t /\ NextField(th, WriteOrder, "format")
        /\ ts' = [ts EXCEPT ![g] = StampOf(t[th])[g]]
        /\ disturbed'[th] = disturbed[th]
    BY <1>1, <1>5 DEF WriteField, DatesTypeOK
  <2>l. Len(WriteOrder) = 6
    BY OrdersAre
  <2>2. /\ \/ at'[th] = "gmtime" /\ Before(WriteOrder, pos'[th]) = Before(WriteOrder, pos[th]) \cup {g}
           \/ at'[th] = "format" /\ Before(WriteOrder, 7) = Before(WriteOrder, pos[th]) \cup {g} /\ pos'[th] = 1
    BY <1>1, <1>2, <2>1, <2>l, NextFieldIs
  <2>3. FieldsWritten(th)' = FieldsWritten(th) \cup {g} /\ Formatted(th)' = {} /\ DateFormatted(th)' = {}
    BY <2>1, <2>2, OrdersAre, BeforeGrows DEF FieldsWritten, Formatted, DateFormatted
  <2>4. g \in TmFields
    BY <1>2, OrdersAre
  <2> HIDE DEF g
  <2>5. ts'[g] = StampOf(t'[th])[g] /\ \A f \in TmFields \ {g} : ts'[f] = ts[f]
    BY <1>1, <2>1, <2>4 DEF DatesTypeOK, Stamps
  <2>6. FieldsWritten(th) \subseteq TmFields
    BY <1>1, FieldsOf
  <2>7. ASSUME NEW f \in FieldsWritten(th) \cup {g}
        PROVE  FromMoment(f, ts[f])' /\ (~disturbed'[th] => ts'[f] = StampOf(t'[th])[f])
    <3>1. CASE f = g
      BY <2>5, <3>1, ReadStays, <1>1 DEF FromMoment
    <3>2. CASE f # g
      <4>1. ts'[f] = ts[f] /\ f \in TmFields /\ f \in FieldsWritten(th)
        BY <2>5, <2>6, <2>7, <3>2
      <4>2. Explained(th, f, ts[f])
        BY <1>1, <2>1, <4>1 DEF TsInv
      <4> QED
        BY <1>1, <2>1, <4>1, <4>2, TsStays DEF Explained
    <3> QED
      BY <3>1, <3>2
  <2>8. TsInv(th)'
    BY <2>3, <2>7 DEF TsInv, Explained
  <2> QED
    BY <2>3, <2>8 DEF StampInv
<1>6. ASSUME ts' = ts, t'[th] = t[th], disturbed'[th] = disturbed[th], at[th] # "done",
             FieldsWritten(th)' = FieldsWritten(th)
      PROVE  TsInv(th)'
  <2>1. \A f \in FieldsWritten(th) : Explained(th, f, ts[f])
    BY <1>1, <1>6 DEF TsInv
  <2>2. ASSUME NEW f \in FieldsWritten(th)
        PROVE  FromMoment(f, ts[f])' /\ Explained(th, f, ts[f])'
    <3>1. PICK v : v = ts[f]
      OBVIOUS
    <3>2. Explained(th, f, v)
      BY <2>1, <3>1
    <3>3. FromMoment(f, v)' /\ (~disturbed'[th] => v = StampOf(t'[th])[f])
      BY <1>4, <1>6, <3>2
    <3> QED
      BY <1>6, <3>1, <3>3 DEF Explained, FromMoment
  <2> QED
    BY <1>6, <2>2 DEF TsInv
<1>7. CASE FormatField(th)
  <2> DEFINE g == FormatOrder[pos[th]]
  <2>1. /\ at[th] = "format" /\ t' = t /\ ts' = ts /\ disturbed' = disturbed
        /\ NextField(th, FormatOrder, "formatDate")
        /\ timeStamp' = [timeStamp EXCEPT ![th][g] = ts[g]]
    BY <1>7 DEF FormatField
  <2>l. Len(FormatOrder) = 6
    BY OrdersAre
  <2>2. \/ at'[th] = "format" /\ Before(FormatOrder, pos'[th]) = Before(FormatOrder, pos[th]) \cup {g}
        \/ at'[th] = "formatDate" /\ Before(FormatOrder, 7) = Before(FormatOrder, pos[th]) \cup {g}
           /\ pos'[th] = 1
    BY <1>1, <1>2, <2>1, <2>l, NextFieldIs
  <2>3. /\ FieldsWritten(th) = TmFields /\ FieldsWritten(th)' = TmFields
        /\ Formatted(th)' = Formatted(th) \cup {g} /\ DateFormatted(th)' = {}
    BY <2>1, <2>2, OrdersAre, BeforeGrows DEF FieldsWritten, Formatted, DateFormatted
  <2>4. g \in TmFields /\ Formatted(th) \subseteq TmFields
    BY <1>1, <1>2, OrdersAre, FieldsOf
  <2> HIDE DEF g
  <2>5. timeStamp'[th][g] = ts[g] /\ \A f \in TmFields \ {g} : timeStamp'[th][f] = timeStamp[th][f]
    BY <1>1, <2>1, <2>4 DEF DatesTypeOK, Stamps
  <2>6. ASSUME NEW f \in Formatted(th) \cup {g}
        PROVE  Explained(th, f, timeStamp'[th][f])
    <3>1. CASE f = g
      BY <1>1, <2>1, <2>3, <2>4, <2>5, <3>1 DEF TsInv
    <3>2. CASE f # g
      BY <1>1, <2>4, <2>5, <2>6, <3>2 DEF StampInv
    <3> QED
      BY <3>1, <3>2
  <2>7. ASSUME NEW f \in Formatted(th) \cup {g}
        PROVE  Explained(th, f, timeStamp[th][f])'
    <3>1. PICK v : v = timeStamp'[th][f]
      OBVIOUS
    <3>2. Explained(th, f, v)
      BY <2>6, <2>7, <3>1
    <3>3. FromMoment(f, v)' /\ (~disturbed'[th] => v = StampOf(t'[th])[f])
      BY <1>4, <2>1, <3>2
    <3> QED
      BY <3>1, <3>3 DEF Explained, FromMoment
  <2>8. TsInv(th)'
    BY <1>6, <2>1, <2>3
  <2> QED
    BY <2>3, <2>7, <2>8 DEF StampInv
<1>8. CASE FormatDateField(th)
  <2> DEFINE g == DateOrder[pos[th]]
  <2>1. /\ at[th] = "formatDate" /\ t' = t /\ ts' = ts /\ disturbed' = disturbed
        /\ timeStamp' = timeStamp
        /\ NextField(th, DateOrder, "done")
        /\ dateStamp' = [dateStamp EXCEPT ![th][g] = ts[g]]
    BY <1>8 DEF FormatDateField
  <2>0. pos[th] \in 1 .. 3
    BY <1>1, <2>1 DEF PosInv
  <2>l. Len(DateOrder) = 3
    BY OrdersAre
  <2>2. \/ at'[th] = "formatDate" /\ Before(DateOrder, pos'[th]) = Before(DateOrder, pos[th]) \cup {g}
        \/ at'[th] = "done" /\ Before(DateOrder, 4) = Before(DateOrder, pos[th]) \cup {g}
    BY <1>1, <1>2, <2>0, <2>1, <2>l, NextFieldIs
  <2>3. /\ FieldsWritten(th) = TmFields /\ FieldsWritten(th)' = TmFields
        /\ Formatted(th) = TmFields /\ Formatted(th)' = TmFields
        /\ DateFormatted(th)' = DateFormatted(th) \cup {g}
    BY <2>1, <2>2, OrdersAre DEF FieldsWritten, Formatted, DateFormatted
  <2>4. g \in DateFields /\ DateFormatted(th) \subseteq DateFields /\ DateFields \subseteq TmFields
    BY <1>1, <2>0, OrdersAre, FieldsOf DEF DateFields, TmFields
  <2> HIDE DEF g
  <2>5. dateStamp'[th][g] = ts[g] /\ \A f \in DateFields \ {g} : dateStamp'[th][f] = dateStamp[th][f]
    BY <1>1, <2>1, <2>4 DEF DatesTypeOK, Dates
  <2>6. ASSUME NEW f \in DateFormatted(th) \cup {g}
        PROVE  Explained(th, f, dateStamp'[th][f])
    <3>1. CASE f = g
      BY <1>1, <2>1, <2>3, <2>4, <2>5, <3>1 DEF TsInv
    <3>2. CASE f # g
      BY <1>1, <2>4, <2>5, <2>6, <3>2 DEF StampInv
    <3> QED
      BY <3>1, <3>2
  <2>7. ASSUME NEW f \in DateFormatted(th) \cup {g}
        PROVE  Explained(th, f, dateStamp[th][f])'
    <3>1. PICK v : v = dateStamp'[th][f]
      OBVIOUS
    <3>2. Explained(th, f, v)
      BY <2>6, <2>7, <3>1
    <3>3. FromMoment(f, v)' /\ (~disturbed'[th] => v = StampOf(t'[th])[f])
      BY <1>4, <2>1, <3>2
    <3> QED
      BY <3>1, <3>3 DEF Explained, FromMoment
  <2>8. ASSUME NEW f \in TmFields
        PROVE  Explained(th, f, timeStamp[th][f])'
    <3>1. PICK v : v = timeStamp'[th][f]
      OBVIOUS
    <3>2. Explained(th, f, v)
      BY <1>1, <2>1, <2>3, <2>8, <3>1 DEF StampInv
    <3>3. FromMoment(f, v)' /\ (~disturbed'[th] => v = StampOf(t'[th])[f])
      BY <1>4, <2>1, <3>2
    <3> QED
      BY <3>1, <3>3 DEF Explained, FromMoment
  <2>9. TsInv(th)'
    BY <1>6, <2>1, <2>3
  <2> QED
    BY <2>3, <2>7, <2>8, <2>9 DEF StampInv
<1> QED
  BY <1>3, <1>5, <1>7, <1>8 DEF StepOfDates

-------------------------------------------------------------------------------

LEMMA NextDates == DatesInv /\ [Next]_vars => DatesInv'
<1> SUFFICES ASSUME DatesInv, [Next]_vars PROVE DatesInv'
  OBVIOUS
<1>1. CASE \E th \in Threads : StepOfDates(th)
  <2> PICK th \in Threads : StepOfDates(th)
    BY <1>1
  <2>1. DatesTypeOK' /\ PosInv(th)'
    BY StepType DEF DatesInv
  <2>2. \A u \in Threads : PosInv(u)' /\ TsInv(u)' /\ StampInv(u)'
    BY <2>1, OthersInv, OwnInv
  <2> QED
    BY <2>1, <2>2 DEF DatesInv
<1>2. ASSUME UNCHANGED <<ts, at, pos, t, timeStamp, dateStamp, disturbed>>, clock' \in Moments
      PROVE  DatesInv'
  <2>1. DatesTypeOK'
    BY <1>2 DEF DatesInv, DatesTypeOK
  <2>2. \A u \in Threads : PosInv(u)' /\ TsInv(u)' /\ StampInv(u)'
    BY <1>2 DEF DatesInv, PosInv, TsInv, StampInv, Explained, FromMoment, HasRead,
                FieldsWritten, Formatted, DateFormatted
  <2> QED
    BY <2>1, <2>2 DEF DatesInv
<1>3. CASE Tick
  <2>1. clock' \in Moments
    BY <1>3, ClockAssumption DEF Tick, DatesInv, DatesTypeOK, Moments
  <2> QED
    BY <1>2, <1>3, <2>1 DEF Tick
<1>4. CASE UNCHANGED dateVars
  BY <1>2, <1>4 DEF dateVars, DatesInv, DatesTypeOK
<1> QED
  BY <1>1, <1>3, <1>4 DEF Next, vars, Sign, Send, Terminated

\* Every field of ts and of the stamps is of a moment read, and of the thread's
\* own while nobody has disturbed it.
THEOREM DatesInvariance == Spec => []DatesInv
  BY InitialDates, NextDates, PTL DEF Spec

LEMMA DatesAreExplained == DatesInv => StampsOtherwise
<1> SUFFICES ASSUME DatesInv, NEW th \in Threads, at[th] = "done"
             PROVE  \/ timeStamp[th] = StampOf(t[th]) /\ dateStamp[th] = DateOf(StampOf(t[th]))
                    \/ /\ disturbed[th]
                       /\ \A f \in TmFields : timeStamp[th][f] \in {StampOf(t[u])[f] : u \in HasRead}
                       /\ \A f \in DateFields : dateStamp[th][f] \in {StampOf(t[u])[f] : u \in HasRead}
  BY DEF StampsOtherwise
<1>1. /\ timeStamp[th] \in Stamps /\ dateStamp[th] \in Dates
      /\ t[th] \in Moments
  BY DEF DatesInv, DatesTypeOK
<1>2. /\ \A f \in TmFields : Explained(th, f, timeStamp[th][f])
      /\ \A f \in DateFields : Explained(th, f, dateStamp[th][f])
  BY DEF DatesInv, StampInv, Formatted, DateFormatted
<1>3. CASE ~disturbed[th]
  <2>1. /\ \A f \in TmFields : timeStamp[th][f] = StampOf(t[th])[f]
        /\ \A f \in DateFields : dateStamp[th][f] = StampOf(t[th])[f]
    BY <1>2, <1>3 DEF Explained
  <2>2. StampOf(t[th]) \in Stamps
    BY <1>1, Moment
  <2>3. timeStamp[th] = StampOf(t[th])
    BY <1>1, <2>1, <2>2 DEF Stamps
  <2>4. dateStamp[th] = DateOf(StampOf(t[th]))
    BY <1>1, <2>1 DEF Dates, DateOf
  <2> QED
    BY <2>3, <2>4
<1>4. CASE disturbed[th]
  BY <1>2, <1>4 DEF Explained, FromMoment
<1> QED
  BY <1>3, <1>4

\* The stamps a request is signed with are of the moment its thread read, or
\* another thread was in GetDates at the same time, and then each of their
\* fields is of a moment that was read (one struct tm for all).
THEOREM StampsExplained == Spec => []StampsOtherwise
  BY DatesInvariance, DatesAreExplained, PTL

-------------------------------------------------------------------------------
\* Types.

\* A request lists no header that was not hashed.
Listed(request) ==
  /\ request.signedHeaders \subseteq DOMAIN request.headers
  /\ request.path \in {<<>>, CanonicalURI}

\* What each thread has signed, and when it was answered.
ToolsInv ==
  /\ canonical = [th \in Threads |-> canonical[th]]
  /\ authorization = [th \in Threads |-> authorization[th]]
  /\ verdict \in [Threads -> {"none", "accepted", "refused"}]
  /\ arrived \in [Threads -> Moments]
  /\ \A th \in Threads : Listed(canonical[th]) /\ authorization[th].scope.date \in Dates

CommandLines ==
  [params : ParamTexts \cup {<<>>}, headers : HeaderTexts \cup {<<>>},
   key : Keys \cup {Plain.key}, port : Ports, expiration : Expirations \cup {Plain.expiration}]

ArgsOK == program \in Programs /\ args \in CommandLines

LEMMA TypesOfParts == DatesTypeOK /\ ArgsOK /\ ToolsInv => TypeOK
BY DEF ArgsOK, CommandLines, ToolsInv, Listed, TypeOK

LEMMA HeadersAreListed ==
  ASSUME NEW method, NEW parameters, NEW default, NEW additional
  PROVE  Listed(HeadersRequest(method, CanonicalURI, parameters, default, additional))
<1>1. SignedNames(default, additional) \subseteq DOMAIN AllHeaders(default, additional)
  BY DEF SignedNames, AllHeaders, Insert
<1> QED
  BY <1>1 DEF Listed, HeadersRequest, CanonicalRequest

LEMMA HostIsListed ==
  ASSUME NEW method, NEW default, NEW params, NEW host
  PROVE  Listed(UrlRequest(method, CanonicalURI, default, params, host))
BY DEF Listed, UrlRequest, HostHeader, CanonicalRequest

LEMMA InitialTools == Init => ArgsOK /\ ToolsInv
<1> SUFFICES ASSUME Init PROVE ArgsOK /\ ToolsInv
  OBVIOUS
<1>1. Listed(NoCanonical)
  BY DEF Listed, NoCanonical, CanonicalRequest, EmptyMap
<1>2. Start \in Moments
  BY ClockAssumption DEF Moments
<1>3. NoAuthorization.scope.date \in Dates
  BY <1>2, Moment DEF NoAuthorization
<1>4. ToolsInv
  BY <1>1, <1>2, <1>3 DEF Init, ToolsInv
<1>5. ASSUME NEW p \in Programs
      PROVE  Inputs(p) \subseteq CommandLines
  <2>1. Plain \in CommandLines
    BY DEF Plain, CommandLines, Ports
  <2>2. /\ \A key \in Keys : [Plain EXCEPT !.key = key] \in CommandLines
        /\ \A port \in Ports : [Plain EXCEPT !.port = port] \in CommandLines
        /\ \A expiration \in Expirations \cup {1} :
             [Plain EXCEPT !.expiration = expiration] \in CommandLines
        /\ \A text \in ParamTexts : [Plain EXCEPT !.params = text] \in CommandLines
        /\ \A text \in HeaderTexts : [Plain EXCEPT !.headers = text] \in CommandLines
    <3>1. Plain.expiration = 1
      BY DEF Plain
    <3> QED
      BY <2>1, <3>1 DEF CommandLines
  <2> HIDE DEF CommandLines
  <2> DEFINE A == {[Plain EXCEPT !.key = key] : key \in Keys}
             B == {[Plain EXCEPT !.port = port] : port \in Ports}
             C == {[Plain EXCEPT !.expiration = expiration] :
                     expiration \in IF p = "presign" THEN Expirations ELSE {1}}
             D == {[Plain EXCEPT !.params = text] :
                     text \in IF p = "transfer" THEN {} ELSE ParamTexts}
             E == {[Plain EXCEPT !.headers = text] :
                     text \in IF p \in {"transfer", "presign"} THEN {} ELSE HeaderTexts}
  <2>3. A \subseteq CommandLines /\ B \subseteq CommandLines
    BY <2>2
  <2>4. C \subseteq CommandLines
    BY <2>2
  <2>5. D \subseteq CommandLines /\ E \subseteq CommandLines
    BY <2>2
  <2>6. Inputs(p) = A \cup B \cup C \cup D \cup E
    BY DEF Inputs
  <2> HIDE DEF A, B, C, D, E
  <2> QED
    BY <2>3, <2>4, <2>5, <2>6
<1>6. ArgsOK
  BY <1>5 DEF ArgsOK, Init
<1> QED
  BY <1>4, <1>6

LEMMA NextTools ==
  ASSUME DatesInv, ArgsOK, ToolsInv, [Next]_vars
  PROVE  ArgsOK' /\ ToolsInv'
<1>1. ArgsOK'
  <2>1. UNCHANGED <<program, args>>
    BY DEF Next, vars, toolVars, Sign, Send, Terminated
  <2> QED
    BY <2>1 DEF ArgsOK, CommandLines
<1>2. ASSUME UNCHANGED toolVars
      PROVE  ToolsInv'
  BY <1>2 DEF toolVars, ToolsInv, Listed, CanonicalURI
<1>3. ASSUME NEW th \in Threads, Sign(th)
      PROVE  ToolsInv'
  <2> DEFINE signed == IF program = "presign" THEN SignedInUrl(th) ELSE SignedWithHeaders(th)
             auth == Authorization("secret", timeStamp[th], dateStamp[th], signed)
  <2>1. /\ canonical' = [canonical EXCEPT ![th] = signed]
        /\ authorization' = [authorization EXCEPT ![th] = auth]
        /\ UNCHANGED <<args, verdict, arrived>>
    BY <1>3 DEF Sign
  <2>2. Listed(signed)
    BY HeadersAreListed, HostIsListed DEF SignedInUrl, SignedWithHeaders
  <2>3. auth.scope.date \in Dates
    BY DEF Authorization, DatesInv, DatesTypeOK
  <2> HIDE DEF signed, auth
  <2>4. ASSUME NEW u \in Threads
        PROVE  Listed(canonical'[u]) /\ authorization'[u].scope.date \in Dates
    BY <2>1, <2>2, <2>3 DEF ToolsInv
  <2> QED
    BY <2>1, <2>4 DEF ToolsInv, Listed, CanonicalURI
<1>4. ASSUME NEW th \in Threads, Send(th)
      PROVE  ToolsInv'
  BY <1>4 DEF Send, ToolsInv, Listed, CanonicalURI, DatesInv, DatesTypeOK, dateVars
<1> QED
  BY <1>1, <1>2, <1>3, <1>4 DEF Next, vars, Terminated

\* Every variable keeps its type, and no request lists a header that was not
\* hashed (SignHeaders and SignedURL, for any headers, parameters and texts).
THEOREM TypesHold == Spec => []TypeOK
<1>1. Init => ArgsOK /\ ToolsInv
  BY InitialTools
<1>2. DatesInv /\ ArgsOK /\ ToolsInv /\ [Next]_vars => ArgsOK' /\ ToolsInv'
  BY NextTools
<1>3. DatesInv /\ ArgsOK /\ ToolsInv => TypeOK
  BY TypesOfParts DEF DatesInv
<1> QED
  BY <1>1, <1>2, <1>3, DatesInvariance, PTL DEF Spec

-------------------------------------------------------------------------------
\* Constants of the programs.

\* The names of the parameters need no escapes.
LEMMA LettersOfQueries ==
  /\ {"X-Amz-Algorithm", "X-Amz-Credential", "X-Amz-Date", "X-Amz-Expires",
      "X-Amz-SignedHeaders", "partNumber", "uploadId"} \subseteq Alphabet \ DOMAIN Escape
<1>1. \A k \in 1 .. 29 : Tokens[k] \in Alphabet
  BY DEF Alphabet, ToSet, Tokens
<1>2. /\ Tokens[17] = "X-Amz-Algorithm" /\ Tokens[18] = "X-Amz-Credential" /\ Tokens[19] = "X-Amz-Date"
      /\ Tokens[20] = "X-Amz-Expires" /\ Tokens[21] = "X-Amz-SignedHeaders"
      /\ Tokens[24] = "partNumber" /\ Tokens[25] = "uploadId"
  BY DEF Tokens
<1>3. /\ "X-Amz-Algorithm" \in Alphabet /\ "X-Amz-Credential" \in Alphabet /\ "X-Amz-Date" \in Alphabet
      /\ "X-Amz-Expires" \in Alphabet /\ "X-Amz-SignedHeaders" \in Alphabet
      /\ "partNumber" \in Alphabet /\ "uploadId" \in Alphabet
  BY <1>1, <1>2
<1>4. /\ Space \notin {"X-Amz-Algorithm", "X-Amz-Credential", "X-Amz-Date", "X-Amz-Expires",
                       "X-Amz-SignedHeaders", "partNumber", "uploadId"}
      /\ Semicolon \notin {"X-Amz-Algorithm", "X-Amz-Credential", "X-Amz-Date", "X-Amz-Expires",
                           "X-Amz-SignedHeaders", "partNumber", "uploadId"}
  BY Zenon DEF Space, Semicolon
<1> QED
  BY <1>3, <1>4, EscapeIs

LEMMA SpaceIsNoLetter ==
  Space \notin {"a", ":", "0", "1", "2", "3", "host", "x-amz-", "content-sha256", "date"}
BY Zenon DEF Space

\* The names of the parameters that the programs give themselves.
LEMMA OwnNames ==
  ASSUME NEW S, S \subseteq {<<"X-Amz-Algorithm">>, <<"X-Amz-Credential">>, <<"X-Amz-Date">>,
                             <<"X-Amz-Expires">>, <<"X-Amz-SignedHeaders">>, <<"partNumber">>, <<"uploadId">>}
  PROVE  /\ S \subseteq Seq(Alphabet) /\ IsFiniteSet(S)
         /\ \A x \in S : UrlEncode(x) = x
<1>1. \A c \in Alphabet : <<c>> \in Seq(Alphabet) /\ DOMAIN <<c>> = {1} /\ <<c>>[1] = c
  OBVIOUS
<1>2. \A x \in S : \E c \in Alphabet \ DOMAIN Escape : x = <<c>>
  BY LettersOfQueries
<1>3. S \subseteq Seq(Alphabet)
  BY <1>1, <1>2
<1>4. \A x \in S : UrlEncode(x) = x
  <2> TAKE x \in S
  <2>1. PICK c \in Alphabet \ DOMAIN Escape : x = <<c>>
    BY <1>2
  <2>2. x \in Seq(Alphabet) /\ \A k \in DOMAIN x : x[k] \notin DOMAIN Escape
    BY <1>1, <2>1
  <2> QED
    BY <2>2, EncodeStays
<1>5. IsFiniteSet(S)
  <2> DEFINE a == {} \cup {<<"X-Amz-Algorithm">>}
             b == a \cup {<<"X-Amz-Credential">>}
             c == b \cup {<<"X-Amz-Date">>}
             d == c \cup {<<"X-Amz-Expires">>}
             e == d \cup {<<"X-Amz-SignedHeaders">>}
             f == e \cup {<<"partNumber">>}
             g == f \cup {<<"uploadId">>}
  <2>1. S \in SUBSET g
    OBVIOUS
  <2>2. IsFiniteSet(a)
    BY FS_EmptySet, FS_AddElement
  <2> HIDE DEF a
  <2>3. IsFiniteSet(b)
    BY <2>2, FS_AddElement
  <2> HIDE DEF b
  <2>4. IsFiniteSet(c)
    BY <2>3, FS_AddElement
  <2> HIDE DEF c
  <2>5. IsFiniteSet(d)
    BY <2>4, FS_AddElement
  <2> HIDE DEF d
  <2>6. IsFiniteSet(e)
    BY <2>5, FS_AddElement
  <2> HIDE DEF e
  <2>7. IsFiniteSet(f)
    BY <2>6, FS_AddElement
  <2> HIDE DEF f
  <2>8. IsFiniteSet(g)
    BY <2>7, FS_AddElement
  <2> HIDE DEF g
  <2> QED
    BY <2>1, <2>8, FS_Subset
<1> QED
  BY <1>3, <1>4, <1>5

LEMMA DigitIs ==
  ASSUME NEW n \in 0 .. 3
  PROVE  Digit(n) \in {"0", "1", "2", "3"}
<1>1. n = 0 \/ n = 1 \/ n = 2 \/ n = 3
  OBVIOUS
<1> QED
  BY <1>1 DEF Digit

LEMMA DivMod ==
  ASSUME NEW a \in Nat, NEW d \in Nat \ {0}, d <= 4
  PROVE  a \div d \in Nat /\ a % d \in 0 .. 3 /\ (a \div d) * d + (a % d) = a
<1>1. d = 1 \/ d = 2 \/ d = 3 \/ d = 4
  OBVIOUS
<1>2. CASE d = 1
  BY <1>2
<1>3. CASE d = 2
  BY <1>3
<1>4. CASE d = 3
  BY <1>4
<1>5. CASE d = 4
  BY <1>5
<1> QED
  BY <1>1, <1>2, <1>3, <1>4, <1>5

\* A moment is what its stamp says, and each field of the stamp is one digit.
LEMMA OfTheMoment ==
  ASSUME NEW m \in Moments
  PROVE  /\ \A f \in TmFields : StampOf(m)[f] \in 0 .. 3
         /\ MomentOf(StampOf(m)) = m
<1>1. m \in Nat
  BY ClockAssumption DEF Moments
<1>2. \A f \in {"mon", "mday", "hour", "min", "sec"} : Length[f] \in Nat \ {0} /\ Length[f] <= 4
  BY ClockAssumption, ToolsAssumption DEF TmFields
<1>3. /\ Length.mon \in Nat \ {0} /\ Length.mday \in Nat \ {0} /\ Length.hour \in Nat \ {0}
      /\ Length.min \in Nat \ {0} /\ Length.sec \in Nat \ {0}
      /\ Length.mon <= 4 /\ Length.mday <= 4 /\ Length.hour <= 4 /\ Length.min <= 4
      /\ Length.sec <= 4
  BY <1>2
<1>4. PICK minute : minute = m \div Length.sec
  OBVIOUS
<1>5. minute \in Nat /\ m % Length.sec \in 0 .. 3 /\ minute * Length.sec + (m % Length.sec) = m
  BY <1>1, <1>3, <1>4, DivMod
<1>6. PICK hour : hour = minute \div Length.min
  OBVIOUS
<1>7. /\ hour \in Nat /\ minute % Length.min \in 0 .. 3
      /\ hour * Length.min + (minute % Length.min) = minute
  BY <1>3, <1>5, <1>6, DivMod
<1>8. PICK day : day = hour \div Length.hour
  OBVIOUS
<1>9. day \in Nat /\ hour % Length.hour \in 0 .. 3 /\ day * Length.hour + (hour % Length.hour) = hour
  BY <1>3, <1>7, <1>8, DivMod
<1>10. PICK month : month = day \div Length.mday
  OBVIOUS
<1>11. month \in Nat /\ day % Length.mday \in 0 .. 3 /\ month * Length.mday + (day % Length.mday) = day
  BY <1>3, <1>9, <1>10, DivMod
<1>12. PICK year : year = month \div Length.mon
  OBVIOUS
<1>13. year \in Nat /\ month % Length.mon \in 0 .. 3 /\ year * Length.mon + (month % Length.mon) = month
  BY <1>3, <1>11, <1>12, DivMod
<1>14. StampOf(m) = [year |-> year, mon |-> month % Length.mon, mday |-> day % Length.mday,
                     hour |-> hour % Length.hour, min |-> minute % Length.min,
                     sec |-> m % Length.sec]
  BY <1>4, <1>6, <1>8, <1>10, <1>12 DEF StampOf
<1>15. year <= 3
  <2>1. StampOf(m).year <= 3
    BY ToolsAssumption
  <2> QED
    BY <1>14, <2>1
<1>16. \A f \in TmFields : StampOf(m)[f] \in 0 .. 3
  BY <1>5, <1>7, <1>9, <1>11, <1>13, <1>14, <1>15 DEF TmFields
<1>17. MomentOf(StampOf(m)) = m
  <2>1. MomentOf(StampOf(m)) =
          ((((year * Length.mon + (month % Length.mon)) * Length.mday + (day % Length.mday)) * Length.hour
              + (hour % Length.hour)) * Length.min + (minute % Length.min)) * Length.sec + (m % Length.sec)
    BY <1>14 DEF MomentOf
  <2> QED
    BY <1>5, <1>7, <1>9, <1>11, <1>13, <2>1, Zenon
<1> QED
  BY <1>16, <1>17

\* Hash keeps what was hashed.
LEMMA HashIs ==
  ASSUME NEW S, NEW s \in Seq(S), NEW e \in S
  PROVE  /\ Hash(s, e) \in Seq(S) /\ Len(Hash(s, e)) = Len(s) + 1
         /\ \A i \in 1 .. Len(s) : Hash(s, e)[i] = s[i]
         /\ Hash(s, e)[Len(s) + 1] = e
BY AppendProperties DEF Hash

LEMMA HashChain ==
  ASSUME NEW a, NEW b, NEW c, NEW d, NEW e, NEW f
  PROVE  Hash(Hash(Hash(Hash(Hash(<<a>>, b), c), d), e), f) = <<a, b, c, d, e, f>>
<1> DEFINE S == {a, b, c, d, e, f}
<1> a \in S /\ b \in S /\ c \in S /\ d \in S /\ e \in S /\ f \in S
  OBVIOUS
<1> HIDE DEF S
<1>1. PICK p : p = <<a>>
  OBVIOUS
<1>2. p \in Seq(S) /\ Len(p) = 1 /\ p[1] = a
  BY <1>1
<1>3. PICK q : q = Hash(p, b)
  OBVIOUS
<1>4. q \in Seq(S) /\ Len(q) = 2 /\ q[1] = a /\ q[2] = b
  <2>1. p \in Seq(S) /\ b \in S
    BY <1>2
  <2>2. /\ Hash(p, b) \in Seq(S) /\ Len(Hash(p, b)) = Len(p) + 1
        /\ \A i \in 1 .. Len(p) : Hash(p, b)[i] = p[i]
        /\ Hash(p, b)[Len(p) + 1] = b
    BY <2>1, HashIs, Zenon
  <2> QED
    BY <1>2, <1>3, <2>2
<1>5. PICK r : r = Hash(q, c)
  OBVIOUS
<1>6. r \in Seq(S) /\ Len(r) = 3 /\ r[1] = a /\ r[2] = b /\ r[3] = c
  <2>1. q \in Seq(S) /\ c \in S
    BY <1>4
  <2>2. /\ Hash(q, c) \in Seq(S) /\ Len(Hash(q, c)) = Len(q) + 1
        /\ \A i \in 1 .. Len(q) : Hash(q, c)[i] = q[i]
        /\ Hash(q, c)[Len(q) + 1] = c
    BY <2>1, HashIs, Zenon
  <2> QED
    BY <1>4, <1>5, <2>2
<1>7. PICK s : s = Hash(r, d)
  OBVIOUS
<1>8. s \in Seq(S) /\ Len(s) = 4 /\ s[1] = a /\ s[2] = b /\ s[3] = c /\ s[4] = d
  <2>1. r \in Seq(S) /\ d \in S
    BY <1>6
  <2>2. /\ Hash(r, d) \in Seq(S) /\ Len(Hash(r, d)) = Len(r) + 1
        /\ \A i \in 1 .. Len(r) : Hash(r, d)[i] = r[i]
        /\ Hash(r, d)[Len(r) + 1] = d
    BY <2>1, HashIs, Zenon
  <2> QED
    BY <1>6, <1>7, <2>2
<1>9. PICK w : w = Hash(s, e)
  OBVIOUS
<1>10. w \in Seq(S) /\ Len(w) = 5 /\ w[1] = a /\ w[2] = b /\ w[3] = c /\ w[4] = d /\ w[5] = e
  <2>1. s \in Seq(S) /\ e \in S
    BY <1>8
  <2>2. /\ Hash(s, e) \in Seq(S) /\ Len(Hash(s, e)) = Len(s) + 1
        /\ \A i \in 1 .. Len(s) : Hash(s, e)[i] = s[i]
        /\ Hash(s, e)[Len(s) + 1] = e
    BY <2>1, HashIs, Zenon
  <2> QED
    BY <1>8, <1>9, <2>2
<1>11. PICK u : u = Hash(w, f)
  OBVIOUS
<1>12. /\ u \in Seq(S) /\ Len(u) = 6
       /\ u[1] = a /\ u[2] = b /\ u[3] = c /\ u[4] = d /\ u[5] = e /\ u[6] = f
  <2>1. w \in Seq(S) /\ f \in S
    BY <1>10
  <2>2. /\ Hash(w, f) \in Seq(S) /\ Len(Hash(w, f)) = Len(w) + 1
        /\ \A i \in 1 .. Len(w) : Hash(w, f)[i] = w[i]
        /\ Hash(w, f)[Len(w) + 1] = f
    BY <2>1, HashIs, Zenon
  <2> QED
    BY <1>10, <1>11, <2>2
<1>13. PICK v : v = <<a, b, c, d, e, f>>
  OBVIOUS
<1>14. /\ v \in Seq(S) /\ Len(v) = 6
       /\ v[1] = a /\ v[2] = b /\ v[3] = c /\ v[4] = d /\ v[5] = e /\ v[6] = f
  BY <1>13
<1>15. \A i \in 1 .. Len(u) : u[i] = v[i]
  BY <1>12, <1>14
<1>16. u = v
  BY <1>12, <1>14, <1>15, SeqEqual
<1> QED
  BY <1>1, <1>3, <1>5, <1>7, <1>9, <1>11, <1>13, <1>16

\* The chain of keys, and the signature at its end.
LEMMA SignatureIs ==
  ASSUME NEW stamp, NEW date, NEW request, NEW scope,
         scope = [date |-> date, region |-> "us-east-1", service |-> "s3"]
  PROVE  Authorization("secret", stamp, date, request) =
           [scope |-> scope, signature |-> ServerSignature("secret", stamp, scope, request)]
<1>1. PICK msg : msg = [stamp |-> stamp, scope |-> scope, request |-> request]
  OBVIOUS
<1>3. Hash(CreateSignatureKey("secret", date, "us-east-1", "s3"), msg)
        = <<"secret", date, "us-east-1", "s3", "aws4_request", msg>>
  BY HashChain DEF CreateSignatureKey
<1>4. ServerSignature("secret", stamp, scope, request)
        = <<"secret", date, "us-east-1", "s3", "aws4_request", msg>>
  BY <1>1 DEF ServerSignature
<1>5. Authorization("secret", stamp, date, request) =
        [scope |-> scope, signature |-> Hash(CreateSignatureKey("secret", date, "us-east-1", "s3"), msg)]
  BY <1>1 DEF Authorization
<1> QED
  BY <1>3, <1>4, <1>5

-------------------------------------------------------------------------------
\* What a thread has signed is made of its stamps and of the command line.

Made(th) == IF program = "presign" THEN SignedInUrl(th) ELSE SignedWithHeaders(th)

SignedInv(th) ==
  /\ Signed(th) => /\ at[th] = "done"
                   /\ canonical[th] = Made(th)
                   /\ authorization[th] =
                        Authorization("secret", timeStamp[th], dateStamp[th], canonical[th])
  /\ verdict[th] # "none" => Signed(th)

MadeInv ==
  /\ DatesTypeOK /\ ArgsOK /\ ToolsInv
  /\ \A th \in Threads : SignedInv(th) /\ t[th] <= clock

\* They stand while these do.
LEMMA DefaultStays ==
  ASSUME NEW th \in Threads, UNCHANGED <<program, args>>, timeStamp'[th] = timeStamp[th]
  PROVE  /\ DefaultHeaders(th)' = DefaultHeaders(th)
         /\ HostText' = HostText /\ StampText(timeStamp[th])' = StampText(timeStamp[th])
<1>1. HostText' = HostText
  BY DEF HostText, PortText
<1>2. StampText(timeStamp[th])' = StampText(timeStamp[th])
  BY DEF StampText, Digits
<1> QED
  BY <1>1, <1>2 DEF DefaultHeaders

LEMMA MadeStays ==
  ASSUME NEW th \in Threads, UNCHANGED <<program, args>>,
         timeStamp'[th] = timeStamp[th], dateStamp'[th] = dateStamp[th]
  PROVE  Made(th)' = Made(th)
<1>1. CanonicalURI' = CanonicalURI /\ Parameters' = Parameters
  BY DEF CanonicalURI, Parameters
<1>2. HostText' = HostText /\ StampText(timeStamp[th])' = StampText(timeStamp[th])
  BY DefaultStays
<1>3. DefaultHeaders(th)' = DefaultHeaders(th)
  BY DefaultStays
<1>4. UrlParameters(th)' = UrlParameters(th)
  <2>1. Credential(th)' = Credential(th)
    BY DEF Credential, Digits
  <2>2. Digit(args.expiration)' = Digit(args.expiration)
    OBVIOUS
  <2> QED
    BY <1>2, <2>1, <2>2 DEF UrlParameters
<1>5. ParseHeaders(args.headers)' = ParseHeaders(args.headers)
  OBVIOUS
<1>6. SignedInUrl(th)' = SignedInUrl(th)
  BY <1>1, <1>2, <1>4 DEF SignedInUrl
<1>7. SignedWithHeaders(th)' = SignedWithHeaders(th)
  BY <1>1, <1>3, <1>5 DEF SignedWithHeaders
<1> QED
  BY <1>6, <1>7 DEF Made

LEMMA InitialMade == Init => MadeInv
<1> SUFFICES ASSUME Init PROVE MadeInv
  OBVIOUS
<1>1. DatesTypeOK /\ ArgsOK /\ ToolsInv
  BY InitialDates, InitialTools DEF DatesInv
<1>2. \A th \in Threads : canonical[th] = NoCanonical /\ verdict[th] = "none" /\ t[th] = Start
  BY DEF Init, InitDates
<1>3. clock = Start /\ Start <= Start
  BY ClockAssumption DEF Init, InitDates
<1> QED
  BY <1>1, <1>2, <1>3 DEF MadeInv, SignedInv, Signed

\* A thread that has signed is done with its stamps.
LEMMA DoneStands ==
  ASSUME DatesTypeOK, NEW u \in Threads, StepOfDates(u), NEW th \in Threads, at[th] = "done"
  PROVE  /\ at'[th] = "done" /\ t'[th] = t[th]
         /\ timeStamp'[th] = timeStamp[th] /\ dateStamp'[th] = dateStamp[th]
<1>1. at[u] # "done"
  BY DEF StepOfDates, ReadClock, WriteField, FormatField, FormatDateField
<1> QED
  BY <1>1, OthersStand

\* What is signed stays signed.
LEMMA SignedStays ==
  ASSUME NEW th \in Threads, SignedInv(th),
         UNCHANGED <<program, args>>,
         canonical'[th] = canonical[th], authorization'[th] = authorization[th],
         verdict'[th] # "none" => verdict[th] # "none" \/ Signed(th),
         Signed(th) => /\ at'[th] = at[th]
                       /\ timeStamp'[th] = timeStamp[th] /\ dateStamp'[th] = dateStamp[th]
  PROVE  SignedInv(th)'
<1>1. CASE ~Signed(th)
  BY <1>1 DEF SignedInv, Signed, NoCanonical, CanonicalRequest, EmptyMap
<1>2. CASE Signed(th)
  <2>1. Made(th)' = Made(th)
    BY <1>2, MadeStays
  <2>2. Signed(th)'
    BY <1>2 DEF Signed, NoCanonical, CanonicalRequest, EmptyMap
  <2>3. canonical'[th] = Made(th)' /\ at'[th] = "done"
    BY <1>2, <2>1 DEF SignedInv
  <2>4. authorization'[th] = Authorization("secret", timeStamp'[th], dateStamp'[th], canonical'[th])
    BY <1>2 DEF SignedInv
  <2> QED
    BY <2>2, <2>3, <2>4 DEF SignedInv
<1> QED
  BY <1>1, <1>2

LEMMA NextMade ==
  ASSUME DatesInv, DatesInv', MadeInv, [Next]_vars
  PROVE  MadeInv'
<1>1. DatesTypeOK' /\ ArgsOK' /\ ToolsInv'
  BY NextTools DEF DatesInv, MadeInv
<1>2. \A th \in Threads : SignedInv(th)
  BY DEF MadeInv
<1>3. UNCHANGED <<program, args>>
  BY DEF Next, vars, toolVars, Sign, Send, Terminated
<1>4. \A th \in Threads : t[th] \in Int /\ t[th] <= clock /\ clock \in Int
  BY DEF MadeInv, DatesTypeOK, Moments
<1>5. CASE UNCHANGED vars
  <2>1. \A th \in Threads : SignedInv(th)'
    BY <1>2, <1>3, <1>5, SignedStays DEF vars, dateVars, toolVars
  <2> QED
    BY <1>1, <1>4, <1>5, <2>1 DEF MadeInv, vars, dateVars
<1>6. CASE Tick /\ UNCHANGED toolVars
  <2>1. \A th \in Threads : SignedInv(th)'
    BY <1>2, <1>3, <1>6, SignedStays DEF Tick, toolVars
  <2>2. \A th \in Threads : t'[th] <= clock'
    BY <1>4, <1>6 DEF Tick
  <2> QED
    BY <1>1, <2>1, <2>2 DEF MadeInv
<1>7. ASSUME NEW u \in Threads, StepOfDates(u), UNCHANGED toolVars
      PROVE  MadeInv'
  <2>1. ASSUME NEW th \in Threads PROVE SignedInv(th)'
    <3>1. Signed(th) => /\ at'[th] = at[th]
                        /\ timeStamp'[th] = timeStamp[th] /\ dateStamp'[th] = dateStamp[th]
      BY <1>2, <1>7, DoneStands DEF SignedInv, MadeInv
    <3>2. SignedInv(th) /\ canonical'[th] = canonical[th] /\ authorization'[th] = authorization[th]
          /\ verdict'[th] = verdict[th]
      BY <1>2, <1>7 DEF toolVars
    <3> QED
      BY <1>3, <3>1, <3>2, SignedStays
  <2>2. \A th \in Threads : t'[th] <= clock'
    <3>1. clock' = clock
      BY <1>7 DEF StepOfDates, ReadClock, WriteField, FormatField, FormatDateField
    <3>2. \A th \in Threads : t'[th] = t[th] \/ t'[th] = clock
      BY <1>7 DEF MadeInv, DatesTypeOK, StepOfDates, ReadClock, WriteField,
                  FormatField, FormatDateField
    <3> QED
      BY <1>4, <3>1, <3>2
  <2> QED
    BY <1>1, <2>1, <2>2 DEF MadeInv
<1>8. ASSUME NEW u \in Threads, Sign(u)
      PROVE  MadeInv'
  <2>1. ASSUME NEW th \in Threads PROVE SignedInv(th)'
    <3> DEFINE auth == Authorization("secret", timeStamp[u], dateStamp[u], Made(u))
    <3>1. /\ at[u] = "done" /\ canonical[u] = NoCanonical
          /\ canonical' = [canonical EXCEPT ![u] = Made(u)]
          /\ authorization' = [authorization EXCEPT ![u] = auth]
          /\ UNCHANGED <<dateVars, verdict>>
      BY <1>8 DEF Sign, Made
    <3>2. DOMAIN canonical = Threads /\ DOMAIN authorization = Threads
      BY DEF MadeInv, ToolsInv
    <3>3. timeStamp' = timeStamp /\ dateStamp' = dateStamp /\ at' = at /\ verdict' = verdict
      BY <3>1 DEF dateVars
    <3> HIDE DEF auth
    <3>4. CASE th = u
      <4>1. canonical'[th] = Made(th) /\ authorization'[th] = auth
        BY <3>1, <3>2, <3>4
      <4>2. Made(th)' = Made(th)
        BY <1>3, <3>3, MadeStays
      <4>3. authorization'[th] = Authorization("secret", timeStamp'[th], dateStamp'[th], canonical'[th])
        BY <3>3, <3>4, <4>1 DEF auth
      <4>4. verdict'[th] = "none"
        BY <1>2, <3>1, <3>3, <3>4 DEF SignedInv, Signed
      <4>5. at'[th] = "done" /\ canonical'[th] = Made(th)'
        BY <3>1, <3>3, <3>4, <4>1, <4>2
      <4> QED
        BY <4>3, <4>4, <4>5 DEF SignedInv
    <3>5. CASE th # u
      <4>1. canonical'[th] = canonical[th] /\ authorization'[th] = authorization[th]
        BY <3>1, <3>2, <3>5
      <4>2. SignedInv(th)
        BY <1>2
      <4> QED
        BY <1>3, <3>3, <4>1, <4>2, SignedStays
    <3> QED
      BY <3>4, <3>5
  <2>2. \A th \in Threads : t'[th] <= clock'
    BY <1>4, <1>8 DEF Sign, dateVars
  <2> QED
    BY <1>1, <2>1, <2>2 DEF MadeInv
<1>9. ASSUME NEW u \in Threads, Send(u)
      PROVE  MadeInv'
  <2>1. ASSUME NEW th \in Threads PROVE SignedInv(th)'
    <3>1. UNCHANGED <<canonical, authorization, dateVars>> /\ Signed(u)
      BY <1>9 DEF Send, Signed
    <3>2. verdict'[th] # "none" => verdict[th] # "none" \/ Signed(th)
      <4>1. th # u => verdict'[th] = verdict[th]
        BY <1>9 DEF Send, MadeInv, ToolsInv
      <4> QED
        BY <3>1, <4>1
    <3>3. SignedInv(th) /\ at' = at /\ timeStamp' = timeStamp /\ dateStamp' = dateStamp
      BY <1>2, <3>1 DEF dateVars
    <3> QED
      BY <1>3, <3>1, <3>2, <3>3, SignedStays
  <2>2. \A th \in Threads : t'[th] <= clock'
    BY <1>4, <1>9 DEF Send, dateVars
  <2> QED
    BY <1>1, <2>1, <2>2 DEF MadeInv
<1> QED
  BY <1>5, <1>6, <1>7, <1>8, <1>9 DEF Next, Terminated

\* What is signed, by the stamps and the command line it was made of.
THEOREM MadeInvariance == Spec => []MadeInv
<1>1. Init => MadeInv
  BY InitialMade
<1>2. DatesInv /\ DatesInv' /\ MadeInv /\ [Next]_vars => MadeInv'
  BY NextMade
<1> QED
  BY <1>1, <1>2, DatesInvariance, PTL DEF Spec

-------------------------------------------------------------------------------
\* What is signed is what was typed.

\* What is typed is text, and what is read of it too.
LEMMA TypedIsText ==
  ASSUME ArgsOK
  PROVE  args.params \in Seq(Alphabet) /\ args.headers \in Seq(Alphabet) /\ args.key \in Seq(Alphabet)
<1>1. ParamTexts \cup HeaderTexts \cup Keys \subseteq Seq(Alphabet)
  BY ToolsAssumption DEF Alphabet
<1>2. <<>> \in Seq(Alphabet)
  BY EmptySeq
<1>3. Plain.key \in Seq(Alphabet)
  <2>1. Plain.key = <<"a">> /\ "a" \in Alphabet
    BY AlphabetHolds DEF Plain
  <2> QED
    BY <2>1
<1>4. /\ args.params \in ParamTexts \cup {<<>>} /\ args.headers \in HeaderTexts \cup {<<>>}
      /\ args.key \in Keys \cup {Plain.key}
  BY DEF ArgsOK, CommandLines
<1> QED
  BY <1>1, <1>2, <1>3, <1>4

LEMMA ParsedParameters ==
  ASSUME ArgsOK, NEW m, m = ParseParams(args.params)
  PROVE  /\ IsFiniteSet(DOMAIN m)
         /\ DOMAIN m \subseteq Seq(Alphabet) /\ \A n \in DOMAIN m : m[n] \in Seq(Alphabet)
         /\ Pairs(m) = Meaning(args.params, "=")
<1>1. args.params \in Seq(Alphabet) /\ "=" \in Alphabet
  BY TypedIsText, AlphabetHolds
<1>2. Pairs(m) = Meaning(args.params, "=")
  BY <1>1, ParamsMean
<1> QED
  BY <1>1, <1>2, MeaningIsText

\* What SignHeaders signs, part by part.
LEMMA MadeWithHeaders ==
  ASSUME NEW th \in Threads, program # "presign"
  PROVE  /\ Made(th).method = "GET" /\ Made(th).path = CanonicalURI
         /\ Made(th).query = IF Parameters = EmptyMap THEN <<>> ELSE UrlEncodeMap(Parameters)
         /\ Made(th).headers = Insert(DefaultHeaders(th), ParseHeaders(args.headers))
         /\ Made(th).signedHeaders = SignedNames(DefaultHeaders(th), ParseHeaders(args.headers))
         /\ Made(th) = CanonicalRequest(Made(th).method, Made(th).path, Made(th).query,
                                        Made(th).headers, Made(th).signedHeaders)
BY DEF Made, SignedWithHeaders, HeadersRequest, CanonicalRequest, AllHeaders

\* The server decodes what was typed.
LEMMA ParametersTyped == MadeInv => ParametersAsTyped
<1> SUFFICES ASSUME MadeInv, program \in {"sign-header", "s3-client"}, NEW th \in Threads, Signed(th)
             PROVE  {<<UrlDecode(pair[1]), UrlDecode(pair[2])>> : pair \in ToSet(canonical[th].query)}
                      = Meaning(args.params, "=")
  BY DEF ParametersAsTyped
<1>1. PICK m : m = ParseParams(args.params)
  OBVIOUS
<1>2. /\ IsFiniteSet(DOMAIN m)
      /\ DOMAIN m \subseteq Seq(Alphabet) /\ \A n \in DOMAIN m : m[n] \in Seq(Alphabet)
      /\ Pairs(m) = Meaning(args.params, "=")
  BY <1>1, ParsedParameters DEF MadeInv
<1>3. PICK q : q = canonical[th].query
  OBVIOUS
<1>4. q = IF m = EmptyMap THEN <<>> ELSE UrlEncodeMap(m)
  <2>1. Parameters = m
    BY <1>1 DEF Parameters
  <2>2. canonical[th] = Made(th)
    BY DEF MadeInv, SignedInv
  <2> QED
    BY <1>3, <2>1, <2>2, MadeWithHeaders
<1>5. {<<UrlDecode(pair[1]), UrlDecode(pair[2])>> : pair \in ToSet(UrlEncodeMap(m))} = Pairs(m)
  BY <1>2, DecodedQuery
<1>6. CASE m # EmptyMap
  BY <1>2, <1>3, <1>4, <1>5, <1>6
<1>7. CASE m = EmptyMap
  <2>1. ToSet(q) = {}
    <3>1. DOMAIN q = {}
      BY <1>4, <1>7
    <3> QED
      BY <3>1 DEF ToSet
  <2>2. DOMAIN m = {}
    BY <1>7 DEF EmptyMap
  <2>3. Pairs(m) = {}
    BY <2>2 DEF Pairs
  <2> QED
    BY <1>2, <1>3, <2>1, <2>3
<1> QED
  BY <1>6, <1>7

\* For any text typed after -p, the server decodes the parameters the text
\* means (ParseParams, split and UrlEncode, one after the other).
THEOREM ParametersAreTyped == Spec => []ParametersAsTyped
  BY MadeInvariance, ParametersTyped, PTL

\* The headers are the default ones and those typed.
LEMMA HeadersTyped == MadeInv => HeadersAsTyped
<1> SUFFICES ASSUME MadeInv, program \in {"sign-header", "s3-client"}, NEW th \in Threads, Signed(th)
             PROVE  Pairs(canonical[th].headers) =
                      Pairs(DefaultHeaders(th))
                        \cup {pair \in Meaning(ToLowerNames(args.headers), ":") : pair[1] \notin DefaultNames}
  BY DEF HeadersAsTyped
<1>1. PICK default : default = DefaultHeaders(th)
  OBVIOUS
<1>2. PICK additional : additional = ParseHeaders(args.headers)
  OBVIOUS
<1>3. canonical[th].headers = Insert(default, additional)
  <2>1. canonical[th] = Made(th)
    BY DEF MadeInv, SignedInv
  <2> QED
    BY <1>1, <1>2, <2>1, MadeWithHeaders
<1>4. DOMAIN default = DefaultNames
  BY <1>1 DEF DefaultHeaders
<1>5. Pairs(additional) = Meaning(ToLowerNames(args.headers), ":")
  <2>1. args.headers \in Seq(Alphabet) /\ "a" \in Alphabet
    BY TypedIsText, AlphabetHolds DEF MadeInv
  <2> QED
    BY <1>2, <2>1, HeadersMean
<1>6. Pairs(Insert(default, additional)) =
        Pairs(default) \cup {p \in Pairs(additional) : p[1] \notin DOMAIN default}
  BY InsertIs
<1> QED
  BY <1>1, <1>3, <1>4, <1>5, <1>6

\* For any text typed after -H, the headers that join the default ones are
\* those the text means, by names in lower case (ParseHeaders).
THEOREM HeadersAreTyped == Spec => []HeadersAsTyped
  BY MadeInvariance, HeadersTyped, PTL

-------------------------------------------------------------------------------
\* What is sent is what was signed.

\* The tokens of the values that the programs give their headers.
Marks == {"a", ":", "0", "1", "2", "3"}

\* Such a value is sent, and nothing of it is trimmed.
LEMMA MarksAreSent ==
  ASSUME NEW value \in Seq(Marks), Len(value) > 0
  PROVE  value # <<>> /\ Trimmed(value) = value
<1>1. \A k \in 1 .. Len(value) : value[k] # Space
  <2>1. Space \notin Marks
    BY SpaceIsNoLetter DEF Marks
  <2>2. \A k \in 1 .. Len(value) : value[k] \in Marks
    OBVIOUS
  <2> QED
    BY <2>1, <2>2
<1>2. Trimmed(value) = value
  BY <1>1, TrimmedStays
<1> QED
  BY <1>2

LEMMA HostIs == HostText \in Seq(Marks) /\ Len(HostText) > 0
<1> "a" \in Marks /\ ":" \in Marks /\ "0" \in Marks /\ "1" \in Marks
  BY DEF Marks
<1> HIDE DEF Marks
<1>1. PICK p : p = PortText
  OBVIOUS
<1>2. p = <<>> \/ p = <<":", "0">> \/ p = <<":", "1">>
  BY <1>1 DEF PortText
<1>3. p \in Seq(Marks)
  <2>1. <<>> \in Seq(Marks)
    BY EmptySeq
  <2>2. <<":", "0">> \in Seq(Marks) /\ <<":", "1">> \in Seq(Marks)
    OBVIOUS
  <2> QED
    BY <1>2, <2>1, <2>2
<1>4. PICK s : s = <<"a">>
  OBVIOUS
<1>5. s \in Seq(Marks) /\ Len(s) = 1
  BY <1>4
<1>6. s \o p \in Seq(Marks) /\ Len(s \o p) = Len(s) + Len(p)
  BY <1>3, <1>5, ConcatProperties
<1>7. Len(p) \in Nat
  BY <1>3
<1> QED
  BY <1>1, <1>3, <1>4, <1>5, <1>6, <1>7 DEF HostText

\* Neither is the value of a default header, whose date is of six digits.
LEMMA OwnHeaders ==
  ASSUME DatesTypeOK, NEW th \in Threads, ~StampsTorn(th)
  PROVE  \A n \in DOMAIN DefaultHeaders(th) :
           /\ DefaultHeaders(th)[n] # <<>> /\ Trimmed(DefaultHeaders(th)[n]) = DefaultHeaders(th)[n]
           /\ ~Contains(n, Space)
<1> "a" \in Marks /\ ":" \in Marks /\ "0" \in Marks /\ "1" \in Marks /\ "2" \in Marks /\ "3" \in Marks
  BY DEF Marks
<1> HIDE DEF Marks
<1>1. HostText \in Seq(Marks) /\ Len(HostText) > 0
  BY HostIs
<1>2. StampText(timeStamp[th]) \in Seq(Marks) /\ Len(StampText(timeStamp[th])) > 0
  <2>1. timeStamp[th] = StampOf(t[th]) /\ t[th] \in Moments
    BY DEF StampsTorn, DatesTypeOK
  <2>2. \A f \in TmFields : Digit(timeStamp[th][f]) \in Marks
    <3>1. \A f \in TmFields : timeStamp[th][f] \in 0 .. 3
      BY <2>1, OfTheMoment
    <3> QED
      BY <3>1, DigitIs
  <2>3. DOMAIN FormatOrder = 1 .. 6 /\ \A k \in 1 .. 6 : FormatOrder[k] \in TmFields
    BY OrdersAre DEF FormatOrder
  <2>4. PICK text : text = StampText(timeStamp[th])
    OBVIOUS
  <2>5. text = [k \in 1 .. 6 |-> Digit(timeStamp[th][FormatOrder[k]])]
    BY <2>3, <2>4 DEF StampText, Digits
  <2>6. \A k \in 1 .. 6 : Digit(timeStamp[th][FormatOrder[k]]) \in Marks
    BY <2>2, <2>3
  <2> HIDE DEF Marks
  <2>7. text \in Seq(Marks) /\ Len(text) = 6
    BY <2>5, <2>6
  <2> QED
    BY <2>4, <2>7
<1>3. <<"a">> \in Seq(Marks) /\ Len(<<"a">>) > 0
  OBVIOUS
<1>4. Host # ContentSha256 /\ Host # AmzDate /\ ContentSha256 # AmzDate
  <2>1. Len(Host) = 1 /\ Len(ContentSha256) = 2 /\ Len(AmzDate) = 2
    BY DEF Host, ContentSha256, AmzDate
  <2>2. ContentSha256[2] = "content-sha256" /\ AmzDate[2] = "date"
    BY DEF ContentSha256, AmzDate
  <2> QED
    BY <2>1, <2>2
<1>5. DOMAIN DefaultHeaders(th) = {Host, ContentSha256, AmzDate}
  BY DEF DefaultHeaders, DefaultNames
<1>6. /\ DefaultHeaders(th)[Host] = HostText
      /\ DefaultHeaders(th)[ContentSha256] = <<"a">>
      /\ DefaultHeaders(th)[AmzDate] = StampText(timeStamp[th])
  BY <1>4 DEF DefaultHeaders, DefaultNames
<1>7. ~Contains(Host, Space) /\ ~Contains(ContentSha256, Space) /\ ~Contains(AmzDate, Space)
  BY SpaceIsNoLetter DEF Contains, Host, ContentSha256, AmzDate
<1>8. \A n \in DOMAIN DefaultHeaders(th) :
        DefaultHeaders(th)[n] \in Seq(Marks) /\ Len(DefaultHeaders(th)[n]) > 0
  BY <1>1, <1>2, <1>3, <1>5, <1>6
<1>9. \A n \in DOMAIN DefaultHeaders(th) :
        DefaultHeaders(th)[n] # <<>> /\ Trimmed(DefaultHeaders(th)[n]) = DefaultHeaders(th)[n]
  BY <1>8, MarksAreSent
<1> QED
  BY <1>5, <1>7, <1>9

\* The headers of a request that SignHeaders has signed arrive as they were signed.
LEMMA HeadersArrive ==
  ASSUME DatesTypeOK, NEW th \in Threads, ~StampsTorn(th), ~UnfitHeader, program # "presign",
         NEW H, H = Made(th).headers
  PROVE  /\ Made(th).signedHeaders = DOMAIN H
         /\ OnTheWire(H) = H
         /\ \A n \in DOMAIN H : ~Contains(n, Space)
         /\ H = [n \in DOMAIN H |-> Trimmed(H[n])]
<1>1. PICK default : default = DefaultHeaders(th)
  OBVIOUS
<1>2. PICK additional : additional = ParseHeaders(args.headers)
  OBVIOUS
<1>3. H = [n \in DOMAIN default \cup DOMAIN additional |-> IF n \in DOMAIN default THEN default[n] ELSE additional[n]]
  BY <1>1, <1>2, MadeWithHeaders DEF Insert
<1>4. \A n \in DOMAIN default : default[n] # <<>> /\ Trimmed(default[n]) = default[n] /\ ~Contains(n, Space)
  BY <1>1, OwnHeaders
<1>5. \A n \in DOMAIN additional \ DOMAIN default :
        IsAmz(n) /\ ~Contains(n, Space) /\ additional[n] # <<>> /\ Trimmed(additional[n]) = additional[n]
  <2> TAKE n \in DOMAIN additional \ DOMAIN default
  <2>1. PICK pair : pair = <<n, additional[n]>>
    OBVIOUS
  <2>2. pair \in Pairs(additional)
    BY <2>1 DEF Pairs
  <2>3. IsAmz(pair[1]) /\ ~Contains(pair[1], Space) /\ pair[2] # <<>> /\ Trimmed(pair[2]) = pair[2]
    <3>1. pair[1] \notin DefaultNames
      BY <1>1, <2>1 DEF DefaultHeaders
    <3> QED
      BY <1>2, <2>2, <3>1 DEF UnfitHeader
  <2> QED
    BY <2>1, <2>3
<1>6. DOMAIN H = DOMAIN default \cup DOMAIN additional
  BY <1>3
<1>7. \A n \in DOMAIN H : H[n] # <<>> /\ Trimmed(H[n]) = H[n] /\ ~Contains(n, Space)
  <2> TAKE n \in DOMAIN H
  <2>1. CASE n \in DOMAIN default
    <3>1. H[n] = default[n]
      BY <1>3, <2>1
    <3> QED
      BY <1>4, <2>1, <3>1
  <2>2. CASE n \notin DOMAIN default
    <3>1. H[n] = additional[n] /\ n \in DOMAIN additional
      BY <1>3, <2>2
    <3> QED
      BY <1>5, <2>2, <3>1
  <2> QED
    BY <2>1, <2>2
<1>8. Made(th).signedHeaders = DOMAIN H
  <2>1. Made(th).signedHeaders = DOMAIN default \cup {n \in DOMAIN additional : IsAmz(n)}
    BY <1>1, <1>2, MadeWithHeaders DEF SignedNames
  <2> QED
    BY <1>5, <1>6, <2>1
<1>9. H = [n \in DOMAIN H |-> H[n]]
  BY <1>3
<1>10. OnTheWire(H) = H
  <2>1. DOMAIN H \cap {n \in DOMAIN H : H[n] # <<>>} = DOMAIN H
    BY <1>7
  <2>2. OnTheWire(H) = [n \in DOMAIN H |-> H[n]]
    BY <2>1 DEF OnTheWire, Select
  <2> QED
    BY <1>9, <2>2
<1>11. H = [n \in DOMAIN H |-> Trimmed(H[n])]
  BY <1>7, <1>9
<1> QED
  BY <1>7, <1>8, <1>10, <1>11

\* They are sent as they were signed, unless s3-client keeps other values of the user's.
LEMMA SignedAreSent ==
  ASSUME NEW th \in Threads, program # "presign", canonical[th] = Made(th),
         ~(program = "s3-client" /\ Replaced(th))
  PROVE  HeadersToSend(th) = Made(th).headers
<1>1. PICK default : default = DefaultHeaders(th)
  OBVIOUS
<1>2. PICK additional : additional = ParseHeaders(args.headers)
  OBVIOUS
<1>3. PICK H : H = Made(th).headers
  OBVIOUS
<1>4. H = [n \in DOMAIN default \cup DOMAIN additional |-> IF n \in DOMAIN default THEN default[n] ELSE additional[n]]
  BY <1>1, <1>2, <1>3, MadeWithHeaders DEF Insert
<1>5. CASE program # "s3-client"
  BY <1>5 DEF HeadersToSend
<1>6. CASE program = "s3-client"
  <2>1. \A n \in DOMAIN default \cap DOMAIN additional : additional[n] = default[n]
    <3>1. DOMAIN default = DefaultNames
      BY <1>1 DEF DefaultHeaders
    <3> QED
      BY <1>1, <1>2, <1>6, <3>1 DEF Replaced
  <2>2. DOMAIN H = DOMAIN default \cup DOMAIN additional
    BY <1>4
  <2>3. \A n \in DOMAIN additional : H[n] = additional[n]
    BY <1>4, <2>1
  <2>4. DOMAIN additional \cup DOMAIN H = DOMAIN H
    BY <2>2
  <2>5. [n \in DOMAIN H |-> IF n \in DOMAIN additional THEN additional[n] ELSE H[n]]
          = [n \in DOMAIN H |-> H[n]]
    BY <2>3
  <2>6. H = [n \in DOMAIN H |-> H[n]]
    BY <1>4
  <2>7. Insert(additional, H) = H
    BY <2>4, <2>5, <2>6 DEF Insert
  <2> QED
    BY <1>2, <1>3, <1>6, <2>7 DEF HeadersToSend
<1> QED
  BY <1>5, <1>6

\* The parameters that the programs name themselves sort as they are encoded.
LEMMA OwnQueryStays ==
  ASSUME NEW m, DOMAIN m \subseteq {<<"X-Amz-Algorithm">>, <<"X-Amz-Credential">>, <<"X-Amz-Date">>,
           <<"X-Amz-Expires">>, <<"X-Amz-SignedHeaders">>, <<"partNumber">>, <<"uploadId">>}
  PROVE  CanonicalQuery(UrlEncodeMap(m)) = UrlEncodeMap(m)
<1>1. PICK names : names = DOMAIN m
  OBVIOUS
<1>2. names \subseteq Seq(Alphabet) /\ IsFiniteSet(names) /\ \A x \in names : UrlEncode(x) = x
  BY <1>1, OwnNames
<1>3. \A x, y \in names : Less(x, y) => ~Less(UrlEncode(y), UrlEncode(x))
  <2> SUFFICES ASSUME NEW x \in names, NEW y \in names, Less(x, y) PROVE ~Less(UrlEncode(y), UrlEncode(x))
    OBVIOUS
  <2>1. UrlEncode(x) = x /\ UrlEncode(y) = y /\ x \in Seq(Alphabet) /\ y \in Seq(Alphabet)
    BY <1>2
  <2>2. ~Less(x, x)
    BY <2>1, LessIsStrict
  <2>3. Less(y, x) => Less(x, x)
    BY <2>1, LessGoesOn
  <2> QED
    BY <2>1, <2>2, <2>3
<1> QED
  BY <1>1, <1>2, <1>3, QueryStays

\* The server sorts the query as it was signed.
LEMMA QueryArrives ==
  ASSUME ArgsOK, NEW th \in Threads, program # "presign" => ~OrderChanges
  PROVE  CanonicalQuery(Made(th).query) = Made(th).query
<1>1. CASE program = "presign"
  <2>1. PICK m : m = Insert(UrlParameters(th), EmptyMap)
    OBVIOUS
  <2>2. DOMAIN m \subseteq {<<"X-Amz-Algorithm">>, <<"X-Amz-Credential">>, <<"X-Amz-Date">>,
           <<"X-Amz-Expires">>, <<"X-Amz-SignedHeaders">>}
    <3>1. DOMAIN m = DOMAIN UrlParameters(th) \cup DOMAIN EmptyMap
      BY <2>1 DEF Insert
    <3>2. DOMAIN EmptyMap = {}
      BY DEF EmptyMap
    <3> QED
      BY <3>1, <3>2 DEF UrlParameters
  <2>3. Made(th).query = UrlEncodeMap(m)
    BY <1>1, <2>1 DEF Made, SignedInUrl, UrlRequest, CanonicalRequest
  <2> QED
    BY <2>2, <2>3, OwnQueryStays
<1>2. CASE program # "presign"
  <2>1. PICK m : m = Parameters
    OBVIOUS
  <2>2. Made(th).query = IF m = EmptyMap THEN <<>> ELSE UrlEncodeMap(m)
    BY <1>2, <2>1, MadeWithHeaders
  <2>3. CanonicalQuery(UrlEncodeMap(m)) = UrlEncodeMap(m)
    <3>1. CASE program = "transfer"
      <4>1. DOMAIN m = {<<"partNumber">>, <<"uploadId">>}
        BY <2>1, <3>1 DEF Parameters, PartParameters
      <4> QED
        BY <4>1, OwnQueryStays
    <3>2. CASE program # "transfer"
      <4>1. m = ParseParams(args.params)
        BY <2>1, <3>2 DEF Parameters
      <4>2. IsFiniteSet(DOMAIN m) /\ DOMAIN m \subseteq Seq(Alphabet)
        BY <4>1, ParsedParameters
      <4>3. \A x, y \in DOMAIN m : Less(x, y) => ~Less(UrlEncode(y), UrlEncode(x))
        BY <1>2, <2>1 DEF OrderChanges
      <4> QED
        BY <4>2, <4>3, QueryStays
    <3> QED
      BY <3>1, <3>2
  <2> QED
    BY <2>2, <2>3, NoQueryStays
<1> QED
  BY <1>1, <1>2

\* r is s, of length l, with u, of length n, after it.
Joined(r, l, s, n, u) ==
  Len(r) = l + n /\ \A k \in 1 .. l + n : r[k] = IF k <= l THEN s[k] ELSE u[k - l]

LEMMA ConcatIs ==
  ASSUME NEW S, NEW s \in Seq(S), NEW u \in Seq(S), NEW l, l = Len(s), NEW n, n = Len(u),
         NEW r, r = s \o u
  PROVE  r \in Seq(S) /\ Joined(r, l, s, n, u)
BY ConcatProperties DEF Joined

\* The path is what the server makes of it, if the key needs no escapes.
LEMMA PathArrives ==
  ASSUME ArgsOK, ~\E k \in DOMAIN args.key : args.key[k] \in DOMAIN Escape \ {"/"}
  PROVE  CanonicalPath(CanonicalURI) = CanonicalURI
<1>1. PICK key : key = args.key
  OBVIOUS
<1>2. PICK s : s = <<"/", "a", "/">>
  OBVIOUS
<1>3. key \in Seq(Alphabet) /\ "/" \in Alphabet /\ "a" \in Alphabet /\ "a" \notin DOMAIN Escape
  <2>1. "/" \in Alphabet /\ "a" \in Alphabet
    BY AlphabetHolds
  <2>2. "a" \notin DOMAIN Escape
    BY Zenon, EscapeIs DEF Space, Semicolon
  <2> QED
    BY <1>1, <2>1, <2>2, TypedIsText
<1>4. s \in Seq(Alphabet) /\ Len(s) = 3 /\ \A k \in 1 .. 3 : s[k] \in {"/", "a"}
  BY <1>2, <1>3
<1>5. PICK path : path = s \o key
  OBVIOUS
<1>6. PICK n \in Nat : n = Len(key)
  BY <1>3
<1>7. /\ path \in Seq(Alphabet) /\ Len(path) = 3 + n
      /\ \A k \in 1 .. 3 + n : path[k] = IF k <= 3 THEN s[k] ELSE key[k - 3]
  <2>1. PICK l \in Nat : l = Len(s) /\ l = 3
    BY <1>4
  <2>2. path \in Seq(Alphabet) /\ Joined(path, l, s, n, key)
    BY <1>3, <1>4, <1>5, <1>6, <2>1, ConcatIs
  <2> QED
    BY <2>1, <2>2 DEF Joined
<1>8. \A k \in DOMAIN path : path[k] \notin DOMAIN Escape \ {"/"}
  <2> TAKE k \in DOMAIN path
  <2>1. k \in 1 .. 3 + n
    BY <1>7
  <2>2. CASE k <= 3
    BY <1>3, <1>4, <1>7, <2>1, <2>2
  <2>3. CASE k > 3
    <3>1. k - 3 \in DOMAIN key
      BY <1>3, <1>6, <2>1, <2>3
    <3>2. path[k] = key[k - 3]
      BY <1>7, <2>1, <2>3
    <3> QED
      BY <1>1, <3>1, <3>2
  <2> QED
    BY <2>1, <2>2, <2>3
<1>9. CanonicalPath(path) = path
  BY <1>7, <1>8, PathStays
<1> QED
  BY <1>1, <1>2, <1>5, <1>9 DEF CanonicalURI

-------------------------------------------------------------------------------
\* Verdicts.

Limit == IF program = "presign" THEN args.expiration ELSE Skew

\* The reasons of AcceptedOtherwise that do not depend on when a request arrives.
Unfit(th) ==
  \/ StampsTorn(th)
  \/ program # "presign" /\ (OrderChanges \/ UnfitHeader)
  \/ program = "s3-client" /\ Replaced(th)
  \/ \E k \in DOMAIN args.key : args.key[k] \in DOMAIN Escape \ {"/"}
  \/ program = "presign" /\ args.port = "default"

\* A request that is not late is timely for the server too.
LEMMA InTime ==
  ASSUME DatesTypeOK, ArgsOK, NEW th \in Threads, ~StampsTorn(th),
         t[th] <= clock, ~(clock - t[th] > Limit)
  PROVE  Timely(th)
<1>1. PICK m \in Moments : m = t[th]
  BY DEF DatesTypeOK
<1>2. timeStamp[th] = StampOf(m)
  BY <1>1 DEF StampsTorn
<1>3. MomentOf(timeStamp[th]) = m
  BY <1>2, OfTheMoment
<1>4. m \in Int /\ clock \in Int /\ Skew \in Nat
  BY <1>1, ToolsAssumption DEF DatesTypeOK, Moments
<1>5. args.expiration \in Int
  <2>1. Expirations \subseteq Int
    BY ToolsAssumption
  <2>2. Plain.expiration \in Int
    BY DEF Plain
  <2> QED
    BY <2>1, <2>2 DEF ArgsOK, CommandLines
<1>6. PICK l \in Int : l = Limit
  BY <1>4, <1>5 DEF Limit
<1>7. clock <= m + l /\ m <= clock + Skew
  BY <1>1, <1>4, <1>6
<1>8. Timely(th) <=> (m <= clock + Skew /\ clock <= m + l)
  BY <1>3, <1>6 DEF Timely, Limit
<1> QED
  BY <1>7, <1>8

\* What the server makes of a fit request is what was signed.
LEMMA RequestArrives ==
  ASSUME DatesTypeOK, ArgsOK, NEW th \in Threads, canonical[th] = Made(th), ~Unfit(th)
  PROVE  /\ Made(th).signedHeaders \subseteq DOMAIN Request(th).headers
         /\ \A n \in DOMAIN Request(th).headers : ~Contains(n, Space)
         /\ ServerRequest(Request(th), Made(th).signedHeaders) = Made(th)
<1>1. PICK c : c = Made(th)
  OBVIOUS
<1>2. PICK r : r = Request(th)
  OBVIOUS
<1>3. r.method = "GET" /\ r.path = CanonicalURI /\ r.query = c.query
  BY <1>1, <1>2 DEF Request
<1>4. CanonicalPath(CanonicalURI) = CanonicalURI
  BY PathArrives DEF Unfit
<1>5. CanonicalQuery(c.query) = c.query
  BY <1>1, QueryArrives DEF Unfit
<1>6. ASSUME c.signedHeaders = DOMAIN c.headers, r.headers = c.headers,
             \A n \in DOMAIN c.headers : ~Contains(n, Space),
             c.headers = [n \in DOMAIN c.headers |-> Trimmed(c.headers[n])],
             c = CanonicalRequest("GET", CanonicalURI, c.query, c.headers, c.signedHeaders)
      PROVE  /\ c.signedHeaders \subseteq DOMAIN r.headers
             /\ \A n \in DOMAIN r.headers : ~Contains(n, Space)
             /\ ServerRequest(r, c.signedHeaders) = c
  <2>1. DOMAIN r.headers \cap c.signedHeaders = DOMAIN c.headers
    BY <1>6
  <2>2. [n \in DOMAIN r.headers \cap c.signedHeaders |-> Trimmed(r.headers[n])] = c.headers
    BY <1>6, <2>1
  <2>3. ServerRequest(r, c.signedHeaders) =
          CanonicalRequest("GET", CanonicalURI, c.query, c.headers, c.signedHeaders)
    BY <1>3, <1>4, <1>5, <2>2 DEF ServerRequest
  <2> QED
    BY <1>6, <2>3
<1>7. CASE program = "presign"
  <2>1. c = CanonicalRequest("GET", CanonicalURI, c.query, HostHeader(HostText), {Host})
    BY <1>1, <1>7 DEF Made, SignedInUrl, UrlRequest, CanonicalRequest
  <2>2. c.headers = HostHeader(HostText) /\ c.signedHeaders = {Host}
    BY <2>1 DEF CanonicalRequest
  <2>3. r.headers = HostHeader(HostText)
    BY <1>2, <1>7 DEF Request, HostOfUrl, Unfit
  <2>4. HostHeader(HostText) = [n \in {Host} |-> HostText]
    BY DEF HostHeader
  <2>5. Trimmed(HostText) = HostText
    BY HostIs, MarksAreSent
  <2>6. \A n \in {Host} : ~Contains(n, Space)
    <3>1. ~Contains(Host, Space)
      BY SpaceIsNoLetter DEF Contains, Host
    <3> QED
      BY <3>1
  <2>7. DOMAIN c.headers = {Host} /\ \A n \in {Host} : c.headers[n] = HostText
    BY <2>2, <2>4
  <2>8. c.headers = [n \in DOMAIN c.headers |-> Trimmed(c.headers[n])]
    BY <2>2, <2>4, <2>5, <2>7
  <2>9. c = CanonicalRequest("GET", CanonicalURI, c.query, c.headers, c.signedHeaders)
    BY <2>1, <2>2
  <2>10. \A n \in DOMAIN c.headers : ~Contains(n, Space)
    BY <2>6, <2>7
  <2> QED
    BY <1>1, <1>2, <1>6, <2>2, <2>3, <2>7, <2>8, <2>9, <2>10
<1>8. CASE program # "presign"
  <2>1. ~StampsTorn(th) /\ ~UnfitHeader
    BY <1>8 DEF Unfit
  <2>2. PICK H : H = c.headers
    OBVIOUS
  <2>3. /\ c.signedHeaders = DOMAIN H /\ OnTheWire(H) = H
        /\ \A n \in DOMAIN H : ~Contains(n, Space)
        /\ H = [n \in DOMAIN H |-> Trimmed(H[n])]
    BY <1>1, <1>8, <2>1, <2>2, HeadersArrive
  <2>4. r.headers = H
    <3>1. r.headers = OnTheWire(HeadersToSend(th))
      BY <1>2, <1>8 DEF Request
    <3>2. HeadersToSend(th) = c.headers
      BY <1>1, <1>8, SignedAreSent DEF Unfit
    <3> QED
      BY <2>2, <2>3, <3>1, <3>2
  <2>5. c = CanonicalRequest("GET", CanonicalURI, c.query, c.headers, c.signedHeaders)
    BY <1>1, <1>8, MadeWithHeaders
  <2> QED
    BY <1>1, <1>2, <1>6, <2>2, <2>3, <2>4, <2>5
<1> QED
  BY <1>7, <1>8

\* What is fit and in time is accepted.
LEMMA FitIsAccepted ==
  ASSUME MadeInv, NEW th \in Threads, Signed(th), ~Unfit(th), ~(clock - t[th] > Limit)
  PROVE  Accepts(th)
<1>1. /\ DatesTypeOK /\ ArgsOK /\ t[th] <= clock /\ canonical[th] = Made(th)
      /\ authorization[th] = Authorization("secret", timeStamp[th], dateStamp[th], canonical[th])
  BY DEF MadeInv, SignedInv
<1>2. ~StampsTorn(th)
  BY DEF Unfit
<1>3. DateOf(timeStamp[th]) = dateStamp[th]
  BY <1>2 DEF StampsTorn
<1>4. PICK scope : scope = [date |-> dateStamp[th], region |-> "us-east-1", service |-> "s3"]
  OBVIOUS
<1>5. authorization[th] =
        [scope |-> scope, signature |-> ServerSignature("secret", timeStamp[th], scope, canonical[th])]
  BY <1>1, <1>4, SignatureIs
<1>6. /\ authorization[th].scope = scope /\ scope.date = DateOf(timeStamp[th])
      /\ authorization[th].signature = ServerSignature("secret", timeStamp[th], scope, canonical[th])
  BY <1>3, <1>4, <1>5
<1>7. Timely(th)
  BY <1>1, <1>2, InTime
<1>8. /\ canonical[th].signedHeaders \subseteq DOMAIN Request(th).headers
      /\ \A n \in DOMAIN Request(th).headers : ~Contains(n, Space)
      /\ ServerRequest(Request(th), canonical[th].signedHeaders) = canonical[th]
  BY <1>1, RequestArrives
<1> QED
  BY <1>6, <1>7, <1>8 DEF Accepts

\* A reason stands as long as the stamps and the command line.
LEMMA ReasonsStay ==
  ASSUME NEW th \in Threads, UNCHANGED <<program, args>>, t'[th] = t[th],
         timeStamp'[th] = timeStamp[th], dateStamp'[th] = dateStamp[th]
  PROVE  /\ Unfit(th)' = Unfit(th)
         /\ arrived'[th] = arrived[th] => TooLate(th)' = TooLate(th)
<1>1. StampsTorn(th)' = StampsTorn(th)
  BY DEF StampsTorn
<1>2. OrderChanges' = OrderChanges
  BY DEF OrderChanges, Parameters
<1>3. UnfitHeader' = UnfitHeader
  BY DEF UnfitHeader
<1>4. arrived'[th] = arrived[th] => TooLate(th)' = TooLate(th)
  BY DEF TooLate
<1>5. Replaced(th)' = Replaced(th)
  BY DefaultStays DEF Replaced
<1> QED
  BY <1>1, <1>2, <1>3, <1>4, <1>5 DEF Unfit

\* No verdict at first; a verdict has its reason when it is given.
LEMMA InitialVerdicts == Init => AcceptedOtherwise
BY DEF Init, AcceptedOtherwise

LEMMA NextVerdicts ==
  ASSUME MadeInv, AcceptedOtherwise, [Next]_vars
  PROVE  AcceptedOtherwise'
<1>1. \A th \in Threads : verdict[th] = "refused" => TooLate(th) \/ Unfit(th)
  BY DEF AcceptedOtherwise, Unfit
<1>2. SUFFICES ASSUME NEW th \in Threads, verdict'[th] = "refused"
               PROVE  TooLate(th)' \/ Unfit(th)'
  BY DEF AcceptedOtherwise, Unfit
<1>3. UNCHANGED <<program, args>>
  BY DEF Next, vars, toolVars, Sign, Send, Terminated
<1>4. verdict[th] = "refused" => at[th] = "done"
  BY DEF MadeInv, SignedInv
<1>5. CASE UNCHANGED <<verdict, arrived>> /\ UNCHANGED dateVars
  <2>1. TooLate(th) \/ Unfit(th)
    BY <1>1, <1>2, <1>5
  <2> QED
    BY <1>3, <1>5, <2>1, ReasonsStay DEF dateVars
<1>6. CASE Tick /\ UNCHANGED toolVars
  <2>1. TooLate(th) \/ Unfit(th)
    BY <1>1, <1>2, <1>6 DEF toolVars
  <2> QED
    BY <1>3, <1>6, <2>1, ReasonsStay DEF Tick, toolVars
<1>7. ASSUME NEW u \in Threads, StepOfDates(u), UNCHANGED toolVars
      PROVE  TooLate(th)' \/ Unfit(th)'
  <2>1. verdict[th] = "refused" /\ arrived'[th] = arrived[th]
    BY <1>2, <1>7 DEF toolVars
  <2>2. TooLate(th) \/ Unfit(th)
    BY <1>1, <2>1
  <2>3. t'[th] = t[th] /\ timeStamp'[th] = timeStamp[th] /\ dateStamp'[th] = dateStamp[th]
    BY <1>4, <1>7, <2>1, DoneStands DEF MadeInv
  <2> QED
    BY <1>3, <2>1, <2>2, <2>3, ReasonsStay
<1>8. ASSUME NEW u \in Threads, Send(u)
      PROVE  TooLate(th)' \/ Unfit(th)'
  <2>1. t' = t /\ timeStamp' = timeStamp /\ dateStamp' = dateStamp
    BY <1>8 DEF Send, dateVars
  <2>2. Unfit(th)' = Unfit(th) /\ (arrived'[th] = arrived[th] => TooLate(th)' = TooLate(th))
    BY <1>3, <2>1, ReasonsStay
  <2>3. CASE th # u
    <3>1. verdict'[th] = verdict[th] /\ arrived'[th] = arrived[th]
      BY <1>8, <2>3 DEF Send, MadeInv, ToolsInv
    <3> QED
      BY <1>1, <1>2, <2>2, <3>1
  <2>4. CASE th = u
    <3>1. verdict'[u] = IF Accepts(u) THEN "accepted" ELSE "refused"
      BY <1>8 DEF Send, MadeInv, ToolsInv
    <3>2. ~Accepts(u)
      BY <1>2, <2>4, <3>1
    <3>3. arrived'[u] = clock
      BY <1>8 DEF Send, MadeInv, ToolsInv
    <3>4. Signed(u)
      BY <1>8 DEF Send, Signed
    <3>5. Unfit(u) \/ clock - t[u] > Limit
      BY <3>2, <3>4, FitIsAccepted
    <3>6. clock - t[u] > Limit => TooLate(u)'
      BY <1>3, <2>1, <3>3 DEF TooLate, Limit
    <3> QED
      BY <2>2, <2>4, <3>5, <3>6
  <2> QED
    BY <2>3, <2>4
<1>9. ASSUME NEW u \in Threads, Sign(u)
      PROVE  UNCHANGED <<verdict, arrived>> /\ UNCHANGED dateVars
  BY <1>9 DEF Sign
<1>10. CASE UNCHANGED vars
  BY <1>5, <1>10 DEF vars, toolVars
<1> QED
  BY <1>5, <1>6, <1>7, <1>8, <1>9, <1>10 DEF Next, Terminated

\* A signed request is accepted but for the reasons that AcceptedOtherwise
\* names, whatever is typed and however the threads interleave (both
\* signatures, the stamps, the encoding and the server's computation).
THEOREM Accepted == Spec => []AcceptedOtherwise
<1>1. Init => AcceptedOtherwise
  BY InitialVerdicts
<1>2. MadeInv /\ AcceptedOtherwise /\ [Next]_vars => AcceptedOtherwise'
  BY NextVerdicts
<1> QED
  BY <1>1, <1>2, MadeInvariance, PTL DEF Spec

===============================================================================
