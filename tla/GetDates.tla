------------------------------- MODULE GetDates -------------------------------
(***************************************************************************)
(* GetDates (src/src/aws_sign.cpp) in the threads of a process.  gmtime    *)
(* fills one struct tm for all of them and strftime reads it twice, once   *)
(* for the full date-time and once for the date, all of it field by field  *)
(* and under no lock.                                                      *)
(***************************************************************************)
EXTENDS Integers, Sequences

CONSTANTS
  Threads,     \* the threads that may sign
  Length,      \* seconds in a minute, minutes in an hour, ... months in a year
  Start,       \* the clock at the start
  MaxClock     \* bound on the clock

TmFields == {"year", "mon", "mday", "hour", "min", "sec"}
DateFields == {"year", "mon", "mday"}

ASSUME ClockAssumption ==
  /\ Length \in [TmFields \ {"year"} -> Nat \ {0}]
  /\ Start \in Nat /\ MaxClock \in Nat /\ Start <= MaxClock

VARIABLES
  clock,      \* time(): the moment, in seconds
  ts,         \* the struct tm of gmtime, shared
  at,         \* per thread, where it stands in GetDates
  pos,        \* per thread, which field is next there
  t,          \* per thread, what it got from time()
  timeStamp,  \* per thread, the date-time formatted: its fields
  dateStamp,  \* per thread, the date formatted
  disturbed   \* history: another thread wrote to ts while this one used it

dateVars == <<clock, ts, at, pos, t, timeStamp, dateStamp, disturbed>>

Moments == Start .. MaxClock
Stamps == [TmFields -> Int]
Dates == [DateFields -> Int]

\* The calendar, in which all months have one length and every unit counts from 0.
StampOf(m) ==
  LET minute == m \div Length.sec
      hour == minute \div Length.min
      day == hour \div Length.hour
      month == day \div Length.mday
  IN  [year |-> month \div Length.mon, mon |-> month % Length.mon, mday |-> day % Length.mday,
       hour |-> hour % Length.hour, min |-> minute % Length.min, sec |-> m % Length.sec]

MomentOf(stamp) ==
  ((((stamp.year * Length.mon + stamp.mon) * Length.mday + stamp.mday) * Length.hour
      + stamp.hour) * Length.min + stamp.min) * Length.sec + stamp.sec

DateOf(stamp) == [f \in DateFields |-> stamp[f]]

Steps == {"out", "time", "gmtime", "format", "formatDate", "done"}

InitDates(callers) ==
  /\ clock = Start
  /\ ts = StampOf(Start)
  /\ at = [th \in Threads |-> IF th \in callers THEN "time" ELSE "out"]
  /\ pos = [th \in Threads |-> 1]
  /\ t = [th \in Threads |-> Start]
  /\ timeStamp = [th \in Threads |-> StampOf(Start)]
  /\ dateStamp = [th \in Threads |-> DateOf(StampOf(Start))]
  /\ disturbed = [th \in Threads |-> FALSE]

Tick ==
  /\ clock < MaxClock
  /\ clock' = clock + 1
  /\ UNCHANGED <<ts, at, pos, t, timeStamp, dateStamp, disturbed>>

\* time(&t)
ReadClock(th) ==
  /\ at[th] = "time"
  /\ at' = [at EXCEPT ![th] = "gmtime"]
  /\ t' = [t EXCEPT ![th] = clock]
  /\ UNCHANGED <<clock, ts, pos, timeStamp, dateStamp, disturbed>>

\* The next field of those in order, or the next call after the last of them.
NextField(th, order, call) ==
  IF pos[th] < Len(order)
  THEN pos' = [pos EXCEPT ![th] = @ + 1] /\ UNCHANGED at
  ELSE pos' = [pos EXCEPT ![th] = 1] /\ at' = [at EXCEPT ![th] = call]

Using(th) == at[th] \in {"format", "formatDate"} \/ (at[th] = "gmtime" /\ pos[th] > 1)

\* gmtime(&t), in the order in which the C library writes.
WriteOrder == <<"hour", "min", "sec", "year", "mon", "mday">>

WriteField(th) ==
  /\ at[th] = "gmtime"
  /\ NextField(th, WriteOrder, "format")
  /\ LET f == WriteOrder[pos[th]]
     IN  ts' = [ts EXCEPT ![f] = StampOf(t[th])[f]]
  /\ disturbed' = [u \in Threads |-> disturbed[u] \/ (u # th /\ Using(u))]
  /\ UNCHANGED <<clock, t, timeStamp, dateStamp>>

\* strftime "%Y%m%dT%H%M%SZ"
FormatOrder == <<"year", "mon", "mday", "hour", "min", "sec">>

FormatField(th) ==
  /\ at[th] = "format"
  /\ NextField(th, FormatOrder, "formatDate")
  /\ LET f == FormatOrder[pos[th]]
     IN  timeStamp' = [timeStamp EXCEPT ![th][f] = ts[f]]
  /\ UNCHANGED <<clock, ts, t, dateStamp, disturbed>>

\* strftime "%Y%m%d"
DateOrder == <<"year", "mon", "mday">>

\* Mutant: the date is that of a second look at the clock.
FormatDateFieldLate(th) ==
  /\ at[th] = "formatDate"
  /\ NextField(th, DateOrder, "done")
  /\ LET f == DateOrder[pos[th]]
     IN  dateStamp' = [dateStamp EXCEPT ![th][f] = StampOf(clock)[f]]
  /\ UNCHANGED <<clock, ts, t, timeStamp, disturbed>>

FormatDateField(th) ==
  /\ at[th] = "formatDate"
  /\ NextField(th, DateOrder, "done")
  /\ LET f == DateOrder[pos[th]]
     IN  dateStamp' = [dateStamp EXCEPT ![th][f] = ts[f]]
  /\ UNCHANGED <<clock, ts, t, timeStamp, disturbed>>

StepOfDates(th) == ReadClock(th) \/ WriteField(th) \/ FormatField(th) \/ FormatDateField(th)

-------------------------------------------------------------------------------
\* Properties.

DatesTypeOK ==
  /\ clock \in Moments
  /\ ts \in Stamps
  /\ at \in [Threads -> Steps]
  /\ pos \in [Threads -> 1 .. 6]
  /\ t \in [Threads -> Moments]
  /\ timeStamp \in [Threads -> Stamps]
  /\ dateStamp \in [Threads -> Dates]
  /\ disturbed \in [Threads -> BOOLEAN]

\* The two stamps are of the moment the thread read, unless another thread was
\* in GetDates at the same time; then each field of each stamp is that field of
\* a moment some thread has read, and no more: 10:59:59 and 11:00:00 may give
\* 11:59:59, and the two stamps two dates (the one struct tm of gmtime, under
\* the threads of s3-upload and s3-download).
HasRead == {u \in Threads : at[u] \notin {"out", "time"}}

StampsOtherwise ==
  \A th \in Threads : at[th] = "done" =>
    \/ timeStamp[th] = StampOf(t[th]) /\ dateStamp[th] = DateOf(StampOf(t[th]))
    \/ /\ disturbed[th]
       /\ \A f \in TmFields : timeStamp[th][f] \in {StampOf(t[u])[f] : u \in HasRead}
       /\ \A f \in DateFields : dateStamp[th][f] \in {StampOf(t[u])[f] : u \in HasRead}

===============================================================================
