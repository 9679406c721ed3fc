-------------------------- MODULE WebClientEnvProofs --------------------------
(***************************************************************************)
(* Proofs about the life of WebClient objects, for any finite number of    *)
(* them.                                                                   *)
(***************************************************************************)
EXTENDS WebClientEnv, FiniteSetTheorems, TLAPS

CountedClients == {c \in Clients : pc[c] \in Counted}

-------------------------------------------------------------------------------
\* The inductive invariant.

\* The mutex is held by at most one object, and by the one whose code says so.
MutexInv ==
  /\ \A c \in Clients : c \in cleanupMutex <=> pc[c] \in HoldsMutex
  /\ \A c, d \in cleanupMutex : c = d

\* libcurl is initialised while an object is counted or about to be, and not
\* when the counter stands at zero and nobody is between counter and libcurl.
ReadyInv ==
  /\ \A c \in Clients :
       /\ pc[c] \in Counted \cup {"counting"} => curlReady
       /\ pc[c] = "globalInit" => numInstances = 0 /\ ~curlReady
       /\ pc[c] = "globalCleanup" => numInstances = 0 /\ curlReady
  /\ numInstances = 0 /\ (\A c \in Clients : pc[c] \notin {"counting", "globalCleanup"})
       => ~curlReady

IInv == TypeOK /\ CountsClients /\ MutexInv /\ ReadyInv

-------------------------------------------------------------------------------
\* Counting.

LEMMA CountedFinite ==
  /\ IsFiniteSet(CountedClients)
  /\ Cardinality(CountedClients) \in Nat
<1>1. CountedClients \in SUBSET Clients
  BY DEF CountedClients
<1>2. IsFiniteSet(CountedClients)
  BY <1>1, ClientsAssumption, FS_Subset
<1> QED
  BY <1>2, FS_CardinalityType

\* The counter is zero when, and only when, it counts nobody.
LEMMA ZeroMeansNone ==
  ASSUME CountsClients
  PROVE  numInstances = 0 <=> \A c \in Clients : pc[c] \notin Counted
<1>1. numInstances = Cardinality(CountedClients)
  BY DEF CountsClients, CountedClients
<1>2. numInstances = 0 <=> CountedClients = {}
  BY <1>1, CountedFinite, FS_EmptySet
<1> QED
  BY <1>2 DEF CountedClients

\* A step of one object changes the set by that object.
LEMMA CountStep ==
  ASSUME TypeOK, CountsClients, NEW c \in Clients, NEW state \in States, Goto(c, state),
         \/ pc[c] \in Counted /\ state \in Counted /\ numInstances' = numInstances
         \/ pc[c] \notin Counted /\ state \notin Counted /\ numInstances' = numInstances
         \/ pc[c] \notin Counted /\ state \in Counted /\ numInstances' = numInstances + 1
         \/ pc[c] \in Counted /\ state \notin Counted /\ numInstances' = numInstances - 1
  PROVE  CountsClients' /\ numInstances' \in Nat
<1>1. pc' = [pc EXCEPT ![c] = state] /\ pc \in [Clients -> States]
  BY DEF Goto, TypeOK
<1>2. CountedClients' = IF state \in Counted THEN CountedClients \cup {c}
                                             ELSE CountedClients \ {c}
  BY <1>1 DEF CountedClients
<1>3. c \in CountedClients <=> pc[c] \in Counted
  BY DEF CountedClients
<1>4. numInstances = Cardinality(CountedClients)
  BY DEF CountsClients, CountedClients
<1>5. Cardinality(CountedClients \cup {c}) =
        IF c \in CountedClients THEN Cardinality(CountedClients)
                                ELSE Cardinality(CountedClients) + 1
  BY CountedFinite, FS_AddElement
<1>6. /\ IsFiniteSet(CountedClients \ {c})
      /\ Cardinality(CountedClients \ {c}) =
           IF c \in CountedClients THEN Cardinality(CountedClients) - 1
                                   ELSE Cardinality(CountedClients)
  BY CountedFinite, FS_RemoveElement
<1>7. Cardinality(CountedClients \ {c}) \in Nat
  BY <1>6, FS_CardinalityType
<1>8. numInstances' = Cardinality(CountedClients')
  BY <1>2, <1>3, <1>4, <1>5, <1>6, CountedFinite
<1>9. numInstances' \in Nat
  BY <1>3, <1>4, <1>6, <1>7, CountedFinite
<1> QED
  BY <1>8, <1>9 DEF CountsClients, CountedClients

\* A move changes who is counted and not how many.
LEMMA CountMove ==
  ASSUME TypeOK, CountsClients, NEW c \in Clients, NEW d \in Clients, MoveTo(c, d)
  PROVE  CountsClients'
<1>1. /\ pc' = [pc EXCEPT ![c] = "moved", ![d] = "live"] /\ pc \in [Clients -> States]
      /\ pc[c] = "live" /\ pc[d] = "unborn" /\ numInstances' = numInstances
  BY DEF MoveTo, TypeOK
<1>2. c \in CountedClients /\ d \notin CountedClients /\ c # d
  BY <1>1 DEF CountedClients, Counted
<1>3. CountedClients' = (CountedClients \ {c}) \cup {d}
  BY <1>1, <1>2 DEF CountedClients, Counted
<1>4. /\ IsFiniteSet(CountedClients \ {c})
      /\ Cardinality(CountedClients \ {c}) = Cardinality(CountedClients) - 1
  BY <1>2, CountedFinite, FS_RemoveElement
<1>5. Cardinality((CountedClients \ {c}) \cup {d}) = Cardinality(CountedClients \ {c}) + 1
  BY <1>2, <1>4, FS_AddElement
<1>6. Cardinality(CountedClients') = Cardinality(CountedClients)
  BY <1>3, <1>4, <1>5, CountedFinite
<1> QED
  BY <1>1, <1>6 DEF CountsClients, CountedClients

-------------------------------------------------------------------------------
\* The invariant is inductive.

LEMMA InvInit == Init => IInv
<1> SUFFICES ASSUME Init
             PROVE  IInv
  OBVIOUS
<1>1. CountedClients = {}
  BY DEF Init, CountedClients, Counted
<1>2. CountsClients
  BY <1>1, FS_EmptySet DEF Init, CountsClients, CountedClients
<1> QED
  BY <1>2 DEF Init, IInv, TypeOK, States, MutexInv, HoldsMutex, ReadyInv, Counted

\* Constructors, requests and destructors, a step at a time.
LEMMA ObjectStep ==
  ASSUME IInv, NEW c \in Clients, Proceed(c) \/ Begin(c)
  PROVE  IInv'
<1> USE DEF IInv
<1>0. /\ pc \in [Clients -> States]
      /\ \A state : Goto(c, state) =>
           /\ pc'[c] = state
           /\ \A d \in Clients : d # c => pc'[d] = pc[d]
  BY DEF TypeOK, Goto
<1>1. ASSUME NEW state \in States, Goto(c, state), state \in Counted <=> pc[c] \in Counted,
             numInstances' = numInstances
      PROVE  CountsClients'
  BY <1>1, CountStep
<1>2. CASE Construct(c)
  <2>1. CountsClients'
    BY <1>1, <1>2 DEF Construct, Counted, States
  <2> QED
    BY <1>0, <1>2, <2>1 DEF Construct, Goto, TypeOK, States, MutexInv, HoldsMutex,
       ReadyInv, Counted
<1>3. CASE LockForInit(c)
  <2>1. CountsClients'
    BY <1>1, <1>3 DEF LockForInit, Counted, States
  <2> QED
    BY <1>0, <1>3, <2>1 DEF LockForInit, Lock, Goto, TypeOK, States, MutexInv, HoldsMutex,
       ReadyInv, Counted
<1>4. CASE CheckInstances(c)
  <2>1. CountsClients'
    BY <1>1, <1>4 DEF CheckInstances, Counted, States
  <2>2. \A d \in Clients : d # c => pc[d] \notin HoldsMutex
    BY <1>4 DEF CheckInstances, MutexInv, HoldsMutex
  <2>3. numInstances = 0 => ~curlReady
    BY <1>4, <2>2 DEF CheckInstances, ReadyInv, HoldsMutex
  <2>4. numInstances # 0 => curlReady
    BY ZeroMeansNone DEF ReadyInv
  <2> QED
    BY <1>0, <1>4, <2>1, <2>2, <2>3, <2>4 DEF CheckInstances, Goto, TypeOK, States,
       MutexInv, HoldsMutex, ReadyInv, Counted
<1>5. CASE GlobalInitDone(c)
  <2>1. CountsClients'
    BY <1>1, <1>5 DEF GlobalInitDone, Counted, States
  <2>2. \A d \in Clients : d # c => pc[d] \notin HoldsMutex
    BY <1>5 DEF GlobalInitDone, MutexInv, HoldsMutex
  <2> QED
    BY <1>0, <1>5, <2>1, <2>2 DEF GlobalInitDone, Goto, TypeOK, States, MutexInv,
       HoldsMutex, ReadyInv, Counted
<1>6. CASE GlobalInitFails(c)
  <2>1. CountsClients'
    BY <1>1, <1>6 DEF GlobalInitFails, Counted, States
  <2> QED
    BY <1>0, <1>6, <2>1 DEF GlobalInitFails, Unlock, Goto, TypeOK, States, MutexInv,
       HoldsMutex, ReadyInv, Counted
<1>7. CASE CountInstance(c)
  <2>1. CountsClients' /\ numInstances' \in Nat
    BY <1>7, CountStep DEF CountInstance, Counted, States
  <2>2. numInstances' # 0
    BY <1>7 DEF CountInstance, TypeOK
  <2> QED
    BY <1>0, <1>7, <2>1, <2>2 DEF CountInstance, Goto, TypeOK, States, MutexInv,
       HoldsMutex, ReadyInv, Counted
<1>8. CASE InitDone(c)
  <2>1. CountsClients'
    BY <1>1, <1>8 DEF InitDone, Counted, States
  <2> QED
    BY <1>0, <1>8, <2>1 DEF InitDone, Unlock, Goto, TypeOK, States, MutexInv, HoldsMutex,
       ReadyInv, Counted
<1>9. CASE InitFails(c)
  <2>1. CountsClients'
    BY <1>1, <1>9 DEF InitFails, Counted, States
  <2> QED
    BY <1>0, <1>9, <2>1 DEF InitFails, Unlock, Goto, TypeOK, States, MutexInv, HoldsMutex,
       ReadyInv, Counted
<1>10. CASE Send(c) \/ Answer(c) \/ Destroy(c) \/ HandleClosed(c)
  <2>1. CountsClients'
    BY <1>1, <1>10 DEF Send, Answer, Destroy, HandleClosed, Counted, States
  <2> QED
    BY <1>0, <1>10, <2>1 DEF Send, Answer, Destroy, HandleClosed, Goto, TypeOK, States,
       MutexInv, HoldsMutex, ReadyInv, Counted
<1>11. CASE LockForCleanup(c)
  <2>1. CountsClients'
    BY <1>1, <1>11 DEF LockForCleanup, Counted, States
  <2> QED
    BY <1>0, <1>11, <2>1 DEF LockForCleanup, Lock, Goto, TypeOK, States, MutexInv,
       HoldsMutex, ReadyInv, Counted
<1>12. CASE UncountInstance(c)
  <2> DEFINE next == IF numInstances' = 0 THEN "globalCleanup" ELSE "gone"
  <2>1. /\ Goto(c, next) /\ next \in States /\ next \notin Counted
        /\ pc[c] = "uncounting" /\ pc[c] \in Counted
        /\ numInstances' = numInstances - 1 /\ curlReady' = curlReady
    BY <1>12 DEF UncountInstance, States, Counted
  <2>2. CountsClients' /\ numInstances' \in Nat
    <3> HIDE DEF next
    <3> QED
      BY <2>1, CountStep
  <2>3. curlReady /\ \A d \in Clients : d # c => pc[d] \notin HoldsMutex
    BY <2>1 DEF ReadyInv, MutexInv, HoldsMutex
  <2> QED
    BY <1>0, <1>12, <2>1, <2>2, <2>3 DEF UncountInstance, Unlock, Goto, TypeOK, States,
       MutexInv, HoldsMutex, ReadyInv, Counted
<1>13. CASE GlobalCleanupDone(c)
  <2>1. CountsClients'
    BY <1>1, <1>13 DEF GlobalCleanupDone, Counted, States
  <2>2. \A d \in Clients : d # c => pc[d] \notin HoldsMutex \cup Counted
    BY <1>13, ZeroMeansNone DEF GlobalCleanupDone, MutexInv, HoldsMutex, ReadyInv
  <2> QED
    BY <1>0, <1>13, <2>1, <2>2 DEF GlobalCleanupDone, Unlock, Goto, TypeOK, States,
       MutexInv, HoldsMutex, ReadyInv, Counted
<1> QED
  BY <1>2, <1>3, <1>4, <1>5, <1>6, <1>7, <1>8, <1>9, <1>10, <1>11, <1>12, <1>13
     DEF Proceed, Begin

LEMMA MoveStep ==
  ASSUME IInv, NEW c \in Clients, NEW d \in Clients, MoveTo(c, d)
  PROVE  IInv'
<1> USE DEF IInv
<1>1. CountsClients'
  BY CountMove
<1> QED
  BY <1>1 DEF MoveTo, TypeOK, States, MutexInv, HoldsMutex, ReadyInv, Counted

LEMMA InvStep == IInv /\ [Next]_vars => IInv'
<1> SUFFICES ASSUME IInv, [Next]_vars
             PROVE  IInv'
  OBVIOUS
<1>1. CASE UNCHANGED vars
  BY <1>1 DEF vars, IInv, TypeOK, CountsClients, MutexInv, ReadyInv
<1> QED
  BY <1>1, ObjectStep, MoveStep DEF Next

-------------------------------------------------------------------------------
\* The theorems.

\* The inductive invariant holds throughout.
THEOREM Invariance == Spec => []IInv
  BY InvInit, InvStep, PTL DEF Spec

\* Every variable keeps its type; the counter never falls below zero.
THEOREM TypeCorrect == Spec => []TypeOK
<1>1. IInv => TypeOK
  BY DEF IInv
<1> QED
  BY <1>1, Invariance, PTL

\* The counter is the number of objects counted, for any number of objects.
THEOREM Counts == Spec => []CountsClients
<1>1. IInv => CountsClients
  BY DEF IInv
<1> QED
  BY <1>1, Invariance, PTL

\* No handle is used while libcurl is not initialised.
THEOREM Ready == Spec => []ReadyWhileUsed
<1>1. IInv => ReadyWhileUsed
  BY DEF IInv, ReadyInv, ReadyWhileUsed, HasHandle, Counted
<1> QED
  BY <1>1, Invariance, PTL

\* No thread is inside libcurl while another initialises it or cleans it up.
THEOREM Alone == Spec => []GlobalCallsAlone
<1>1. IInv => GlobalCallsAlone
  <2> SUFFICES ASSUME IInv, NEW c \in Clients, NEW d \in Clients, c # d, pc[c] \in InGlobal
               PROVE  pc[d] \notin InGlobal \cup InHandle
    BY DEF GlobalCallsAlone
  <2>1. numInstances = 0 /\ pc[c] \in HoldsMutex
    BY DEF IInv, ReadyInv, InGlobal, HoldsMutex
  <2>2. pc[d] \notin HoldsMutex
    BY <2>1 DEF IInv, MutexInv
  <2>3. pc[d] \notin Counted
    BY <2>1, ZeroMeansNone DEF IInv
  <2> QED
    BY <2>2, <2>3 DEF InGlobal, InHandle, HoldsMutex, Counted
<1> QED
  BY <1>1, Invariance, PTL

\* Initialisation and cleanup alternate.
THEOREM Alternate == Spec => []InitAndCleanupAlternate
<1>1. IInv => InitAndCleanupAlternate
  BY DEF IInv, ReadyInv, InitAndCleanupAlternate
<1> QED
  BY <1>1, Invariance, PTL

\* libcurl does not outlive the last object.
THEOREM CleansUp == Spec => []CleanedUpAfterLast
<1>1. IInv => CleanedUpAfterLast
  BY ZeroMeansNone DEF IInv, ReadyInv, CleanedUpAfterLast, Counted
<1> QED
  BY <1>1, Invariance, PTL

===============================================================================
