----------------------------- MODULE WebClientEnv -----------------------------
(***************************************************************************)
(* The life of WebClient objects and of libcurl's global state             *)
(* (src/src/webclient.cpp, src/include/webclient.h).  Threads construct,   *)
(* use, move and destroy clients as they like; curl_global_init and        *)
(* curl_global_cleanup, which are not thread safe, are called under        *)
(* cleanupMutex_ when the counter numInstances_ stands at zero.            *)
(*                                                                         *)
(* A call into libcurl takes time: it has a step that enters it and one    *)
(* that returns from it, so that two calls can overlap.                    *)
(***************************************************************************)
EXTENDS Integers, FiniteSets

CONSTANT Clients      \* the WebClient objects of the process, each used once

ASSUME ClientsAssumption == IsFiniteSet(Clients)

VARIABLES
  pc,            \* per object, where its constructor, request or destructor is
  cleanupMutex,  \* the object whose InitEnv or destructor holds it; a set
  numInstances,  \* the counter
  curlReady      \* libcurl's global state is initialised

vars == <<pc, cleanupMutex, numInstances, curlReady>>

States == {
  "unborn",       \* not constructed
  "constructing", \* in InitEnv, before the mutex
  "checking",     \* holds the mutex, about to test the counter
  "globalInit",   \* in curl_global_init
  "counting",     \* about to increment the counter
  "init",         \* in Init, that is, in curl_easy_init and curl_easy_setopt
  "live", "sending",
  "closing",      \* the destructor, in curl_easy_cleanup
  "closed",       \* the destructor, before the mutex
  "uncounting",   \* holds the mutex, about to decrement the counter
  "globalCleanup",\* in curl_global_cleanup
  "gone",
  "moved",        \* moved from: its handle is NULL
  "failed",       \* the constructor threw before the counter was incremented
  "leaked" }      \* the constructor threw after that: no destructor will run

InGlobal == {"globalInit", "globalCleanup"}
InHandle == {"init", "sending", "closing"}
HasHandle == {"live", "sending", "closing"}
HoldsMutex == {"checking", "globalInit", "counting", "init", "uncounting", "globalCleanup"}
Counted == {"init", "live", "sending", "closing", "closed", "uncounting", "leaked"}

Init ==
  /\ pc = [c \in Clients |-> "unborn"]
  /\ cleanupMutex = {}
  /\ numInstances = 0
  /\ curlReady = FALSE

Goto(c, state) == pc' = [pc EXCEPT ![c] = state]

\* Mutant: no mutual exclusion.
LockShared(c) == cleanupMutex' = cleanupMutex \cup {c}

Lock(c) == cleanupMutex = {} /\ cleanupMutex' = {c}

Unlock(c) == cleanupMutex' = cleanupMutex \ {c}

-------------------------------------------------------------------------------
\* InitEnv and Init, called by every constructor but the move constructor.

Construct(c) ==
  /\ pc[c] = "unborn"
  /\ Goto(c, "constructing")
  /\ UNCHANGED <<cleanupMutex, numInstances, curlReady>>

LockForInit(c) ==
  /\ pc[c] = "constructing"
  /\ Lock(c)
  /\ Goto(c, "checking")
  /\ UNCHANGED <<numInstances, curlReady>>

\* Mutant: the counter is compared after it was incremented.
CheckInstancesLate(c) ==
  /\ pc[c] = "checking"
  /\ Goto(c, "counting")
  /\ UNCHANGED <<cleanupMutex, numInstances, curlReady>>

\* Mutant: the counter is not compared.
CheckInstancesNot(c) ==
  /\ pc[c] = "checking"
  /\ Goto(c, "globalInit")
  /\ UNCHANGED <<cleanupMutex, numInstances, curlReady>>

CheckInstances(c) ==
  /\ pc[c] = "checking"
  /\ Goto(c, IF numInstances = 0 THEN "globalInit" ELSE "counting")
  /\ UNCHANGED <<cleanupMutex, numInstances, curlReady>>

GlobalInitDone(c) ==
  /\ pc[c] = "globalInit"
  /\ curlReady' = TRUE
  /\ Goto(c, "counting")
  /\ UNCHANGED <<cleanupMutex, numInstances>>

GlobalInitFails(c) ==
  /\ pc[c] = "globalInit"
  /\ Unlock(c)
  /\ Goto(c, "failed")
  /\ UNCHANGED <<numInstances, curlReady>>

CountInstance(c) ==
  /\ pc[c] = "counting"
  /\ numInstances' = numInstances + 1
  /\ Goto(c, "init")
  /\ UNCHANGED <<cleanupMutex, curlReady>>

InitDone(c) ==
  /\ pc[c] = "init"
  /\ Unlock(c)
  /\ Goto(c, "live")
  /\ UNCHANGED <<numInstances, curlReady>>

\* Mutant: a mutex that is not released by the exception.
InitFailsLocked(c) ==
  /\ pc[c] = "init"
  /\ Goto(c, "leaked")
  /\ UNCHANGED <<cleanupMutex, numInstances, curlReady>>

\* Init throws out of the constructor, and the counter keeps the object.
InitFails(c) ==
  /\ pc[c] = "init"
  /\ Unlock(c)
  /\ Goto(c, "leaked")
  /\ UNCHANGED <<numInstances, curlReady>>

-------------------------------------------------------------------------------
\* A constructed client.

Send(c) ==
  /\ pc[c] = "live"
  /\ Goto(c, "sending")
  /\ UNCHANGED <<cleanupMutex, numInstances, curlReady>>

Answer(c) ==
  /\ pc[c] = "sending"
  /\ Goto(c, "live")
  /\ UNCHANGED <<cleanupMutex, numInstances, curlReady>>

\* Mutant: other.curl_ is not set to NULL.
MoveToKeeping(c, d) ==
  /\ pc[c] = "live"
  /\ pc[d] = "unborn"
  /\ Goto(d, "live")
  /\ UNCHANGED <<cleanupMutex, numInstances, curlReady>>

\* WebClient(WebClient&&): the handle changes hands, the counter does not move.
MoveTo(c, d) ==
  /\ pc[c] = "live"
  /\ pc[d] = "unborn"
  /\ pc' = [pc EXCEPT ![c] = "moved", ![d] = "live"]
  /\ UNCHANGED <<cleanupMutex, numInstances, curlReady>>

-------------------------------------------------------------------------------
\* ~WebClient.

Destroy(c) ==
  /\ pc[c] = "live"
  /\ Goto(c, "closing")
  /\ UNCHANGED <<cleanupMutex, numInstances, curlReady>>

\* curl_easy_cleanup returns; it ran without the mutex.
HandleClosed(c) ==
  /\ pc[c] = "closing"
  /\ Goto(c, "closed")
  /\ UNCHANGED <<cleanupMutex, numInstances, curlReady>>

LockForCleanup(c) ==
  /\ pc[c] = "closed"
  /\ Lock(c)
  /\ Goto(c, "uncounting")
  /\ UNCHANGED <<numInstances, curlReady>>

\* Mutant: decremented, and decremented again by the comparison.
UncountInstanceTwice(c) ==
  /\ pc[c] = "uncounting"
  /\ numInstances' = numInstances - 2
  /\ Goto(c, "gone") /\ Unlock(c)
  /\ UNCHANGED curlReady

\* Mutant: no cleanup at zero.
UncountInstanceOnly(c) ==
  /\ pc[c] = "uncounting"
  /\ numInstances' = numInstances - 1
  /\ Goto(c, "gone") /\ Unlock(c)
  /\ UNCHANGED curlReady

\* Mutant: the mutex is released only by the last object.
UncountInstanceLocked(c) ==
  /\ pc[c] = "uncounting"
  /\ numInstances' = numInstances - 1
  /\ Goto(c, IF numInstances' = 0 THEN "globalCleanup" ELSE "gone")
  /\ UNCHANGED <<cleanupMutex, curlReady>>

UncountInstance(c) ==
  /\ pc[c] = "uncounting"
  /\ numInstances' = numInstances - 1
  /\ IF numInstances' = 0
     THEN Goto(c, "globalCleanup") /\ UNCHANGED cleanupMutex
     ELSE Goto(c, "gone") /\ Unlock(c)
  /\ UNCHANGED curlReady

GlobalCleanupDone(c) ==
  /\ pc[c] = "globalCleanup"
  /\ curlReady' = FALSE
  /\ Unlock(c)
  /\ Goto(c, "gone")
  /\ UNCHANGED numInstances

-------------------------------------------------------------------------------

\* What a constructor, a request or a destructor does once it has begun.
Proceed(c) ==
  \/ LockForInit(c) \/ CheckInstances(c)
  \/ GlobalInitDone(c) \/ GlobalInitFails(c)
  \/ CountInstance(c) \/ InitDone(c) \/ InitFails(c)
  \/ Answer(c)
  \/ HandleClosed(c) \/ LockForCleanup(c) \/ UncountInstance(c)
  \/ GlobalCleanupDone(c)

Begin(c) == Construct(c) \/ Send(c) \/ Destroy(c)

Next ==
  \/ \E c \in Clients : Proceed(c) \/ Begin(c)
  \/ \E c, d \in Clients : MoveTo(c, d)

Spec == Init /\ [][Next]_vars

\* The scheduler lets every thread that is inside a constructor, a request or
\* a destructor go on; it need not begin another.
FairSpec == Spec /\ \A c \in Clients : WF_vars(Proceed(c))

-------------------------------------------------------------------------------
\* Properties.

TypeOK ==
  /\ pc \in [Clients -> States]
  /\ cleanupMutex \in SUBSET Clients
  /\ numInstances \in Nat
  /\ curlReady \in BOOLEAN

\* The counter is the number of handles not yet given back, and of those a
\* failed constructor never will (InitEnv against the destructor).
CountsClients == numInstances = Cardinality({c \in Clients : pc[c] \in Counted})

\* No handle is used before libcurl is initialised or after it is cleaned up,
\* although curl_easy_cleanup and every request run without the mutex.
ReadyWhileUsed ==
  \A c \in Clients : pc[c] \in HasHandle \cup {"init"} => curlReady

\* curl_global_init and curl_global_cleanup are not thread safe: while one of
\* them runs no other thread is inside libcurl.
GlobalCallsAlone ==
  \A c, d \in Clients :
    c # d /\ pc[c] \in InGlobal => pc[d] \notin InGlobal \cup InHandle

\* libcurl is initialised only when it is not, and cleaned up only when it is.
InitAndCleanupAlternate ==
  \A c \in Clients :
    /\ pc[c] = "globalInit" => ~curlReady
    /\ pc[c] = "globalCleanup" => curlReady

\* If no constructor failed half way, libcurl is cleaned up with the last
\* object.
CleanedUpAfterLast ==
  (\A c \in Clients : pc[c] \in {"unborn", "gone", "moved", "failed"}) => ~curlReady

\* No constructor hangs and no destructor hangs, whoever else holds the mutex.
ConstructorEnds ==
  \A c \in Clients : pc[c] = "constructing" ~> pc[c] \in {"live", "failed", "leaked"}

DestructorEnds == \A c \in Clients : pc[c] = "closing" ~> pc[c] = "gone"

===============================================================================
