------------------------------ MODULE ObjectPut ------------------------------
(***************************************************************************)
(* What s3-upload promises to whoever starts it, without parts, threads or *)
(* retries: the object is written whole or not at all, success is reported *)
(* only for a whole object, and one verdict ends the program.              *)
(***************************************************************************)

VARIABLES
  object,     \* what the store holds under the key: "absent" | "whole" | "torn"
  outcome     \* what the caller is told: "pending" | "success" | "failure"

vars == <<object, outcome>>

Init == object = "absent" /\ outcome = "pending"

\* The store takes the whole file and the caller is told so.
Succeed == outcome = "pending" /\ object' = "whole" /\ outcome' = "success"

\* The caller is told of a failure; the store may still have taken the file,
\* when only the answer was lost.
Fail ==
  /\ outcome = "pending"
  /\ object' \in {object, "whole"}
  /\ outcome' = "failure"

Next == Succeed \/ Fail

Spec == Init /\ [][Next]_vars

FairSpec == Spec /\ WF_vars(Next)

TypeOK ==
  /\ object \in {"absent", "whole", "torn"}
  /\ outcome \in {"pending", "success", "failure"}

=============================================================================
