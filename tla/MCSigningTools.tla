---------------------------- MODULE MCSigningTools ----------------------------
(***************************************************************************)
(* The programs that sign for TLC.                                         *)
(***************************************************************************)
EXTENDS SigningTools

\* Characters that cut, that need an escape, and that do not.
ParamTextsUpTo4 == BoundedSeq({"a", "-", "/", "=", ";"}, 4)
HeaderTextsUpTo4 ==
  BoundedSeq({"x-amz-", "a", "A", " ", ":", ";"}, 4)
    \cup {<<"host", ":", "a">>, <<"x-amz-", "date", ":", "a", ";", "a", ":", "a">>,
          <<"x-amz-", "content-sha256", ":", "a">>}

\* From 31 to 32 every field of the stamp changes.
TwoOfEach == [f \in TmFields \ {"year"} |-> 2]

SomeKeys == {<<"a">>, <<"a", "/", "a">>, <<"a", " ">>, <<"=">>}

===============================================================================
