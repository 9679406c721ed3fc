------------------------------ MODULE MCS3Client ------------------------------
(***************************************************************************)
(* s3-client for TLC.                                                      *)
(***************************************************************************)
EXTENDS S3Client

\* One header of the user's for each way SignHeaders treats one.
OneOfEach == {AmzDate, <<"x-amz-", "meta-a">>, <<"a">>}

\* Without "=", with a name twice, with what needs an escape.
TextsPosted == {<<"a">>, <<"a", "=", "1", Semicolon, "a", "=", "2">>, <<"a", Space, "=", "/">>}

===============================================================================
