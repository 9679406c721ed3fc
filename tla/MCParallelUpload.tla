---------------------------- MODULE MCParallelUpload ----------------------------
(***************************************************************************)
(* s3-upload for TLC.                                                      *)
(***************************************************************************)
EXTENDS ParallelUpload

===============================================================================
