--------------------------- MODULE MCParallelDownload ---------------------------
(***************************************************************************)
(* s3-download for TLC.                                                    *)
(***************************************************************************)
EXTENDS ParallelDownload

=================================================================================
