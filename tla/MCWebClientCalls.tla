---------------------------- MODULE MCWebClientCalls ----------------------------
(***************************************************************************)
(* Calls of one client for TLC.                                            *)
(***************************************************************************)
EXTENDS WebClientCalls

=================================================================================
