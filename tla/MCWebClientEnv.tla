---------------------------- MODULE MCWebClientEnv ----------------------------
(***************************************************************************)
(* WebClient objects for TLC.  No symmetry: the run checks liveness.       *)
(***************************************************************************)
EXTENDS WebClientEnv

===============================================================================
