---------------------------- MODULE MCMceReliable ---------------------------
(***************************************************************************)
(* MceReliable for TLC.  A call comes to rest when it is over, or          *)
(* established: deadlock is not an error here.                             *)
(***************************************************************************)
EXTENDS MceReliable
=============================================================================
