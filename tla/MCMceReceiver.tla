---------------------------- MODULE MCMceReceiver ---------------------------
(***************************************************************************)
(* MceReceiver for TLC.  After the client object is closed and the bounds  *)
(* are used up nothing is left to do: deadlock is not an error here.       *)
(***************************************************************************)
EXTENDS MceReceiver
=============================================================================
