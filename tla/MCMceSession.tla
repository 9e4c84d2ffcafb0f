----------------------------- MODULE MCMceSession ---------------------------
(***************************************************************************)
(* MceSession for TLC.  A session may have ended, and with the bound on    *)
(* INVITEs used up nothing is left to do: deadlock is not an error here.   *)
(* Sessions are interchangeable; runs of several sessions check no         *)
(* liveness, so that they may use it.                                      *)
(***************************************************************************)
EXTENDS MceSession, TLC

SessionSymmetry == Permutations(Session)
=============================================================================
