--------------------------- MODULE MCStunBinding ----------------------------
(***************************************************************************)
(* Model values for the runs of StunBinding: two servers.                  *)
(***************************************************************************)
EXTENDS StunBinding

MCServers == <<"s1", "s2">>
=============================================================================
