------------------------- MODULE MceReliableChannel -------------------------
(***************************************************************************)
(* What reliable provisional responses promise (RFC 3262): the answering   *)
(* side has one response at a time on its way; the calling side takes each *)
(* response once, in order; and a response counts as acknowledged only     *)
(* after the calling side has taken it.  MceReliable implements this over  *)
(* a network that loses, repeats and reorders.                             *)
(***************************************************************************)
EXTENDS Naturals

VARIABLES
    sent,           \* responses the answering side has sent for the first time
    taken,          \* responses the calling side has acted on
    acked,          \* responses the answering side knows acknowledged
    over            \* the answering side has ended the call

vars == <<sent, taken, acked, over>>

Init == sent = 0 /\ taken = 0 /\ acked = 0 /\ over = FALSE

Send == ~over /\ acked = sent /\ sent' = sent + 1 /\ UNCHANGED <<taken, acked, over>>

Take == taken < sent /\ taken' = taken + 1 /\ UNCHANGED <<sent, acked, over>>

Acknowledge == ~over /\ acked < taken /\ acked' = acked + 1 /\ UNCHANGED <<sent, taken, over>>

End == ~over /\ over' = TRUE /\ UNCHANGED <<sent, taken, acked>>

Next == Send \/ Take \/ Acknowledge \/ End

Spec == Init /\ [][Next]_vars
=============================================================================
