----------------------------- MODULE MceChannel -----------------------------
(***************************************************************************)
(* What the event path from a server object to its client object promises: *)
(* a channel that gives the client every accepted event once, in the order *)
(* of acceptance, and none after the client object is gone.  The two-step  *)
(* protocol of MceReceiver implements it.                                  *)
(***************************************************************************)
EXTENDS Naturals, Sequences

CONSTANT Kinds      \* the kinds of event a server object can send

VARIABLES
    pending,        \* events accepted and not yet delivered, oldest first
    delivered,      \* events delivered, oldest first
    open            \* FALSE once the client object is going away

vars == <<pending, delivered, open>>

Init == pending = <<>> /\ delivered = <<>> /\ open = TRUE

\* The server takes an event; its id is its place in the order of acceptance.
Accept ==
    /\ \E k \in Kinds :
          LET id == Len(delivered) + Len(pending) + 1
          IN  pending' = Append(pending, [id |-> id, kind |-> k])
    /\ UNCHANGED <<delivered, open>>

Deliver ==
    /\ open
    /\ pending # <<>>
    /\ delivered' = Append(delivered, Head(pending))
    /\ pending' = Tail(pending)
    /\ UNCHANGED open

Close == open /\ open' = FALSE /\ UNCHANGED <<pending, delivered>>

Next == Accept \/ Deliver \/ Close

Spec == Init /\ [][Next]_vars
=============================================================================
