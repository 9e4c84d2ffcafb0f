---------------------------- MODULE StunRequests ----------------------------
(***************************************************************************)
(* What a binding promises the application that asks for its public        *)
(* address: one request at a time, at most one outcome for each, none for  *)
(* a request that was cancelled, and the outcomes told in their order.     *)
(* With no request under way it may only be told that its address is lost. *)
(***************************************************************************)
EXTENDS Sequences

CONSTANTS Outcomes, Lost

VARIABLES
    asked,      \* TRUE while a request is under way
    news        \* outcomes the application has still to be told

vars == <<asked, news>>

Init == asked = FALSE /\ news = <<>>

Ask == ~asked /\ asked' = TRUE /\ UNCHANGED news

Resolve ==
    /\ asked /\ asked' = FALSE
    /\ \E outcome \in Outcomes : news' = Append(news, outcome)

Cancel == asked /\ asked' = FALSE /\ UNCHANGED news

Lose == ~asked /\ news' = Append(news, Lost) /\ UNCHANGED asked

Tell == news # <<>> /\ news' = Tail(news) /\ UNCHANGED asked

Next == Ask \/ Resolve \/ Cancel \/ Lose \/ Tell

Spec == Init /\ [][Next]_vars
=============================================================================
