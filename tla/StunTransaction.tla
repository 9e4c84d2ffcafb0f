--------------------------- MODULE StunTransaction --------------------------
(***************************************************************************)
(* CSTUNTransaction over UDP: one request, sent again until a response     *)
(* comes or the last waiting time is over.  A call is an operator from the *)
(* members before it to the members after it; how long a timer runs is     *)
(* left out, and what an end means to the binding is in StunBinding.       *)
(***************************************************************************)
EXTENDS Naturals

CONSTANT KMaxRequestSentCount   \* requests of one transaction; 7 in the code

ASSUME SentCountAssumption == KMaxRequestSentCount \in Nat \ {0}

Transaction ==
    [ sendCount      : 0 .. KMaxRequestSentCount,   \* iSendCount
      retransmit     : BOOLEAN,                     \* iRetransmit
      disableSending : BOOLEAN,                     \* iDisableSending
      sending        : BOOLEAN,     \* the sender owes MessageSent or its failure
      timer          : BOOLEAN ]    \* its timer is running

\* ConstructL
NewTransaction ==
    [ sendCount |-> 0, retransmit |-> TRUE, disableSending |-> FALSE,
      sending |-> TRUE, timer |-> FALSE ]

SendAgain(t) == [t EXCEPT !.sending = TRUE]

\* UNSAFUdpMessageSentL: a response may have come first.  (Mutants, named for
\* what they get wrong, stand before their originals.)
MessageSentUncounted(t) ==
    [t EXCEPT !.sending = FALSE, !.timer = @ \/ t.retransmit]
UNSAFUdpMessageSent(t) ==
    [t EXCEPT !.sending = FALSE, !.sendCount = @ + 1, !.timer = @ \/ t.retransmit]

\* TimerExpiredL, RetransmitRequestL: the end, another wait, another request
TimedOutLate(t) == ~t.retransmit \/ t.sendCount > KMaxRequestSentCount
TimedOut(t) == ~t.retransmit \/ t.sendCount >= KMaxRequestSentCount
Retransmit(t) ==
    LET u == [t EXCEPT !.timer = FALSE]
    IN  IF t.disableSending THEN [u EXCEPT !.timer = TRUE] ELSE SendAgain(u)

\* ReceiveL of a response ShouldIgnoreResponse holds of
IgnoreUntimed(t) == [t EXCEPT !.retransmit = FALSE, !.timer = FALSE]
Ignore(t) == [t EXCEPT !.retransmit = FALSE, !.timer = TRUE]

CancelRetransmission(t) == [t EXCEPT !.disableSending = TRUE]
=============================================================================
