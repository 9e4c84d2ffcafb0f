-------------------------- MODULE MceReliableSender -------------------------
(***************************************************************************)
(* CMceReliableSender: the reliable provisional response a session has on  *)
(* its way.  The response is sent again whenever a timer expires, after    *)
(* intervals that double, until its PRACK comes or the time is used up.    *)
(* Times are multiples of T1.  A call is an operator from the members      *)
(* before it to the members after it.                                      *)
(*                                                                         *)
(* The object lives as long as its session, and nothing resets the         *)
(* intervals: the second response goes on where the first stopped.         *)
(***************************************************************************)
EXTENDS Naturals

KMaxTransTimeOut == 64

SenderData ==
    [ rseq     : Nat,           \* iSequenceNumber
      begun    : BOOLEAN,       \* iServerTransaction is set
      last     : Nat,           \* the RSeq of iResponseElements
      pending  : BOOLEAN,       \* iTransactionStatus
      retrans  : Nat,           \* iRetransTimer
      total    : Nat,           \* iTotaltime
      timeOut  : BOOLEAN,       \* iTransTimeoutFlag
      queued   : Nat,           \* iDeltaEntry is queued with this interval; 0: not
      elapsed  : Nat ]          \* time since the response was first sent

\* ConstructL; the RSeq begins at random, here at 1
NewSender ==
    [ rseq |-> 1, begun |-> FALSE, last |-> 0, pending |-> FALSE, retrans |-> 1,
      total |-> 0, timeOut |-> FALSE, queued |-> 0, elapsed |-> 0 ]

\* Rseq: called while the headers of the response are made
Rseq(r) == IF r.begun /\ ~r.pending THEN [r EXCEPT !.rseq = @ + 1] ELSE r

\* SendResponseL that leaves in the middle: the stack does not send
SendFails(r) == [r EXCEPT !.begun = TRUE, !.pending = TRUE]

\* SendResponseL.  (Mutants, named for what they get wrong, stand before
\* their originals.)
SendDoublesFirst(r) ==
    [r EXCEPT !.begun = TRUE, !.pending = TRUE, !.last = r.rseq,
              !.queued = 2 * r.retrans, !.retrans = 2 * @, !.elapsed = 0]
Send(r) ==
    [r EXCEPT !.begun = TRUE, !.pending = TRUE, !.last = r.rseq,
              !.queued = r.retrans, !.retrans = 2 * @, !.elapsed = 0]

Matches(r, rack) == rack = r.last

\* PrackReceived
PrackReceived(r) == [r EXCEPT !.pending = FALSE, !.queued = 0]

\* The delta timer takes the entry off its queue before it calls back.
Expired(r) == [r EXCEPT !.queued = 0, !.elapsed = @ + r.queued]

\* The second half of TimerExpire
RequeueKeepsTotal(r) ==
    IF r.retrans > KMaxTransTimeOut \/ ~r.pending THEN r
    ELSE IF r.total + r.retrans <= KMaxTransTimeOut
    THEN [r EXCEPT !.total = @ + r.retrans, !.queued = r.retrans, !.retrans = 2 * @]
    ELSE [r EXCEPT !.queued = KMaxTransTimeOut - (r.total + r.retrans), !.timeOut = TRUE,
                   !.retrans = 2 * @]
Requeue(r) ==
    IF r.retrans > KMaxTransTimeOut \/ ~r.pending THEN r
    ELSE IF r.total + r.retrans <= KMaxTransTimeOut
    THEN [r EXCEPT !.total = @ + r.retrans, !.queued = r.retrans, !.retrans = 2 * @]
    ELSE [r EXCEPT !.queued = KMaxTransTimeOut - r.total, !.timeOut = TRUE, !.retrans = 2 * @]
=============================================================================
