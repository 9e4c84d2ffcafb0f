----------------------------- MODULE MceReliable ----------------------------
(***************************************************************************)
(* An INVITE whose provisional responses are reliable (100rel required,    *)
(* no preconditions), from the reserved media of the answering side on:    *)
(* two MCE servers, the SIP stacks and the network between them.           *)
(*                                                                         *)
(* Answering side: CMceStateUpdated, CMceStateAcknowledgementRequired,     *)
(* CMceStateAnswering and CMceReliableSender.  Calling side:               *)
(* CMceStateOffering, CMceStateConfirming, CMceStateCanceled.              *)
(*                                                                         *)
(* The stacks repeat all messages but provisional responses until they     *)
(* arrive, in any order; provisional responses get lost.  A PRACK is a     *)
(* transaction of the stacks: delivered once and answered, or timed out.   *)
(* The answers to CANCEL and BYE are in MceSession and left out here.      *)
(***************************************************************************)
EXTENDS MceReliableSender, FiniteSets

CONSTANTS
    MaxResponses,   \* bound on the reliable responses of the call
    MaxFailures     \* bound on the sends and allocations that fail

ASSUME BoundsAssumption == MaxResponses \in Nat /\ MaxFailures \in Nat

VARIABLES
    callee,         \* state of the answering session
    told,           \* the state its client was last sent
    media,          \* TRUE while its media is open
    accepted,       \* StoredAutoEvent(): an accept that came too early
    sender,         \* ReliableSender()
    final,          \* the answering side's final response to the INVITE
    caller,         \* state of the calling session
    rseq,           \* iRSeq of the calling session, 0: KErrNone
    updating,       \* its media manager owes the callback after the 2xx
    prack,          \* the last PRACK transaction
    net,            \* the other messages under way
    sent, taken, acked,     \* as in MceReliableChannel
    failures

calleeVars == <<callee, told, media, accepted, sender, final, sent, acked>>
callerVars == <<caller, rseq, updating, taken>>
vars == <<calleeVars, callerVars, prack, net, failures>>

CalleeState == {"Updated", "AcknowledgementRequired", "Answering", "Established",
                "Terminating", "Terminated", "Error"}
CallerState == {"Offering", "Confirming", "Canceled", "Established",
                "Terminating", "Terminated", "Error"}
Over == {"Terminating", "Terminated", "Error"}

\* "gone": answered with 481; "ignored": delivered to a session that answers nothing any more
Prack == [rack : Nat, phase : {"none", "sent", "ok", "gone", "ignored", "over"}]

Provisional == [type : {"1xx"}, rseq : Nat]
Message == Provisional \cup [type : {"2xx", "refused", "cancel", "ack", "bye"}]
Reliable(type) == [type |-> type]

TypeOK ==
    /\ callee \in CalleeState
    /\ told \in {"EProceeding", "EAnswering", "EEstablished", "ETerminating", "ETerminated"}
    /\ media \in BOOLEAN /\ accepted \in BOOLEAN
    /\ sender \in SenderData
    /\ final \in {"none", "2xx", "refused"}
    /\ caller \in CallerState
    /\ rseq \in Nat
    /\ updating \in BOOLEAN
    /\ prack \in Prack
    /\ net \subseteq Message
    /\ sent \in Nat /\ taken \in Nat /\ acked \in Nat /\ failures \in Nat

\* The answering client has completed UpdateL; a 100 of the stack has made the
\* INVITE proceed at the calling side.
Init ==
    /\ callee = "Updated" /\ told = "EProceeding" /\ media = TRUE /\ accepted = FALSE
    /\ sender = NewSender /\ final = "none"
    /\ caller = "Offering" /\ rseq = 0 /\ updating = FALSE
    /\ prack = [rack |-> 0, phase |-> "none"] /\ net = {}
    /\ sent = 0 /\ taken = 0 /\ acked = 0 /\ failures = 0

-----------------------------------------------------------------------------
(* The answering side: its client *)

Fails == failures < MaxFailures /\ failures' = failures + 1

\* SendRingL or SendSipQueuedL; while one is pending SendResponseL leaves, and
\* nothing changes.
Ring ==
    /\ callee = "Updated" /\ ~sender.pending /\ sent < MaxResponses
    /\ LET s == Send(Rseq(sender))
       IN  sender' = s /\ net' = net \cup {[type |-> "1xx", rseq |-> s.last]}
    /\ callee' = "AcknowledgementRequired"
    /\ sent' = sent + 1
    /\ UNCHANGED <<told, media, accepted, final, acked, callerVars, prack, failures>>

\* The response cannot be made, after its RSeq was taken, or cannot be sent;
\* the client gets the error.
RingFails ==
    /\ callee = "Updated" /\ ~sender.pending /\ sent < MaxResponses
    /\ Fails
    /\ sender' \in {Rseq(sender), SendFails(Rseq(sender))}
    /\ UNCHANGED <<callee, told, media, accepted, final, sent, acked, callerVars, prack, net>>

\* SendAnswerL, and to the client the reply
Accept ==
    /\ callee = "Updated"
    /\ callee' = "Answering" /\ told' = "EAnswering"
    /\ final' = "2xx" /\ net' = net \cup {Reliable("2xx")}
    /\ UNCHANGED <<media, accepted, sender, sent, acked, callerVars, prack, failures>>

\* EntryEarlyAcceptL
EarlyAccept ==
    /\ callee = "AcknowledgementRequired" /\ ~accepted
    /\ accepted' = TRUE
    /\ UNCHANGED <<callee, told, media, sender, final, sent, acked, callerVars,
                   prack, net, failures>>

\* The session ends: final response, StopMedia, Terminated, the client is told.
\* (Mutants, named for what they get wrong, stand before their originals.)
EndsKeepsMedia ==
    /\ final' = "refused" /\ net' = net \cup {Reliable("refused")}
    /\ callee' = "Terminated" /\ told' = "ETerminated"
    /\ UNCHANGED media
Ends ==
    /\ final' = "refused" /\ net' = net \cup {Reliable("refused")}
    /\ media' = FALSE
    /\ callee' = "Terminated" /\ told' = "ETerminated"

Reject ==
    /\ callee \in {"Updated", "AcknowledgementRequired"}
    /\ Ends
    /\ UNCHANGED <<accepted, sender, sent, acked, callerVars, prack, failures>>

-----------------------------------------------------------------------------
(* The answering side: timer, network *)

\* EntryNoPrackReceivedL, EntryReliableFailedL: 504 or 500.  A session that has
\* ended ignores the event; to any other it is an error (LocalErrorOccured).
NoPrackReceived ==
    CASE callee = "AcknowledgementRequired" -> Ends
      [] callee \in {"Terminated", "Error"} -> UNCHANGED <<final, net, media, callee, told>>
      [] OTHER -> /\ media' = FALSE /\ callee' = "Error" /\ told' = "ETerminated"
                  /\ UNCHANGED <<final, net>>

\* TimerExpire.  After the final response the stack refuses to send.
TimerExpires ==
    /\ sender.queued > 0
    /\ sender' = Requeue(Expired(sender))
    /\ \/ /\ ~sender.timeOut /\ final = "none"
          /\ net' = net \cup {[type |-> "1xx", rseq |-> sender.last]}
          /\ UNCHANGED <<final, media, callee, told, failures>>
       \/ /\ ~sender.timeOut /\ final # "none"
          /\ NoPrackReceived
          /\ UNCHANGED failures
       \/ /\ ~sender.timeOut /\ final = "none"
          /\ Fails
          /\ NoPrackReceived
       \/ /\ sender.timeOut
          /\ NoPrackReceived
          /\ UNCHANGED failures
    /\ UNCHANGED <<accepted, sent, acked, callerVars, prack>>

\* ProceedToUpdatedL: an early accept is executed as soon as the state is
\* Updated, inside StateChanged; what the client is told comes after it.
ProceedToUpdatedForgets ==
    /\ told' = "EProceeding" /\ callee' = "Updated"
    /\ UNCHANGED <<final, net, accepted, media>>
ProceedToUpdated ==
    /\ told' = "EProceeding"
    /\ IF accepted
       THEN callee' = "Answering" /\ final' = "2xx" /\ net' = net \cup {Reliable("2xx")}
       ELSE callee' = "Updated" /\ UNCHANGED <<final, net>>
    /\ UNCHANGED <<accepted, media>>

\* EntryPrackL: the media is reserved at once (CMceSdpSession::ReserveL).  A
\* PRACK for another response ends the session, and the media stays.
EntryPrack ==
    IF Matches(sender, prack.rack)
    THEN /\ sender' = PrackReceived(sender)
         /\ prack' = [prack EXCEPT !.phase = "ok"]
         /\ acked' = acked + 1
         /\ ProceedToUpdated
    ELSE /\ prack' = [prack EXCEPT !.phase = "gone"]
         /\ callee' = "Terminated" /\ told' = "ETerminated"
         /\ UNCHANGED <<sender, acked, final, net, accepted, media>>

PrackArrives ==
    /\ prack.phase = "sent"
    /\ IF callee = "AcknowledgementRequired" THEN EntryPrack
       ELSE /\ \E p \in {"ignored", "gone"} :
                 /\ p = "ignored" => callee \in Over
                 /\ prack' = [prack EXCEPT !.phase = p]
            /\ UNCHANGED <<callee, told, media, accepted, sender, final, acked, net>>
    /\ UNCHANGED <<sent, callerVars, failures>>

\* The stack answers a CANCEL that finds the INVITE unanswered with 487, and
\* the session is told (Canceled).
CancelArrives ==
    /\ Reliable("cancel") \in net
    /\ IF final = "none"
       THEN /\ final' = "refused"
            /\ net' = (net \ {Reliable("cancel")}) \cup {Reliable("refused")}
            /\ media' = FALSE
            /\ callee' = "Terminated" /\ told' = "ETerminated"
       ELSE /\ net' = net \ {Reliable("cancel")}
            /\ UNCHANGED <<final, media, callee, told>>
    /\ UNCHANGED <<accepted, sender, sent, acked, callerVars, prack, failures>>

AckArrives ==
    /\ Reliable("ack") \in net
    /\ net' = net \ {Reliable("ack")}
    /\ IF callee = "Answering"
       THEN callee' = "Established" /\ told' = "EEstablished"
       ELSE UNCHANGED <<callee, told>>
    /\ UNCHANGED <<media, accepted, sender, final, sent, acked, callerVars, prack, failures>>

ByeArrives ==
    /\ Reliable("bye") \in net
    /\ net' = net \ {Reliable("bye")}
    /\ IF callee \in {"Answering", "Established"}
       THEN callee' = "Terminated" /\ told' = "ETerminated" /\ media' = FALSE
       ELSE UNCHANGED <<callee, told, media>>
    /\ UNCHANGED <<accepted, sender, final, sent, acked, callerVars, prack, failures>>

\* ErrorOccured( KErrSIPNoAckReceived ): the peer has taken the 2xx and sends
\* no ACK.
NoAck ==
    /\ callee = "Answering"
    /\ net \cap {Reliable("2xx"), Reliable("ack"), Reliable("bye")} = {}
    /\ callee' = "Terminating" /\ told' = "ETerminating" /\ media' = FALSE
    /\ UNCHANGED <<accepted, sender, final, sent, acked, callerVars, prack, net, failures>>

-----------------------------------------------------------------------------
(* The calling side *)

\* NeedToProcessL: the first reliable response, or the next one
NeedToProcessAny(m) == m.rseq >= rseq
NeedToProcess(m) == rseq = 0 \/ m.rseq = rseq + 1

\* The stack hands over no provisional response after the final one.
Answered == final # "none" /\ Reliable(final) \notin net

\* EntryProvisionalResponseL, ExitSIPEventL of Offering: PRACK, Confirming.
\* Confirming, and the states that end the call, take no notice.
ProvisionalArrives ==
    \E m \in net \cap Provisional :
       /\ ~Answered
       /\ net' = net \ {m}
       /\ IF caller = "Offering" /\ NeedToProcess(m)
          THEN /\ prack' = [rack |-> m.rseq, phase |-> "sent"]
               /\ rseq' = m.rseq
               /\ taken' = taken + 1
               /\ caller' = "Confirming"
          ELSE UNCHANGED <<prack, rseq, taken, caller>>
       /\ UNCHANGED <<calleeVars, updating, failures>>

\* SendCancelL: the INVITE proceeds
SendCancelNever == UNCHANGED net
SendCancel == net' = net \cup {Reliable("cancel")}

\* Nothing is left to confirm: back to Offering
ExitMediaUpdatedStays == UNCHANGED caller
ExitMediaUpdated == caller' = "Offering"

\* A response to the PRACK: in Confirming 200 (EntryResponseL, ExitMediaUpdatedL)
\* or 481 (EntryErrorResponseL); Canceled takes either for its end.
PrackAnswered ==
    /\ prack.phase \in {"ok", "gone"}
    /\ prack' = [prack EXCEPT !.phase = "over"]
    /\ \/ /\ caller = "Confirming" /\ prack.phase = "ok"
          /\ ExitMediaUpdated
          /\ UNCHANGED net
       \/ /\ caller = "Confirming" /\ prack.phase = "gone"
          /\ caller' = "Canceled"
          /\ SendCancel
       \/ /\ caller = "Canceled"
          /\ caller' = "Terminated"
          /\ UNCHANGED net
       \/ /\ caller \notin {"Confirming", "Canceled"}
          /\ UNCHANGED <<caller, net>>
    /\ UNCHANGED <<calleeVars, rseq, updating, taken, failures>>

\* The PRACK or its response is lost for good: ErrorOccured.
PrackTimesOut ==
    /\ prack.phase \in {"sent", "ok", "gone", "ignored"}
    /\ prack' = [prack EXCEPT !.phase = "over"]
    /\ IF caller = "Confirming"
       THEN caller' = "Canceled" /\ SendCancel
       ELSE /\ caller' = IF caller = "Terminating" THEN "Terminated" ELSE "Error"
            /\ UNCHANGED net
    /\ UNCHANGED <<calleeVars, rseq, updating, taken, failures>>

\* The client cancels (EntryCancelL); after the final response SendCancelL
\* leaves, and nothing changes.
Cancel ==
    /\ caller \in {"Offering", "Confirming"} /\ ~Answered
    /\ caller' = "Canceled"
    /\ SendCancel
    /\ UNCHANGED <<calleeVars, rseq, updating, taken, prack, failures>>

\* The 2xx.  Confirming gives up its PRACK (InterruptConfirming); Canceled
\* hangs up; a session that has ended does not even acknowledge it.
InterruptConfirming == prack' = [prack EXCEPT !.phase = "over"]

AnswerArrives ==
    /\ Reliable("2xx") \in net
    /\ \/ /\ caller \in {"Offering", "Confirming"}
          /\ net' = (net \ {Reliable("2xx")}) \cup {Reliable("ack")}
          /\ IF caller = "Confirming" THEN InterruptConfirming ELSE UNCHANGED prack
          /\ \/ caller' = "Established" /\ UNCHANGED updating
             \/ updating' = TRUE /\ UNCHANGED caller
       \/ /\ caller = "Canceled"
          /\ net' = (net \ {Reliable("2xx")}) \cup {Reliable("ack"), Reliable("bye")}
          /\ caller' = "Terminating"
          /\ UNCHANGED <<prack, updating>>
       \/ /\ caller \in Over
          /\ net' = net \ {Reliable("2xx")}
          /\ UNCHANGED <<caller, prack, updating>>
    /\ UNCHANGED <<calleeVars, rseq, taken, failures>>

\* The media manager's callback (EMceMediaUpdated)
MediaUpdated ==
    /\ updating
    /\ updating' = FALSE
    /\ caller' = "Established"
    /\ UNCHANGED <<calleeVars, rseq, taken, prack, net, failures>>

RefusalArrives ==
    /\ Reliable("refused") \in net
    /\ net' = net \ {Reliable("refused")}
    /\ caller' = IF caller \in Over THEN caller ELSE "Terminated"
    /\ UNCHANGED <<calleeVars, rseq, updating, taken, prack, failures>>

-----------------------------------------------------------------------------
Lose ==
    /\ \E m \in net \cap Provisional : net' = net \ {m}
    /\ UNCHANGED <<calleeVars, callerVars, prack, failures>>

Arrive == CancelArrives \/ AckArrives \/ ByeArrives \/ AnswerArrives \/ RefusalArrives

Client == Ring \/ Accept \/ EarlyAccept \/ Reject \/ Cancel

Next ==
    \/ Client \/ RingFails
    \/ TimerExpires
    \/ PrackArrives \/ PrackAnswered \/ PrackTimesOut
    \/ ProvisionalArrives \/ Arrive \/ NoAck
    \/ MediaUpdated
    \/ Lose

\* Timers expire, the media manager calls back, and the stacks deliver or time
\* out; provisional responses may all be lost, and the clients need do nothing.
Fairness ==
    /\ WF_vars(TimerExpires)
    /\ WF_vars(PrackArrives) /\ WF_vars(PrackAnswered) /\ WF_vars(PrackTimesOut)
    /\ WF_vars(CancelArrives) /\ WF_vars(AckArrives) /\ WF_vars(ByeArrives)
    /\ WF_vars(AnswerArrives) /\ WF_vars(RefusalArrives)
    /\ WF_vars(NoAck) /\ WF_vars(MediaUpdated)

Spec == Init /\ [][Next]_vars /\ Fairness

-----------------------------------------------------------------------------
(* Properties *)

Waiting == callee = "AcknowledgementRequired"
CalleeOver == callee \in Over
CallerOver == caller \in Over

Channel == INSTANCE MceReliableChannel WITH over <- CalleeOver

\* Whatever is lost, repeated or late, the responses reach the calling session
\* once and in order, and the next is sent only when the one before has been
\* taken there (Rseq, NeedToProcessL, PrackReceived).
ImplementsOneAtATime == Channel!Spec

\* A session that waits for the first PRACK has its timer running, and will
\* give up 65 * T1 after the first sending: the interval before the first
\* repetition is not counted among the 64 (TimerExpire).
FirstGivesUp ==
    Waiting /\ sent = 1 =>
        /\ sender.pending /\ sender.queued > 0
        /\ sender.elapsed + sender.queued <= KMaxTransTimeOut + 1

\* However the answering session ends - rejected, cancelled, hung up, without
\* PRACK or ACK - the INVITE has its final response, the media is released and
\* the client knows.
EndsCleanly ==
    CalleeOver => /\ final # "none" /\ ~media
                  /\ told \in {"ETerminating", "ETerminated"}

\* In Confirming a PRACK is always unanswered or the INVITE is answered: the
\* leaves of InterruptConfirming's caller and ExitMediaUpdatedL do not happen,
\* and nothing else could end the state.
ConfirmingWaits ==
    caller = "Confirming" => prack.phase \in {"sent", "ok", "gone", "ignored"} \/ updating

\* "Client accepted the session before prack was received, remember that 200 OK
\* for invite is sent when possible" (EntryEarlyAcceptL): an accept that comes
\* while the first response waits for its PRACK is carried out, or the session
\* ends.
EarlyAcceptHonoured == accepted /\ sent = 1 ~> final # "none"

\* No half-open calls: if one side ends, so does the other.
EndTogether == (CalleeOver ~> CallerOver) /\ (CallerOver ~> CalleeOver)

\* A session that waits for a PRACK has the timer running that ends the wait
\* after 64 * T1 (NoPrackReceived).
WaitIsTimed == Waiting => sender.queued > 0
=============================================================================
