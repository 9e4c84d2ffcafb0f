------------------------------ MODULE MceSession ----------------------------
(***************************************************************************)
(* The SIP sessions of the MCE server: CMceSipSession driven by            *)
(* CMceSipStateMachine and its CMceState classes.                          *)
(*                                                                         *)
(* The server is one thread.  Five sources call a session, in any order:   *)
(* the client (its requests, and the deletion of the session), the SIP     *)
(* stack (requests, responses and errors of the peer and the network), the *)
(* media manager (the callback of an asynchronous update) and the session  *)
(* timer.  A handler runs to completion, so each is one action.            *)
(*                                                                         *)
(* Allowed names what the peer, the network and the media may do beyond    *)
(* the plain course of a call:                                             *)
(*   "early answer"         a 18x answers the offer of the first INVITE    *)
(*   "early update answer"  a 18x answers the offer of a re-INVITE         *)
(*   "redirect update"      3xx to a re-INVITE                             *)
(*   "interval too small"   422 to an INVITE                               *)
(*   "session timer"        sessions have a session timer (RFC 4028)       *)
(*   "late timer"           it expires in the middle of something else     *)
(*   "media fails"          the media manager leaves                       *)
(*   "lost"                 transactions time out                          *)
(*   "crossing"             the answer to a CANCEL comes before the final  *)
(*                          response to the INVITE, or after the next      *)
(*                          transaction began                              *)
(*   "redirect to cancel"   3xx to an INVITE that is being cancelled       *)
(*   "bye to cancel"        the peer hangs up while an update is cancelled *)
(***************************************************************************)
EXTENDS Naturals, MceActionSet

CONSTANTS
    Session,        \* the sessions
    MaxInvites,     \* bound on the INVITE transactions, of both directions
    Allowed

Behaviours ==
    {"early answer", "early update answer", "redirect update",
     "interval too small", "session timer", "late timer", "media fails",
     "lost", "crossing", "redirect to cancel", "bye to cancel"}

ASSUME SessionAssumption == IsFiniteSet(Session)
ASSUME BoundAssumption == MaxInvites \in Nat
ASSUME AllowedAssumption == Allowed \subseteq Behaviours

VARIABLES
    ses,            \* the sessions
    lastResponse,   \* iLastResponse and iReadyToSendACK of CMceStateOffering:
    readyToAck,     \*   the state objects are shared by all sessions
    invites         \* number of INVITE transactions so far

vars == <<ses, lastResponse, readyToAck, invites>>
offeringState == <<lastResponse, readyToAck>>

TypeOK ==
    /\ ses \in [Session -> SessionData]
    /\ lastResponse \in {"none", "ringing", "progress", "ok"}
    /\ readyToAck \in BOOLEAN
    /\ invites \in 0..MaxInvites

Init ==
    /\ ses = [s \in Session |-> Free]
    /\ lastResponse = "none"
    /\ readyToAck = TRUE
    /\ invites = 0

\* The session exists: its handlers can be called
Live(s) == ses[s].owner \in {"client", "orphan"}

\* A handler called by the client, the media manager or a timer
Set(s, r) == ses' = [ses EXCEPT ![s] = r]

\* A handler called by the SIP stack: Cleanup follows
Incoming(s, r) ==
    ses' = [t \in Session |-> Sweep(IF t = s THEN r ELSE ses[t])]

\* n INVITE transactions more; one that waits for the media counts at once
NewInvite(n) == invites + n <= MaxInvites /\ invites' = invites + n

\* No answer of the peer to an INVITE or to its CANCEL is due.
Settled(r) == ~InvitePending(r) /\ r.cancel # "out"

\* UpdateL returns KMceReady or KMceAsync, or leaves.
MediaResults ==
    {"ready", "async"} \cup (IF "media fails" \in Allowed THEN {"fails"} ELSE {})

-----------------------------------------------------------------------------
(* What the session does when the state machine leaves *)

\* HandleSIPEventErrorL, a response: not one the state accepts, except that
\* Offering accepts it and leaves later
HandleResponseError(r) ==
    LET x == IF r.st = "Offering" THEN MarkExit(r, r) ELSE r
        m == StopMedia(x)
    IN  CASE r.sub = "Updating" ->
                Become(UpdateFailed(StopUpdatingMedia(x)), "Established", "EEstablished")
          [] r.sub # "Updating" /\ r.dialog = "confirmed" ->
                Become(SendBYE(m), "Terminating", "ETerminating")
          [] r.sub # "Updating" /\ r.dialog = "early" ->
                IF CanCancel(m) THEN Become(SendCancel(m), "Canceled", "ECancelling")
                ELSE Become(m, "Error", "ETerminated")
          [] r.sub # "Updating" /\ r.dialog = "terminated" ->
                Become(m, "Terminated", "ETerminated")
          [] OTHER -> m

\* HandleSIPEventErrorL, a request the state accepts.  (One it does not
\* accept is refused, and nothing changes.)
HandleRequestError(r) ==
    LET m == Discard(StopMedia(r))
    IN  IF m.dialog = "confirmed"
        THEN Become(SendBYE(m), "Terminating", "ETerminating")
        ELSE Become(m, "Terminated", "ETerminated")

\* A BYE that gets no answer has ended the session too.  (Mutants, named for
\* what they get wrong, stand before their originals.)
ByeLostIgnored(r) == r
ByeLost(r) == Become(r, "Terminated", "ETerminated")

\* CMceSipSession::ErrorOccured
ErrorOccured(r, noAck) ==
    LET m == StopMedia(r)
    IN  IF r.st = "Terminating"
        THEN ByeLost(r)
        ELSE IF r.st = "Offering" \/ (noAck /\ r.sub \in {"Answering", "Updating"})
        THEN CASE r.dialog = "confirmed" ->
                     Become(SendBYE(m), "Terminating", "ETerminating")
               [] r.dialog = "early" -> Become(SendCancel(m), "Canceled", "ECancelling")
               [] OTHER -> Become(m, "Terminated", "ETerminated")
        ELSE Become(m, "Error", "ETerminated")

-----------------------------------------------------------------------------
(* Idle *)

\* The client object is created: its server session is.
CreateOutSession(s) ==
    /\ ses[s].owner = "free"
    /\ ses' = [t \in Session |-> IF t = s THEN NewOutSession ELSE Sweep(ses[t])]
    /\ UNCHANGED <<offeringState, invites>>

EstablishSession(s) ==
    /\ Live(s) /\ ses[s].st = "Idle"
    /\ \E result \in MediaResults :
          LET r == [ses[s] EXCEPT !.sub = "Offering"]
              m == [r EXCEPT !.media = "open"]
          IN  CASE result = "ready" ->
                      /\ NewInvite(1)
                      /\ Set(s, Processed(r, Become(SendInvite(m), "Offering", "EOffering")))
                [] result = "async" ->
                      /\ NewInvite(1)
                      /\ Set(s, Processed(r, Become(UpdateAsync(m),
                                                   "ClientEstablishing", "EOffering")))
                [] result = "fails" -> Set(s, MarkExit(r, r)) /\ UNCHANGED invites
    /\ UNCHANGED offeringState

\* An INVITE that starts a session, offer acceptable.  (A session whose first
\* INVITE is rejected is deleted before the network hears of it.)
IncomingSession(s) ==
    /\ ses[s].owner = "free"
    /\ NewInvite(1)
    /\ Incoming(s, Processed(NewInSession,
           Become([NewInSession EXCEPT !.media = "open"], "ServerEstablishing", "EIncoming")))
    /\ UNCHANGED offeringState

-----------------------------------------------------------------------------
(* ClientEstablishing *)

CancelEstablishing(s) ==
    /\ Live(s) /\ ses[s].st = "ClientEstablishing"
    /\ LET r == ses[s]
       IN  Set(s, Processed(r,
              IF r.sub = "Offering"
              THEN Become(StopMedia(r), "Terminated", "ETerminated")
              ELSE Become(UpdateFailed(r), "Established", "EEstablished")))
    /\ UNCHANGED <<offeringState, invites>>

-----------------------------------------------------------------------------
(* Offering *)

\* ExitL returns at once, whatever the session and the event, while
\* iReadyToSendACK is false.
OfferingExit(r, n, next, state, ready) ==
    Processed(r, IF ready THEN Become(n, next, state) ELSE n)

\* leaves the media of the offer open
EntryCancelKeepsMedia(r) ==
    IF r.sub = "Offering" THEN SendCancel(r) ELSE UpdateFailed(SendCancel(r))

\* EntryCancelL
EntryCancel(r) ==
    IF r.sub = "Offering" THEN StopMedia(SendCancel(r)) ELSE UpdateFailed(SendCancel(r))

CancelOffering(s) ==
    /\ Live(s) /\ ses[s].st = "Offering"
    /\ CanCancel(ses[s])
    /\ Set(s, OfferingExit(ses[s], EntryCancel(ses[s]), "Canceled", "ECancelling", readyToAck))
    /\ UNCHANGED <<offeringState, invites>>

\* EntryProvisionalResponseL and its exit: a 18x whose SDP, if it has one and
\* the offer is not answered, is the answer; "bad" SDP does not parse.
OfferingProvisional(r, sdp, result) ==
    LET told == IF readyToAck THEN ClientStateChanged(r, "EOffering") ELSE r
        answered == [told EXCEPT !.answered = TRUE]
    IN  IF ~sdp \/ r.answered THEN Processed(r, told)
        ELSE CASE result = "ready" -> Processed(r, answered)
               [] result = "async" ->
                     Processed(r, UpdateAsync([answered EXCEPT !.waiting = TRUE]))
               [] result = "bad" ->
                     Processed(r, Become(EntryCancel(r), "Canceled", "ECancelling"))
               [] result = "fails" -> HandleResponseError(r)

\* EntryResponseL: the 200 after a 180 whose answer the media still works on
\* is left for its retransmission.
AfterRinging(sdp) == lastResponse = "ringing" /\ sdp

ReadyToAck(r, sdp) == IF AfterRinging(sdp) THEN ~r.waiting ELSE readyToAck

\* ... any other is acknowledged, and its answer, if it is the first, decoded.
OfferingAnswered(r, sdp, result, ready) ==
    LET a == SendACK(r)
        t == [a EXCEPT !.timer = @ \/ "session timer" \in Allowed]
    IN  CASE r.waiting -> Processed(r, a)
          [] ~r.waiting /\ ~sdp ->
                Processed(r, UpdateSucceed(Become(a, "Established", "EEstablished")))
          [] ~r.waiting /\ sdp /\ r.sub = "Refreshing" ->
                OfferingExit(r, t, "Established", "EEstablished", ready)
          [] ~r.waiting /\ sdp /\ r.sub # "Refreshing" ->
                CASE result = "ready" ->
                        OfferingExit(r, UpdateSucceed(t), "Established", "EEstablished", ready)
                  [] result = "async" ->
                        Processed(r, UpdateAsync([t EXCEPT !.waiting = TRUE]))
                  [] result = "bad" ->
                        IF r.sub = "Offering"
                        THEN OfferingExit(r, StopMedia(SendBYE(t)),
                                          "Terminating", "ETerminating", ready)
                        ELSE OfferingExit(r, UpdateFailed(t),
                                          "Established", "EEstablished", ready)
                  [] result = "fails" -> HandleResponseError(t)

\* EntryRedirectionResponseL, ExitRedirectionEventL.  The state a redirected
\* update changes to is CMceSession::EEstablished, a constant of the client's
\* enumeration: as a TMceStateIndex it is KMceStateServerEstablishing.
Retried(r, code) == code = "302" /\ r.sub # "Updating"

OfferingRedirected(r, code) ==
    LET n == IF Retried(r, code) THEN SendInvite(NewDialog(r)) ELSE r
    IN  Processed(r,
          IF ~readyToAck \/ r.sub = "Refreshing" THEN n
          ELSE IF r.sub = "Updating"
          THEN Become(UpdateFailed(StopUpdatingMedia(n)), "ServerEstablishing", "EEstablished")
          ELSE IF code = "302" THEN ClientStateChanged(n, "EOffering")
          ELSE Become(StopMedia(n), "Terminated", "ETerminated"))

\* EntryErrorResponseL, ExitSIPEventL
Gone(code) == code = "481"      \* or 408

OfferingRefused(r, code) ==
    CASE code = "422" /\ r.dialog = "confirmed" ->
            OfferingExit(r, SendSessionRefresh(r), "Established", "EEstablished", readyToAck)
      [] code = "422" /\ r.dialog # "confirmed" ->
            Processed(r, SendInvite([r EXCEPT !.dialog = "none"]))
      [] code = "421" -> Processed(r, SendInvite(NewDialog(r)))
      [] code \notin {"421", "422"} /\ r.sub = "Offering" ->
            OfferingExit(r, StopMedia(r), "Terminated", "ETerminated", readyToAck)
      [] code \notin {"421", "422"} /\ r.sub # "Offering" ->
            Processed(r,
               IF Gone(code)
               THEN Become(StopMedia(SendBYE(UpdateFailed(r))), "Terminated", "ETerminated")
               ELSE Become(UpdateFailed(r), "Established", "EEstablished"))

\* takes the callback after a 18x for the one after the 2xx
OfferingMediaUpdatedEarly(r) ==
    OfferingExit(r, UpdateSucceed(r), "Established", "EEstablished", readyToAck)

\* The callback of the media manager, after a 18x or a 2xx
OfferingMediaUpdated(r) ==
    LET n == UpdateSucceed(r)
    IN  IF r.resp = "2xx"
        THEN OfferingExit(r, n, "Established", "EEstablished", readyToAck)
        ELSE Processed(r, n)

-----------------------------------------------------------------------------
(* ServerEstablishing: the client has been told of an offer *)

\* ExitL of a refused offer: of the first, or of an update
RejectedExitOfUpdate(r, n) == Become(n, "Established", "EEstablished")
RejectedExit(r, n) ==
    IF r.sub = "Answering" THEN Become(n, "Terminated", "ETerminated")
    ELSE Become(n, "Established", "EEstablished")

\* EntryUpdateL: the client has its answer ready.  (The handlers of this state
\* dereference the request without a test: the model stops where there is none.)
UpdateIncoming(s) ==
    /\ Live(s) /\ ses[s].st = "ServerEstablishing" /\ ses[s].request = "open"
    /\ \E result \in {"ready", "async", "fails"} :
          LET r == ses[s]
              first == r.sub = "Answering"
          IN  /\ result = "fails" => "media fails" \in Allowed
              /\ Set(s, Processed(r,
                   CASE result = "ready" /\ first -> Become(r, "Updated", "EProceeding")
                     [] result = "ready" /\ ~first ->
                           Become(SendAnswer(UpdateSucceed(r), FALSE), "Answering", "EAnswering")
                     [] result = "async" -> Become(UpdateAsync(r), "Updating", "EReserving")
                     [] result = "fails" ->
                           RejectedExit(r, IF first THEN StopMedia(Discard(r))
                                           ELSE UpdateFailed(Discard(r)))))
    /\ UNCHANGED <<offeringState, invites>>

\* The reject of a first offer does not stop the media: the code asks whether
\* iSubState is EOffering, which it never is here.
RejectIncoming(s) ==
    /\ Live(s) /\ ses[s].st = "ServerEstablishing" /\ ses[s].request = "open"
    /\ LET r == ses[s]
           n == IF r.sub = "Offering" THEN StopMedia(Discard(r)) ELSE UpdateFailed(Discard(r))
       IN  Set(s, Processed(r, RejectedExit(r, n)))
    /\ UNCHANGED <<offeringState, invites>>

-----------------------------------------------------------------------------
(* Updated: media reserved, the client has not accepted *)

AcceptSession(s) ==
    /\ Live(s) /\ ses[s].st = "Updated"
    /\ Set(s, Processed(ses[s], Become(SendAnswer(ses[s], "session timer" \in Allowed),
                                        "Answering", "EAnswering")))
    /\ UNCHANGED <<offeringState, invites>>

RejectSession(s) ==
    /\ Live(s) /\ ses[s].st = "Updated"
    /\ Set(s, Processed(ses[s], Become(StopMedia(Discard(ses[s])),
                                        "Terminated", "ETerminated")))
    /\ UNCHANGED <<offeringState, invites>>

-----------------------------------------------------------------------------
(* Established *)

TerminateSession(s) ==
    /\ Live(s) /\ ses[s].st = "Established"
    /\ CanSendBYE(ses[s])
    /\ Set(s, Processed(ses[s], Become(StopMedia(SendBYE(ses[s])),
                                        "Terminating", "ETerminating")))
    /\ UNCHANGED <<offeringState, invites>>

\* EntryUpdateL: the client changes the session.  A leave of UpdateL or of
\* SendInviteL is the client's error, and the candidate stays; while there is
\* one, an update leaves at once, and nothing changes.
UpdateSession(s) ==
    /\ Live(s) /\ ses[s].st = "Established"
    /\ ses[s].dialog = "confirmed"     \* or the stack has to refuse the INVITE,
    /\ ~InvitePending(ses[s])          \*   as while one is pending
    /\ Settled(ses[s]) \/ "crossing" \in Allowed
    /\ CanCreateBodyCandidate(ses[s])
    /\ \E result \in MediaResults \cup {"no signalling"} :
          LET r == ses[s]
              c == CreateBodyCandidate(r)
          IN  CASE result = "ready" ->
                      /\ NewInvite(1)
                      /\ Set(s, Processed(r, Become(SendInvite(c), "Offering", "EOffering")))
                [] result = "no signalling" ->
                      /\ Set(s, Processed(r, Become(UpdateSucceed(c),
                                                   "Established", "EEstablished")))
                      /\ UNCHANGED invites
                [] result = "async" ->
                      /\ NewInvite(1)
                      /\ Set(s, Processed(r, Become(UpdateAsync(c),
                                                   "ClientEstablishing", "EOffering")))
                [] result = "fails" -> Set(s, MarkExit(r, c)) /\ UNCHANGED invites
    /\ UNCHANGED offeringState

-----------------------------------------------------------------------------
(* Responses of the peer *)

\* States that ignore whatever comes
EndedOnlyTerminated == {"Terminated"}
Ended == {"Terminated", "Error"}

\* Any event but a provisional response, a redirection or one of the media
\* ends Canceled; a 2xx to the first INVITE ends the session it made.
CanceledExitSilent(r) ==
    IF r.sub = "Offering" THEN Become(r, "Terminated", "ETerminated")
    ELSE StateChanged(r, "Established")
CanceledExit(r) ==
    IF r.sub = "Offering" THEN Become(r, "Terminated", "ETerminated")
    ELSE Become(r, "Established", "EEstablished")

\* take the crossing 2xx for a refusal, send no BYE, wait for the CANCEL,
\* or accept the update that was rolled back
CanceledAnsweredAsRefused(r) == CanceledExit(SendACK(r))
CanceledAnsweredNoBye(r) ==
    IF r.sub = "Offering" THEN Become(SendACK(r), "Terminating", "ETerminating")
    ELSE Become(SendACK(r), "Established", "EEstablished")
CanceledAnsweredWaits(r) == SendACK(r)
CanceledAnsweredAccepts(r) ==
    IF r.sub = "Offering" THEN Become(SendBYE(SendACK(r)), "Terminating", "ETerminating")
    ELSE Become(UpdateSucceed(SendACK(r)), "Established", "EEstablished")

CanceledAnswered(r) ==
    IF r.sub = "Offering" THEN Become(SendBYE(SendACK(r)), "Terminating", "ETerminating")
    ELSE Become(SendACK(r), "Established", "EEstablished")

\* The final response to the INVITE, as the stack and SetResponse see it
Final(r, invite, resp) ==
    [r EXCEPT !.invite = invite,
              !.resp = resp,
              !.initial = IF @ = "pending" THEN "done" ELSE @,
              !.dialog = IF resp = "2xx" THEN "confirmed"
                         ELSE IF @ = "confirmed" THEN @ ELSE "terminated"]

\* A provisional response; one that is not a 100 makes the dialog
Proceeding(r, code) ==
    [r EXCEPT !.invite = "proceeding",
              !.resp = "1xx",
              !.dialog = IF code # "trying" /\ @ = "none" THEN "early" ELSE @]

Provisional(s) ==
    /\ Live(s) /\ InvitePending(ses[s])
    /\ \E code \in {"trying", "ringing", "progress"}, sdp \in BOOLEAN,
          result \in MediaResults \cup {"bad"} :
          LET r == Proceeding(ses[s], code)
          IN  /\ sdp => /\ code # "trying"
                        /\ (IF r.sub = "Offering" THEN "early answer"
                            ELSE "early update answer") \in Allowed
              /\ Incoming(s,
                   CASE r.st = "Offering" /\ code # "trying" ->
                           OfferingProvisional(r, sdp, result)
                     [] r.st = "Canceled" ->
                           Processed(r, IF r.cancel = "out" THEN r ELSE SendCancel(r))
                     [] r.st \in Ended \cup {"Terminating"} -> Processed(r, r)
                     [] OTHER -> IF code = "trying" THEN Processed(r, r)
                                 ELSE HandleResponseError(r))
              /\ lastResponse' = IF r.st = "Offering" /\ code # "trying"
                                 THEN code ELSE lastResponse
    /\ UNCHANGED <<readyToAck, invites>>

\* The peer repeats the 2xx to the first INVITE until it is acknowledged.
Answered(s) ==
    /\ Live(s) /\ ses[s].dialog # "terminated"
    /\ \/ InvitePending(ses[s])
       \/ ses[s].invite = "accepted" /\ ses[s].initial = "done"
    /\ \E sdp \in BOOLEAN, result \in MediaResults \cup {"bad"} :
          LET r == Final(ses[s], "accepted", "2xx")
              left == AfterRinging(sdp) /\ r.waiting
          IN  /\ sdp \/ (r.answered /\ r.sub # "Refreshing" /\ InvitePending(ses[s]))
              /\ Incoming(s,
                   CASE r.st = "Offering" ->
                           IF left THEN Processed(r, r)
                           ELSE OfferingAnswered(r, sdp, result, ReadyToAck(r, sdp))
                     [] r.st = "Established" -> SendACK(r)
                     [] r.st = "Canceled" -> Processed(r, CanceledAnswered(r))
                     [] r.st \in Ended \cup {"Terminating"} -> Processed(r, r)
                     [] OTHER -> HandleResponseError(r))
              /\ readyToAck' = IF r.st = "Offering" THEN ReadyToAck(r, sdp) ELSE readyToAck
              /\ lastResponse' = IF r.st = "Offering" /\ ~left THEN "ok" ELSE lastResponse
    /\ UNCHANGED invites

Redirected(s) ==
    /\ Live(s) /\ InvitePending(ses[s])
    /\ ses[s].sub # "Offering" => "redirect update" \in Allowed
    /\ ses[s].st = "Canceled" => "redirect to cancel" \in Allowed
    /\ \E code \in {"302", "300"} :
          LET r == Final(ses[s], "done", "other")
          IN  /\ NewInvite(IF r.st = "Offering" /\ Retried(r, code) THEN 1 ELSE 0)
              /\ Incoming(s,
                   CASE r.st = "Offering" -> OfferingRedirected(r, code)
                     [] r.st \in Ended \cup {"Canceled"} -> Processed(r, r)
                     [] OTHER -> HandleResponseError(r))
    /\ UNCHANGED offeringState

\* 421 asks for an extension, 422 for a longer session interval; 481 and 408
\* end a session; 491 is the answer to an update that crosses another.
Refused(s) ==
    /\ Live(s) /\ InvitePending(ses[s])
    /\ \E code \in {"421", "422", "481", "491", "486"} :
          LET r == Final(ses[s], "done", IF code = "491" THEN "491" ELSE "other")
          IN  /\ code = "421" => r.dialog # "confirmed"
              /\ code = "422" => "interval too small" \in Allowed
              /\ code \in {"481", "491"} => r.dialog = "confirmed"
              /\ NewInvite(IF r.st = "Offering" /\ code \in {"421", "422"} THEN 1 ELSE 0)
              /\ Incoming(s,
                   CASE r.st = "Offering" -> OfferingRefused(r, code)
                     [] r.st = "Canceled" -> Processed(r, CanceledExit(r))
                     [] r.st \in Ended \cup {"Terminating", "Established"} -> Processed(r, r)
                     [] OTHER -> HandleResponseError(r))
    /\ UNCHANGED offeringState

\* 200 to the CANCEL.  Offering takes it for the answer to an INVITE and
\* leaves when it acknowledges it.
CancelAnswered(s) ==
    /\ Live(s) /\ ses[s].cancel = "out"
    /\ InvitePending(ses[s]) => "crossing" \in Allowed
    /\ LET r == [ses[s] EXCEPT !.cancel = "done", !.resp = "other"]
       IN  Incoming(s,
             CASE r.st = "Canceled" -> Processed(r, CanceledExit(r))
               [] r.st \in Ended \cup {"Terminating", "Established"} -> Processed(r, r)
               [] OTHER -> HandleResponseError(r))
    /\ UNCHANGED <<offeringState, invites>>

ByeAnswered(s) ==
    /\ Live(s) /\ ses[s].bye = "out"
    /\ LET r == [ses[s] EXCEPT !.bye = "done", !.dialog = "terminated", !.resp = "other"]
       IN  Incoming(s,
             CASE r.st = "Terminating" -> Processed(r, Become(r, "Terminated", "ETerminated"))
               [] r.st = "Canceled" -> Processed(r, CanceledExit(r))
               [] r.st \in Ended \cup {"Established"} -> Processed(r, r)
               [] OTHER -> HandleResponseError(r))
    /\ UNCHANGED <<offeringState, invites>>

-----------------------------------------------------------------------------
(* Requests of the peer *)

\* States that accept no BYE refuse it, and nothing changes.
ByeReceived(s) ==
    /\ Live(s) /\ ses[s].dialog = "confirmed"
    /\ LET r == Send200OK(ses[s])
           n == Become(StopMedia(r), "Terminated", "ETerminated")
       IN  CASE r.st = "Offering" ->
                   Incoming(s, OfferingExit(r, StopMedia(r), "Terminated", "ETerminated", readyToAck))
             [] r.st \in {"Answering", "Established", "Terminating"} ->
                   Incoming(s, Processed(r, n))
             [] r.st = "Canceled" /\ "bye to cancel" \in Allowed ->
                   Incoming(s, Processed(r, CanceledExit(r)))
             [] OTHER -> FALSE
    /\ UNCHANGED <<offeringState, invites>>

AckReceived(s) ==
    /\ Live(s) /\ ses[s].st = "Answering" /\ ses[s].request = "accepted"
    /\ Incoming(s, Processed(ses[s], Become(ses[s], "Established", "EEstablished")))
    /\ UNCHANGED <<offeringState, invites>>

\* A re-INVITE in Answering is taken for the ACK first.  (In a state other than
\* these two it is refused with 491, and nothing changes.)
ReInviteReceived(s) ==
    /\ Live(s)
    /\ ses[s].st \in {"Answering", "Established"}
    /\ ses[s].dialog = "confirmed" /\ ses[s].request # "open" /\ ses[s].bye = "none"
    /\ Settled(ses[s]) \/ "crossing" \in Allowed
    /\ NewInvite(1)
    /\ \E offer \in {"changed", "warning", "unchanged"} \cup
                    (IF "media fails" \in Allowed THEN {"fails"} ELSE {}) :
          LET a == IF ses[s].st = "Answering"
                   THEN Processed(ses[s], Become(ses[s], "Established", "EEstablished"))
                   ELSE ses[s]
              r == [a EXCEPT !.request = "open"]
              c == CreateBodyCandidate(r)
          IN  Incoming(s,
                CASE offer = "unchanged" ->
                        Processed(r, Become(SendAnswer([r EXCEPT !.sub = "Refreshing"], FALSE),
                                            "Answering", "EAnswering"))
                  [] offer # "unchanged" /\ ~CanCreateBodyCandidate(r) ->
                        HandleRequestError(MarkExit(r, r))
                  [] offer = "changed" /\ CanCreateBodyCandidate(r) ->
                        Processed(r, Become(c, "ServerEstablishing", "EIncoming"))
                  [] offer = "warning" /\ CanCreateBodyCandidate(r) ->
                        Processed(r, Discard(UpdateFailed(c)))
                  [] offer = "fails" /\ CanCreateBodyCandidate(r) ->
                        HandleRequestError(MarkExit(r, UpdateFailed(c))))
    /\ UNCHANGED offeringState

\* The peer's CANCEL: the stack answers the INVITE, and no clean-up follows.
InviteCanceled(s) ==
    /\ Live(s) /\ ses[s].request = "open"
    /\ LET r == Discard(ses[s])
       IN  Set(s, IF r.dialog = "confirmed"
                  THEN Become(UpdateFailed(StopUpdatingMedia(r)), "Established", "EEstablished")
                  ELSE Become(StopMedia(r), "Terminated", "ETerminated"))
    /\ UNCHANGED <<offeringState, invites>>

-----------------------------------------------------------------------------
(* The network, the media manager, the timer *)

InviteTimesOut(s) ==
    /\ Live(s) /\ InvitePending(ses[s]) /\ "lost" \in Allowed
    /\ Incoming(s, ErrorOccured(Final(ses[s], "done", "other"), FALSE))
    /\ UNCHANGED <<offeringState, invites>>

CancelTimesOut(s) ==
    /\ Live(s) /\ ses[s].cancel = "out" /\ "lost" \in Allowed
    /\ Incoming(s, ErrorOccured([ses[s] EXCEPT !.cancel = "done", !.resp = "other"], FALSE))
    /\ UNCHANGED <<offeringState, invites>>

ByeTimesOut(s) ==
    /\ Live(s) /\ ses[s].bye = "out" /\ "lost" \in Allowed
    /\ Incoming(s, ErrorOccured([ses[s] EXCEPT !.bye = "done", !.dialog = "terminated",
                                               !.resp = "other"], FALSE))
    /\ UNCHANGED <<offeringState, invites>>

NoAckReceived(s) ==
    /\ Live(s) /\ ses[s].request = "accepted" /\ "lost" \in Allowed
    /\ Incoming(s, ErrorOccured([ses[s] EXCEPT !.request = "none"], TRUE))
    /\ UNCHANGED <<offeringState, invites>>

\* The transaction of the first INVITE, its final response long received, ends.
InviteCompleted(s) ==
    /\ Live(s) /\ ses[s].initial = "done"
    /\ Set(s, [ses[s] EXCEPT !.initial = "removed"])
    /\ UNCHANGED <<offeringState, invites>>

\* CMceSipSession::Updated
MediaUpdated(s) ==
    /\ Live(s) /\ ses[s].busy
    /\ LET r == [ses[s] EXCEPT !.busy = FALSE, !.waiting = FALSE]
       IN  Set(s,
             CASE r.st = "ClientEstablishing" ->
                     Processed(r, StateChanged(SendInvite(r), "Offering"))
               [] r.st = "Offering" -> OfferingMediaUpdated(r)
               [] r.st = "Updating" /\ r.sub = "Updating" ->
                     Processed(r, Become(SendAnswer(UpdateSucceed(r), FALSE),
                                         "Answering", "EProceeding"))
               [] r.st = "Updating" /\ r.sub # "Updating" ->
                     Processed(r, Become(r, "Updated", "EProceeding"))
               [] r.st \in Ended \cup {"Canceled"} -> Processed(r, r)
               [] OTHER -> Become(StopMedia(r), "Error", "ETerminated"))
    /\ UNCHANGED <<offeringState, invites>>

\* TimerExpiredL: the side that refreshes (iRefresh) does so at half time.  A
\* state that does not accept the event leaves: LocalErrorOccured.
TimerExpired(s) ==
    /\ Live(s) /\ ses[s].timer
    /\ ses[s].st \notin Ended \cup {"Established"} => "late timer" \in Allowed
    /\ \E refresh \in BOOLEAN :
          LET r == [ses[s] EXCEPT !.timer = FALSE]
              refreshes == refresh /\ r.st = "Established"
          IN  /\ refreshes => r.dialog = "confirmed" /\ ~InvitePending(r)
              /\ NewInvite(IF refreshes THEN 1 ELSE 0)
              /\ Set(s,
                   CASE r.st = "Established" /\ refresh ->
                           Processed(r, Become(SendSessionRefresh(r), "Offering", "EOffering"))
                     [] r.st = "Established" /\ ~refresh /\ CanSendBYE(r) ->
                           Processed(r, Become(StopMedia(SendBYE(r)),
                                               "Terminating", "ETerminating"))
                     [] r.st = "Canceled" -> Processed(r, CanceledExit(r))
                     [] r.st \in Ended -> Processed(r, r)
                     [] OTHER -> ClientErrorOccured(
                                    IF refresh THEN r ELSE StateChanged(r, "Terminated")))
    /\ UNCHANGED offeringState

\* The client object is deleted, or the client process dies.
DeleteSession(s) ==
    /\ ses[s].owner = "client"
    /\ Set(s, Dispose(ses[s]))
    /\ UNCHANGED <<offeringState, invites>>

-----------------------------------------------------------------------------
ClientRequest(s) ==
    \/ CreateOutSession(s) \/ EstablishSession(s)
    \/ CancelEstablishing(s) \/ CancelOffering(s)
    \/ UpdateIncoming(s) \/ RejectIncoming(s)
    \/ AcceptSession(s) \/ RejectSession(s)
    \/ UpdateSession(s) \/ TerminateSession(s)
    \/ DeleteSession(s)

FinalResponse(s) == Answered(s) \/ Redirected(s) \/ Refused(s) \/ InviteTimesOut(s)
CancelEnds(s) == CancelAnswered(s) \/ CancelTimesOut(s)
ByeEnds(s) == ByeAnswered(s) \/ ByeTimesOut(s)
AckEnds(s) == AckReceived(s) \/ NoAckReceived(s)

PeerRequest(s) ==
    IncomingSession(s) \/ ReInviteReceived(s) \/ ByeReceived(s) \/ InviteCanceled(s)

Next ==
    \E s \in Session :
       \/ ClientRequest(s)
       \/ Provisional(s) \/ FinalResponse(s) \/ CancelEnds(s) \/ ByeEnds(s) \/ AckEnds(s)
       \/ PeerRequest(s)
       \/ InviteCompleted(s) \/ MediaUpdated(s) \/ TimerExpired(s)

\* Every transaction ends, with a response or by its timer, and the media
\* manager calls back; nothing makes the client or the peer ask for anything.
Fairness ==
    \A s \in Session :
       /\ WF_vars(FinalResponse(s)) /\ WF_vars(CancelEnds(s)) /\ WF_vars(ByeEnds(s))
       /\ WF_vars(AckEnds(s)) /\ WF_vars(InviteCompleted(s)) /\ WF_vars(MediaUpdated(s))

Spec == Init /\ [][Next]_vars /\ Fairness

-----------------------------------------------------------------------------
(* Properties *)

Served(s) == ses[s].owner = "client"

\* The states of the client that stand for a state of the session
Shown(st) ==
    CASE st = "Idle" -> {"EIdle"}
      [] st \in {"ClientEstablishing", "Offering"} -> {"EOffering"}
      [] st = "ServerEstablishing" -> {"EIncoming"}
      [] st = "Updating" -> {"EReserving"}
      [] st = "Updated" -> {"EProceeding"}
      [] st = "Answering" -> {"EAnswering", "EProceeding"}
      [] st = "Established" -> {"EEstablished"}
      [] st = "Canceled" -> {"ECancelling"}
      [] st = "Terminating" -> {"ETerminating"}
      [] st \in Ended -> {"ETerminated"}

\* The client was last told the state its session is in: StateChanged and
\* ClientStateChangedL are separate calls with enumerations of their own, and
\* some thirty paths make one, the other or both.
ClientInSync ==
    \A s \in Session : Served(s) => ses[s].told \in Shown(ses[s].st)

\* The client rejects the first offer before it reserved media.
RejectedAtOnce(r) == r.st = "Terminated" /\ r.sub = "Answering" /\ ~r.exit

\* A session that is ending or has ended holds no media session: every path
\* there has called StopMedia, except the one RejectIncoming is about.
MediaReleased ==
    \A s \in Session :
       Live(s) /\ ses[s].st \in Ended \cup {"Terminating"} =>
          ses[s].media # "open" \/ RejectedAtOnce(ses[s])

\* A session returns to Established with nothing of an update left over: no
\* candidate (CreateBodyCandidateL would refuse the next update for ever), no
\* callback to come, no INVITE unanswered in either direction.
EstablishedIsQuiet ==
    \A s \in Session :
       Live(s) /\ ses[s].st = "Established" =>
          /\ ~ses[s].busy /\ ~ses[s].waiting /\ ~ses[s].cand
          /\ ses[s].invite \in {"none", "done"} /\ ses[s].request # "open"

\* The media manager calls a session back only in a state that takes the
\* callback: in another, CMceSipSession::Updated ends the session as an error.
CallbackExpected ==
    \A s \in Session :
       ses[s].busy => ses[s].st \in {"ClientEstablishing", "Offering", "Updating"}

\* What a session in a state without a client request to come waits for
SomethingIsDue(r) ==
    CASE r.st \in {"ClientEstablishing", "Updating"} -> r.busy
      [] r.st = "Offering" -> InvitePending(r) \/ r.invite = "accepted" \/ r.busy
      [] r.st = "Answering" -> r.request = "accepted"
      [] r.st = "Canceled" -> InvitePending(r) \/ r.cancel = "out"
      [] r.st = "Terminating" -> r.bye = "out"
      [] OTHER -> TRUE

\* A session that waits, waits for something that is still to come.  (EntryL
\* acknowledges the 2xx, cancels, or hangs up; ExitL changes the state, and
\* does so on other conditions.)
NeverStranded == \A s \in Session : Served(s) => SomethingIsDue(ses[s])

\* A confirmed dialog has been sent a BYE, a pending INVITE a CANCEL.
PeerReleased(r) ==
    /\ r.dialog = "confirmed" => r.bye # "none"
    /\ InvitePending(r) => r.cancel # "none" \/ r.dialog = "terminated"

\* When a session ends for the client, the peer has been told.
RemoteToldOfEnd ==
    \A s \in Session : Served(s) /\ ses[s].st \in Ended => PeerReleased(ses[s])

\* The same of a session the client deletes, at the moment the server deletes
\* it too (DoTerminateL, CanDispose).
OrphanHangsUp ==
    \A s \in Session : ses[s].owner = "gone" => PeerReleased(ses[s])

\* A session whose dialog the peer or a failure has ended is over for the
\* client, whatever the session was doing.
HangupEnds ==
    \A s \in Session :
       Served(s) /\ ses[s].dialog = "terminated" => ses[s].st \in Ended

\* While an INVITE of ours is unanswered the client sees an offer or its
\* cancellation, so that it can cancel it and makes no second one.
UpdateShown ==
    \A s \in Session :
       /\ Served(s) /\ InvitePending(ses[s])
       /\ ses[s].cancel = "none" /\ ses[s].dialog # "terminated"
       => ses[s].told \in {"EOffering", "ECancelling"}

\* The body of a session is never replaced by a candidate that does not exist
\* (UpdateAccepted takes iNewBodyCandidate untested; CreateBodyCandidateL
\* asserts iSession.Body()).
BodyNeverNull == \A s \in Session : ses[s].media # "null"

\* A client that has been told ETerminated is told nothing else: late answers,
\* timers and callbacks find a session that ignores them.
EndedIsFinal ==
    [][\A s \in Session :
          ses[s].told = "ETerminated" => ses'[s].told = "ETerminated"]_vars

\* A BYE that has been answered, or has timed out, is not sent again.
OneBye == [][\A s \in Session : ses[s].bye = "done" => ses'[s].bye = "done"]_vars

\* A cancelled session does not stay cancelled (CMceStateCanceled), whether its
\* CANCEL was sent, held back, answered or crossed by a 2xx ...
CancellingEnds == \A s \in Session : ses[s].st = "Canceled" ~> ses[s].st # "Canceled"

\* ... and one that hangs up gets done with it (CMceStateTerminating).
TerminatingEnds == \A s \in Session : ses[s].st = "Terminating" ~> ses[s].st # "Terminating"
=============================================================================
