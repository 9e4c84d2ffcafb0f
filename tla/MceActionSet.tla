----------------------------- MODULE MceActionSet ---------------------------
(***************************************************************************)
(* The data of one SIP session of the MCE server and the calls the states  *)
(* of its state machine make on it: TMceActionSet, the parts of            *)
(* CMceSipSession and CMceCsSubSession those calls reach, and the SIP      *)
(* transactions as the session sees them.  A call is an operator from the  *)
(* session record before it to the record after it; a handler composes     *)
(* them in the order of the code.                                          *)
(***************************************************************************)
EXTENDS FiniteSets

\* TMceStateIndex, without the states of reliable provisional responses, of
\* NAT and of offerless INVITEs
StateIndex == {"Idle", "ClientEstablishing", "Offering", "ServerEstablishing",
               "Updating", "Updated", "Answering", "Established", "Canceled",
               "Terminating", "Terminated", "Error"}

\* CMceSession::TState
ClientState == {"EIdle", "EOffering", "EIncoming", "EReserving", "EAnswering",
                "EProceeding", "EEstablished", "ECancelling", "ETerminating",
                "ETerminated"}

SubState == {"None", "Offering", "Answering", "Updating", "Refreshing"}

\* iBody's MCC session; what has become of an INVITE of ours, of the first of
\* them (iInitialInvite), and of a CANCEL or BYE of this side; Response(); the
\* INVITE received; the dialog; who holds the session
Media == {"none", "open", "closed", "null"}
Invite == {"none", "calling", "proceeding", "accepted", "done"}
InitialInvite == {"unsent", "pending", "done", "removed"}
Sent == {"none", "out", "done"}
Response == {"none", "1xx", "2xx", "491", "other"}
Request == {"none", "open", "accepted"}
Dialog == {"none", "early", "confirmed", "terminated"}
Owner == {"free", "client", "orphan", "gone"}

SessionData ==
    [ st       : StateIndex,    \* iCurrentState
      exit     : BOOLEAN,       \* iExitState is Established or Answering
      sub      : SubState,      \* iSubState
      told     : ClientState,   \* the state last sent to the client
      media    : Media,
      cand     : BOOLEAN,       \* iNewBodyCandidate exists
      busy     : BOOLEAN,       \* the media manager will call Updated
      waiting  : BOOLEAN,       \* iWaitingMediaCallback
      answered : BOOLEAN,       \* nothing of our offer is left unanswered
      invite   : Invite,
      initial  : InitialInvite,
      cancel   : Sent,
      bye      : Sent,
      resp     : Response,
      request  : Request,
      dialog   : Dialog,
      timer    : BOOLEAN,       \* iTimer runs
      owner    : Owner ]

\* A session the client creates, before its INVITE
NewOutSession ==
    [ st |-> "Idle", exit |-> FALSE, sub |-> "None", told |-> "EIdle",
      media |-> "none", cand |-> FALSE, busy |-> FALSE, waiting |-> FALSE,
      answered |-> FALSE, invite |-> "none", initial |-> "unsent",
      cancel |-> "none", bye |-> "none", resp |-> "none", request |-> "none",
      dialog |-> "none", timer |-> FALSE, owner |-> "client" ]

\* A session the network creates: its INVITE is the request to answer
NewInSession ==
    [NewOutSession EXCEPT !.sub = "Answering", !.initial = "removed",
        !.request = "open", !.dialog = "early"]

Free == [NewOutSession EXCEPT !.owner = "free"]

-----------------------------------------------------------------------------
(* The client and the state machine *)

StateChanged(r, next) == [r EXCEPT !.st = next]

\* The reply to the request of the client, or an event of its own
ClientStateChanged(r, state) == [r EXCEPT !.told = state]

\* (Mutants, named for what they get wrong, stand before their originals.)

\* takes the index of the server's state for the client's
ClientErrorAsIndex(r) == ClientStateChanged(r, "Terminated")

ClientErrorOccured(r) == ClientStateChanged(r, "ETerminated")

\* Both, as most transitions do
Become(r, next, state) == ClientStateChanged(StateChanged(r, next), state)

\* ProcessL around a handler whose event the state accepts or ignores: the
\* state before is marked, and CMceStateEstablished::StateEntry runs whenever
\* the session is in that state after.
MarkExit(r, n) == [n EXCEPT !.exit = r.st \in {"Established", "Answering"}]

StateEntry(r) ==
    IF r.st = "Established"
    THEN [r EXCEPT !.sub = IF r.resp = "491" THEN @ ELSE "None",
                   !.request = IF @ = "accepted" THEN "none" ELSE @]
    ELSE r

Processed(r, n) == StateEntry(MarkExit(r, n))

-----------------------------------------------------------------------------
(* Media *)

\* CMceMediaManager::UpdateL that returns KMceAsync
UpdateAsync(r) == [r EXCEPT !.busy = TRUE]

\* The sessions of the body and of the candidate close.  A closed session
\* makes no callback.
StopMedia(r) ==
    [r EXCEPT !.media = IF @ = "open" THEN "closed" ELSE @, !.busy = FALSE]

StopUpdatingMedia(r) ==
    IF r.sub = "Updating" /\ r.cand THEN [r EXCEPT !.busy = FALSE] ELSE r

CanCreateBodyCandidate(r) == ~r.cand

CreateBodyCandidate(r) == [r EXCEPT !.cand = TRUE, !.sub = "Updating"]

\* forget the candidate, or the callback of its media
UpdateFailedKeepsCandidate(r) ==
    IF r.sub = "Updating" THEN [r EXCEPT !.busy = FALSE] ELSE r
UpdateFailedKeepsCallback(r) ==
    IF r.sub = "Updating" THEN [r EXCEPT !.cand = FALSE] ELSE r

\* UpdateRejected: the candidate is deleted
UpdateFailed(r) ==
    IF r.sub = "Updating" THEN [r EXCEPT !.cand = FALSE, !.busy = FALSE] ELSE r

\* UpdateAccepted: the candidate, if there is one, becomes the body
UpdateSucceed(r) ==
    IF r.sub = "Updating"
    THEN [r EXCEPT !.cand = FALSE, !.media = IF r.cand THEN @ ELSE "null"]
    ELSE r

-----------------------------------------------------------------------------
(* SIP transactions *)

InvitePending(r) == r.invite \in {"calling", "proceeding"}

SendInvite(r) ==
    [r EXCEPT !.invite = "calling", !.answered = FALSE,
              !.initial = IF @ = "unsent" THEN "pending" ELSE @,
              !.cancel = IF @ = "done" THEN "none" ELSE @]

\* The offer of a refresh repeats what is negotiated already.
SendSessionRefresh(r) ==
    [SendInvite([r EXCEPT !.sub = "Refreshing"]) EXCEPT !.answered = TRUE]

\* The dialog association of a retried INVITE is a new one.
NewDialog(r) == [r EXCEPT !.dialog = "none", !.initial = "unsent"]

SendACK(r) == [r EXCEPT !.invite = "done"]

\* The stack refuses a BYE (SendByeL leaves) outside a dialog.
CanSendBYE(r) == r.dialog \in {"early", "confirmed"}

SendBYE(r) == [r EXCEPT !.bye = "out"]

\* SendCancelL leaves unless an INVITE is pending, and sends the CANCEL only
\* when a provisional response has come.
CanCancel(r) == InvitePending(r)

SendCancel(r) ==
    [r EXCEPT !.cancel = IF r.invite = "proceeding" THEN "out" ELSE @]

\* 2xx to the INVITE received; the session timer starts with a first answer
SendAnswer(r, timer) ==
    [r EXCEPT !.request = "accepted",
              !.dialog = "confirmed",
              !.timer = @ \/ (timer /\ r.sub = "Answering")]

\* A final error response to the INVITE received; a dialog it would have
\* confirmed ends.
Discard(r) ==
    [r EXCEPT !.request = IF @ = "open" THEN "none" ELSE @,
              !.dialog = IF @ = "early" THEN "terminated" ELSE @]

\* The peer's BYE is answered
Send200OK(r) == [r EXCEPT !.dialog = "terminated"]

-----------------------------------------------------------------------------
(* Disposal *)

HasInitialInviteTransactionBeenCompleted(r) == r.initial # "pending"

CanDispose(r) == r.st = "Terminated" /\ HasInitialInviteTransactionBeenCompleted(r)

\* does not see that the dialog has ended
HangupTwice(r, next) == StateChanged(SendBYE(r), next)

Hangup(r, next) ==
    IF CanSendBYE(r) THEN StateChanged(SendBYE(r), next)
    ELSE StateChanged(r, "Terminated")

\* DoTerminateL, and Terminate, which ends the session when it leaves (no BYE
\* or no CANCEL can be sent).  The client has gone and is told nothing.
Terminate(r) ==
    LET m == StopMedia(r)
    IN  CASE r.st = "Answering" -> Hangup(m, "Answering")
          [] r.st = "Established" -> Hangup(m, "Terminating")
          [] r.st = "Error" ->
                IF r.exit THEN Hangup(m, "Terminating") ELSE StateChanged(m, "Terminated")
          [] r.st = "Updated" -> StateChanged(Discard(m), "Terminated")
          [] r.st \in {"Idle", "Terminating"} -> StateChanged(m, "Terminated")
          [] r.st = "Offering" /\ r.sub = "Offering" ->
                IF r.resp = "2xx" /\ r.initial = "removed" THEN Hangup(m, "Terminating")
                ELSE IF CanCancel(m) THEN StateChanged(SendCancel(m), "Canceled")
                ELSE StateChanged(m, "Terminated")
          [] r.st = "ServerEstablishing" ->
                IF r.dialog = "confirmed" THEN Hangup(Discard(m), "Terminating")
                ELSE StateChanged(Discard(m), "Terminated")
          [] OTHER -> m

\* RemoveSubSessionL and Cleanup: delete the session, or end it and keep it
\* among the orphans until it can be deleted.
Dispose(r) ==
    LET t == IF CanDispose(r) THEN r ELSE Terminate(r)
    IN  [t EXCEPT !.owner = IF CanDispose(t) THEN "gone" ELSE "orphan"]

Sweep(r) == IF r.owner = "orphan" THEN Dispose(r) ELSE r
=============================================================================
