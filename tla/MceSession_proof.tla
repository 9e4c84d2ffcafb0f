-------------------------- MODULE MceSession_proof --------------------------
(***************************************************************************)
(* Proofs about the SIP sessions: the type of the state and, when the peer *)
(* redirects no update and session timers expire in time, that the client  *)
(* knows the state its session is in, for any number of sessions and       *)
(* INVITEs.                                                                *)
(*                                                                         *)
(* A handler is a composition of calls on the session record, so there is  *)
(* a lemma for each call: most keep the type and what the client sees      *)
(* (Keeps), those that change the state do so for both sides (InSync).     *)
(***************************************************************************)
EXTENDS MceSession, TLAPS

\* What ClientInSync says of one session
InSync(r) == r.owner = "client" => r.told \in Shown(r.st)

\* A call that changes neither the state nor what the client sees of it
Keeps(r, n) ==
    /\ n \in SessionData
    /\ n.st = r.st /\ n.told = r.told /\ n.owner = r.owner

\* Nothing that takes a session to a state the client is not told
Orderly == "redirect update" \notin Allowed /\ "late timer" \notin Allowed

\* A session as it is between two handlers
Good(r) == r \in SessionData /\ (Orderly => InSync(r))

LEMMA KeepsGood ==
    ASSUME NEW r, NEW n, Good(r), Keeps(r, n) PROVE Good(n)
BY DEF Keeps, Good, InSync

LEMMA KeepsTransitive ==
    ASSUME NEW r, NEW m, NEW n, Keeps(r, m), Keeps(m, n) PROVE Keeps(r, n)
BY DEF Keeps

-----------------------------------------------------------------------------
(* Calls that keep the state *)

LEMMA StopMediaKeeps ==
    ASSUME NEW r \in SessionData PROVE Keeps(r, StopMedia(r))
<1>1. "closed" \in Media
  BY DEF Media
<1> QED
  BY <1>1 DEF Keeps, SessionData, StopMedia

LEMMA StopUpdatingMediaKeeps ==
    ASSUME NEW r \in SessionData PROVE Keeps(r, StopUpdatingMedia(r))
BY DEF Keeps, SessionData, StopUpdatingMedia

LEMMA UpdateAsyncKeeps ==
    ASSUME NEW r \in SessionData PROVE Keeps(r, UpdateAsync(r))
BY DEF Keeps, SessionData, UpdateAsync

LEMMA CreateBodyCandidateKeeps ==
    ASSUME NEW r \in SessionData PROVE Keeps(r, CreateBodyCandidate(r))
<1>1. "Updating" \in SubState
  BY DEF SubState
<1> QED
  BY <1>1 DEF Keeps, SessionData, CreateBodyCandidate

LEMMA UpdateFailedKeeps ==
    ASSUME NEW r \in SessionData PROVE Keeps(r, UpdateFailed(r))
BY DEF Keeps, SessionData, UpdateFailed

LEMMA UpdateSucceedKeeps ==
    ASSUME NEW r \in SessionData PROVE Keeps(r, UpdateSucceed(r))
<1>1. "null" \in Media
  BY DEF Media
<1> QED
  BY <1>1 DEF Keeps, SessionData, UpdateSucceed

LEMMA SendInviteKeeps ==
    ASSUME NEW r \in SessionData PROVE Keeps(r, SendInvite(r))
<1>1. "calling" \in Invite /\ "pending" \in InitialInvite /\ "none" \in Sent
  BY DEF Invite, InitialInvite, Sent
<1> QED
  BY <1>1 DEF Keeps, SessionData, SendInvite

LEMMA SendSessionRefreshKeeps ==
    ASSUME NEW r \in SessionData PROVE Keeps(r, SendSessionRefresh(r))
<1>1. "Refreshing" \in SubState
  BY DEF SubState
<1> DEFINE m == [r EXCEPT !.sub = "Refreshing"]
<1>2. Keeps(r, m)
  BY <1>1 DEF Keeps, SessionData
<1>3. Keeps(m, SendInvite(m))
  BY <1>2, SendInviteKeeps DEF Keeps
<1>4. \A n \in SessionData : Keeps(n, [n EXCEPT !.answered = TRUE])
  BY DEF Keeps, SessionData
<1> QED
  BY <1>2, <1>3, <1>4 DEF Keeps, SendSessionRefresh

LEMMA NewDialogKeeps ==
    ASSUME NEW r \in SessionData PROVE Keeps(r, NewDialog(r))
<1>1. "none" \in Dialog /\ "unsent" \in InitialInvite
  BY DEF Dialog, InitialInvite
<1> QED
  BY <1>1 DEF Keeps, SessionData, NewDialog

LEMMA SendACKKeeps ==
    ASSUME NEW r \in SessionData PROVE Keeps(r, SendACK(r))
<1>1. "done" \in Invite
  BY DEF Invite
<1> QED
  BY <1>1 DEF Keeps, SessionData, SendACK

LEMMA SendBYEKeeps ==
    ASSUME NEW r \in SessionData PROVE Keeps(r, SendBYE(r))
<1>1. "out" \in Sent
  BY DEF Sent
<1> QED
  BY <1>1 DEF Keeps, SessionData, SendBYE

LEMMA SendCancelKeeps ==
    ASSUME NEW r \in SessionData PROVE Keeps(r, SendCancel(r))
<1>1. "out" \in Sent
  BY DEF Sent
<1> QED
  BY <1>1 DEF Keeps, SessionData, SendCancel

LEMMA SendAnswerKeeps ==
    ASSUME NEW r \in SessionData, NEW timer \in BOOLEAN
    PROVE  Keeps(r, SendAnswer(r, timer))
<1>1. "accepted" \in Request /\ "confirmed" \in Dialog
  BY DEF Request, Dialog
<1> QED
  BY <1>1 DEF Keeps, SessionData, SendAnswer

LEMMA DiscardKeeps ==
    ASSUME NEW r \in SessionData PROVE Keeps(r, Discard(r))
<1>1. "none" \in Request /\ "terminated" \in Dialog
  BY DEF Request, Dialog
<1> QED
  BY <1>1 DEF Keeps, SessionData, Discard

LEMMA Send200OKKeeps ==
    ASSUME NEW r \in SessionData PROVE Keeps(r, Send200OK(r))
<1>1. "terminated" \in Dialog
  BY DEF Dialog
<1> QED
  BY <1>1 DEF Keeps, SessionData, Send200OK

LEMMA MarkExitKeeps ==
    ASSUME NEW r, NEW n \in SessionData PROVE Keeps(n, MarkExit(r, n))
<1>1. \A e \in BOOLEAN : Keeps(n, [n EXCEPT !.exit = e])
  BY DEF Keeps, SessionData
<1>2. (r.st \in {"Established", "Answering"}) \in BOOLEAN
  OBVIOUS
<1> QED
  BY <1>1, <1>2, Zenon DEF MarkExit

LEMMA StateEntryKeeps ==
    ASSUME NEW r \in SessionData PROVE Keeps(r, StateEntry(r))
<1>1. "None" \in SubState /\ "none" \in Request
  BY DEF SubState, Request
<1> QED
  BY <1>1 DEF Keeps, SessionData, StateEntry

LEMMA ProcessedKeeps ==
    ASSUME NEW r, NEW n \in SessionData PROVE Keeps(n, Processed(r, n))
<1>1. Keeps(n, MarkExit(r, n))
  BY MarkExitKeeps
<1>2. Keeps(MarkExit(r, n), Processed(r, n))
  BY <1>1, StateEntryKeeps DEF Keeps, Processed
<1> QED
  BY <1>1, <1>2 DEF Keeps

LEMMA ProceedingKeeps ==
    ASSUME NEW r \in SessionData, NEW code PROVE Keeps(r, Proceeding(r, code))
<1>1. "proceeding" \in Invite /\ "1xx" \in Response /\ "early" \in Dialog
  BY DEF Invite, Response, Dialog
<1> QED
  BY <1>1 DEF Keeps, SessionData, Proceeding

LEMMA FinalKeeps ==
    ASSUME NEW r \in SessionData, NEW invite \in Invite, NEW resp \in Response
    PROVE  Keeps(r, Final(r, invite, resp))
<1>1. "done" \in InitialInvite /\ "confirmed" \in Dialog /\ "terminated" \in Dialog
  BY DEF InitialInvite, Dialog
<1> QED
  BY <1>1 DEF Keeps, SessionData, Final

-----------------------------------------------------------------------------
(* Calls that change the state *)

\* The strings are states of both sides, and stand for one another as the
\* handlers use them.
LEMMA StatesMatch ==
    /\ {"Offering", "ServerEstablishing", "Updating", "Updated", "Answering",
        "Established", "Canceled", "Terminating", "Terminated", "Error",
        "ClientEstablishing", "Idle"} \subseteq StateIndex
    /\ "EIdle" \in Shown("Idle")
    /\ "EOffering" \in Shown("Offering") /\ "EOffering" \in Shown("ClientEstablishing")
    /\ "EIncoming" \in Shown("ServerEstablishing")
    /\ "EReserving" \in Shown("Updating")
    /\ "EProceeding" \in Shown("Updated")
    /\ "EAnswering" \in Shown("Answering") /\ "EProceeding" \in Shown("Answering")
    /\ "EEstablished" \in Shown("Established")
    /\ "ECancelling" \in Shown("Canceled")
    /\ "ETerminating" \in Shown("Terminating")
    /\ "ETerminated" \in Shown("Terminated") /\ "ETerminated" \in Shown("Error")
<1>1. {"Offering", "ServerEstablishing", "Updating", "Updated", "Answering",
        "Established", "Canceled", "Terminating", "Terminated", "Error",
        "ClientEstablishing", "Idle"} \subseteq StateIndex
  BY DEF StateIndex
<1> QED
  BY <1>1 DEF Shown, Ended

LEMMA ShownType ==
    ASSUME NEW st \in StateIndex PROVE Shown(st) \subseteq ClientState
BY DEF Shown, Ended, StateIndex, ClientState

LEMMA ClientStateChangedGood ==
    ASSUME NEW r \in SessionData, NEW state \in Shown(r.st)
    PROVE  Good(ClientStateChanged(r, state))
<1>1. state \in ClientState
  BY ShownType DEF SessionData
<1> QED
  BY <1>1 DEF Good, InSync, SessionData, ClientStateChanged

LEMMA StateChangedType ==
    ASSUME NEW r \in SessionData, NEW next \in StateIndex
    PROVE  StateChanged(r, next) \in SessionData /\ StateChanged(r, next).st = next
BY DEF SessionData, StateChanged

LEMMA BecomeGood ==
    ASSUME NEW r \in SessionData, NEW next \in StateIndex, NEW state \in Shown(next)
    PROVE  Good(Become(r, next, state))
BY StateChangedType, ClientStateChangedGood DEF Become

LEMMA ProcessedGood ==
    ASSUME NEW r, NEW n, Good(n) PROVE Good(Processed(r, n))
BY ProcessedKeeps, KeepsGood DEF Good

LEMMA KeptGood ==
    ASSUME NEW r, Good(r), NEW n, Keeps(r, n), NEW q PROVE Good(Processed(q, n))
BY KeepsGood, ProcessedGood

\* A call after which the server may delete the session
LEMMA TerminateType ==
    ASSUME NEW r \in SessionData
    PROVE  Terminate(r) \in SessionData /\ Terminate(r).owner = r.owner
<1> DEFINE m == StopMedia(r)
<1>1. m \in SessionData /\ m.owner = r.owner
  BY StopMediaKeeps DEF Keeps
<1>2. \A n \in SessionData, next \in StateIndex :
         StateChanged(n, next) \in SessionData /\ StateChanged(n, next).owner = n.owner
  BY DEF SessionData, StateChanged
<1>3. \A n \in SessionData, next \in StateIndex :
         Hangup(n, next) \in SessionData /\ Hangup(n, next).owner = n.owner
  BY <1>2, StatesMatch, SendBYEKeeps DEF Hangup, Keeps
<1>4. Discard(m) \in SessionData /\ Discard(m).owner = r.owner
  BY <1>1, DiscardKeeps DEF Keeps
<1>5. SendCancel(m) \in SessionData /\ SendCancel(m).owner = r.owner
  BY <1>1, SendCancelKeeps DEF Keeps
<1> HIDE DEF m
<1> DEFINE Ends(n) == n \in SessionData /\ n.owner = r.owner
<1>6. /\ Ends(m)
      /\ \A next \in StateIndex : Ends(Hangup(m, next)) /\ Ends(StateChanged(m, next))
      /\ \A next \in StateIndex :
            Ends(Hangup(Discard(m), next)) /\ Ends(StateChanged(Discard(m), next))
      /\ \A next \in StateIndex : Ends(StateChanged(SendCancel(m), next))
  BY <1>1, <1>2, <1>3, <1>4, <1>5
<1> HIDE DEF Ends
<1>7. Ends(Terminate(r))
  <2>1. CASE r.st \in {"Answering", "Established", "Error"}
    BY <1>6, <2>1, StatesMatch DEF Terminate, m
  <2>2. CASE r.st \in {"Updated", "Idle", "Terminating", "ServerEstablishing"}
    BY <1>6, <2>2, StatesMatch DEF Terminate, m
  <2>3. CASE r.st = "Offering"
    BY <1>6, <2>3, StatesMatch DEF Terminate, m
  <2>4. CASE r.st \notin {"Answering", "Established", "Error", "Updated", "Idle",
                          "Terminating", "ServerEstablishing", "Offering"}
    BY <1>6, <2>4, StatesMatch DEF Terminate, m
  <2> QED
    BY <2>1, <2>2, <2>3, <2>4
<1> QED
  BY <1>7 DEF Ends

LEMMA DisposeGood ==
    ASSUME NEW r \in SessionData PROVE Good(Dispose(r))
<1> DEFINE t == IF CanDispose(r) THEN r ELSE Terminate(r)
<1>1. t \in SessionData
  BY TerminateType
<1>2. \A n \in SessionData, o \in {"gone", "orphan"} : Good([n EXCEPT !.owner = o])
  <2>1. {"gone", "orphan"} \subseteq Owner
    BY DEF Owner
  <2> QED
    BY <2>1 DEF Good, InSync, SessionData
<1> HIDE DEF t
<1>3. Dispose(r) = [t EXCEPT !.owner = IF CanDispose(t) THEN "gone" ELSE "orphan"]
  BY DEF Dispose, t
<1> QED
  BY <1>1, <1>2, <1>3

LEMMA SweepGood ==
    ASSUME NEW r, Good(r) PROVE Good(Sweep(r))
BY DisposeGood DEF Sweep, Good

-----------------------------------------------------------------------------
(* Handlers *)

LEMMA HandleResponseErrorGood ==
    ASSUME NEW r, Good(r) PROVE Good(HandleResponseError(r))
<1> DEFINE x == IF r.st = "Offering" THEN MarkExit(r, r) ELSE r
           m == StopMedia(x)
<1>1. Keeps(r, x)
  BY MarkExitKeeps DEF Good, Keeps
<1>2. Keeps(x, m)
  BY <1>1, StopMediaKeeps DEF Keeps
<1>3. Keeps(r, m)
  BY <1>1, <1>2, KeepsTransitive
<1>4. UpdateFailed(StopUpdatingMedia(x)) \in SessionData
  BY <1>1, StopUpdatingMediaKeeps, UpdateFailedKeeps DEF Keeps
<1>5. m \in SessionData /\ SendBYE(m) \in SessionData /\ SendCancel(m) \in SessionData
  BY <1>2, SendBYEKeeps, SendCancelKeeps DEF Keeps
<1>6. Good(m)
  BY <1>3, KeepsGood
<1> HIDE DEF x, m
<1>7. CASE r.sub = "Updating"
  <2>1. HandleResponseError(r) =
          Become(UpdateFailed(StopUpdatingMedia(x)), "Established", "EEstablished")
    BY <1>7 DEF HandleResponseError, x, m
  <2> QED
    BY <1>4, <2>1, BecomeGood, StatesMatch
<1>8. CASE r.sub # "Updating"
  <2>1. \/ HandleResponseError(r) = Become(SendBYE(m), "Terminating", "ETerminating")
        \/ HandleResponseError(r) = Become(SendCancel(m), "Canceled", "ECancelling")
        \/ HandleResponseError(r) = Become(m, "Error", "ETerminated")
        \/ HandleResponseError(r) = Become(m, "Terminated", "ETerminated")
        \/ HandleResponseError(r) = m
    BY <1>8 DEF HandleResponseError, x, m
  <2> QED
    BY <1>5, <1>6, <2>1, BecomeGood, StatesMatch
<1> QED
  BY <1>7, <1>8

LEMMA HandleRequestErrorGood ==
    ASSUME NEW r \in SessionData PROVE Good(HandleRequestError(r))
<1>1. Discard(StopMedia(r)) \in SessionData
  BY StopMediaKeeps, DiscardKeeps DEF Keeps
<1>2. SendBYE(Discard(StopMedia(r))) \in SessionData
  BY <1>1, SendBYEKeeps DEF Keeps
<1> QED
  BY <1>1, <1>2, BecomeGood, StatesMatch DEF HandleRequestError

LEMMA ErrorOccuredGood ==
    ASSUME NEW r \in SessionData, NEW noAck PROVE Good(ErrorOccured(r, noAck))
<1> DEFINE m == StopMedia(r)
<1>1. m \in SessionData
  BY StopMediaKeeps DEF Keeps
<1>2. SendBYE(m) \in SessionData /\ SendCancel(m) \in SessionData
  BY <1>1, SendBYEKeeps, SendCancelKeeps DEF Keeps
<1> HIDE DEF m
<1>3. \/ ErrorOccured(r, noAck) = Become(r, "Terminated", "ETerminated")
      \/ ErrorOccured(r, noAck) = Become(SendBYE(m), "Terminating", "ETerminating")
      \/ ErrorOccured(r, noAck) = Become(SendCancel(m), "Canceled", "ECancelling")
      \/ ErrorOccured(r, noAck) = Become(m, "Terminated", "ETerminated")
      \/ ErrorOccured(r, noAck) = Become(m, "Error", "ETerminated")
  BY DEF ErrorOccured, ByeLost, m
<1> QED
  BY <1>1, <1>2, <1>3, BecomeGood, StatesMatch

LEMMA EntryCancelKeeps ==
    ASSUME NEW r \in SessionData PROVE Keeps(r, EntryCancel(r))
BY SendCancelKeeps, StopMediaKeeps, UpdateFailedKeeps DEF EntryCancel, Keeps

LEMMA OfferingExitGood ==
    ASSUME NEW r, NEW n, Good(n), NEW next \in StateIndex, NEW state \in Shown(next),
           NEW ready
    PROVE  Good(OfferingExit(r, n, next, state, ready))
BY BecomeGood, ProcessedGood DEF OfferingExit, Good

LEMMA CanceledExitGood ==
    ASSUME NEW r \in SessionData PROVE Good(CanceledExit(r))
BY BecomeGood, StatesMatch DEF CanceledExit

LEMMA CanceledAnsweredGood ==
    ASSUME NEW r \in SessionData PROVE Good(CanceledAnswered(r))
<1>1. SendACK(r) \in SessionData /\ SendBYE(SendACK(r)) \in SessionData
  BY SendACKKeeps, SendBYEKeeps DEF Keeps
<1> QED
  BY <1>1, BecomeGood, StatesMatch DEF CanceledAnswered

LEMMA RejectedExitGood ==
    ASSUME NEW r, NEW n \in SessionData PROVE Good(RejectedExit(r, n))
BY BecomeGood, StatesMatch DEF RejectedExit

LEMMA OfferingProvisionalGood ==
    ASSUME NEW r, Good(r), r.st = "Offering", NEW sdp \in BOOLEAN,
           NEW result \in {"ready", "async", "fails", "bad"}
    PROVE  Good(OfferingProvisional(r, sdp, result))
<1> DEFINE told == IF readyToAck THEN ClientStateChanged(r, "EOffering") ELSE r
           answered == [told EXCEPT !.answered = TRUE]
           waiting == [answered EXCEPT !.waiting = TRUE]
<1>1. Good(told)
  BY ClientStateChangedGood, StatesMatch DEF Good
<1> HIDE DEF told
<1>2. Keeps(told, answered) /\ Keeps(told, waiting)
  BY <1>1 DEF Good, Keeps, SessionData
<1> HIDE DEF answered, waiting
<1>3. Keeps(waiting, UpdateAsync(waiting))
  BY <1>2, UpdateAsyncKeeps DEF Keeps
<1>4. Keeps(told, UpdateAsync(waiting))
  BY <1>2, <1>3, KeepsTransitive
<1>5. EntryCancel(r) \in SessionData
  BY EntryCancelKeeps DEF Good, Keeps
<1>6. \/ OfferingProvisional(r, sdp, result) = Processed(r, told)
      \/ OfferingProvisional(r, sdp, result) = Processed(r, answered)
      \/ OfferingProvisional(r, sdp, result) = Processed(r, UpdateAsync(waiting))
      \/ OfferingProvisional(r, sdp, result) =
           Processed(r, Become(EntryCancel(r), "Canceled", "ECancelling"))
      \/ OfferingProvisional(r, sdp, result) = HandleResponseError(r)
  BY DEF OfferingProvisional, told, answered, waiting
<1> QED
  BY <1>1, <1>2, <1>4, <1>5, <1>6, KeptGood, ProcessedGood, BecomeGood, StatesMatch,
     HandleResponseErrorGood

LEMMA OfferingAnsweredGood ==
    ASSUME NEW r, Good(r), NEW sdp \in BOOLEAN, NEW ready,
           NEW result \in {"ready", "async", "fails", "bad"}
    PROVE  Good(OfferingAnswered(r, sdp, result, ready))
<1> DEFINE a == SendACK(r)
           t == [a EXCEPT !.timer = @ \/ "session timer" \in Allowed]
           waiting == [t EXCEPT !.waiting = TRUE]
<1>1. Keeps(r, a)
  BY SendACKKeeps DEF Good
<1> HIDE DEF a
<1>2. Keeps(r, t)
  <2>1. a \in SessionData /\ a.timer \in BOOLEAN
    BY <1>1 DEF Keeps, SessionData
  <2>2. (a.timer \/ "session timer" \in Allowed) \in BOOLEAN
    OBVIOUS
  <2>3. \A v \in BOOLEAN : Keeps(a, [a EXCEPT !.timer = v])
    BY <2>1 DEF Keeps, SessionData
  <2>4. Keeps(a, t)
    BY <2>2, <2>3, Zenon
  <2> QED
    BY <1>1, <2>4, KeepsTransitive
<1> HIDE DEF t
<1>3. Keeps(r, waiting)
  BY <1>2 DEF Keeps, SessionData
<1> HIDE DEF waiting
<1>4. Keeps(r, UpdateAsync(waiting))
  BY <1>3, UpdateAsyncKeeps, KeepsTransitive DEF Keeps
<1>5. Good(a) /\ Good(t) /\ Good(UpdateAsync(waiting))
  BY <1>1, <1>2, <1>4, KeepsGood
<1>6. Good(UpdateSucceed(t)) /\ Good(UpdateFailed(t)) /\ Good(SendBYE(t))
  BY <1>5, UpdateSucceedKeeps, UpdateFailedKeeps, SendBYEKeeps, KeepsGood DEF Good
<1>7. Good(StopMedia(SendBYE(t)))
  BY <1>6, StopMediaKeeps, KeepsGood DEF Good
<1>8. Good(UpdateSucceed(Become(a, "Established", "EEstablished")))
  <2>1. Good(Become(a, "Established", "EEstablished"))
    BY <1>5, BecomeGood, StatesMatch DEF Good
  <2> QED
    BY <2>1, UpdateSucceedKeeps, KeepsGood DEF Good
<1>9. \/ OfferingAnswered(r, sdp, result, ready) = Processed(r, a)
      \/ OfferingAnswered(r, sdp, result, ready) =
           Processed(r, UpdateSucceed(Become(a, "Established", "EEstablished")))
      \/ OfferingAnswered(r, sdp, result, ready) =
           OfferingExit(r, t, "Established", "EEstablished", ready)
      \/ OfferingAnswered(r, sdp, result, ready) =
           OfferingExit(r, UpdateSucceed(t), "Established", "EEstablished", ready)
      \/ OfferingAnswered(r, sdp, result, ready) = Processed(r, UpdateAsync(waiting))
      \/ OfferingAnswered(r, sdp, result, ready) =
           OfferingExit(r, StopMedia(SendBYE(t)), "Terminating", "ETerminating", ready)
      \/ OfferingAnswered(r, sdp, result, ready) =
           OfferingExit(r, UpdateFailed(t), "Established", "EEstablished", ready)
      \/ OfferingAnswered(r, sdp, result, ready) = HandleResponseError(t)
  BY DEF OfferingAnswered, a, t, waiting
<1> QED
  BY <1>5, <1>6, <1>7, <1>8, <1>9, ProcessedGood, OfferingExitGood, StatesMatch,
     HandleResponseErrorGood

LEMMA OfferingRedirectedGood ==
    ASSUME NEW r, Good(r), r.st = "Offering", NEW code, Orderly => r.sub # "Updating"
    PROVE  Good(OfferingRedirected(r, code))
<1> DEFINE n == IF Retried(r, code) THEN SendInvite(NewDialog(r)) ELSE r
           u == UpdateFailed(StopUpdatingMedia(n))
<1>1. Keeps(r, n)
  BY NewDialogKeeps, SendInviteKeeps DEF Good, Keeps
<1> HIDE DEF n
<1>2. u \in SessionData /\ StopMedia(n) \in SessionData
  BY <1>1, StopUpdatingMediaKeeps, UpdateFailedKeeps, StopMediaKeeps DEF Keeps
<1> HIDE DEF u
<1>3. Good(n) /\ Good(ClientStateChanged(n, "EOffering"))
      /\ Good(Become(StopMedia(n), "Terminated", "ETerminated"))
  BY <1>1, <1>2, KeepsGood, ClientStateChangedGood, BecomeGood, StatesMatch DEF Keeps
<1>4. Become(u, "ServerEstablishing", "EEstablished") \in SessionData
  <2>1. StateChanged(u, "ServerEstablishing") \in SessionData
    BY <1>2, StateChangedType, StatesMatch
  <2>2. "EEstablished" \in ClientState
    BY DEF ClientState
  <2> QED
    BY <2>1, <2>2 DEF SessionData, ClientStateChanged, Become
<1>5. CASE r.sub = "Updating"
  <2>1. \/ OfferingRedirected(r, code) = Processed(r, n)
        \/ OfferingRedirected(r, code) =
              Processed(r, Become(u, "ServerEstablishing", "EEstablished"))
    BY <1>5 DEF OfferingRedirected, n, u
  <2>2. Good(Become(u, "ServerEstablishing", "EEstablished"))
    BY <1>4, <1>5 DEF Good
  <2> QED
    BY <1>3, <2>1, <2>2, ProcessedGood
<1>6. CASE r.sub # "Updating"
  <2>1. \/ OfferingRedirected(r, code) = Processed(r, n)
        \/ OfferingRedirected(r, code) = Processed(r, ClientStateChanged(n, "EOffering"))
        \/ OfferingRedirected(r, code) =
              Processed(r, Become(StopMedia(n), "Terminated", "ETerminated"))
    BY <1>6 DEF OfferingRedirected, n
  <2> QED
    BY <1>3, <2>1, ProcessedGood
<1> QED
  BY <1>5, <1>6

LEMMA OfferingRefusedGood ==
    ASSUME NEW r, Good(r), NEW code PROVE Good(OfferingRefused(r, code))
<1> DEFINE d == [r EXCEPT !.dialog = "none"]
           b == StopMedia(SendBYE(UpdateFailed(r)))
<1>1. Keeps(r, d)
  <2>1. "none" \in Dialog
    BY DEF Dialog
  <2> QED
    BY <2>1 DEF Good, Keeps, SessionData
<1>2. Good(r) /\ Good(SendSessionRefresh(r)) /\ Good(StopMedia(r)) /\ Good(UpdateFailed(r))
  BY SendSessionRefreshKeeps, StopMediaKeeps, UpdateFailedKeeps, KeepsGood DEF Good
<1>3. Good(SendInvite(d)) /\ Good(SendInvite(NewDialog(r)))
  BY <1>1, NewDialogKeeps, SendInviteKeeps, KeepsGood DEF Good
<1>4. b \in SessionData
  BY <1>2, SendBYEKeeps, StopMediaKeeps DEF Good, Keeps
<1>5. Good(Become(b, "Terminated", "ETerminated"))
      /\ Good(Become(UpdateFailed(r), "Established", "EEstablished"))
  BY <1>2, <1>4, BecomeGood, StatesMatch DEF Good
<1> HIDE DEF b, d
<1>6. \/ OfferingRefused(r, code) =
           OfferingExit(r, SendSessionRefresh(r), "Established", "EEstablished", readyToAck)
      \/ OfferingRefused(r, code) = Processed(r, SendInvite(d))
      \/ OfferingRefused(r, code) = Processed(r, SendInvite(NewDialog(r)))
      \/ OfferingRefused(r, code) =
           OfferingExit(r, StopMedia(r), "Terminated", "ETerminated", readyToAck)
      \/ OfferingRefused(r, code) = Processed(r, Become(b, "Terminated", "ETerminated"))
      \/ OfferingRefused(r, code) =
           Processed(r, Become(UpdateFailed(r), "Established", "EEstablished"))
  BY DEF OfferingRefused, b, d
<1> QED
  BY <1>2, <1>3, <1>5, <1>6, OfferingExitGood, ProcessedGood, StatesMatch

LEMMA OfferingMediaUpdatedGood ==
    ASSUME NEW r, Good(r) PROVE Good(OfferingMediaUpdated(r))
<1>1. Good(UpdateSucceed(r))
  BY UpdateSucceedKeeps, KeepsGood DEF Good
<1> QED
  BY <1>1, OfferingExitGood, ProcessedGood, StatesMatch DEF OfferingMediaUpdated

-----------------------------------------------------------------------------
(* Steps *)

SesOK == ses \in [Session -> SessionData] /\ \A s \in Session : Good(ses[s])

\* The inductive invariant: the types, and every session Good
Inv == TypeOK /\ SesOK

LEMMA FreeType ==
    Free \in SessionData /\ NewOutSession \in SessionData /\ NewInSession \in SessionData
<1>1. NewOutSession \in SessionData
  BY DEF NewOutSession, SessionData, StateIndex, SubState, ClientState, Media, Invite,
         InitialInvite, Sent, Response, Request, Dialog, Owner
<1>2. "free" \in Owner /\ "Answering" \in SubState /\ "removed" \in InitialInvite
      /\ "open" \in Request /\ "early" \in Dialog
  BY DEF Owner, SubState, InitialInvite, Request, Dialog
<1>3. Free \in SessionData
  BY <1>1, <1>2 DEF Free, SessionData
<1>4. NewInSession \in SessionData
  BY <1>1, <1>2 DEF NewInSession, SessionData
<1> QED
  BY <1>1, <1>3, <1>4

LEMMA SetGood ==
    ASSUME SesOK, NEW s \in Session, NEW r, Good(r), Set(s, r) PROVE SesOK'
<1>1. ses' = [ses EXCEPT ![s] = r] /\ r \in SessionData
  BY DEF Set, Good
<1>2. ses' \in [Session -> SessionData]
  BY <1>1 DEF SesOK
<1>3. \A t \in Session : ses'[t] = r \/ ses'[t] = ses[t]
  BY <1>1 DEF SesOK
<1> QED
  BY <1>2, <1>3 DEF SesOK

LEMMA IncomingGood ==
    ASSUME SesOK, NEW s \in Session, NEW r, Good(r), Incoming(s, r) PROVE SesOK'
<1>1. \A t \in Session : Good(IF t = s THEN r ELSE ses[t])
  BY DEF SesOK
<1>2. \A t \in Session : ses'[t] = Sweep(IF t = s THEN r ELSE ses[t])
  BY DEF Incoming
<1>3. \A t \in Session : Good(ses'[t])
  BY <1>1, <1>2, SweepGood
<1>4. ses' = [t \in Session |-> ses'[t]]
  BY DEF Incoming
<1>5. \A t \in Session : ses'[t] \in SessionData
  BY <1>3 DEF Good
<1>6. ses' \in [Session -> SessionData]
  BY <1>4, <1>5
<1> QED
  BY <1>3, <1>6 DEF SesOK

LEMMA InitInv == Init => Inv
<1> SUFFICES ASSUME Init PROVE Inv
  OBVIOUS
<1>1. Good(Free)
  <2>1. Free.owner = "free"
    BY DEF Free, NewOutSession
  <2> QED
    BY <2>1, FreeType DEF Good, InSync
<1>2. ses = [s \in Session |-> Free]
  BY DEF Init
<1>3. SesOK
  BY <1>1, <1>2, FreeType DEF SesOK
<1>4. TypeOK
  BY <1>3, BoundAssumption DEF Init, TypeOK, SesOK
<1> QED
  BY <1>3, <1>4 DEF Inv

LEMMA CreateOutSessionStep ==
    ASSUME SesOK, NEW s \in Session, CreateOutSession(s) PROVE SesOK'
<1>1. Good(NewOutSession)
  <2>1. NewOutSession.st = "Idle" /\ NewOutSession.told = "EIdle"
    BY DEF NewOutSession
  <2> QED
    BY <2>1, FreeType, StatesMatch DEF Good, InSync
<1>2. ses' = [t \in Session |-> IF t = s THEN NewOutSession ELSE Sweep(ses[t])]
  BY DEF CreateOutSession
<1>3. \A t \in Session : Good(ses'[t])
  BY <1>1, <1>2, SweepGood DEF SesOK
<1>4. \A t \in Session : ses'[t] \in SessionData
  BY <1>3 DEF Good
<1>5. ses' \in [Session -> SessionData]
  BY <1>2, <1>4
<1> QED
  BY <1>3, <1>5 DEF SesOK

LEMMA EstablishSessionStep ==
    ASSUME SesOK, NEW s \in Session, EstablishSession(s) PROVE SesOK'
<1> DEFINE r == [ses[s] EXCEPT !.sub = "Offering"]
           m == [r EXCEPT !.media = "open"]
<1>1. Good(ses[s])
  BY DEF SesOK
<1>2. Keeps(ses[s], r)
  <2>1. "Offering" \in SubState
    BY DEF SubState
  <2> QED
    BY <1>1, <2>1 DEF Good, Keeps, SessionData
<1> HIDE DEF r
<1>3. Keeps(r, m)
  <2>1. "open" \in Media
    BY DEF Media
  <2> QED
    BY <1>2, <2>1 DEF Keeps, SessionData
<1> HIDE DEF m
<1>4. SendInvite(m) \in SessionData /\ UpdateAsync(m) \in SessionData
  BY <1>3, SendInviteKeeps, UpdateAsyncKeeps DEF Keeps
<1>5. Good(Processed(r, Become(SendInvite(m), "Offering", "EOffering")))
      /\ Good(Processed(r, Become(UpdateAsync(m), "ClientEstablishing", "EOffering")))
  BY <1>4, BecomeGood, ProcessedGood, StatesMatch
<1>6. Good(MarkExit(r, r))
  BY <1>1, <1>2, MarkExitKeeps, KeepsGood DEF Keeps
<1>7. \/ Set(s, Processed(r, Become(SendInvite(m), "Offering", "EOffering")))
      \/ Set(s, Processed(r, Become(UpdateAsync(m), "ClientEstablishing", "EOffering")))
      \/ Set(s, MarkExit(r, r))
  BY DEF EstablishSession, MediaResults, r, m
<1> QED
  BY <1>5, <1>6, <1>7, SetGood

LEMMA IncomingSessionStep ==
    ASSUME SesOK, NEW s \in Session, IncomingSession(s) PROVE SesOK'
<1> DEFINE m == [NewInSession EXCEPT !.media = "open"]
<1>1. m \in SessionData
  <2>1. "open" \in Media
    BY DEF Media
  <2> QED
    BY <2>1, FreeType DEF SessionData
<1>2. Incoming(s, Processed(NewInSession, Become(m, "ServerEstablishing", "EIncoming")))
  BY DEF IncomingSession
<1> HIDE DEF m
<1>3. Good(Processed(NewInSession, Become(m, "ServerEstablishing", "EIncoming")))
  BY <1>1, BecomeGood, ProcessedGood, StatesMatch
<1> QED
  BY <1>2, <1>3, IncomingGood

LEMMA CancelEstablishingStep ==
    ASSUME SesOK, NEW s \in Session, CancelEstablishing(s) PROVE SesOK'
<1> DEFINE r == ses[s]
<1>1. StopMedia(r) \in SessionData /\ UpdateFailed(r) \in SessionData
  BY StopMediaKeeps, UpdateFailedKeeps DEF SesOK, Keeps
<1>2. Good(Become(StopMedia(r), "Terminated", "ETerminated"))
      /\ Good(Become(UpdateFailed(r), "Established", "EEstablished"))
  BY <1>1, BecomeGood, StatesMatch
<1>3. \/ Set(s, Processed(r, Become(StopMedia(r), "Terminated", "ETerminated")))
      \/ Set(s, Processed(r, Become(UpdateFailed(r), "Established", "EEstablished")))
  BY DEF CancelEstablishing
<1> QED
  BY <1>2, <1>3, ProcessedGood, SetGood

LEMMA CancelOfferingStep ==
    ASSUME SesOK, NEW s \in Session, CancelOffering(s) PROVE SesOK'
<1>1. Good(EntryCancel(ses[s]))
  BY EntryCancelKeeps, KeepsGood DEF SesOK
<1> QED
  BY <1>1, OfferingExitGood, StatesMatch, SetGood DEF CancelOffering

LEMMA UpdateIncomingStep ==
    ASSUME SesOK, NEW s \in Session, UpdateIncoming(s) PROVE SesOK'
<1> DEFINE r == ses[s]
           a == SendAnswer(UpdateSucceed(r), FALSE)
<1>1. r \in SessionData /\ a \in SessionData /\ UpdateAsync(r) \in SessionData
  BY UpdateSucceedKeeps, SendAnswerKeeps, UpdateAsyncKeeps DEF SesOK, Keeps
<1>2. StopMedia(Discard(r)) \in SessionData /\ UpdateFailed(Discard(r)) \in SessionData
  BY <1>1, DiscardKeeps, StopMediaKeeps, UpdateFailedKeeps DEF Keeps
<1>3. Good(Become(r, "Updated", "EProceeding")) /\ Good(Become(a, "Answering", "EAnswering"))
      /\ Good(Become(UpdateAsync(r), "Updating", "EReserving"))
      /\ Good(RejectedExit(r, StopMedia(Discard(r))))
      /\ Good(RejectedExit(r, UpdateFailed(Discard(r))))
  BY <1>1, <1>2, BecomeGood, RejectedExitGood, StatesMatch
<1> HIDE DEF a
<1>4. \/ Set(s, Processed(r, Become(r, "Updated", "EProceeding")))
      \/ Set(s, Processed(r, Become(a, "Answering", "EAnswering")))
      \/ Set(s, Processed(r, Become(UpdateAsync(r), "Updating", "EReserving")))
      \/ Set(s, Processed(r, RejectedExit(r, StopMedia(Discard(r)))))
      \/ Set(s, Processed(r, RejectedExit(r, UpdateFailed(Discard(r)))))
  BY DEF UpdateIncoming, a
<1> QED
  BY <1>3, <1>4, ProcessedGood, SetGood

LEMMA RejectIncomingStep ==
    ASSUME SesOK, NEW s \in Session, RejectIncoming(s) PROVE SesOK'
<1> DEFINE r == ses[s]
           n == IF r.sub = "Offering" THEN StopMedia(Discard(r)) ELSE UpdateFailed(Discard(r))
<1>1. n \in SessionData
  BY DiscardKeeps, StopMediaKeeps, UpdateFailedKeeps DEF SesOK, Keeps
<1>2. Set(s, Processed(r, RejectedExit(r, n)))
  BY DEF RejectIncoming
<1> HIDE DEF n
<1> QED
  BY <1>1, <1>2, RejectedExitGood, ProcessedGood, SetGood

LEMMA AcceptSessionStep ==
    ASSUME SesOK, NEW s \in Session, AcceptSession(s) PROVE SesOK'
<1>1. SendAnswer(ses[s], "session timer" \in Allowed) \in SessionData
  <2>1. ("session timer" \in Allowed) \in BOOLEAN
    OBVIOUS
  <2>2. \A timer \in BOOLEAN : SendAnswer(ses[s], timer) \in SessionData
    BY SendAnswerKeeps DEF SesOK, Keeps
  <2> QED
    BY <2>1, <2>2, Zenon
<1>2. Good(Become(SendAnswer(ses[s], "session timer" \in Allowed), "Answering", "EAnswering"))
  BY <1>1, BecomeGood, StatesMatch
<1> QED
  BY <1>2, ProcessedGood, SetGood DEF AcceptSession

LEMMA RejectSessionStep ==
    ASSUME SesOK, NEW s \in Session, RejectSession(s) PROVE SesOK'
<1>1. StopMedia(Discard(ses[s])) \in SessionData
  BY DiscardKeeps, StopMediaKeeps DEF SesOK, Keeps
<1> QED
  BY <1>1, BecomeGood, StatesMatch, ProcessedGood, SetGood DEF RejectSession

LEMMA TerminateSessionStep ==
    ASSUME SesOK, NEW s \in Session, TerminateSession(s) PROVE SesOK'
<1>1. StopMedia(SendBYE(ses[s])) \in SessionData
  BY SendBYEKeeps, StopMediaKeeps DEF SesOK, Keeps
<1> QED
  BY <1>1, BecomeGood, StatesMatch, ProcessedGood, SetGood DEF TerminateSession

LEMMA UpdateSessionStep ==
    ASSUME SesOK, NEW s \in Session, UpdateSession(s) PROVE SesOK'
<1> DEFINE r == ses[s]
           c == CreateBodyCandidate(r)
<1>1. Keeps(r, c)
  BY CreateBodyCandidateKeeps DEF SesOK
<1> HIDE DEF c
<1>2. SendInvite(c) \in SessionData /\ UpdateSucceed(c) \in SessionData
      /\ UpdateAsync(c) \in SessionData
  BY <1>1, SendInviteKeeps, UpdateSucceedKeeps, UpdateAsyncKeeps DEF Keeps
<1>3. Good(Become(SendInvite(c), "Offering", "EOffering"))
      /\ Good(Become(UpdateSucceed(c), "Established", "EEstablished"))
      /\ Good(Become(UpdateAsync(c), "ClientEstablishing", "EOffering"))
  BY <1>2, BecomeGood, StatesMatch
<1>4. Good(MarkExit(r, c))
  BY <1>1, MarkExitKeeps, KeepsGood DEF SesOK, Keeps
<1>5. \/ Set(s, Processed(r, Become(SendInvite(c), "Offering", "EOffering")))
      \/ Set(s, Processed(r, Become(UpdateSucceed(c), "Established", "EEstablished")))
      \/ Set(s, Processed(r, Become(UpdateAsync(c), "ClientEstablishing", "EOffering")))
      \/ Set(s, MarkExit(r, c))
  BY DEF UpdateSession, MediaResults, c
<1> QED
  BY <1>3, <1>4, <1>5, ProcessedGood, SetGood

LEMMA ProvisionalStep ==
    ASSUME SesOK, NEW s \in Session, Provisional(s) PROVE SesOK'
<1> PICK code \in {"trying", "ringing", "progress"}, sdp \in BOOLEAN,
         result \in {"ready", "async", "fails", "bad"} :
       LET r == Proceeding(ses[s], code)
       IN  \/ r.st = "Offering" /\ Incoming(s, OfferingProvisional(r, sdp, result))
           \/ Incoming(s, Processed(r, r))
           \/ Incoming(s, Processed(r, SendCancel(r)))
           \/ Incoming(s, HandleResponseError(r))
  BY DEF Provisional, MediaResults
<1> DEFINE r == Proceeding(ses[s], code)
<1>1. Good(r) /\ Good(SendCancel(r))
  BY ProceedingKeeps, SendCancelKeeps, KeepsGood DEF SesOK, Good
<1> QED
  BY <1>1, ProcessedGood, OfferingProvisionalGood, HandleResponseErrorGood, IncomingGood

LEMMA AnsweredStep ==
    ASSUME SesOK, NEW s \in Session, Answered(s) PROVE SesOK'
<1> DEFINE r == Final(ses[s], "accepted", "2xx")
<1>1. Good(r)
  BY FinalKeeps, KeepsGood DEF SesOK, Invite, Response
<1>2. PICK sdp \in BOOLEAN, result \in {"ready", "async", "fails", "bad"} :
        \/ Incoming(s, Processed(r, r))
        \/ Incoming(s, OfferingAnswered(r, sdp, result, ReadyToAck(r, sdp)))
        \/ Incoming(s, SendACK(r))
        \/ Incoming(s, Processed(r, CanceledAnswered(r)))
        \/ Incoming(s, HandleResponseError(r))
  BY DEF Answered, MediaResults
<1> HIDE DEF r
<1>3. Good(SendACK(r)) /\ Good(CanceledAnswered(r))
  BY <1>1, SendACKKeeps, KeepsGood, CanceledAnsweredGood DEF Good
<1> QED
  BY <1>1, <1>2, <1>3, ProcessedGood, OfferingAnsweredGood, HandleResponseErrorGood,
     IncomingGood

LEMMA RedirectedStep ==
    ASSUME SesOK, NEW s \in Session, Redirected(s) PROVE SesOK'
<1> DEFINE r == Final(ses[s], "done", "other")
<1>1. Good(r)
  BY FinalKeeps, KeepsGood DEF SesOK, Invite, Response
<1>2. Orderly => r.sub # "Updating"
  <2>1. Orderly => ses[s].sub = "Offering"
    BY DEF Redirected, Orderly
  <2>2. r.sub = ses[s].sub
    BY DEF Final, SesOK, SessionData
  <2> QED
    BY <2>1, <2>2
<1>3. PICK code \in {"302", "300"} :
        \/ r.st = "Offering" /\ Incoming(s, OfferingRedirected(r, code))
        \/ Incoming(s, Processed(r, r))
        \/ Incoming(s, HandleResponseError(r))
  BY DEF Redirected
<1> HIDE DEF r
<1> QED
  BY <1>1, <1>2, <1>3, ProcessedGood, OfferingRedirectedGood, HandleResponseErrorGood,
     IncomingGood

LEMMA RefusedStep ==
    ASSUME SesOK, NEW s \in Session, Refused(s) PROVE SesOK'
<1> DEFINE R(code) == Final(ses[s], "done", IF code = "491" THEN "491" ELSE "other")
<1>1. ASSUME NEW code PROVE Good(R(code))
  BY FinalKeeps, KeepsGood DEF SesOK, Invite, Response
<1>2. PICK code :
        \/ Incoming(s, OfferingRefused(R(code), code))
        \/ Incoming(s, Processed(R(code), CanceledExit(R(code))))
        \/ Incoming(s, Processed(R(code), R(code)))
        \/ Incoming(s, HandleResponseError(R(code)))
  BY DEF Refused
<1> HIDE DEF R
<1>3. Good(R(code)) /\ Good(CanceledExit(R(code)))
  BY <1>1, CanceledExitGood DEF Good
<1> QED
  BY <1>2, <1>3, ProcessedGood, OfferingRefusedGood, HandleResponseErrorGood, IncomingGood

LEMMA CancelAnsweredStep ==
    ASSUME SesOK, NEW s \in Session, CancelAnswered(s) PROVE SesOK'
<1> DEFINE r == [ses[s] EXCEPT !.cancel = "done", !.resp = "other"]
<1>1. Keeps(ses[s], r)
  <2>1. "done" \in Sent /\ "other" \in Response
    BY DEF Sent, Response
  <2> QED
    BY <2>1 DEF SesOK, Good, Keeps, SessionData
<1>2. \/ Incoming(s, Processed(r, CanceledExit(r)))
      \/ Incoming(s, Processed(r, r))
      \/ Incoming(s, HandleResponseError(r))
  BY DEF CancelAnswered
<1> HIDE DEF r
<1>3. Good(r) /\ Good(CanceledExit(r))
  BY <1>1, KeepsGood, CanceledExitGood DEF SesOK, Good
<1> QED
  BY <1>2, <1>3, ProcessedGood, HandleResponseErrorGood, IncomingGood

LEMMA ByeAnsweredStep ==
    ASSUME SesOK, NEW s \in Session, ByeAnswered(s) PROVE SesOK'
<1> DEFINE r == [ses[s] EXCEPT !.bye = "done", !.dialog = "terminated", !.resp = "other"]
<1>1. Keeps(ses[s], r)
  <2>1. "done" \in Sent /\ "terminated" \in Dialog /\ "other" \in Response
    BY DEF Sent, Dialog, Response
  <2> QED
    BY <2>1 DEF SesOK, Good, Keeps, SessionData
<1>2. \/ Incoming(s, Processed(r, Become(r, "Terminated", "ETerminated")))
      \/ Incoming(s, Processed(r, CanceledExit(r)))
      \/ Incoming(s, Processed(r, r))
      \/ Incoming(s, HandleResponseError(r))
  BY DEF ByeAnswered
<1> HIDE DEF r
<1>3. Good(r) /\ Good(CanceledExit(r)) /\ Good(Become(r, "Terminated", "ETerminated"))
  BY <1>1, KeepsGood, CanceledExitGood, BecomeGood, StatesMatch DEF SesOK, Good
<1> QED
  BY <1>2, <1>3, ProcessedGood, HandleResponseErrorGood, IncomingGood

LEMMA ByeReceivedStep ==
    ASSUME SesOK, NEW s \in Session, ByeReceived(s) PROVE SesOK'
<1> DEFINE r == Send200OK(ses[s])
           n == Become(StopMedia(r), "Terminated", "ETerminated")
<1>1. \/ Incoming(s, OfferingExit(r, StopMedia(r), "Terminated", "ETerminated", readyToAck))
      \/ Incoming(s, Processed(r, n))
      \/ Incoming(s, Processed(r, CanceledExit(r)))
  BY DEF ByeReceived
<1>2. Good(r)
  BY Send200OKKeeps, KeepsGood DEF SesOK
<1> HIDE DEF r
<1>3. Good(StopMedia(r)) /\ Good(n) /\ Good(CanceledExit(r))
  BY <1>2, StopMediaKeeps, KeepsGood, CanceledExitGood, BecomeGood, StatesMatch
     DEF Good, Keeps
<1> QED
  BY <1>1, <1>3, OfferingExitGood, ProcessedGood, StatesMatch, IncomingGood

LEMMA AckReceivedStep ==
    ASSUME SesOK, NEW s \in Session, AckReceived(s) PROVE SesOK'
<1>1. Good(Become(ses[s], "Established", "EEstablished"))
  BY BecomeGood, StatesMatch DEF SesOK
<1> QED
  BY <1>1, ProcessedGood, IncomingGood DEF AckReceived

LEMMA ReInviteReceivedStep ==
    ASSUME SesOK, NEW s \in Session, ReInviteReceived(s) PROVE SesOK'
<1> DEFINE a == IF ses[s].st = "Answering"
                THEN Processed(ses[s], Become(ses[s], "Established", "EEstablished"))
                ELSE ses[s]
           r == [a EXCEPT !.request = "open"]
           c == CreateBodyCandidate(r)
           u == SendAnswer([r EXCEPT !.sub = "Refreshing"], FALSE)
<1>1. \/ Incoming(s, Processed(r, Become(u, "Answering", "EAnswering")))
      \/ Incoming(s, HandleRequestError(MarkExit(r, r)))
      \/ Incoming(s, Processed(r, Become(c, "ServerEstablishing", "EIncoming")))
      \/ Incoming(s, Processed(r, Discard(UpdateFailed(c))))
      \/ Incoming(s, HandleRequestError(MarkExit(r, UpdateFailed(c))))
  BY DEF ReInviteReceived
<1>2. Good(a)
  BY BecomeGood, ProcessedGood, StatesMatch DEF SesOK
<1> HIDE DEF a
<1>3. Good(r)
  <2>1. "open" \in Request
    BY DEF Request
  <2>2. Keeps(a, r)
    BY <1>2, <2>1 DEF Good, Keeps, SessionData
  <2> QED
    BY <1>2, <2>2, KeepsGood
<1> HIDE DEF r
<1>4. Good(c)
  BY <1>3, CreateBodyCandidateKeeps, KeepsGood DEF Good
<1> HIDE DEF c
<1>5. Good(UpdateFailed(c))
  BY <1>4, UpdateFailedKeeps, KeepsGood DEF Good
<1>6. Good(Discard(UpdateFailed(c)))
  BY <1>5, DiscardKeeps, KeepsGood DEF Good
<1>7. u \in SessionData
  <2>1. "Refreshing" \in SubState
    BY DEF SubState
  <2>2. [r EXCEPT !.sub = "Refreshing"] \in SessionData
    BY <1>3, <2>1 DEF Good, SessionData
  <2> QED
    BY <2>2, SendAnswerKeeps DEF Keeps
<1> HIDE DEF u
<1>8. MarkExit(r, r) \in SessionData /\ MarkExit(r, UpdateFailed(c)) \in SessionData
  BY <1>3, <1>5, MarkExitKeeps DEF Good, Keeps
<1>9. Good(Become(u, "Answering", "EAnswering"))
      /\ Good(Become(c, "ServerEstablishing", "EIncoming"))
  BY <1>4, <1>7, BecomeGood, StatesMatch DEF Good
<1> QED
  BY <1>1, <1>6, <1>8, <1>9, ProcessedGood, HandleRequestErrorGood, IncomingGood

LEMMA InviteCanceledStep ==
    ASSUME SesOK, NEW s \in Session, InviteCanceled(s) PROVE SesOK'
<1> DEFINE r == Discard(ses[s])
<1>1. r \in SessionData
  BY DiscardKeeps DEF SesOK, Keeps
<1>2. \/ Set(s, Become(UpdateFailed(StopUpdatingMedia(r)), "Established", "EEstablished"))
      \/ Set(s, Become(StopMedia(r), "Terminated", "ETerminated"))
  BY DEF InviteCanceled
<1> HIDE DEF r
<1>3. UpdateFailed(StopUpdatingMedia(r)) \in SessionData /\ StopMedia(r) \in SessionData
  BY <1>1, StopUpdatingMediaKeeps, UpdateFailedKeeps, StopMediaKeeps DEF Keeps
<1> QED
  BY <1>2, <1>3, BecomeGood, StatesMatch, SetGood

LEMMA InviteTimesOutStep ==
    ASSUME SesOK, NEW s \in Session, InviteTimesOut(s) PROVE SesOK'
<1>1. Final(ses[s], "done", "other") \in SessionData
  BY FinalKeeps DEF SesOK, Keeps, Invite, Response
<1> QED
  BY <1>1, ErrorOccuredGood, IncomingGood DEF InviteTimesOut

LEMMA CancelTimesOutStep ==
    ASSUME SesOK, NEW s \in Session, CancelTimesOut(s) PROVE SesOK'
<1> DEFINE r == [ses[s] EXCEPT !.cancel = "done", !.resp = "other"]
<1>1. r \in SessionData
  <2>1. "done" \in Sent /\ "other" \in Response
    BY DEF Sent, Response
  <2> QED
    BY <2>1 DEF SesOK, SessionData
<1>2. Incoming(s, ErrorOccured(r, FALSE))
  BY DEF CancelTimesOut
<1> HIDE DEF r
<1> QED
  BY <1>1, <1>2, ErrorOccuredGood, IncomingGood

LEMMA ByeTimesOutStep ==
    ASSUME SesOK, NEW s \in Session, ByeTimesOut(s) PROVE SesOK'
<1> DEFINE r == [ses[s] EXCEPT !.bye = "done", !.dialog = "terminated", !.resp = "other"]
<1>1. r \in SessionData
  <2>1. "done" \in Sent /\ "terminated" \in Dialog /\ "other" \in Response
    BY DEF Sent, Dialog, Response
  <2> QED
    BY <2>1 DEF SesOK, SessionData
<1>2. Incoming(s, ErrorOccured(r, FALSE))
  BY DEF ByeTimesOut
<1> HIDE DEF r
<1> QED
  BY <1>1, <1>2, ErrorOccuredGood, IncomingGood

LEMMA NoAckReceivedStep ==
    ASSUME SesOK, NEW s \in Session, NoAckReceived(s) PROVE SesOK'
<1> DEFINE r == [ses[s] EXCEPT !.request = "none"]
<1>1. r \in SessionData
  <2>1. "none" \in Request
    BY DEF Request
  <2> QED
    BY <2>1 DEF SesOK, SessionData
<1>2. Incoming(s, ErrorOccured(r, TRUE))
  BY DEF NoAckReceived
<1> HIDE DEF r
<1> QED
  BY <1>1, <1>2, ErrorOccuredGood, IncomingGood

LEMMA InviteCompletedStep ==
    ASSUME SesOK, NEW s \in Session, InviteCompleted(s) PROVE SesOK'
<1> DEFINE r == [ses[s] EXCEPT !.initial = "removed"]
<1>1. Keeps(ses[s], r)
  <2>1. "removed" \in InitialInvite
    BY DEF InitialInvite
  <2> QED
    BY <2>1 DEF SesOK, Good, Keeps, SessionData
<1>2. Set(s, r)
  BY DEF InviteCompleted
<1> HIDE DEF r
<1> QED
  BY <1>1, <1>2, KeepsGood, SetGood DEF SesOK

LEMMA MediaUpdatedStep ==
    ASSUME SesOK, NEW s \in Session, MediaUpdated(s) PROVE SesOK'
<1> DEFINE r == [ses[s] EXCEPT !.busy = FALSE, !.waiting = FALSE]
           u == SendAnswer(UpdateSucceed(r), FALSE)
<1>1. Keeps(ses[s], r)
  BY DEF SesOK, Good, Keeps, SessionData
<1>2. \/ /\ r.st = "ClientEstablishing"
         /\ Set(s, Processed(r, StateChanged(SendInvite(r), "Offering")))
      \/ Set(s, OfferingMediaUpdated(r))
      \/ Set(s, Processed(r, Become(u, "Answering", "EProceeding")))
      \/ Set(s, Processed(r, Become(r, "Updated", "EProceeding")))
      \/ Set(s, Processed(r, r))
      \/ Set(s, Become(StopMedia(r), "Error", "ETerminated"))
  BY DEF MediaUpdated
<1> HIDE DEF r
<1>3. Good(r)
  BY <1>1, KeepsGood DEF SesOK
<1>4. CASE /\ r.st = "ClientEstablishing"
           /\ Set(s, Processed(r, StateChanged(SendInvite(r), "Offering")))
  <2> DEFINE n == SendInvite(r)
  <2>1. Good(n) /\ n.st = r.st
    BY <1>3, SendInviteKeeps, KeepsGood DEF Good, Keeps
  <2> HIDE DEF n
  <2>2. /\ StateChanged(n, "Offering") \in SessionData
        /\ StateChanged(n, "Offering").st = "Offering"
    BY <2>1, StateChangedType, StatesMatch DEF Good
  <2>3. /\ StateChanged(n, "Offering").told = n.told
        /\ StateChanged(n, "Offering").owner = n.owner
    BY <2>1 DEF Good, SessionData, StateChanged
  <2>4. Shown("Offering") = Shown("ClientEstablishing")
    BY DEF Shown
  <2>5. Good(StateChanged(n, "Offering"))
    BY <1>4, <2>1, <2>2, <2>3, <2>4 DEF Good, InSync
  <2> QED
    BY <1>4, <2>5, ProcessedGood, SetGood DEF n
<1>5. u \in SessionData /\ StopMedia(r) \in SessionData
  BY <1>3, UpdateSucceedKeeps, SendAnswerKeeps, StopMediaKeeps DEF Good, Keeps
<1> HIDE DEF u
<1>6. /\ Good(Become(u, "Answering", "EProceeding"))
      /\ Good(Become(r, "Updated", "EProceeding"))
      /\ Good(Become(StopMedia(r), "Error", "ETerminated"))
  BY <1>3, <1>5, BecomeGood, StatesMatch DEF Good
<1> QED
  BY <1>2, <1>3, <1>4, <1>6, OfferingMediaUpdatedGood, ProcessedGood, SetGood

LEMMA TimerExpiredStep ==
    ASSUME SesOK, NEW s \in Session, TimerExpired(s) PROVE SesOK'
<1> DEFINE r == [ses[s] EXCEPT !.timer = FALSE]
           e == ClientErrorOccured(r)
           t == ClientErrorOccured(StateChanged(r, "Terminated"))
<1>1. Keeps(ses[s], r)
  BY DEF SesOK, Good, Keeps, SessionData
<1>2. \/ Set(s, Processed(r, Become(SendSessionRefresh(r), "Offering", "EOffering")))
      \/ Set(s, Processed(r, Become(StopMedia(SendBYE(r)), "Terminating", "ETerminating")))
      \/ Set(s, Processed(r, CanceledExit(r)))
      \/ Set(s, Processed(r, r))
      \/ Set(s, t)
      \/ "late timer" \in Allowed /\ Set(s, e)
  BY <1>1 DEF TimerExpired, Keeps, Ended
<1> HIDE DEF r
<1>3. Good(r)
  BY <1>1, KeepsGood DEF SesOK
<1>4. SendSessionRefresh(r) \in SessionData /\ StopMedia(SendBYE(r)) \in SessionData
  BY <1>3, SendSessionRefreshKeeps, SendBYEKeeps, StopMediaKeeps DEF Good, Keeps
<1>5. /\ Good(Become(SendSessionRefresh(r), "Offering", "EOffering"))
      /\ Good(Become(StopMedia(SendBYE(r)), "Terminating", "ETerminating"))
      /\ Good(CanceledExit(r))
  BY <1>3, <1>4, BecomeGood, CanceledExitGood, StatesMatch DEF Good
<1>6. Good(t)
  BY <1>3, BecomeGood, StatesMatch DEF Good, Become, ClientErrorOccured
<1>7. "late timer" \in Allowed => Good(e)
  <2>1. "ETerminated" \in ClientState
    BY DEF ClientState
  <2>2. e \in SessionData
    BY <1>3, <2>1 DEF Good, SessionData, ClientErrorOccured, ClientStateChanged
  <2> QED
    BY <2>2 DEF Good, Orderly
<1> HIDE DEF e, t
<1> QED
  BY <1>2, <1>3, <1>5, <1>6, <1>7, ProcessedGood, SetGood

LEMMA DeleteSessionStep ==
    ASSUME SesOK, NEW s \in Session, DeleteSession(s) PROVE SesOK'
BY DisposeGood, SetGood DEF DeleteSession, SesOK

\* The variables the sessions share
LEMMA SharedType ==
    ASSUME TypeOK, NEW s \in Session,
           \/ ClientRequest(s)
           \/ Provisional(s) \/ FinalResponse(s) \/ CancelEnds(s) \/ ByeEnds(s) \/ AckEnds(s)
           \/ PeerRequest(s)
           \/ InviteCompleted(s) \/ MediaUpdated(s) \/ TimerExpired(s)
    PROVE  /\ lastResponse' \in {"none", "ringing", "progress", "ok"}
           /\ readyToAck' \in BOOLEAN
           /\ invites' \in 0..MaxInvites
<1> DEFINE Same == lastResponse' = lastResponse /\ readyToAck' = readyToAck
           Counted == invites' = invites \/ NewInvite(0) \/ NewInvite(1)
<1>1. Counted => invites' \in 0..MaxInvites
  BY BoundAssumption DEF TypeOK, NewInvite
<1>2. CASE Same /\ Counted
  BY <1>1, <1>2 DEF TypeOK
<1>3. CASE ClientRequest(s)
  <2>1. CASE CreateOutSession(s) \/ CancelEstablishing(s) \/ CancelOffering(s)
             \/ UpdateIncoming(s) \/ RejectIncoming(s) \/ AcceptSession(s)
             \/ RejectSession(s) \/ TerminateSession(s) \/ DeleteSession(s)
    BY <1>2, <2>1 DEF offeringState, CreateOutSession, CancelEstablishing, CancelOffering,
         UpdateIncoming, RejectIncoming, AcceptSession, RejectSession, TerminateSession,
         DeleteSession
  <2>2. CASE EstablishSession(s)
    BY <1>2, <2>2 DEF offeringState, EstablishSession, MediaResults
  <2>3. CASE UpdateSession(s)
    BY <1>2, <2>3 DEF offeringState, UpdateSession, MediaResults
  <2> QED
    BY <1>3, <2>1, <2>2, <2>3 DEF ClientRequest
<1>4. CASE Provisional(s)
  BY <1>4 DEF Provisional, TypeOK
<1>5. CASE FinalResponse(s)
  <2>1. CASE Answered(s)
    BY <2>1 DEF Answered, ReadyToAck, TypeOK
  <2>2. CASE Redirected(s)
    BY <1>2, <2>2 DEF offeringState, Redirected
  <2>3. CASE Refused(s)
    BY <1>2, <2>3 DEF offeringState, Refused
  <2>4. CASE InviteTimesOut(s)
    BY <1>2, <2>4 DEF offeringState, InviteTimesOut
  <2> QED
    BY <1>5, <2>1, <2>2, <2>3, <2>4 DEF FinalResponse
<1>6. CASE CancelEnds(s) \/ ByeEnds(s) \/ AckEnds(s)
  BY <1>2, <1>6 DEF offeringState, CancelEnds, CancelAnswered, CancelTimesOut, ByeEnds,
       ByeAnswered, ByeTimesOut, AckEnds, AckReceived, NoAckReceived
<1>7. CASE PeerRequest(s)
  BY <1>2, <1>7 DEF offeringState, PeerRequest, IncomingSession, ReInviteReceived,
       ByeReceived, InviteCanceled
<1>8. CASE InviteCompleted(s) \/ MediaUpdated(s)
  BY <1>2, <1>8 DEF offeringState, InviteCompleted, MediaUpdated
<1>9. CASE TimerExpired(s)
  BY <1>2, <1>9 DEF offeringState, TimerExpired
<1> QED
  BY <1>3, <1>4, <1>5, <1>6, <1>7, <1>8, <1>9

LEMMA NextInv == Inv /\ [Next]_vars => Inv'
<1> SUFFICES ASSUME Inv, [Next]_vars PROVE Inv'
  OBVIOUS
<1>1. TypeOK /\ SesOK
  BY DEF Inv
<1>2. CASE UNCHANGED vars
  BY <1>1, <1>2 DEF Inv, TypeOK, SesOK, vars
<1>3. ASSUME NEW s \in Session,
             \/ ClientRequest(s)
             \/ Provisional(s) \/ FinalResponse(s) \/ CancelEnds(s) \/ ByeEnds(s) \/ AckEnds(s)
             \/ PeerRequest(s)
             \/ InviteCompleted(s) \/ MediaUpdated(s) \/ TimerExpired(s)
      PROVE  Inv'
  <2>1. SesOK'
    <3>1. CASE ClientRequest(s)
      BY <1>1, <3>1, CreateOutSessionStep, EstablishSessionStep, CancelEstablishingStep,
         CancelOfferingStep, UpdateIncomingStep, RejectIncomingStep, AcceptSessionStep,
         RejectSessionStep, UpdateSessionStep, TerminateSessionStep, DeleteSessionStep
      DEF ClientRequest
    <3>2. CASE Provisional(s)
      BY <1>1, <3>2, ProvisionalStep
    <3>3. CASE FinalResponse(s)
      BY <1>1, <3>3, AnsweredStep, RedirectedStep, RefusedStep, InviteTimesOutStep
      DEF FinalResponse
    <3>4. CASE CancelEnds(s) \/ ByeEnds(s) \/ AckEnds(s)
      BY <1>1, <3>4, CancelAnsweredStep, CancelTimesOutStep, ByeAnsweredStep,
         ByeTimesOutStep, AckReceivedStep, NoAckReceivedStep
      DEF CancelEnds, ByeEnds, AckEnds
    <3>5. CASE PeerRequest(s)
      BY <1>1, <3>5, IncomingSessionStep, ReInviteReceivedStep, ByeReceivedStep,
         InviteCanceledStep
      DEF PeerRequest
    <3>6. CASE InviteCompleted(s) \/ MediaUpdated(s) \/ TimerExpired(s)
      BY <1>1, <3>6, InviteCompletedStep, MediaUpdatedStep, TimerExpiredStep
    <3> QED
      BY <1>3, <3>1, <3>2, <3>3, <3>4, <3>5, <3>6
  <2>2. TypeOK'
    BY <1>1, <1>3, <2>1, SharedType DEF TypeOK, SesOK
  <2> QED
    BY <2>1, <2>2 DEF Inv
<1> QED
  BY <1>2, <1>3 DEF Next

\* The state always has its type, whatever the peer, the network and the media
\* do: no handler leaves a session in a state that does not exist.
THEOREM TypeCorrect == Spec => []TypeOK
<1>1. Inv => TypeOK
  BY DEF Inv
<1> QED
  BY <1>1, InitInv, NextInv, PTL DEF Spec

\* With no redirected update and timers in time, the client was always last told
\* the state its session is in (CMceStateXxx::ExitL), for any number of sessions
\* that share the state objects.
THEOREM ClientAlwaysInSync ==
    ASSUME "redirect update" \notin Allowed, "late timer" \notin Allowed
    PROVE  Spec => []ClientInSync
<1>1. Inv => ClientInSync
  BY DEF Inv, SesOK, Good, Orderly, InSync, ClientInSync, Served
<1> QED
  BY <1>1, InitInv, NextInv, PTL DEF Spec
=============================================================================
