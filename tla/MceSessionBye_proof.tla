------------------------ MODULE MceSessionBye_proof -------------------------
(***************************************************************************)
(* Proof that a session hangs up at most once.  A session whose BYE is     *)
(* done has a dialog that is over, and is itself over or in Established,   *)
(* from where nothing leads to a new dialog.  So there are two lemmas for  *)
(* each call and handler: on a session whose BYE is not done it does not   *)
(* end the BYE, and one whose BYE is done it leaves so.                    *)
(***************************************************************************)
EXTENDS MceSession_proof

\* The fields the argument is about
Fields(r) == {"bye", "dialog", "st", "owner"} \subseteq DOMAIN r

\* No BYE of the session has been answered or has timed out
NotHung(r) == Fields(r) /\ r.bye # "done"

Hung(r) == Fields(r) /\ r.bye = "done" /\ r.dialog = "terminated" /\ r.owner # "free"

\* ... and the session is in a state that sends no INVITE, answer or BYE then
AtRest(r) == Hung(r) /\ r.st \in Ended \cup {"Established"}

\* The inductive invariant of one session
AtMostOne(r) == NotHung(r) \/ AtRest(r)

LEMMA DataFields == ASSUME NEW r \in SessionData PROVE Fields(r)
BY DEF SessionData, Fields

-----------------------------------------------------------------------------
(* Calls *)

LEMMA MediaCallsNotHung ==
    ASSUME NEW r, NotHung(r)
    PROVE  /\ NotHung(StopMedia(r)) /\ NotHung(StopUpdatingMedia(r))
           /\ NotHung(UpdateAsync(r)) /\ NotHung(CreateBodyCandidate(r))
           /\ NotHung(UpdateFailed(r)) /\ NotHung(UpdateSucceed(r))
BY DEF NotHung, Fields, StopMedia, StopUpdatingMedia, UpdateAsync, CreateBodyCandidate,
       UpdateFailed, UpdateSucceed

LEMMA SipCallsNotHung ==
    ASSUME NEW r, NotHung(r)
    PROVE  /\ NotHung(SendInvite(r)) /\ NotHung(NewDialog(r)) /\ NotHung(SendACK(r))
           /\ NotHung(SendBYE(r)) /\ NotHung(SendCancel(r)) /\ NotHung(Discard(r))
           /\ NotHung(Send200OK(r)) /\ NotHung(SendSessionRefresh(r))
           /\ \A timer : NotHung(SendAnswer(r, timer))
<1>1. /\ NotHung(SendInvite(r)) /\ NotHung(NewDialog(r)) /\ NotHung(SendACK(r))
      /\ NotHung(SendBYE(r)) /\ NotHung(SendCancel(r)) /\ NotHung(Discard(r))
      /\ NotHung(Send200OK(r))
  BY DEF NotHung, Fields, SendInvite, NewDialog, SendACK, SendBYE, SendCancel, Discard,
         Send200OK
<1>2. NotHung(SendSessionRefresh(r))
  BY DEF NotHung, Fields, SendInvite, SendSessionRefresh
<1>3. \A timer : NotHung(SendAnswer(r, timer))
  BY DEF NotHung, Fields, SendAnswer
<1> QED
  BY <1>1, <1>2, <1>3

LEMMA StateCallsNotHung ==
    ASSUME NEW r, NotHung(r), NEW q, NEW next, NEW state
    PROVE  /\ NotHung(StateChanged(r, next)) /\ NotHung(ClientStateChanged(r, state))
           /\ NotHung(Become(r, next, state))
           /\ NotHung(MarkExit(q, r)) /\ NotHung(Processed(q, r))
<1>1. NotHung(StateChanged(r, next)) /\ NotHung(ClientStateChanged(r, state))
  BY DEF NotHung, Fields, StateChanged, ClientStateChanged
<1>2. NotHung(Become(r, next, state))
  BY DEF NotHung, Fields, StateChanged, ClientStateChanged, Become
<1>3. \A e : NotHung([r EXCEPT !.exit = e])
  BY DEF NotHung, Fields
<1>4. NotHung(MarkExit(q, r))
  BY <1>3, Zenon DEF MarkExit
<1>5. ASSUME NEW n, NotHung(n) PROVE NotHung(StateEntry(n))
  BY <1>5 DEF NotHung, Fields, StateEntry
<1> QED
  BY <1>1, <1>2, <1>4, <1>5 DEF Processed

LEMMA CallsHung ==
    ASSUME NEW r, Hung(r), NEW q
    PROVE  /\ Hung(StopMedia(r)) /\ Hung(StopUpdatingMedia(r)) /\ Hung(UpdateFailed(r))
           /\ Hung(Discard(r)) /\ Hung(SendCancel(r)) /\ Hung(MarkExit(q, r))
           /\ Hung(Processed(q, r))
           /\ StopMedia(r).st = r.st /\ Processed(q, r).st = r.st
<1>1. /\ Hung(StopMedia(r)) /\ Hung(StopUpdatingMedia(r)) /\ Hung(UpdateFailed(r))
      /\ Hung(Discard(r)) /\ Hung(SendCancel(r)) /\ StopMedia(r).st = r.st
  BY DEF Hung, Fields, StopMedia, StopUpdatingMedia, UpdateFailed, Discard, SendCancel
<1>2. \A e : Hung([r EXCEPT !.exit = e]) /\ [r EXCEPT !.exit = e].st = r.st
  BY DEF Hung, Fields
<1>3. Hung(MarkExit(q, r)) /\ MarkExit(q, r).st = r.st
  BY <1>2, Zenon DEF MarkExit
<1>4. ASSUME NEW n, Hung(n) PROVE Hung(StateEntry(n)) /\ StateEntry(n).st = n.st
  BY <1>4 DEF Hung, Fields, StateEntry
<1> QED
  BY <1>1, <1>3, <1>4 DEF Processed

LEMMA BecomeAtRest ==
    ASSUME NEW r, Hung(r), NEW next \in Ended \cup {"Established"}, NEW state
    PROVE  AtRest(Become(r, next, state)) /\ AtRest(StateChanged(r, next))
BY DEF AtRest, Hung, Fields, Become, StateChanged, ClientStateChanged

LEMMA ProcessedAtRest ==
    ASSUME NEW r, AtRest(r), NEW q PROVE AtRest(Processed(q, r))
BY CallsHung DEF AtRest

-----------------------------------------------------------------------------
(* Handlers *)

LEMMA HandleResponseErrorBye ==
    ASSUME NEW r
    PROVE  /\ NotHung(r) => NotHung(HandleResponseError(r))
           /\ Hung(r) => AtRest(HandleResponseError(r))
<1> DEFINE x == IF r.st = "Offering" THEN MarkExit(r, r) ELSE r
           m == StopMedia(x)
           u == UpdateFailed(StopUpdatingMedia(x))
<1>1. \/ HandleResponseError(r) = Become(u, "Established", "EEstablished")
      \/ /\ r.dialog = "confirmed"
         /\ HandleResponseError(r) = Become(SendBYE(m), "Terminating", "ETerminating")
      \/ /\ r.dialog = "early"
         /\ HandleResponseError(r) = Become(SendCancel(m), "Canceled", "ECancelling")
      \/ /\ r.dialog = "early"
         /\ HandleResponseError(r) = Become(m, "Error", "ETerminated")
      \/ HandleResponseError(r) = Become(m, "Terminated", "ETerminated")
      \/ r.dialog # "terminated" /\ HandleResponseError(r) = m
  BY DEF HandleResponseError, x, m, u
<1>2. ASSUME NotHung(r) PROVE NotHung(HandleResponseError(r))
  <2>1. NotHung(x)
    BY <1>2, StateCallsNotHung
  <2> HIDE DEF x
  <2>2. NotHung(m) /\ NotHung(u)
    BY <2>1, MediaCallsNotHung
  <2> HIDE DEF m, u
  <2>3. NotHung(SendBYE(m)) /\ NotHung(SendCancel(m))
    BY <2>2, SipCallsNotHung
  <2> QED
    BY <1>1, <2>2, <2>3, StateCallsNotHung
<1>3. ASSUME Hung(r) PROVE AtRest(HandleResponseError(r))
  <2>1. Hung(x)
    BY <1>3, CallsHung
  <2> HIDE DEF x
  <2>2. Hung(m) /\ Hung(u)
    BY <2>1, CallsHung
  <2> HIDE DEF m, u
  <2>3. r.dialog = "terminated"
    BY <1>3 DEF Hung
  <2> QED
    BY <1>1, <2>2, <2>3, BecomeAtRest DEF Ended
<1> QED
  BY <1>2, <1>3

LEMMA HandleRequestErrorBye ==
    ASSUME NEW r, NotHung(r) PROVE NotHung(HandleRequestError(r))
<1>1. NotHung(Discard(StopMedia(r)))
  BY MediaCallsNotHung, SipCallsNotHung
<1>2. NotHung(SendBYE(Discard(StopMedia(r))))
  BY <1>1, SipCallsNotHung
<1> QED
  BY <1>1, <1>2, StateCallsNotHung DEF HandleRequestError

LEMMA ErrorOccuredBye ==
    ASSUME NEW r, NEW noAck
    PROVE  /\ NotHung(r) => NotHung(ErrorOccured(r, noAck))
           /\ Hung(r) => AtRest(ErrorOccured(r, noAck))
<1> DEFINE m == StopMedia(r)
<1>1. \/ ErrorOccured(r, noAck) = Become(r, "Terminated", "ETerminated")
      \/ /\ r.dialog = "confirmed"
         /\ ErrorOccured(r, noAck) = Become(SendBYE(m), "Terminating", "ETerminating")
      \/ /\ r.dialog = "early"
         /\ ErrorOccured(r, noAck) = Become(SendCancel(m), "Canceled", "ECancelling")
      \/ ErrorOccured(r, noAck) = Become(m, "Terminated", "ETerminated")
      \/ ErrorOccured(r, noAck) = Become(m, "Error", "ETerminated")
  BY DEF ErrorOccured, ByeLost, m
<1>2. ASSUME NotHung(r) PROVE NotHung(ErrorOccured(r, noAck))
  <2>1. NotHung(m)
    BY <1>2, MediaCallsNotHung
  <2> HIDE DEF m
  <2>2. NotHung(SendBYE(m)) /\ NotHung(SendCancel(m))
    BY <2>1, SipCallsNotHung
  <2> QED
    BY <1>1, <1>2, <2>1, <2>2, StateCallsNotHung
<1>3. ASSUME Hung(r) PROVE AtRest(ErrorOccured(r, noAck))
  <2>1. Hung(m)
    BY <1>3, CallsHung
  <2> HIDE DEF m
  <2>2. r.dialog = "terminated"
    BY <1>3 DEF Hung
  <2> QED
    BY <1>1, <1>3, <2>1, <2>2, BecomeAtRest DEF Ended
<1> QED
  BY <1>2, <1>3

LEMMA CanceledExitBye ==
    ASSUME NEW r
    PROVE  /\ NotHung(r) => NotHung(CanceledExit(r))
           /\ Hung(r) => AtRest(CanceledExit(r))
BY StateCallsNotHung, BecomeAtRest DEF CanceledExit, Ended

LEMMA CanceledAnsweredBye ==
    ASSUME NEW r, NotHung(r) PROVE NotHung(CanceledAnswered(r))
<1>1. NotHung(SendACK(r))
  BY SipCallsNotHung
<1>2. NotHung(SendBYE(SendACK(r)))
  BY <1>1, SipCallsNotHung
<1> QED
  BY <1>1, <1>2, StateCallsNotHung DEF CanceledAnswered

LEMMA RejectedExitBye ==
    ASSUME NEW r, NEW n, NotHung(n) PROVE NotHung(RejectedExit(r, n))
BY StateCallsNotHung DEF RejectedExit

LEMMA EntryCancelBye ==
    ASSUME NEW r, NotHung(r) PROVE NotHung(EntryCancel(r))
<1>1. NotHung(SendCancel(r))
  BY SipCallsNotHung
<1> QED
  BY <1>1, MediaCallsNotHung DEF EntryCancel

LEMMA OfferingExitBye ==
    ASSUME NEW r, NEW n, NotHung(n), NEW next, NEW state, NEW ready
    PROVE  NotHung(OfferingExit(r, n, next, state, ready))
BY StateCallsNotHung DEF OfferingExit

LEMMA OfferingProvisionalBye ==
    ASSUME NEW r, NotHung(r), NEW sdp, NEW result \in {"ready", "async", "fails", "bad"}
    PROVE  NotHung(OfferingProvisional(r, sdp, result))
<1> DEFINE told == IF readyToAck THEN ClientStateChanged(r, "EOffering") ELSE r
           answered == [told EXCEPT !.answered = TRUE]
           waiting == [answered EXCEPT !.waiting = TRUE]
<1>1. NotHung(told)
  BY StateCallsNotHung
<1> HIDE DEF told
<1>2. NotHung(answered) /\ NotHung(waiting)
  BY <1>1 DEF NotHung, Fields
<1> HIDE DEF answered, waiting
<1>3. NotHung(UpdateAsync(waiting))
  BY <1>2, MediaCallsNotHung
<1>4. \/ OfferingProvisional(r, sdp, result) = Processed(r, told)
      \/ OfferingProvisional(r, sdp, result) = Processed(r, answered)
      \/ OfferingProvisional(r, sdp, result) = Processed(r, UpdateAsync(waiting))
      \/ OfferingProvisional(r, sdp, result) =
           Processed(r, Become(EntryCancel(r), "Canceled", "ECancelling"))
      \/ OfferingProvisional(r, sdp, result) = HandleResponseError(r)
  BY DEF OfferingProvisional, told, answered, waiting
<1>5. NotHung(Become(EntryCancel(r), "Canceled", "ECancelling"))
  BY EntryCancelBye, StateCallsNotHung
<1> QED
  BY <1>1, <1>2, <1>3, <1>4, <1>5, StateCallsNotHung, HandleResponseErrorBye

LEMMA OfferingAnsweredBye ==
    ASSUME NEW r, NotHung(r), NEW sdp, NEW ready,
           NEW result \in {"ready", "async", "fails", "bad"}
    PROVE  NotHung(OfferingAnswered(r, sdp, result, ready))
<1> DEFINE a == SendACK(r)
           t == [a EXCEPT !.timer = @ \/ "session timer" \in Allowed]
           waiting == [t EXCEPT !.waiting = TRUE]
           established == Become(a, "Established", "EEstablished")
<1>1. \/ OfferingAnswered(r, sdp, result, ready) = Processed(r, a)
      \/ OfferingAnswered(r, sdp, result, ready) = Processed(r, UpdateSucceed(established))
      \/ OfferingAnswered(r, sdp, result, ready) =
           OfferingExit(r, t, "Established", "EEstablished", ready)
      \/ OfferingAnswered(r, sdp, result, ready) =
           OfferingExit(r, UpdateSucceed(t), "Established", "EEstablished", ready)
      \/ OfferingAnswered(r, sdp, result, ready) = Processed(r, UpdateAsync(waiting))
      \/ OfferingAnswered(r, sdp, result, ready) =
           OfferingExit(r, StopMedia(SendBYE(t)), "Terminating", "ETerminating", ready)
      \/ OfferingAnswered(r, sdp, result, ready) =
           OfferingExit(r, UpdateFailed(t), "Established", "EEstablished", ready)
      \/ OfferingAnswered(r, sdp, result, ready) = HandleResponseError(t)
  BY DEF OfferingAnswered, a, t, waiting, established
<1>2. NotHung(a)
  BY SipCallsNotHung
<1> HIDE DEF a
<1>3. NotHung(established)
  BY <1>2, StateCallsNotHung
<1>4. NotHung(t)
  <2>1. \A v : NotHung([a EXCEPT !.timer = v])
    BY <1>2 DEF NotHung, Fields
  <2> QED
    BY <2>1, Zenon
<1> HIDE DEF t, established
<1>5. NotHung(waiting)
  BY <1>4 DEF NotHung, Fields
<1> HIDE DEF waiting
<1>6. /\ NotHung(UpdateSucceed(established)) /\ NotHung(UpdateSucceed(t))
      /\ NotHung(UpdateFailed(t)) /\ NotHung(UpdateAsync(waiting))
  BY <1>3, <1>4, <1>5, MediaCallsNotHung
<1>7. NotHung(StopMedia(SendBYE(t)))
  BY <1>4, SipCallsNotHung, MediaCallsNotHung
<1> QED
  BY <1>1, <1>2, <1>4, <1>6, <1>7, StateCallsNotHung, OfferingExitBye,
     HandleResponseErrorBye

LEMMA OfferingRedirectedBye ==
    ASSUME NEW r, NotHung(r), NEW code PROVE NotHung(OfferingRedirected(r, code))
<1> DEFINE n == IF Retried(r, code) THEN SendInvite(NewDialog(r)) ELSE r
           u == UpdateFailed(StopUpdatingMedia(n))
<1>1. \/ OfferingRedirected(r, code) = Processed(r, n)
      \/ OfferingRedirected(r, code) =
           Processed(r, Become(u, "ServerEstablishing", "EEstablished"))
      \/ OfferingRedirected(r, code) = Processed(r, ClientStateChanged(n, "EOffering"))
      \/ OfferingRedirected(r, code) =
           Processed(r, Become(StopMedia(n), "Terminated", "ETerminated"))
  BY DEF OfferingRedirected, n, u
<1>2. NotHung(n)
  BY SipCallsNotHung
<1> HIDE DEF n
<1>3. NotHung(u) /\ NotHung(StopMedia(n))
  BY <1>2, MediaCallsNotHung
<1> HIDE DEF u
<1>4. /\ NotHung(Become(u, "ServerEstablishing", "EEstablished"))
      /\ NotHung(ClientStateChanged(n, "EOffering"))
      /\ NotHung(Become(StopMedia(n), "Terminated", "ETerminated"))
  BY <1>2, <1>3, StateCallsNotHung
<1> QED
  BY <1>1, <1>2, <1>4, StateCallsNotHung

LEMMA OfferingRefusedBye ==
    ASSUME NEW r, NotHung(r), NEW code PROVE NotHung(OfferingRefused(r, code))
<1> DEFINE d == [r EXCEPT !.dialog = "none"]
           b == StopMedia(SendBYE(UpdateFailed(r)))
<1>1. \/ OfferingRefused(r, code) =
           OfferingExit(r, SendSessionRefresh(r), "Established", "EEstablished", readyToAck)
      \/ OfferingRefused(r, code) = Processed(r, SendInvite(d))
      \/ OfferingRefused(r, code) = Processed(r, SendInvite(NewDialog(r)))
      \/ OfferingRefused(r, code) =
           OfferingExit(r, StopMedia(r), "Terminated", "ETerminated", readyToAck)
      \/ OfferingRefused(r, code) = Processed(r, Become(b, "Terminated", "ETerminated"))
      \/ OfferingRefused(r, code) =
           Processed(r, Become(UpdateFailed(r), "Established", "EEstablished"))
  BY DEF OfferingRefused, b, d
<1>2. NotHung(d)
  BY DEF NotHung, Fields
<1>3. NotHung(UpdateFailed(r)) /\ NotHung(StopMedia(r)) /\ NotHung(NewDialog(r))
  BY MediaCallsNotHung, SipCallsNotHung
<1>4. NotHung(b)
  BY <1>3, SipCallsNotHung, MediaCallsNotHung
<1> HIDE DEF b, d
<1>5. /\ NotHung(SendInvite(d)) /\ NotHung(SendInvite(NewDialog(r)))
      /\ NotHung(SendSessionRefresh(r))
  BY <1>2, <1>3, SipCallsNotHung
<1>6. /\ NotHung(Become(b, "Terminated", "ETerminated"))
      /\ NotHung(Become(UpdateFailed(r), "Established", "EEstablished"))
  BY <1>3, <1>4, StateCallsNotHung
<1> QED
  BY <1>1, <1>3, <1>5, <1>6, StateCallsNotHung, OfferingExitBye

LEMMA OfferingMediaUpdatedBye ==
    ASSUME NEW r, NotHung(r) PROVE NotHung(OfferingMediaUpdated(r))
BY MediaCallsNotHung, StateCallsNotHung, OfferingExitBye DEF OfferingMediaUpdated

-----------------------------------------------------------------------------
(* Disposal *)

LEMMA HangupBye ==
    ASSUME NEW r, NEW next
    PROVE  /\ NotHung(r) => NotHung(Hangup(r, next))
           /\ Hung(r) => AtRest(Hangup(r, next))
<1>1. ASSUME NotHung(r) PROVE NotHung(Hangup(r, next))
  BY <1>1, SipCallsNotHung, StateCallsNotHung DEF Hangup
<1>2. ASSUME Hung(r) PROVE AtRest(Hangup(r, next))
  <2>1. Hangup(r, next) = StateChanged(r, "Terminated")
    BY <1>2 DEF Hangup, CanSendBYE, Hung
  <2> QED
    BY <1>2, <2>1, BecomeAtRest DEF Ended
<1> QED
  BY <1>1, <1>2

LEMMA TerminateBye ==
    ASSUME NEW r
    PROVE  /\ NotHung(r) => NotHung(Terminate(r))
           /\ AtRest(r) => AtRest(Terminate(r))
<1> DEFINE m == StopMedia(r)
           d == Discard(m)
           c == SendCancel(m)
<1>1. ASSUME NotHung(r) PROVE NotHung(Terminate(r))
  <2>1. NotHung(m)
    BY <1>1, MediaCallsNotHung
  <2>2. NotHung(d) /\ NotHung(c)
    BY <2>1, SipCallsNotHung
  <2>3. \/ \E next : Terminate(r) \in {Hangup(m, next), Hangup(d, next),
                         StateChanged(m, next), StateChanged(d, next), StateChanged(c, next)}
        \/ Terminate(r) = m
    BY DEF Terminate, m, d, c
  <2> HIDE DEF m, d, c
  <2> QED
    BY <2>1, <2>2, <2>3, HangupBye, StateCallsNotHung
<1>2. ASSUME AtRest(r) PROVE AtRest(Terminate(r))
  <2>1. Hung(m) /\ m.st = r.st
    BY <1>2, CallsHung DEF AtRest
  <2>2. \/ \E next : Terminate(r) = Hangup(m, next)
        \/ Terminate(r) = StateChanged(m, "Terminated")
        \/ Terminate(r) = m
    BY <1>2 DEF AtRest, Ended, Terminate, m
  <2> HIDE DEF m
  <2> QED
    BY <1>2, <2>1, <2>2, HangupBye, BecomeAtRest DEF AtRest, Ended
<1> QED
  BY <1>1, <1>2

LEMMA DisposeBye ==
    ASSUME NEW r
    PROVE  /\ NotHung(r) => NotHung(Dispose(r)) /\ NotHung(Sweep(r))
           /\ AtRest(r) => AtRest(Dispose(r)) /\ AtRest(Sweep(r))
<1> DEFINE t == IF CanDispose(r) THEN r ELSE Terminate(r)
<1>1. Dispose(r) = [t EXCEPT !.owner = IF CanDispose(t) THEN "gone" ELSE "orphan"]
  BY DEF Dispose, t
<1>2. NotHung(r) => NotHung(t)
  BY TerminateBye
<1>3. AtRest(r) => AtRest(t)
  BY TerminateBye
<1> HIDE DEF t
<1>4. ASSUME NEW o \in {"gone", "orphan"}
      PROVE  /\ NotHung(t) => NotHung([t EXCEPT !.owner = o])
             /\ AtRest(t) => AtRest([t EXCEPT !.owner = o])
  BY <1>4 DEF NotHung, AtRest, Hung, Fields
<1>5. /\ NotHung(r) => NotHung(Dispose(r))
      /\ AtRest(r) => AtRest(Dispose(r))
  BY <1>1, <1>2, <1>3, <1>4
<1> QED
  BY <1>5 DEF Sweep

-----------------------------------------------------------------------------
(* Steps *)

ByeInv == SesOK /\ \A s \in Session : AtMostOne(ses[s])

\* What a handler makes of session r
Follows(r, n) == (NotHung(n) /\ NotHung(r)) \/ AtRest(n)

\* What a step makes of all sessions
Stepped == \A t \in Session : Follows(ses[t], ses'[t])

LEMMA SetFollows ==
    ASSUME ByeInv, NEW s \in Session, NEW n, Set(s, n), Follows(ses[s], n) PROVE Stepped
<1>1. \A t \in Session : IF t = s THEN ses'[t] = n ELSE ses'[t] = ses[t]
  BY DEF ByeInv, SesOK, Set
<1> QED
  BY <1>1 DEF ByeInv, Stepped, Follows, AtMostOne

LEMMA IncomingFollows ==
    ASSUME ByeInv, NEW s \in Session, NEW n, Incoming(s, n), Follows(ses[s], n) PROVE Stepped
<1>1. \A t \in Session : ses'[t] = Sweep(IF t = s THEN n ELSE ses[t])
  BY DEF Incoming
<1>2. \A t \in Session : Follows(ses[t], IF t = s THEN n ELSE ses[t])
  BY DEF ByeInv, Follows, AtMostOne
<1>3. ASSUME NEW r, NEW m, Follows(r, m) PROVE Follows(r, Sweep(m))
  BY <1>3, DisposeBye DEF Follows
<1> QED
  BY <1>1, <1>2, <1>3 DEF Stepped

\* The requests of the client that need more than a session at rest
LEMMA ClientRequestStep ==
    ASSUME ByeInv, NEW s \in Session, ClientRequest(s) PROVE Stepped
<1> DEFINE r == ses[s]
<1>1. AtMostOne(r)
  BY DEF ByeInv
<1>2. CASE CreateOutSession(s)
  <2>1. NotHung(r)
    BY <1>1, <1>2 DEF CreateOutSession, AtMostOne, AtRest, Hung
  <2>2. NotHung(NewOutSession)
    BY DEF NewOutSession, NotHung, Fields
  <2>3. \A t \in Session : ses'[t] = IF t = s THEN NewOutSession ELSE Sweep(ses[t])
    BY <1>2 DEF CreateOutSession
  <2>4. \A t \in Session \ {s} : Follows(ses[t], Sweep(ses[t]))
    BY DisposeBye DEF ByeInv, AtMostOne, Follows
  <2> QED
    BY <2>1, <2>2, <2>3, <2>4 DEF Stepped, Follows
<1>3. CASE EstablishSession(s)
  <2> DEFINE o == [r EXCEPT !.sub = "Offering"]
             m == [o EXCEPT !.media = "open"]
  <2>1. NotHung(r)
    BY <1>1, <1>3 DEF EstablishSession, AtMostOne, AtRest, Ended
  <2>2. NotHung(o) /\ NotHung(m)
    BY <2>1 DEF NotHung, Fields
  <2>3. \/ Set(s, Processed(o, Become(SendInvite(m), "Offering", "EOffering")))
        \/ Set(s, Processed(o, Become(UpdateAsync(m), "ClientEstablishing", "EOffering")))
        \/ Set(s, MarkExit(o, o))
    BY <1>3 DEF EstablishSession, MediaResults, o, m
  <2> HIDE DEF o, m
  <2>4. NotHung(SendInvite(m)) /\ NotHung(UpdateAsync(m))
    BY <2>2, SipCallsNotHung, MediaCallsNotHung
  <2>5. /\ NotHung(Become(SendInvite(m), "Offering", "EOffering"))
        /\ NotHung(Become(UpdateAsync(m), "ClientEstablishing", "EOffering"))
    BY <2>4, StateCallsNotHung
  <2> QED
    BY <2>1, <2>2, <2>3, <2>5, StateCallsNotHung, SetFollows DEF Follows
<1>4. CASE CancelEstablishing(s)
  <2>1. NotHung(r)
    BY <1>1, <1>4 DEF CancelEstablishing, AtMostOne, AtRest, Ended
  <2>2. NotHung(StopMedia(r)) /\ NotHung(UpdateFailed(r))
    BY <2>1, MediaCallsNotHung
  <2>3. /\ NotHung(Become(StopMedia(r), "Terminated", "ETerminated"))
        /\ NotHung(Become(UpdateFailed(r), "Established", "EEstablished"))
    BY <2>2, StateCallsNotHung
  <2>4. \/ Set(s, Processed(r, Become(StopMedia(r), "Terminated", "ETerminated")))
        \/ Set(s, Processed(r, Become(UpdateFailed(r), "Established", "EEstablished")))
    BY <1>4 DEF CancelEstablishing
  <2> QED
    BY <2>1, <2>3, <2>4, StateCallsNotHung, SetFollows DEF Follows
<1>5. CASE CancelOffering(s)
  <2>1. NotHung(r)
    BY <1>1, <1>5 DEF CancelOffering, AtMostOne, AtRest, Ended
  <2> QED
    BY <1>5, <2>1, EntryCancelBye, OfferingExitBye, SetFollows DEF CancelOffering, Follows
<1>6. CASE UpdateIncoming(s)
  <2> DEFINE u == UpdateSucceed(r)
             d == Discard(r)
  <2>1. NotHung(r)
    BY <1>1, <1>6 DEF UpdateIncoming, AtMostOne, AtRest, Ended
  <2>2. NotHung(u) /\ NotHung(d) /\ NotHung(UpdateAsync(r))
    BY <2>1, MediaCallsNotHung, SipCallsNotHung
  <2>3. \/ Set(s, Processed(r, Become(r, "Updated", "EProceeding")))
        \/ Set(s, Processed(r, Become(SendAnswer(u, FALSE), "Answering", "EAnswering")))
        \/ Set(s, Processed(r, Become(UpdateAsync(r), "Updating", "EReserving")))
        \/ Set(s, Processed(r, RejectedExit(r, StopMedia(d))))
        \/ Set(s, Processed(r, RejectedExit(r, UpdateFailed(d))))
    BY <1>6 DEF UpdateIncoming, u, d
  <2> HIDE DEF u, d
  <2>4. NotHung(SendAnswer(u, FALSE)) /\ NotHung(StopMedia(d)) /\ NotHung(UpdateFailed(d))
    BY <2>2, MediaCallsNotHung, SipCallsNotHung
  <2>5. /\ NotHung(Become(r, "Updated", "EProceeding"))
        /\ NotHung(Become(SendAnswer(u, FALSE), "Answering", "EAnswering"))
        /\ NotHung(Become(UpdateAsync(r), "Updating", "EReserving"))
        /\ NotHung(RejectedExit(r, StopMedia(d)))
        /\ NotHung(RejectedExit(r, UpdateFailed(d)))
    BY <2>1, <2>2, <2>4, StateCallsNotHung, RejectedExitBye
  <2> QED
    BY <2>1, <2>3, <2>5, StateCallsNotHung, SetFollows DEF Follows
<1>7. CASE RejectIncoming(s)
  <2>1. NotHung(r)
    BY <1>1, <1>7 DEF RejectIncoming, AtMostOne, AtRest, Ended
  <2>2. NotHung(Discard(r))
    BY <2>1, SipCallsNotHung
  <2>3. NotHung(StopMedia(Discard(r))) /\ NotHung(UpdateFailed(Discard(r)))
    BY <2>2, MediaCallsNotHung
  <2>4. \/ Set(s, Processed(r, RejectedExit(r, StopMedia(Discard(r)))))
        \/ Set(s, Processed(r, RejectedExit(r, UpdateFailed(Discard(r)))))
    BY <1>7 DEF RejectIncoming
  <2> QED
    BY <2>1, <2>3, <2>4, RejectedExitBye, StateCallsNotHung, SetFollows DEF Follows
<1>8. CASE AcceptSession(s)
  <2> DEFINE a == SendAnswer(r, "session timer" \in Allowed)
  <2>1. NotHung(r)
    BY <1>1, <1>8 DEF AcceptSession, AtMostOne, AtRest, Ended
  <2>2. NotHung(a)
    BY <2>1, SipCallsNotHung, Zenon
  <2>3. Set(s, Processed(r, Become(a, "Answering", "EAnswering")))
    BY <1>8 DEF AcceptSession
  <2> HIDE DEF a
  <2>4. NotHung(Become(a, "Answering", "EAnswering"))
    BY <2>2, StateCallsNotHung
  <2> QED
    BY <2>1, <2>3, <2>4, StateCallsNotHung, SetFollows DEF Follows
<1>9. CASE RejectSession(s)
  <2>1. NotHung(r)
    BY <1>1, <1>9 DEF RejectSession, AtMostOne, AtRest, Ended
  <2>2. NotHung(StopMedia(Discard(r)))
    BY <2>1, SipCallsNotHung, MediaCallsNotHung
  <2>3. NotHung(Become(StopMedia(Discard(r)), "Terminated", "ETerminated"))
    BY <2>2, StateCallsNotHung
  <2> QED
    BY <1>9, <2>1, <2>3, StateCallsNotHung, SetFollows DEF RejectSession, Follows
<1>10. CASE UpdateSession(s)
  <2> DEFINE c == CreateBodyCandidate(r)
  <2>1. NotHung(r)
    BY <1>1, <1>10 DEF UpdateSession, AtMostOne, AtRest, Hung
  <2>2. NotHung(c)
    BY <2>1, MediaCallsNotHung
  <2>3. \/ Set(s, Processed(r, Become(SendInvite(c), "Offering", "EOffering")))
        \/ Set(s, Processed(r, Become(UpdateSucceed(c), "Established", "EEstablished")))
        \/ Set(s, Processed(r, Become(UpdateAsync(c), "ClientEstablishing", "EOffering")))
        \/ Set(s, MarkExit(r, c))
    BY <1>10 DEF UpdateSession, MediaResults, c
  <2> HIDE DEF c
  <2>4. NotHung(SendInvite(c)) /\ NotHung(UpdateSucceed(c)) /\ NotHung(UpdateAsync(c))
    BY <2>2, SipCallsNotHung, MediaCallsNotHung
  <2>5. /\ NotHung(Become(SendInvite(c), "Offering", "EOffering"))
        /\ NotHung(Become(UpdateSucceed(c), "Established", "EEstablished"))
        /\ NotHung(Become(UpdateAsync(c), "ClientEstablishing", "EOffering"))
    BY <2>4, StateCallsNotHung
  <2> QED
    BY <2>1, <2>2, <2>3, <2>5, StateCallsNotHung, SetFollows DEF Follows
<1>11. CASE TerminateSession(s)
  <2>1. NotHung(r)
    BY <1>1, <1>11 DEF TerminateSession, CanSendBYE, AtMostOne, AtRest, Hung
  <2>2. NotHung(StopMedia(SendBYE(r)))
    BY <2>1, SipCallsNotHung, MediaCallsNotHung
  <2>3. NotHung(Become(StopMedia(SendBYE(r)), "Terminating", "ETerminating"))
    BY <2>2, StateCallsNotHung
  <2> QED
    BY <1>11, <2>1, <2>3, StateCallsNotHung, SetFollows DEF TerminateSession, Follows
<1>12. CASE DeleteSession(s)
  BY <1>1, <1>12, DisposeBye, SetFollows DEF DeleteSession, AtMostOne, Follows
<1> QED
  BY <1>2, <1>3, <1>4, <1>5, <1>6, <1>7, <1>8, <1>9, <1>10, <1>11, <1>12 DEF ClientRequest

LEMMA ProvisionalBye ==
    ASSUME ByeInv, NEW s \in Session, Provisional(s) PROVE Stepped
<1> PICK code \in {"trying", "ringing", "progress"}, sdp \in BOOLEAN,
         result \in {"ready", "async", "fails", "bad"} :
       LET r == Proceeding(ses[s], code)
       IN  Incoming(s,
             CASE r.st = "Offering" /\ code # "trying" ->
                     OfferingProvisional(r, sdp, result)
               [] r.st = "Canceled" ->
                     Processed(r, IF r.cancel = "out" THEN r ELSE SendCancel(r))
               [] r.st \in Ended \cup {"Terminating"} -> Processed(r, r)
               [] OTHER -> IF code = "trying" THEN Processed(r, r)
                           ELSE HandleResponseError(r))
  BY ZenonT(60) DEF Provisional, MediaResults
<1> DEFINE r == Proceeding(ses[s], code)
<1>1. \/ r.st = "Offering" /\ Incoming(s, OfferingProvisional(r, sdp, result))
      \/ Incoming(s, Processed(r, r))
      \/ r.st = "Canceled" /\ Incoming(s, Processed(r, SendCancel(r)))
      \/ Incoming(s, HandleResponseError(r))
  BY SMTT(30) DEF Ended
<1>2. AtMostOne(ses[s])
  BY DEF ByeInv
<1>3. (NotHung(ses[s]) /\ NotHung(r)) \/ AtRest(r)
  BY <1>2 DEF AtMostOne, AtRest, Hung, NotHung, Fields, Proceeding
<1> HIDE DEF r
<1>4. CASE AtRest(r)
  <2>1. AtRest(HandleResponseError(r)) /\ AtRest(Processed(r, r))
    BY <1>4, HandleResponseErrorBye, ProcessedAtRest DEF AtRest
  <2>2. r.st # "Offering" /\ r.st # "Canceled"
    BY <1>4 DEF AtRest, Ended
  <2> QED
    BY <1>1, <2>1, <2>2, IncomingFollows DEF Follows
<1>5. CASE NotHung(ses[s]) /\ NotHung(r)
  <2>1. /\ NotHung(OfferingProvisional(r, sdp, result)) /\ NotHung(Processed(r, r))
        /\ NotHung(Processed(r, SendCancel(r))) /\ NotHung(HandleResponseError(r))
    BY <1>5, OfferingProvisionalBye, StateCallsNotHung, SipCallsNotHung,
       HandleResponseErrorBye
  <2> QED
    BY <1>1, <1>5, <2>1, IncomingFollows DEF Follows
<1> QED
  BY <1>3, <1>4, <1>5

LEMMA FinalBye ==
    ASSUME NEW r, NEW invite, NEW resp
    PROVE  /\ NotHung(r) => NotHung(Final(r, invite, resp))
           /\ AtRest(r) /\ resp # "2xx" => AtRest(Final(r, invite, resp))
BY DEF AtRest, Hung, NotHung, Fields, Final

LEMMA FinalResponseBye ==
    ASSUME ByeInv, NEW s \in Session, FinalResponse(s) PROVE Stepped
<1>1. AtMostOne(ses[s])
  BY DEF ByeInv
<1>2. CASE Answered(s)
  <2> DEFINE r == Final(ses[s], "accepted", "2xx")
  <2>1. NotHung(ses[s])
    BY <1>1, <1>2 DEF Answered, AtMostOne, AtRest, Hung
  <2>2. NotHung(r)
    BY <2>1, FinalBye
  <2>3. PICK sdp \in BOOLEAN, result \in {"ready", "async", "fails", "bad"} :
          \/ Incoming(s, Processed(r, r))
          \/ Incoming(s, OfferingAnswered(r, sdp, result, ReadyToAck(r, sdp)))
          \/ Incoming(s, SendACK(r))
          \/ Incoming(s, Processed(r, CanceledAnswered(r)))
          \/ Incoming(s, HandleResponseError(r))
    BY <1>2 DEF Answered, MediaResults
  <2> HIDE DEF r
  <2>4. /\ NotHung(Processed(r, r)) /\ NotHung(SendACK(r))
        /\ NotHung(OfferingAnswered(r, sdp, result, ReadyToAck(r, sdp)))
        /\ NotHung(CanceledAnswered(r)) /\ NotHung(HandleResponseError(r))
    BY <2>2, OfferingAnsweredBye, StateCallsNotHung, SipCallsNotHung, CanceledAnsweredBye,
       HandleResponseErrorBye
  <2> QED
    BY <2>1, <2>3, <2>4, StateCallsNotHung, IncomingFollows DEF Follows
<1>3. CASE Redirected(s)
  <2> DEFINE r == Final(ses[s], "done", "other")
  <2>1. PICK code :
          \/ r.st = "Offering" /\ Incoming(s, OfferingRedirected(r, code))
          \/ Incoming(s, Processed(r, r))
          \/ Incoming(s, HandleResponseError(r))
    BY <1>3 DEF Redirected
  <2>2. (NotHung(ses[s]) /\ NotHung(r)) \/ AtRest(r)
    BY <1>1, FinalBye DEF AtMostOne
  <2> HIDE DEF r
  <2>3. CASE AtRest(r)
    <3>1. r.st # "Offering"
      BY <2>3 DEF AtRest, Ended
    <3>2. AtRest(HandleResponseError(r)) /\ AtRest(Processed(r, r))
      BY <2>3, HandleResponseErrorBye, ProcessedAtRest DEF AtRest
    <3> QED
      BY <2>1, <3>1, <3>2, IncomingFollows DEF Follows
  <2>4. CASE NotHung(ses[s]) /\ NotHung(r)
    <3>1. /\ NotHung(OfferingRedirected(r, code)) /\ NotHung(Processed(r, r))
          /\ NotHung(HandleResponseError(r))
      BY <2>4, OfferingRedirectedBye, StateCallsNotHung, HandleResponseErrorBye
    <3> QED
      BY <2>1, <2>4, <3>1, IncomingFollows DEF Follows
  <2> QED
    BY <2>2, <2>3, <2>4
<1>4. CASE Refused(s)
  <2> DEFINE R(code) == Final(ses[s], "done", IF code = "491" THEN "491" ELSE "other")
  <2>1. PICK code :
          \/ R(code).st = "Offering" /\ Incoming(s, OfferingRefused(R(code), code))
          \/ Incoming(s, Processed(R(code), CanceledExit(R(code))))
          \/ Incoming(s, Processed(R(code), R(code)))
          \/ Incoming(s, HandleResponseError(R(code)))
    BY <1>4 DEF Refused
  <2> DEFINE r == R(code)
  <2>2. (NotHung(ses[s]) /\ NotHung(r)) \/ AtRest(r)
    BY <1>1, FinalBye DEF AtMostOne
  <2>3. \/ r.st = "Offering" /\ Incoming(s, OfferingRefused(r, code))
        \/ Incoming(s, Processed(r, CanceledExit(r)))
        \/ Incoming(s, Processed(r, r))
        \/ Incoming(s, HandleResponseError(r))
    BY <2>1
  <2> HIDE DEF r
  <2>4. CASE AtRest(r)
    <3>1. r.st # "Offering"
      BY <2>4 DEF AtRest, Ended
    <3>2. /\ AtRest(HandleResponseError(r)) /\ AtRest(Processed(r, r))
          /\ AtRest(Processed(r, CanceledExit(r)))
      BY <2>4, HandleResponseErrorBye, CanceledExitBye, ProcessedAtRest DEF AtRest
    <3> QED
      BY <2>3, <3>1, <3>2, IncomingFollows DEF Follows
  <2>5. CASE NotHung(ses[s]) /\ NotHung(r)
    <3>1. /\ NotHung(OfferingRefused(r, code)) /\ NotHung(Processed(r, r))
          /\ NotHung(HandleResponseError(r)) /\ NotHung(CanceledExit(r))
      BY <2>5, OfferingRefusedBye, StateCallsNotHung, HandleResponseErrorBye, CanceledExitBye
    <3> QED
      BY <2>3, <2>5, <3>1, StateCallsNotHung, IncomingFollows DEF Follows
  <2> QED
    BY <2>2, <2>4, <2>5
<1>5. CASE InviteTimesOut(s)
  <2> DEFINE r == Final(ses[s], "done", "other")
  <2>1. Incoming(s, ErrorOccured(r, FALSE))
    BY <1>5 DEF InviteTimesOut
  <2>2. (NotHung(ses[s]) /\ NotHung(r)) \/ AtRest(r)
    BY <1>1, FinalBye DEF AtMostOne
  <2> HIDE DEF r
  <2> QED
    BY <2>1, <2>2, ErrorOccuredBye, IncomingFollows DEF Follows, AtRest
<1> QED
  BY <1>2, <1>3, <1>4, <1>5 DEF FinalResponse

LEMMA CancelEndsBye ==
    ASSUME ByeInv, NEW s \in Session, CancelEnds(s) PROVE Stepped
<1> DEFINE r == [ses[s] EXCEPT !.cancel = "done", !.resp = "other"]
<1>1. (NotHung(ses[s]) /\ NotHung(r)) \/ AtRest(r)
  BY DEF ByeInv, AtMostOne, AtRest, Hung, NotHung, Fields
<1>2. \/ Incoming(s, Processed(r, CanceledExit(r)))
      \/ Incoming(s, Processed(r, r))
      \/ Incoming(s, HandleResponseError(r))
      \/ Incoming(s, ErrorOccured(r, FALSE))
  BY DEF CancelEnds, CancelAnswered, CancelTimesOut
<1> HIDE DEF r
<1>3. CASE AtRest(r)
  <2>1. /\ AtRest(Processed(r, CanceledExit(r))) /\ AtRest(Processed(r, r))
        /\ AtRest(HandleResponseError(r)) /\ AtRest(ErrorOccured(r, FALSE))
    BY <1>3, CanceledExitBye, ProcessedAtRest, HandleResponseErrorBye, ErrorOccuredBye
       DEF AtRest
  <2> QED
    BY <1>2, <2>1, IncomingFollows DEF Follows
<1>4. CASE NotHung(ses[s]) /\ NotHung(r)
  <2>1. /\ NotHung(Processed(r, CanceledExit(r))) /\ NotHung(Processed(r, r))
        /\ NotHung(HandleResponseError(r)) /\ NotHung(ErrorOccured(r, FALSE))
    BY <1>4, CanceledExitBye, StateCallsNotHung, HandleResponseErrorBye, ErrorOccuredBye
  <2> QED
    BY <1>2, <1>4, <2>1, IncomingFollows DEF Follows
<1> QED
  BY <1>1, <1>3, <1>4

\* The only steps that end a BYE: wherever they find the session, they leave it
\* at rest.
LEMMA ByeEndsBye ==
    ASSUME ByeInv, NEW s \in Session, ByeEnds(s) PROVE Stepped
<1> DEFINE r == [ses[s] EXCEPT !.bye = "done", !.dialog = "terminated", !.resp = "other"]
<1>1. Hung(r)
  <2>1. Fields(ses[s])
    BY DataFields DEF ByeInv, SesOK
  <2>2. ses[s].owner # "free"
    BY DEF ByeEnds, ByeAnswered, ByeTimesOut, Live
  <2> QED
    BY <2>1, <2>2 DEF Hung, Fields
<1>2. \/ Incoming(s, Processed(r, Become(r, "Terminated", "ETerminated")))
      \/ Incoming(s, Processed(r, CanceledExit(r)))
      \/ r.st \in Ended \cup {"Established"} /\ Incoming(s, Processed(r, r))
      \/ Incoming(s, HandleResponseError(r))
      \/ Incoming(s, ErrorOccured(r, FALSE))
  BY DEF ByeEnds, ByeAnswered, ByeTimesOut
<1> HIDE DEF r
<1>3. /\ AtRest(Processed(r, Become(r, "Terminated", "ETerminated")))
      /\ AtRest(Processed(r, CanceledExit(r)))
      /\ AtRest(HandleResponseError(r)) /\ AtRest(ErrorOccured(r, FALSE))
  BY <1>1, BecomeAtRest, CanceledExitBye, ProcessedAtRest, HandleResponseErrorBye,
     ErrorOccuredBye DEF Ended
<1>4. r.st \in Ended \cup {"Established"} => AtRest(Processed(r, r))
  BY <1>1, ProcessedAtRest DEF AtRest
<1> QED
  BY <1>2, <1>3, <1>4, IncomingFollows DEF Follows

LEMMA AckEndsBye ==
    ASSUME ByeInv, NEW s \in Session, AckEnds(s) PROVE Stepped
<1>1. AtMostOne(ses[s])
  BY DEF ByeInv
<1>2. CASE AckReceived(s)
  <2>1. NotHung(ses[s])
    BY <1>1, <1>2 DEF AckReceived, AtMostOne, AtRest, Ended
  <2>2. NotHung(Become(ses[s], "Established", "EEstablished"))
    BY <2>1, StateCallsNotHung
  <2> QED
    BY <1>2, <2>1, <2>2, StateCallsNotHung, IncomingFollows DEF AckReceived, Follows
<1>3. CASE NoAckReceived(s)
  <2> DEFINE r == [ses[s] EXCEPT !.request = "none"]
  <2>1. (NotHung(ses[s]) /\ NotHung(r)) \/ AtRest(r)
    BY <1>1 DEF AtMostOne, AtRest, Hung, NotHung, Fields
  <2>2. Incoming(s, ErrorOccured(r, TRUE))
    BY <1>3 DEF NoAckReceived
  <2> HIDE DEF r
  <2> QED
    BY <2>1, <2>2, ErrorOccuredBye, IncomingFollows DEF Follows, AtRest
<1> QED
  BY <1>2, <1>3 DEF AckEnds

LEMMA ReInviteReceivedBye ==
    ASSUME ByeInv, NEW s \in Session, ReInviteReceived(s) PROVE Stepped
<1> DEFINE a == IF ses[s].st = "Answering"
                THEN Processed(ses[s], Become(ses[s], "Established", "EEstablished"))
                ELSE ses[s]
           r == [a EXCEPT !.request = "open"]
           c == CreateBodyCandidate(r)
           f == [r EXCEPT !.sub = "Refreshing"]
           u == SendAnswer(f, FALSE)
<1>1. \/ Incoming(s, Processed(r, Become(u, "Answering", "EAnswering")))
      \/ Incoming(s, HandleRequestError(MarkExit(r, r)))
      \/ Incoming(s, Processed(r, Become(c, "ServerEstablishing", "EIncoming")))
      \/ Incoming(s, Processed(r, Discard(UpdateFailed(c))))
      \/ Incoming(s, HandleRequestError(MarkExit(r, UpdateFailed(c))))
  BY DEF ReInviteReceived
<1>2. NotHung(ses[s])
  BY DEF ReInviteReceived, ByeInv, AtMostOne, AtRest, Hung
<1>3. NotHung(a)
  BY <1>2, StateCallsNotHung
<1> HIDE DEF a
<1>4. NotHung(r)
  BY <1>3 DEF NotHung, Fields
<1> HIDE DEF r
<1>5. NotHung(f)
  BY <1>4 DEF NotHung, Fields
<1> HIDE DEF f
<1>6. NotHung(c) /\ NotHung(u)
  BY <1>4, <1>5, MediaCallsNotHung, SipCallsNotHung
<1> HIDE DEF c, u
<1>7. NotHung(UpdateFailed(c))
  BY <1>6, MediaCallsNotHung
<1>8. /\ NotHung(Become(u, "Answering", "EAnswering"))
      /\ NotHung(Become(c, "ServerEstablishing", "EIncoming"))
      /\ NotHung(Discard(UpdateFailed(c)))
      /\ NotHung(MarkExit(r, r)) /\ NotHung(MarkExit(r, UpdateFailed(c)))
  BY <1>4, <1>6, <1>7, StateCallsNotHung, SipCallsNotHung
<1> QED
  BY <1>1, <1>2, <1>8, StateCallsNotHung, HandleRequestErrorBye, IncomingFollows DEF Follows

LEMMA PeerRequestBye ==
    ASSUME ByeInv, NEW s \in Session, PeerRequest(s) PROVE Stepped
<1>1. AtMostOne(ses[s])
  BY DEF ByeInv
<1>2. CASE IncomingSession(s)
  <2> DEFINE m == [NewInSession EXCEPT !.media = "open"]
  <2>1. NotHung(ses[s])
    BY <1>1, <1>2 DEF IncomingSession, AtMostOne, AtRest, Hung
  <2>2. NotHung(m)
    BY DEF NewInSession, NewOutSession, NotHung, Fields
  <2>3. Incoming(s, Processed(NewInSession, Become(m, "ServerEstablishing", "EIncoming")))
    BY <1>2 DEF IncomingSession
  <2> HIDE DEF m
  <2>4. NotHung(Become(m, "ServerEstablishing", "EIncoming"))
    BY <2>2, StateCallsNotHung
  <2> QED
    BY <2>1, <2>3, <2>4, StateCallsNotHung, IncomingFollows DEF Follows
<1>3. CASE ReInviteReceived(s)
  BY <1>3, ReInviteReceivedBye
<1>4. CASE ByeReceived(s)
  <2> DEFINE r == Send200OK(ses[s])
  <2>1. \/ Incoming(s, OfferingExit(r, StopMedia(r), "Terminated", "ETerminated", readyToAck))
        \/ Incoming(s, Processed(r, Become(StopMedia(r), "Terminated", "ETerminated")))
        \/ Incoming(s, Processed(r, CanceledExit(r)))
    BY <1>4 DEF ByeReceived
  <2>2. NotHung(ses[s])
    BY <1>1, <1>4 DEF ByeReceived, AtMostOne, AtRest, Hung
  <2>3. NotHung(r)
    BY <2>2, SipCallsNotHung
  <2> HIDE DEF r
  <2>4. NotHung(StopMedia(r)) /\ NotHung(CanceledExit(r))
    BY <2>3, MediaCallsNotHung, CanceledExitBye
  <2>5. NotHung(Become(StopMedia(r), "Terminated", "ETerminated"))
    BY <2>4, StateCallsNotHung
  <2> QED
    BY <2>1, <2>2, <2>4, <2>5, OfferingExitBye, StateCallsNotHung, IncomingFollows DEF Follows
<1>5. CASE InviteCanceled(s)
  <2> DEFINE r == Discard(ses[s])
             u == UpdateFailed(StopUpdatingMedia(r))
             m == StopMedia(r)
  <2>1. \/ Set(s, Become(u, "Established", "EEstablished"))
        \/ Set(s, Become(m, "Terminated", "ETerminated"))
    BY <1>5 DEF InviteCanceled
  <2>2. (NotHung(ses[s]) /\ NotHung(r)) \/ Hung(r)
    BY <1>1, SipCallsNotHung, CallsHung DEF AtMostOne, AtRest
  <2> HIDE DEF r
  <2>3. (NotHung(ses[s]) /\ NotHung(u) /\ NotHung(m)) \/ (Hung(u) /\ Hung(m))
    BY <2>2, MediaCallsNotHung, CallsHung
  <2> HIDE DEF u, m
  <2>4. CASE Hung(u) /\ Hung(m)
    BY <2>1, <2>4, BecomeAtRest, SetFollows DEF Follows, Ended
  <2>5. CASE NotHung(ses[s]) /\ NotHung(u) /\ NotHung(m)
    BY <2>1, <2>5, StateCallsNotHung, SetFollows DEF Follows
  <2> QED
    BY <2>3, <2>4, <2>5
<1> QED
  BY <1>2, <1>3, <1>4, <1>5 DEF PeerRequest

LEMMA MediaUpdatedBye ==
    ASSUME ByeInv, NEW s \in Session, MediaUpdated(s) PROVE Stepped
<1> DEFINE r == [ses[s] EXCEPT !.busy = FALSE, !.waiting = FALSE]
           u == SendAnswer(UpdateSucceed(r), FALSE)
<1>1. (NotHung(ses[s]) /\ NotHung(r)) \/ AtRest(r)
  BY DEF ByeInv, AtMostOne, AtRest, Hung, NotHung, Fields
<1>2. \/ /\ r.st \in {"ClientEstablishing", "Offering", "Updating"}
         /\ \/ Set(s, Processed(r, StateChanged(SendInvite(r), "Offering")))
            \/ Set(s, OfferingMediaUpdated(r))
            \/ Set(s, Processed(r, Become(u, "Answering", "EProceeding")))
            \/ Set(s, Processed(r, Become(r, "Updated", "EProceeding")))
      \/ Set(s, Processed(r, r))
      \/ Set(s, Become(StopMedia(r), "Error", "ETerminated"))
  BY DEF MediaUpdated
<1> HIDE DEF r
<1>3. CASE AtRest(r)
  <2>1. r.st \notin {"ClientEstablishing", "Offering", "Updating"}
    BY <1>3 DEF AtRest, Ended
  <2>2. Hung(StopMedia(r))
    BY <1>3, CallsHung DEF AtRest
  <2>3. AtRest(Processed(r, r)) /\ AtRest(Become(StopMedia(r), "Error", "ETerminated"))
    BY <1>3, <2>2, ProcessedAtRest, BecomeAtRest DEF Ended
  <2> QED
    BY <1>2, <2>1, <2>3, SetFollows DEF Follows
<1>4. CASE NotHung(ses[s]) /\ NotHung(r)
  <2>1. NotHung(SendInvite(r)) /\ NotHung(UpdateSucceed(r)) /\ NotHung(StopMedia(r))
    BY <1>4, SipCallsNotHung, MediaCallsNotHung
  <2>2. NotHung(u)
    BY <2>1, SipCallsNotHung
  <2> HIDE DEF u
  <2>3. /\ NotHung(StateChanged(SendInvite(r), "Offering"))
        /\ NotHung(Become(u, "Answering", "EProceeding"))
        /\ NotHung(Become(r, "Updated", "EProceeding"))
        /\ NotHung(Become(StopMedia(r), "Error", "ETerminated"))
        /\ NotHung(OfferingMediaUpdated(r))
    BY <1>4, <2>1, <2>2, StateCallsNotHung, OfferingMediaUpdatedBye
  <2> QED
    BY <1>2, <1>4, <2>3, StateCallsNotHung, SetFollows DEF Follows
<1> QED
  BY <1>1, <1>3, <1>4

LEMMA TimerExpiredBye ==
    ASSUME ByeInv, NEW s \in Session, TimerExpired(s) PROVE Stepped
<1> DEFINE r == [ses[s] EXCEPT !.timer = FALSE]
           b == StopMedia(SendBYE(r))
<1>1. (NotHung(ses[s]) /\ NotHung(r)) \/ AtRest(r)
  BY DEF ByeInv, AtMostOne, AtRest, Hung, NotHung, Fields
<1>2. \/ /\ r.dialog = "confirmed"
         /\ Set(s, Processed(r, Become(SendSessionRefresh(r), "Offering", "EOffering")))
      \/ /\ CanSendBYE(r)
         /\ Set(s, Processed(r, Become(b, "Terminating", "ETerminating")))
      \/ Set(s, Processed(r, CanceledExit(r)))
      \/ Set(s, Processed(r, r))
      \/ Set(s, ClientErrorOccured(r))
      \/ Set(s, ClientErrorOccured(StateChanged(r, "Terminated")))
  BY DEF TimerExpired
<1> HIDE DEF r
<1>3. CASE AtRest(r)
  <2>1. r.dialog # "confirmed" /\ ~CanSendBYE(r)
    BY <1>3 DEF AtRest, Hung, CanSendBYE
  <2>2. /\ AtRest(Processed(r, CanceledExit(r))) /\ AtRest(Processed(r, r))
        /\ AtRest(ClientErrorOccured(StateChanged(r, "Terminated")))
    BY <1>3, CanceledExitBye, ProcessedAtRest, BecomeAtRest
       DEF AtRest, Ended, Become, ClientErrorOccured
  <2>3. AtRest(ClientErrorOccured(r))
    BY <1>3 DEF AtRest, Hung, Fields, ClientErrorOccured, ClientStateChanged
  <2> QED
    BY <1>2, <2>1, <2>2, <2>3, SetFollows DEF Follows
<1>4. CASE NotHung(ses[s]) /\ NotHung(r)
  <2>1. NotHung(SendBYE(r)) /\ NotHung(SendSessionRefresh(r)) /\ NotHung(CanceledExit(r))
    BY <1>4, SipCallsNotHung, CanceledExitBye
  <2>2. NotHung(b)
    BY <2>1, MediaCallsNotHung
  <2> HIDE DEF b
  <2>3. /\ NotHung(Become(SendSessionRefresh(r), "Offering", "EOffering"))
        /\ NotHung(Become(b, "Terminating", "ETerminating"))
        /\ NotHung(ClientErrorOccured(r))
        /\ NotHung(ClientErrorOccured(StateChanged(r, "Terminated")))
    BY <1>4, <2>1, <2>2, StateCallsNotHung DEF ClientErrorOccured
  <2> QED
    BY <1>2, <1>4, <2>1, <2>3, StateCallsNotHung, SetFollows DEF Follows
<1> QED
  BY <1>1, <1>3, <1>4

LEMMA InviteCompletedBye ==
    ASSUME ByeInv, NEW s \in Session, InviteCompleted(s) PROVE Stepped
<1> DEFINE r == [ses[s] EXCEPT !.initial = "removed"]
<1>1. (NotHung(ses[s]) /\ NotHung(r)) \/ AtRest(r)
  BY DEF ByeInv, AtMostOne, AtRest, Hung, NotHung, Fields
<1>2. Set(s, r)
  BY DEF InviteCompleted
<1> HIDE DEF r
<1> QED
  BY <1>1, <1>2, SetFollows DEF Follows

LEMMA NextBye == ByeInv /\ [Next]_vars => Stepped
<1> SUFFICES ASSUME ByeInv, [Next]_vars PROVE Stepped
  OBVIOUS
<1>1. CASE UNCHANGED vars
  BY <1>1 DEF vars, ByeInv, AtMostOne, Stepped, Follows
<1>2. CASE Next
  BY <1>2, ClientRequestStep, ProvisionalBye, FinalResponseBye, CancelEndsBye, ByeEndsBye,
     AckEndsBye, PeerRequestBye, InviteCompletedBye, MediaUpdatedBye, TimerExpiredBye
  DEF Next
<1> QED
  BY <1>1, <1>2

\* A BYE that has been answered, or has timed out, is never sent again, whatever the
\* peer, the network and the media do and however many sessions share the state
\* objects: each path to SendByeL tests the dialog, or comes from a state that a
\* session whose BYE is done does not reach.
THEOREM HangsUpOnce == Spec => OneBye
<1>1. Init => \A s \in Session : AtMostOne(ses[s])
  BY DEF Init, Free, NewOutSession, AtMostOne, NotHung, Fields
<1>2. Stepped => \A s \in Session : AtMostOne(ses'[s])
  BY DEF Stepped, Follows, AtMostOne
<1>3. Stepped => \A s \in Session : ses[s].bye = "done" => ses'[s].bye = "done"
  BY DEF Stepped, Follows, NotHung, AtRest, Hung
<1> DEFINE Always == Inv /\ \A s \in Session : AtMostOne(ses[s])
<1>4. Init => Always
  BY <1>1, InitInv
<1>5. Always => ByeInv
  BY DEF Inv, ByeInv
<1>6. Always /\ [Next]_vars => Always'
  BY <1>2, <1>5, NextInv, NextBye
<1>7. Always /\ [Next]_vars =>
         [\A s \in Session : ses[s].bye = "done" => ses'[s].bye = "done"]_vars
  BY <1>3, <1>5, NextBye
<1> QED
  BY <1>4, <1>6, <1>7, PTL DEF Spec, OneBye
=============================================================================
