----------------------- MODULE MceSessionMedia_proof ------------------------
(***************************************************************************)
(* Proof that a session that is ending holds no media session.  Media that *)
(* are closed stay closed, so that all there is to show is what a session  *)
(* with open media may look like (Open): wherever it can go from there, a  *)
(* state that ends it is entered after StopMedia.                          *)
(***************************************************************************)
EXTENDS MceSession_proof

\* The fields the argument is about, of a session that has begun
Used(r) ==
    /\ {"media", "st", "sub", "resp", "dialog", "bye", "exit"} \subseteq DOMAIN r
    /\ r.st # "Idle"

Closed(r) == Used(r) /\ r.media # "open"

\* A session with open media.  An update, and an established session, have a
\* confirmed dialog: when that ends, so do the media.
Open(r) ==
    /\ r.st \notin {"Terminating", "Error"}
    /\ r.st = "Terminated" => r.sub = "Answering"
    /\ r.st = "Canceled" => r.sub \in {"Updating", "Refreshing"}
    /\ r.st = "ServerEstablishing" => r.sub \in {"Answering", "Updating"}
    /\ r.st \in {"ClientEstablishing", "Offering"} =>
          r.sub \in {"Offering", "Updating", "Refreshing"}
    /\ \/ r.st \in {"Answering", "Established"}
       \/ r.sub \in {"Updating", "Refreshing"}
       \/ r.resp = "2xx"
       => r.dialog = "confirmed"
    /\ r.bye = "none"

\* What handlers make of a session, before the state it left is marked ...
Tidy(r) == Used(r) /\ (r.media = "open" => Open(r))

\* ... when they do not end it with open media, ...
Fresh(r) == Tidy(r) /\ (r.media = "open" => r.st # "Terminated")

\* ... and between two handlers.
Sound(r) == Tidy(r) /\ (r.media = "open" /\ r.st = "Terminated" => ~r.exit)

-----------------------------------------------------------------------------
(* Calls *)

\* A call that neither opens media nor changes the state
Keeping(r, n) == Tidy(n) /\ n.st = r.st /\ (n.media = "open" => r.media = "open")

LEMMA KeepingFresh ==
    ASSUME NEW r, NEW n, Fresh(r), Keeping(r, n) PROVE Fresh(n)
BY DEF Keeping, Fresh

LEMMA CallsTidy ==
    ASSUME NEW r, Tidy(r), NEW state
    PROVE  /\ Keeping(r, UpdateAsync(r)) /\ Keeping(r, UpdateFailed(r))
           /\ Keeping(r, StopUpdatingMedia(r)) /\ Keeping(r, UpdateSucceed(r))
           /\ Keeping(r, SendInvite(r)) /\ Keeping(r, SendACK(r))
           /\ Keeping(r, SendCancel(r)) /\ Keeping(r, Discard(r))
           /\ Keeping(r, ClientStateChanged(r, state))
<1>1. /\ Keeping(r, UpdateAsync(r)) /\ Keeping(r, UpdateFailed(r))
      /\ Keeping(r, StopUpdatingMedia(r)) /\ Keeping(r, UpdateSucceed(r))
  BY DEF Keeping, Tidy, Used, Open, UpdateAsync, UpdateFailed, StopUpdatingMedia,
         UpdateSucceed
<1>2. /\ Keeping(r, SendInvite(r)) /\ Keeping(r, SendACK(r)) /\ Keeping(r, SendCancel(r))
  BY DEF Keeping, Tidy, Used, Open, SendInvite, SendACK, SendCancel
<1>3. Keeping(r, Discard(r)) /\ Keeping(r, ClientStateChanged(r, state))
  BY DEF Keeping, Tidy, Used, Open, Discard, ClientStateChanged
<1> QED
  BY <1>1, <1>2, <1>3

LEMMA StopMediaCloses == ASSUME NEW r, Used(r) PROVE Closed(StopMedia(r))
BY DEF Closed, Used, StopMedia

LEMMA CallsClosed ==
    ASSUME NEW r, Closed(r), NEW next, next # "Idle", NEW state
    PROVE  /\ Fresh(r)
           /\ Closed(StateChanged(r, next)) /\ Closed(Become(r, next, state))
           /\ Closed(SendBYE(r)) /\ Closed(SendCancel(r)) /\ Closed(Discard(r))
<1>1. Fresh(r)
  BY DEF Closed, Fresh, Tidy
<1>2. /\ Closed(StateChanged(r, next)) /\ Closed(SendBYE(r)) /\ Closed(SendCancel(r))
      /\ Closed(Discard(r))
  BY DEF Closed, Used, StateChanged, SendBYE, SendCancel, Discard
<1>3. Closed(Become(r, next, state))
  BY DEF Closed, Used, StateChanged, ClientStateChanged, Become
<1> QED
  BY <1>1, <1>2, <1>3

LEMMA EndsFresh ==
    ASSUME NEW r, Closed(r)
    PROVE  /\ Fresh(Become(r, "Terminating", "ETerminating"))
           /\ Fresh(Become(r, "Terminated", "ETerminated"))
           /\ Fresh(Become(r, "Error", "ETerminated"))
           /\ Fresh(Become(r, "Canceled", "ECancelling"))
           /\ Fresh(Become(r, "Established", "EEstablished"))
<1>1. \A next, state : next # "Idle" => Fresh(Become(r, next, state))
  BY CallsClosed
<1> QED
  BY <1>1

\* The states a session with open media is taken to
LEMMA BecomeFresh ==
    ASSUME NEW r, Tidy(r), NEW next, next # "Idle", NEW state,
           r.media = "open" =>
              \/ next \in {"Answering", "Established"} /\ r.dialog = "confirmed"
              \/ next = "Canceled" /\ r.sub \in {"Updating", "Refreshing"}
              \/ next \in {"Updating", "Updated"}
              \/ next = "ServerEstablishing" /\ r.sub \in {"Answering", "Updating"}
              \/ /\ next \in {"ClientEstablishing", "Offering"}
                 /\ r.sub \in {"Offering", "Updating", "Refreshing"}
    PROVE  Fresh(Become(r, next, state))
BY DEF Fresh, Tidy, Used, Open, Become, StateChanged, ClientStateChanged

LEMMA AnswerTidy ==
    ASSUME NEW r, Tidy(r), NEW timer
    PROVE  LET a == SendAnswer(r, timer)
           IN  /\ Tidy(a) /\ a.dialog = "confirmed" /\ a.st = r.st /\ a.sub = r.sub
               /\ Fresh(Become(a, "Answering", "EAnswering"))
               /\ Fresh(Become(a, "Answering", "EProceeding"))
<1> DEFINE Like(n) == Tidy(n) /\ n.dialog = "confirmed" /\ n.st = r.st /\ n.sub = r.sub
<1>1. \A v : Like([r EXCEPT !.request = "accepted", !.dialog = "confirmed", !.timer = v])
  BY DEF Tidy, Used, Open
<1>2. Like(SendAnswer(r, timer))
  BY <1>1, Zenon DEF SendAnswer
<1> QED
  BY <1>2, BecomeFresh

LEMMA MarkExitFresh ==
    ASSUME NEW q, NEW n, Fresh(n) PROVE Fresh(MarkExit(q, n))
<1>1. \A e : Fresh([n EXCEPT !.exit = e])
  BY DEF Fresh, Tidy, Used, Open
<1> QED
  BY <1>1, Zenon DEF MarkExit

LEMMA ProcessedUsed ==
    ASSUME NEW q, NEW n, Used(n)
    PROVE  LET p == Processed(q, n)
           IN  /\ Used(p)
               /\ p.media = n.media /\ p.st = n.st /\ p.resp = n.resp
               /\ p.dialog = n.dialog /\ p.bye = n.bye
               /\ n.st # "Established" => p.sub = n.sub
               /\ p.exit = (q.st \in {"Established", "Answering"})
<1> DEFINE Same(m) == /\ Used(m)
                      /\ m.media = n.media /\ m.st = n.st /\ m.resp = n.resp
                      /\ m.dialog = n.dialog /\ m.bye = n.bye
                      /\ n.st # "Established" => m.sub = n.sub
<1>1. \A e : Same([n EXCEPT !.exit = e]) /\ [n EXCEPT !.exit = e].exit = e
  BY DEF Used
<1>2. Same(MarkExit(q, n)) /\ MarkExit(q, n).exit = (q.st \in {"Established", "Answering"})
  <2> DEFINE b == q.st \in {"Established", "Answering"}
  <2>1. MarkExit(q, n) = [n EXCEPT !.exit = b]
    BY Zenon DEF MarkExit
  <2> HIDE DEF b, Same
  <2>2. Same([n EXCEPT !.exit = b]) /\ [n EXCEPT !.exit = b].exit = b
    BY <1>1
  <2>3. Same(MarkExit(q, n)) /\ MarkExit(q, n).exit = b
    BY <2>1, <2>2
  <2> QED
    BY <2>3 DEF b
<1>3. ASSUME NEW m, Same(m) PROVE Same(StateEntry(m)) /\ StateEntry(m).exit = m.exit
  BY <1>3 DEF StateEntry, Used
<1> HIDE DEF Same
<1>4. Same(Processed(q, n)) /\ Processed(q, n).exit = (q.st \in {"Established", "Answering"})
  BY <1>2, <1>3, Zenon DEF Processed
<1> QED
  BY <1>4 DEF Same

LEMMA ProcessedSound ==
    ASSUME NEW q, NEW n, Tidy(n),
           \/ n.media # "open" \/ n.st # "Terminated"
           \/ q.st \notin {"Established", "Answering"}
    PROVE  Sound(Processed(q, n))
<1> DEFINE p == Processed(q, n)
<1>1. /\ Used(p)
      /\ p.media = n.media /\ p.st = n.st /\ p.resp = n.resp
      /\ p.dialog = n.dialog /\ p.bye = n.bye
      /\ n.st # "Established" => p.sub = n.sub
      /\ p.exit = (q.st \in {"Established", "Answering"})
  BY ProcessedUsed DEF Tidy
<1> HIDE DEF p
<1>2. Tidy(p)
  BY <1>1 DEF Tidy, Open
<1>3. p.media = "open" /\ p.st = "Terminated" => ~p.exit
  BY <1>1
<1> QED
  BY <1>2, <1>3 DEF Sound, p

LEMMA FreshSound ==
    ASSUME NEW n, Fresh(n), NEW q PROVE Sound(n) /\ Sound(Processed(q, n))
BY ProcessedSound DEF Fresh, Sound

LEMMA ProcessedSelf == ASSUME NEW r, Tidy(r) PROVE Sound(Processed(r, r))
BY ProcessedSound

-----------------------------------------------------------------------------
(* Handlers *)

LEMMA HandleResponseErrorFresh ==
    ASSUME NEW r, Tidy(r) PROVE Fresh(HandleResponseError(r))
<1> DEFINE x == IF r.st = "Offering" THEN MarkExit(r, r) ELSE r
           m == StopMedia(x)
           u == UpdateFailed(StopUpdatingMedia(x))
<1>1. \/ /\ r.sub = "Updating"
         /\ HandleResponseError(r) = Become(u, "Established", "EEstablished")
      \/ HandleResponseError(r) = Become(SendBYE(m), "Terminating", "ETerminating")
      \/ HandleResponseError(r) = Become(SendCancel(m), "Canceled", "ECancelling")
      \/ HandleResponseError(r) = Become(m, "Error", "ETerminated")
      \/ HandleResponseError(r) = Become(m, "Terminated", "ETerminated")
      \/ HandleResponseError(r) = m
  BY DEF HandleResponseError, x, m, u
<1>2. Tidy(x) /\ x.media = r.media /\ x.dialog = r.dialog
  <2>1. \A e : LET y == [r EXCEPT !.exit = e]
               IN  Tidy(y) /\ y.media = r.media /\ y.dialog = r.dialog
    BY DEF Tidy, Used, Open
  <2> QED
    BY <2>1, Zenon DEF MarkExit
<1> HIDE DEF x
<1>3. Closed(m)
  BY <1>2, StopMediaCloses DEF Tidy
<1> HIDE DEF m
<1>4. r.sub = "Updating" => Fresh(Become(u, "Established", "EEstablished"))
  <2>1. Tidy(StopUpdatingMedia(x))
    BY <1>2, CallsTidy DEF Keeping
  <2>2. Tidy(u)
    BY <2>1, CallsTidy DEF Keeping
  <2>3. u.media = r.media /\ u.dialog = r.dialog
    BY <1>2 DEF Tidy, Used, UpdateFailed, StopUpdatingMedia
  <2> HIDE DEF u
  <2>4. r.sub = "Updating" /\ u.media = "open" => u.dialog = "confirmed"
    BY <2>3 DEF Tidy, Open
  <2> QED
    BY <2>2, <2>4, BecomeFresh
<1>5. Closed(SendBYE(m)) /\ Closed(SendCancel(m))
  BY <1>3, CallsClosed
<1>6. Fresh(m)
  BY <1>3, CallsClosed
<1> QED
  BY <1>1, <1>3, <1>4, <1>5, <1>6, EndsFresh

LEMMA HandleRequestErrorFresh ==
    ASSUME NEW r, Used(r) PROVE Fresh(HandleRequestError(r))
<1>1. Closed(Discard(StopMedia(r)))
  BY StopMediaCloses, CallsClosed
<1>2. Closed(SendBYE(Discard(StopMedia(r))))
  BY <1>1, CallsClosed
<1> QED
  BY <1>1, <1>2, CallsClosed DEF HandleRequestError

LEMMA ErrorOccuredFresh ==
    ASSUME NEW r, Tidy(r), NEW noAck PROVE Fresh(ErrorOccured(r, noAck))
<1> DEFINE m == StopMedia(r)
<1>1. \/ /\ r.st = "Terminating"
         /\ ErrorOccured(r, noAck) = Become(r, "Terminated", "ETerminated")
      \/ ErrorOccured(r, noAck) = Become(SendBYE(m), "Terminating", "ETerminating")
      \/ ErrorOccured(r, noAck) = Become(SendCancel(m), "Canceled", "ECancelling")
      \/ ErrorOccured(r, noAck) = Become(m, "Terminated", "ETerminated")
      \/ ErrorOccured(r, noAck) = Become(m, "Error", "ETerminated")
  BY DEF ErrorOccured, ByeLost, m
<1>2. r.st = "Terminating" => Closed(r)
  BY DEF Tidy, Open, Closed
<1>3. Closed(m)
  BY StopMediaCloses DEF Tidy
<1> HIDE DEF m
<1>4. Closed(SendBYE(m)) /\ Closed(SendCancel(m))
  BY <1>3, CallsClosed
<1> QED
  BY <1>1, <1>2, <1>3, <1>4, EndsFresh

LEMMA CanceledExitFresh ==
    ASSUME NEW r, Tidy(r), r.st = "Canceled" PROVE Fresh(CanceledExit(r))
<1>1. CASE r.media = "open"
  BY <1>1, BecomeFresh DEF CanceledExit, Tidy, Open
<1>2. CASE r.media # "open"
  <2>1. Closed(r)
    BY <1>2 DEF Tidy, Closed
  <2> QED
    BY <2>1, CallsClosed DEF CanceledExit
<1> QED
  BY <1>1, <1>2

LEMMA CanceledAnsweredFresh ==
    ASSUME NEW r, Tidy(r), r.st = "Canceled", r.dialog = "confirmed"
    PROVE  Fresh(CanceledAnswered(r))
<1> DEFINE a == SendACK(r)
<1>1. Tidy(a) /\ a.dialog = "confirmed" /\ (a.media = "open" => r.media = "open")
  BY CallsTidy DEF Keeping, SendACK, Tidy, Used
<1>2. CASE r.sub = "Offering"
  <2>1. r.media # "open"
    BY <1>2 DEF Tidy, Open
  <2>2. Closed(a)
    BY <1>1, <2>1 DEF Tidy, Closed
  <2> HIDE DEF a
  <2>3. Closed(SendBYE(a))
    BY <2>2, CallsClosed
  <2>4. CanceledAnswered(r) = Become(SendBYE(a), "Terminating", "ETerminating")
    BY <1>2 DEF CanceledAnswered, a
  <2> QED
    BY <2>3, <2>4, CallsClosed
<1>3. CASE r.sub # "Offering"
  <2>1. CanceledAnswered(r) = Become(a, "Established", "EEstablished")
    BY <1>3 DEF CanceledAnswered
  <2> HIDE DEF a
  <2> QED
    BY <1>1, <2>1, BecomeFresh
<1> QED
  BY <1>2, <1>3

\* What a cancelled offer leaves
LEMMA EntryCancelFresh ==
    ASSUME NEW r, Tidy(r), r.st = "Offering"
    PROVE  /\ Fresh(EntryCancel(r))
           /\ Fresh(Become(EntryCancel(r), "Canceled", "ECancelling"))
<1> DEFINE c == SendCancel(r)
           f == UpdateFailed(c)
<1>1. Tidy(c) /\ c.st = r.st /\ c.sub = r.sub /\ (c.media = "open" => r.media = "open")
  BY CallsTidy DEF Keeping, SendCancel, Tidy, Used
<1> HIDE DEF c
<1>2. CASE r.sub = "Offering"
  <2>1. EntryCancel(r) = StopMedia(c)
    BY <1>2 DEF EntryCancel, c
  <2>2. Closed(StopMedia(c))
    BY <1>1, StopMediaCloses DEF Tidy
  <2> QED
    BY <2>1, <2>2, CallsClosed
<1>3. CASE r.sub # "Offering"
  <2>1. EntryCancel(r) = f
    BY <1>3 DEF EntryCancel, c
  <2>2. Tidy(f) /\ f.st = r.st /\ f.sub = r.sub /\ (f.media = "open" => r.media = "open")
    BY <1>1, CallsTidy DEF Keeping, UpdateFailed, Tidy, Used
  <2>3. r.media = "open" => r.sub \in {"Updating", "Refreshing"}
    BY <1>3 DEF Tidy, Open
  <2> HIDE DEF f
  <2> QED
    BY <2>1, <2>2, <2>3, BecomeFresh DEF Fresh
<1> QED
  BY <1>2, <1>3

LEMMA OfferingExitSound ==
    ASSUME NEW r, NEW n, NEW next, NEW state, NEW ready,
           Fresh(n), Fresh(Become(n, next, state))
    PROVE  Sound(OfferingExit(r, n, next, state, ready))
BY FreshSound DEF OfferingExit

LEMMA OfferingProvisionalSound ==
    ASSUME NEW r, Tidy(r), r.st = "Offering", NEW sdp,
           NEW result \in {"ready", "async", "fails", "bad"}
    PROVE  Sound(OfferingProvisional(r, sdp, result))
<1> DEFINE told == IF readyToAck THEN ClientStateChanged(r, "EOffering") ELSE r
           answered == [told EXCEPT !.answered = TRUE]
           waiting == [answered EXCEPT !.waiting = TRUE]
<1>1. Tidy(told) /\ told.st = "Offering"
  BY CallsTidy DEF Keeping
<1> HIDE DEF told
<1>2. /\ Tidy(answered) /\ answered.st = "Offering"
      /\ Tidy(waiting) /\ waiting.st = "Offering"
  BY <1>1 DEF Tidy, Used, Open
<1> HIDE DEF answered, waiting
<1>3. Tidy(UpdateAsync(waiting)) /\ UpdateAsync(waiting).st = "Offering"
  BY <1>2, CallsTidy DEF Keeping
<1>4. Fresh(told) /\ Fresh(answered) /\ Fresh(UpdateAsync(waiting))
  BY <1>1, <1>2, <1>3 DEF Fresh
<1>5. \/ OfferingProvisional(r, sdp, result) = Processed(r, told)
      \/ OfferingProvisional(r, sdp, result) = Processed(r, answered)
      \/ OfferingProvisional(r, sdp, result) = Processed(r, UpdateAsync(waiting))
      \/ OfferingProvisional(r, sdp, result) =
           Processed(r, Become(EntryCancel(r), "Canceled", "ECancelling"))
      \/ OfferingProvisional(r, sdp, result) = HandleResponseError(r)
  BY DEF OfferingProvisional, told, answered, waiting
<1> QED
  BY <1>4, <1>5, FreshSound, EntryCancelFresh, HandleResponseErrorFresh

LEMMA OfferingAnsweredSound ==
    ASSUME NEW r, Tidy(r), r.st = "Offering", r.dialog = "confirmed", NEW sdp, NEW ready,
           NEW result \in {"ready", "async", "fails", "bad"}
    PROVE  Sound(OfferingAnswered(r, sdp, result, ready))
<1> DEFINE a == SendACK(r)
           t == [a EXCEPT !.timer = @ \/ "session timer" \in Allowed]
           waiting == [t EXCEPT !.waiting = TRUE]
           established == Become(a, "Established", "EEstablished")
           \* as r: still in Offering, with a dialog
           Like(n) == Tidy(n) /\ n.st = "Offering" /\ n.dialog = "confirmed"
<1>1. \/ OfferingAnswered(r, sdp, result, ready) = Processed(r, a)
      \/ OfferingAnswered(r, sdp, result, ready) = Processed(r, UpdateSucceed(established))
      \/ OfferingAnswered(r, sdp, result, ready) =
           OfferingExit(r, t, "Established", "EEstablished", ready)
      \/ OfferingAnswered(r, sdp, result, ready) =
           OfferingExit(r, UpdateSucceed(t), "Established", "EEstablished", ready)
      \/ OfferingAnswered(r, sdp, result, ready) = Processed(r, UpdateAsync(waiting))
      \/ OfferingAnswered(r, sdp, result, ready) =
           OfferingExit(r, StopMedia(SendBYE(t)), "Terminating", "ETerminating", ready)
      \/ OfferingAnswered(r, sdp, result, ready) =
           OfferingExit(r, UpdateFailed(t), "Established", "EEstablished", ready)
      \/ OfferingAnswered(r, sdp, result, ready) = HandleResponseError(t)
  BY DEF OfferingAnswered, a, t, waiting, established
<1>2. ASSUME NEW n, Like(n)
      PROVE  Fresh(n) /\ Fresh(Become(n, "Established", "EEstablished"))
  BY <1>2, BecomeFresh DEF Fresh
<1>3. Like(a)
  BY CallsTidy DEF Keeping, SendACK, Tidy, Used
<1> HIDE DEF a
<1>4. Like(t)
  <2>1. \A v : Like([a EXCEPT !.timer = v])
    BY <1>3 DEF Tidy, Used, Open
  <2> QED
    BY <2>1, Zenon
<1> HIDE DEF t
<1>5. Like(waiting)
  BY <1>4 DEF Tidy, Used, Open
<1> HIDE DEF waiting
<1>6. Like(UpdateSucceed(t)) /\ Like(UpdateFailed(t)) /\ Like(UpdateAsync(waiting))
  BY <1>4, <1>5, CallsTidy
     DEF Keeping, Tidy, Used, UpdateSucceed, UpdateFailed, UpdateAsync
<1>7. Fresh(UpdateSucceed(established))
  <2>1. Fresh(established)
    BY <1>2, <1>3
  <2> HIDE DEF established
  <2> QED
    BY <2>1, CallsTidy, KeepingFresh DEF Fresh
<1>8. Closed(StopMedia(SendBYE(t)))
  <2>1. Used(SendBYE(t))
    BY <1>4 DEF Tidy, Used, SendBYE
  <2> QED
    BY <2>1, StopMediaCloses
<1>9. Fresh(StopMedia(SendBYE(t)))
      /\ Fresh(Become(StopMedia(SendBYE(t)), "Terminating", "ETerminating"))
  BY <1>8, CallsClosed
<1>10. Sound(HandleResponseError(t))
  BY <1>4, HandleResponseErrorFresh, FreshSound
<1> HIDE DEF established, Like
<1> QED
  BY <1>1, <1>2, <1>3, <1>4, <1>6, <1>7, <1>9, <1>10, FreshSound, OfferingExitSound

LEMMA OfferingRedirectedSound ==
    ASSUME NEW r, Tidy(r), r.st = "Offering", r.sub = "Offering", r.resp = "other", NEW code
    PROVE  Sound(OfferingRedirected(r, code))
<1> DEFINE n == IF Retried(r, code) THEN SendInvite(NewDialog(r)) ELSE r
<1>1. \/ OfferingRedirected(r, code) = Processed(r, n)
      \/ OfferingRedirected(r, code) = Processed(r, ClientStateChanged(n, "EOffering"))
      \/ OfferingRedirected(r, code) =
           Processed(r, Become(StopMedia(n), "Terminated", "ETerminated"))
  BY DEF OfferingRedirected, n
<1>2. Tidy(n) /\ n.st = "Offering"
  <2>1. Tidy(NewDialog(r)) /\ NewDialog(r).st = "Offering"
    BY DEF Tidy, Used, Open, NewDialog
  <2> QED
    BY <2>1, CallsTidy DEF Keeping
<1> HIDE DEF n
<1>3. Fresh(n) /\ Fresh(ClientStateChanged(n, "EOffering"))
  BY <1>2, CallsTidy, KeepingFresh DEF Fresh
<1>4. Closed(StopMedia(n))
  BY <1>2, StopMediaCloses DEF Tidy
<1> QED
  BY <1>1, <1>3, <1>4, CallsClosed, FreshSound

LEMMA OfferingRefusedSound ==
    ASSUME NEW r, Tidy(r), r.st = "Offering", r.resp # "2xx", NEW code,
           code = "421" => r.dialog # "confirmed"
    PROVE  Sound(OfferingRefused(r, code))
<1> DEFINE d == [r EXCEPT !.dialog = "none"]
           e == NewDialog(r)
           f == SendSessionRefresh(r)
           u == UpdateFailed(r)
           b == StopMedia(SendBYE(u))
<1>1. \/ /\ r.dialog = "confirmed"
         /\ OfferingRefused(r, code) =
              OfferingExit(r, f, "Established", "EEstablished", readyToAck)
      \/ /\ r.dialog # "confirmed"
         /\ OfferingRefused(r, code) = Processed(r, SendInvite(d))
      \/ /\ r.dialog # "confirmed"
         /\ OfferingRefused(r, code) = Processed(r, SendInvite(e))
      \/ OfferingRefused(r, code) =
           OfferingExit(r, StopMedia(r), "Terminated", "ETerminated", readyToAck)
      \/ OfferingRefused(r, code) = Processed(r, Become(b, "Terminated", "ETerminated"))
      \/ /\ r.sub # "Offering"
         /\ OfferingRefused(r, code) = Processed(r, Become(u, "Established", "EEstablished"))
  BY DEF OfferingRefused, b, d, e, f, u
<1>2. CASE /\ r.dialog = "confirmed"
           /\ OfferingRefused(r, code) =
                OfferingExit(r, f, "Established", "EEstablished", readyToAck)
  <2>1. Tidy(f) /\ f.st = "Offering" /\ f.dialog = "confirmed"
    BY <1>2 DEF Tidy, Used, Open, SendSessionRefresh, SendInvite
  <2> HIDE DEF f
  <2> QED
    BY <1>2, <2>1, BecomeFresh, OfferingExitSound DEF Fresh
<1>3. CASE /\ r.dialog # "confirmed"
           /\ \/ OfferingRefused(r, code) = Processed(r, SendInvite(d))
              \/ OfferingRefused(r, code) = Processed(r, SendInvite(e))
  <2>1. Tidy(d) /\ d.st = "Offering" /\ Tidy(e) /\ e.st = "Offering"
    BY <1>3 DEF Tidy, Used, Open, NewDialog
  <2> HIDE DEF d, e
  <2>2. Fresh(SendInvite(d)) /\ Fresh(SendInvite(e))
    BY <2>1, CallsTidy, KeepingFresh DEF Fresh
  <2> QED
    BY <1>3, <2>2, FreshSound
<1>4. Tidy(u) /\ u.dialog = r.dialog /\ (u.media = "open" => r.media = "open")
  BY CallsTidy DEF Keeping, UpdateFailed, Tidy, Used
<1>5. CASE /\ r.sub # "Offering"
           /\ OfferingRefused(r, code) = Processed(r, Become(u, "Established", "EEstablished"))
  <2>1. r.media = "open" => r.dialog = "confirmed"
    BY <1>5 DEF Tidy, Open
  <2> HIDE DEF u
  <2> QED
    BY <1>4, <1>5, <2>1, BecomeFresh, FreshSound
<1>6. Closed(StopMedia(r)) /\ Closed(b)
  <2> HIDE DEF u
  <2>1. Used(SendBYE(u))
    BY <1>4 DEF Tidy, Used, SendBYE
  <2> QED
    BY <2>1, StopMediaCloses DEF Tidy
<1> HIDE DEF b
<1>7. CASE OfferingRefused(r, code) =
           OfferingExit(r, StopMedia(r), "Terminated", "ETerminated", readyToAck)
  BY <1>6, <1>7, CallsClosed, OfferingExitSound
<1>8. CASE OfferingRefused(r, code) = Processed(r, Become(b, "Terminated", "ETerminated"))
  BY <1>6, <1>8, CallsClosed, FreshSound
<1> QED
  BY <1>1, <1>2, <1>3, <1>5, <1>7, <1>8

LEMMA OfferingMediaUpdatedSound ==
    ASSUME NEW r, Tidy(r), r.st = "Offering" PROVE Sound(OfferingMediaUpdated(r))
<1> DEFINE n == UpdateSucceed(r)
<1>1. /\ Tidy(n) /\ n.st = "Offering" /\ (n.media = "open" => r.media = "open")
      /\ n.dialog = r.dialog
  BY CallsTidy DEF Keeping, UpdateSucceed, Tidy, Used
<1>2. r.resp = "2xx" /\ r.media = "open" => r.dialog = "confirmed"
  BY DEF Tidy, Open
<1> HIDE DEF n
<1>3. Fresh(n)
  BY <1>1 DEF Fresh
<1>4. r.resp = "2xx" => Fresh(Become(n, "Established", "EEstablished"))
  BY <1>1, <1>2, BecomeFresh
<1> QED
  BY <1>3, <1>4, FreshSound, OfferingExitSound DEF OfferingMediaUpdated, n

\* An offer that is refused, after Discard
LEMMA RejectedSound ==
    ASSUME NEW r, Tidy(r), r.st = "ServerEstablishing", NEW n \in
             {StopMedia(Discard(r)), UpdateFailed(Discard(r))}
    PROVE  Sound(Processed(r, RejectedExit(r, n)))
<1>1. Tidy(Discard(r))
  BY CallsTidy DEF Keeping
<1>2. CASE n = StopMedia(Discard(r))
  <2>1. Closed(n)
    BY <1>1, <1>2, StopMediaCloses DEF Tidy
  <2> QED
    BY <2>1, CallsClosed, FreshSound DEF RejectedExit
<1>3. CASE n = UpdateFailed(Discard(r))
  <2> DEFINE d == Discard(r)
  <2>0. /\ Tidy(d) /\ (d.media = "open" => r.media = "open") /\ d.sub = r.sub
        /\ r.dialog = "confirmed" => d.dialog = "confirmed"
    BY <1>1, CallsTidy DEF Keeping, Discard, Tidy, Used
  <2> HIDE DEF d
  <2>1. /\ Tidy(n) /\ (n.media = "open" => r.media = "open") /\ n.sub = r.sub
        /\ r.dialog = "confirmed" => n.dialog = "confirmed"
    <3>1. n = UpdateFailed(d)
      BY <1>3 DEF d
    <3>2. Tidy(n) /\ (n.media = "open" => d.media = "open")
      BY <2>0, <3>1, CallsTidy DEF Keeping
    <3>3. n.sub = d.sub /\ n.dialog = d.dialog
      BY <2>0, <3>1 DEF UpdateFailed, Tidy, Used
    <3> QED
      BY <2>0, <3>2, <3>3
  <2>2. CASE r.sub = "Answering"
    <3>1. Tidy(Become(n, "Terminated", "ETerminated"))
      BY <2>1, <2>2 DEF Tidy, Used, Open, Become, StateChanged, ClientStateChanged
    <3> QED
      BY <2>2, <3>1, ProcessedSound DEF RejectedExit
  <2>3. CASE r.sub # "Answering"
    <3>1. r.media = "open" => r.dialog = "confirmed"
      BY <2>3 DEF Tidy, Open
    <3>2. Fresh(Become(n, "Established", "EEstablished"))
      BY <2>1, <3>1, BecomeFresh
    <3> QED
      BY <2>3, <3>2, FreshSound DEF RejectedExit
  <2> QED
    BY <2>2, <2>3
<1> QED
  BY <1>2, <1>3

-----------------------------------------------------------------------------
(* Disposal *)

LEMMA TerminateClosed ==
    ASSUME NEW r, Used(r) PROVE Closed(Terminate(r))
<1> DEFINE m == StopMedia(r)
           d == Discard(m)
           c == SendCancel(m)
<1>1. Closed(m)
  BY StopMediaCloses
<1>2. Closed(d) /\ Closed(c)
  BY <1>1, CallsClosed
<1>3. ASSUME NEW n, Closed(n), NEW next, next # "Idle" PROVE Closed(Hangup(n, next))
  BY <1>3, CallsClosed DEF Hangup
<1>4. \/ \E next : /\ next # "Idle"
                   /\ Terminate(r) \in {Hangup(m, next), Hangup(d, next),
                        StateChanged(m, next), StateChanged(d, next), StateChanged(c, next)}
      \/ Terminate(r) = m
  BY DEF Terminate, m, d, c
<1> HIDE DEF m, d, c
<1> QED
  BY <1>1, <1>2, <1>3, <1>4, CallsClosed

LEMMA DisposeSound ==
    ASSUME NEW r, Sound(r) PROVE Sound(Dispose(r)) /\ Sound(Sweep(r))
<1> DEFINE t == IF CanDispose(r) THEN r ELSE Terminate(r)
<1>1. Dispose(r) = [t EXCEPT !.owner = IF CanDispose(t) THEN "gone" ELSE "orphan"]
  BY DEF Dispose, t
<1>2. Sound(t)
  BY TerminateClosed, CallsClosed, FreshSound DEF Sound, Tidy
<1> HIDE DEF t
<1>3. \A o : Sound([t EXCEPT !.owner = o])
  BY <1>2 DEF Sound, Tidy, Used, Open
<1> QED
  BY <1>1, <1>3 DEF Sweep

-----------------------------------------------------------------------------
(* Steps *)

\* What the media do not survive: a session refresh that is redirected (the
\* dialog it belongs to is forgotten), a BYE to a session that cancels an
\* update, a session timer in the middle of something else
Undisturbed ==
    /\ "redirect update" \notin Allowed
    /\ "bye to cancel" \notin Allowed
    /\ "late timer" \notin Allowed

\* A session that is still in Idle: nothing can happen to it but that the
\* client establishes or deletes it.
Unused(r) ==
    /\ {"media", "st", "sub", "resp", "dialog", "bye", "exit", "told", "owner",
        "invite", "initial", "cancel", "request", "busy", "timer"} \subseteq DOMAIN r
    /\ r.st = "Idle" /\ r.media = "none" /\ r.resp = "none" /\ r.dialog = "none"
    /\ r.bye = "none" /\ r.invite = "none" /\ r.initial = "unsent" /\ r.cancel = "none"
    /\ r.request = "none" /\ r.busy = FALSE /\ r.timer = FALSE

\* The inductive invariant
Kept(r) == Unused(r) \/ Sound(r)
AllKept == \A s \in Session : Kept(ses[s])

MediaInv == Undisturbed /\ SesOK /\ AllKept

LEMMA TerminateUnused ==
    ASSUME NEW r, Unused(r) PROVE Sound(Dispose(r))
<1> DEFINE m == StopMedia(r)
           t == StateChanged(m, "Terminated")
<1>1. Terminate(r) = t /\ ~CanDispose(r)
  BY DEF Unused, Terminate, CanDispose
<1>2. Closed(t)
  BY DEF Unused, StopMedia, StateChanged, Closed, Used
<1> HIDE DEF t
<1>3. Dispose(r) = [t EXCEPT !.owner = IF CanDispose(t) THEN "gone" ELSE "orphan"]
  BY <1>1 DEF Dispose
<1>4. \A o : Closed([t EXCEPT !.owner = o])
  BY <1>2 DEF Closed, Used
<1> QED
  BY <1>3, <1>4, CallsClosed, FreshSound

LEMMA SweepKept == ASSUME NEW r, Kept(r) PROVE Kept(Sweep(r))
BY TerminateUnused, DisposeSound DEF Kept, Sweep

LEMMA SetKept ==
    ASSUME MediaInv, NEW s \in Session, NEW n, Set(s, n), Kept(n) PROVE AllKept'
<1>1. \A t \in Session : IF t = s THEN ses'[t] = n ELSE ses'[t] = ses[t]
  BY DEF MediaInv, SesOK, Set
<1> QED
  BY <1>1 DEF MediaInv, AllKept

LEMMA IncomingKept ==
    ASSUME MediaInv, NEW s \in Session, NEW n, Incoming(s, n), Kept(n) PROVE AllKept'
<1>1. \A t \in Session : ses'[t] = Sweep(IF t = s THEN n ELSE ses[t])
  BY DEF Incoming
<1>2. \A t \in Session : Kept(IF t = s THEN n ELSE ses[t])
  BY DEF MediaInv, AllKept
<1> QED
  BY <1>1, <1>2, SweepKept DEF AllKept

LEMMA StartKept ==
    ASSUME MediaInv, NEW s \in Session,
           CreateOutSession(s) \/ EstablishSession(s) \/ IncomingSession(s)
    PROVE  AllKept'
<1>1. CASE CreateOutSession(s)
  <2>1. Kept(NewOutSession)
    BY DEF NewOutSession, Kept, Unused
  <2>2. \A t \in Session : ses'[t] = IF t = s THEN NewOutSession ELSE Sweep(ses[t])
    BY <1>1 DEF CreateOutSession
  <2> QED
    BY <2>1, <2>2, SweepKept DEF MediaInv, AllKept
<1>2. CASE EstablishSession(s)
  <2> DEFINE r == [ses[s] EXCEPT !.sub = "Offering"]
             m == [r EXCEPT !.media = "open"]
             i == Become(SendInvite(m), "Offering", "EOffering")
             u == Become(UpdateAsync(m), "ClientEstablishing", "EOffering")
  <2>1. \/ Set(s, Processed(r, i)) \/ Set(s, Processed(r, u)) \/ Set(s, MarkExit(r, r))
    BY <1>2 DEF EstablishSession, MediaResults, r, m
  <2>2. Unused(ses[s])
    BY <1>2 DEF MediaInv, AllKept, Kept, Sound, Tidy, Used, EstablishSession
  <2>3. Unused(r) /\ r.sub = "Offering"
    BY <2>2 DEF Unused
  <2> HIDE DEF r
  <2>4. /\ Unused([r EXCEPT !.media = "none"]) /\ m.media = "open" /\ m.sub = "Offering"
        /\ m.resp = "none" /\ m.bye = "none"
        /\ {"media", "st", "sub", "resp", "dialog", "bye", "exit", "told", "invite",
            "initial", "cancel", "busy"} \subseteq DOMAIN m
    BY <2>3 DEF Unused
  <2> HIDE DEF m
  <2>5. Fresh(i)
    BY <2>4 DEF Fresh, Tidy, Used, Open, Become, StateChanged, ClientStateChanged, SendInvite
  <2>6. Fresh(u)
    BY <2>4 DEF Fresh, Tidy, Used, Open, Become, StateChanged, ClientStateChanged, UpdateAsync
  <2> HIDE DEF i, u
  <2>7. Kept(MarkExit(r, r))
    <3>1. \A e : Unused([r EXCEPT !.exit = e])
      BY <2>3 DEF Unused
    <3> QED
      BY <3>1, Zenon DEF MarkExit, Kept
  <2> QED
    BY <2>1, <2>5, <2>6, <2>7, FreshSound, SetKept DEF Kept
<1>3. CASE IncomingSession(s)
  <2> DEFINE m == [NewInSession EXCEPT !.media = "open"]
             b == Become(m, "ServerEstablishing", "EIncoming")
  <2>1. Fresh(b)
    BY DEF NewInSession, NewOutSession, Fresh, Tidy, Used, Open, Become, StateChanged,
           ClientStateChanged
  <2>2. Incoming(s, Processed(NewInSession, b))
    BY <1>3 DEF IncomingSession
  <2> HIDE DEF b
  <2> QED
    BY <2>1, <2>2, FreshSound, IncomingKept DEF Kept
<1> QED
  BY <1>1, <1>2, <1>3

\* Whatever makes a handler be called finds a session that has begun.
LEMMA BegunSound ==
    ASSUME MediaInv, NEW s \in Session,
           \/ ses[s].st # "Idle" \/ InvitePending(ses[s]) \/ ses[s].invite = "accepted"
           \/ ses[s].cancel = "out" \/ ses[s].bye = "out" \/ ses[s].request # "none"
           \/ ses[s].initial = "done" \/ ses[s].busy \/ ses[s].timer
           \/ ses[s].dialog = "confirmed"
    PROVE  Sound(ses[s]) /\ Tidy(ses[s])
BY DEF MediaInv, AllKept, Kept, Unused, InvitePending, Sound

LEMMA CancelKept ==
    ASSUME MediaInv, NEW s \in Session, CancelEstablishing(s) \/ CancelOffering(s)
    PROVE  AllKept'
<1> DEFINE r == ses[s]
<1>1. Tidy(r)
  BY BegunSound DEF CancelEstablishing, CancelOffering
<1>2. CASE CancelEstablishing(s)
  <2> DEFINE u == UpdateFailed(r)
  <2>1. \/ Set(s, Processed(r, Become(StopMedia(r), "Terminated", "ETerminated")))
        \/ /\ r.sub # "Offering" /\ r.st = "ClientEstablishing"
           /\ Set(s, Processed(r, Become(u, "Established", "EEstablished")))
    BY <1>2 DEF CancelEstablishing
  <2>2. Fresh(Become(StopMedia(r), "Terminated", "ETerminated"))
    BY <1>1, StopMediaCloses, EndsFresh DEF Tidy
  <2>3. Tidy(u) /\ (u.media = "open" => r.media = "open") /\ u.dialog = r.dialog
    BY <1>1, CallsTidy DEF Keeping, UpdateFailed, Tidy, Used
  <2>4. r.sub # "Offering" /\ r.st = "ClientEstablishing" /\ r.media = "open" =>
           r.dialog = "confirmed"
    BY <1>1 DEF Tidy, Open
  <2> HIDE DEF u
  <2>5. r.sub # "Offering" /\ r.st = "ClientEstablishing" =>
           Fresh(Become(u, "Established", "EEstablished"))
    BY <2>3, <2>4, BecomeFresh
  <2> QED
    BY <2>1, <2>2, <2>5, FreshSound, SetKept DEF Kept
<1>3. CASE CancelOffering(s)
  BY <1>1, <1>3, EntryCancelFresh, OfferingExitSound, SetKept DEF CancelOffering, Kept
<1> QED
  BY <1>2, <1>3

LEMMA IncomingAnsweredKept ==
    ASSUME MediaInv, NEW s \in Session, UpdateIncoming(s) \/ RejectIncoming(s)
    PROVE  AllKept'
<1> DEFINE r == ses[s]
           u == UpdateSucceed(r)
<1>1. Tidy(r) /\ r.st = "ServerEstablishing"
  BY BegunSound DEF UpdateIncoming, RejectIncoming
<1>2. \/ Set(s, Processed(r, Become(r, "Updated", "EProceeding")))
      \/ Set(s, Processed(r, Become(SendAnswer(u, FALSE), "Answering", "EAnswering")))
      \/ Set(s, Processed(r, Become(UpdateAsync(r), "Updating", "EReserving")))
      \/ Set(s, Processed(r, RejectedExit(r, StopMedia(Discard(r)))))
      \/ Set(s, Processed(r, RejectedExit(r, UpdateFailed(Discard(r)))))
  BY DEF UpdateIncoming, RejectIncoming, r, u
<1>3. Tidy(u) /\ Tidy(UpdateAsync(r))
  BY <1>1, CallsTidy DEF Keeping
<1> HIDE DEF r, u
<1>4. /\ Fresh(Become(r, "Updated", "EProceeding"))
      /\ Fresh(Become(SendAnswer(u, FALSE), "Answering", "EAnswering"))
      /\ Fresh(Become(UpdateAsync(r), "Updating", "EReserving"))
  BY <1>1, <1>3, BecomeFresh, AnswerTidy
<1>5. /\ Sound(Processed(r, RejectedExit(r, StopMedia(Discard(r)))))
      /\ Sound(Processed(r, RejectedExit(r, UpdateFailed(Discard(r)))))
  BY <1>1, RejectedSound
<1> QED
  BY <1>2, <1>4, <1>5, FreshSound, SetKept DEF Kept

LEMMA AcceptedKept ==
    ASSUME MediaInv, NEW s \in Session,
           AcceptSession(s) \/ RejectSession(s) \/ TerminateSession(s)
    PROVE  AllKept'
<1> DEFINE r == ses[s]
           t == "session timer" \in Allowed
<1>1. Tidy(r)
  BY BegunSound DEF AcceptSession, RejectSession, TerminateSession
<1>2. \/ Set(s, Processed(r, Become(SendAnswer(r, t), "Answering", "EAnswering")))
      \/ Set(s, Processed(r, Become(StopMedia(Discard(r)), "Terminated", "ETerminated")))
      \/ Set(s, Processed(r, Become(StopMedia(SendBYE(r)), "Terminating", "ETerminating")))
  BY DEF AcceptSession, RejectSession, TerminateSession, r, t
<1> HIDE DEF r, t
<1>3. Fresh(Become(SendAnswer(r, t), "Answering", "EAnswering"))
  BY <1>1, AnswerTidy
<1>4. Used(Discard(r)) /\ Used(SendBYE(r))
  BY <1>1 DEF Tidy, Used, Discard, SendBYE
<1>5. /\ Fresh(Become(StopMedia(Discard(r)), "Terminated", "ETerminated"))
      /\ Fresh(Become(StopMedia(SendBYE(r)), "Terminating", "ETerminating"))
  BY <1>4, StopMediaCloses, EndsFresh
<1> QED
  BY <1>2, <1>3, <1>5, FreshSound, SetKept DEF Kept

LEMMA UpdateSessionKept ==
    ASSUME MediaInv, NEW s \in Session, UpdateSession(s) PROVE AllKept'
<1> DEFINE r == ses[s]
           c == CreateBodyCandidate(r)
           u == UpdateSucceed(c)
<1>1. Tidy(r) /\ r.st = "Established" /\ r.dialog = "confirmed"
  BY BegunSound DEF UpdateSession
<1>2. \/ Set(s, Processed(r, Become(SendInvite(c), "Offering", "EOffering")))
      \/ Set(s, Processed(r, Become(u, "Established", "EEstablished")))
      \/ Set(s, Processed(r, Become(UpdateAsync(c), "ClientEstablishing", "EOffering")))
      \/ Set(s, MarkExit(r, c))
  BY DEF UpdateSession, MediaResults, r, c, u
<1>3. Tidy(c) /\ c.st = "Established" /\ c.sub = "Updating" /\ c.dialog = "confirmed"
  BY <1>1 DEF Tidy, Used, Open, CreateBodyCandidate
<1> HIDE DEF r, c
<1>4. /\ Tidy(SendInvite(c)) /\ SendInvite(c).sub = "Updating"
      /\ Tidy(UpdateAsync(c)) /\ UpdateAsync(c).sub = "Updating"
      /\ Tidy(u) /\ u.dialog = "confirmed"
  BY <1>3, CallsTidy DEF Keeping, SendInvite, UpdateAsync, UpdateSucceed, Tidy, Used
<1> HIDE DEF u
<1>5. /\ Fresh(Become(SendInvite(c), "Offering", "EOffering"))
      /\ Fresh(Become(UpdateAsync(c), "ClientEstablishing", "EOffering"))
      /\ Fresh(Become(u, "Established", "EEstablished"))
  BY <1>4, BecomeFresh
<1>6. Fresh(MarkExit(r, c))
  BY <1>3, MarkExitFresh DEF Fresh
<1> QED
  BY <1>2, <1>5, <1>6, FreshSound, SetKept DEF Kept

LEMMA ClientRequestKept ==
    ASSUME MediaInv, NEW s \in Session, ClientRequest(s) PROVE AllKept'
<1>1. CASE DeleteSession(s)
  <2>1. Set(s, Dispose(ses[s]))
    BY <1>1 DEF DeleteSession
  <2>2. Kept(Dispose(ses[s]))
    BY TerminateUnused, DisposeSound DEF MediaInv, AllKept, Kept
  <2> QED
    BY <2>1, <2>2, SetKept
<1> QED
  BY <1>1, StartKept, CancelKept, IncomingAnsweredKept, AcceptedKept, UpdateSessionKept
     DEF ClientRequest

LEMMA ProvisionalKept ==
    ASSUME MediaInv, NEW s \in Session, Provisional(s) PROVE AllKept'
<1> PICK code \in {"trying", "ringing", "progress"}, sdp \in BOOLEAN,
         result \in {"ready", "async", "fails", "bad"} :
       LET r == Proceeding(ses[s], code)
       IN  Incoming(s,
             CASE r.st = "Offering" /\ code # "trying" ->
                     OfferingProvisional(r, sdp, result)
               [] r.st = "Canceled" ->
                     Processed(r, IF r.cancel = "out" THEN r ELSE SendCancel(r))
               [] r.st \in Ended \cup {"Terminating"} -> Processed(r, r)
               [] OTHER -> IF code = "trying" THEN Processed(r, r)
                           ELSE HandleResponseError(r))
  BY ZenonT(60) DEF Provisional, MediaResults
<1> DEFINE r == Proceeding(ses[s], code)
<1>1. \/ r.st = "Offering" /\ Incoming(s, OfferingProvisional(r, sdp, result))
      \/ Incoming(s, Processed(r, r))
      \/ r.st = "Canceled" /\ Incoming(s, Processed(r, SendCancel(r)))
      \/ Incoming(s, HandleResponseError(r))
  BY SMTT(30) DEF Ended
<1>2. Tidy(r)
  <2>1. Tidy(ses[s])
    BY BegunSound DEF Provisional
  <2> QED
    BY <2>1 DEF Tidy, Used, Open, Proceeding
<1> HIDE DEF r
<1>3. r.st = "Canceled" => Sound(Processed(r, SendCancel(r)))
  BY <1>2, CallsTidy, ProcessedSound DEF Keeping
<1>4. /\ r.st = "Offering" => Sound(OfferingProvisional(r, sdp, result))
      /\ Sound(Processed(r, r)) /\ Sound(HandleResponseError(r))
  BY <1>2, OfferingProvisionalSound, ProcessedSelf, HandleResponseErrorFresh, FreshSound
<1> QED
  BY <1>1, <1>3, <1>4, IncomingKept DEF Kept

LEMMA FinalTidy ==
    ASSUME NEW r, Tidy(r), NEW invite, NEW resp
    PROVE  LET f == Final(r, invite, resp)
           IN  /\ Tidy(f) /\ f.st = r.st /\ f.sub = r.sub /\ f.resp = resp
               /\ resp = "2xx" => f.dialog = "confirmed"
BY DEF Tidy, Used, Open, Final

LEMMA AnsweredKept ==
    ASSUME MediaInv, NEW s \in Session, Answered(s) PROVE AllKept'
<1> DEFINE r == Final(ses[s], "accepted", "2xx")
<1>1. Tidy(r) /\ r.dialog = "confirmed"
  BY BegunSound, FinalTidy DEF Answered
<1>2. PICK sdp \in BOOLEAN, result \in {"ready", "async", "fails", "bad"} :
         \/ Incoming(s, Processed(r, r))
         \/ /\ r.st = "Offering"
            /\ Incoming(s, OfferingAnswered(r, sdp, result, ReadyToAck(r, sdp)))
         \/ r.st = "Established" /\ Incoming(s, SendACK(r))
         \/ r.st = "Canceled" /\ Incoming(s, Processed(r, CanceledAnswered(r)))
         \/ Incoming(s, HandleResponseError(r))
  BY ZenonT(60) DEF Answered, MediaResults
<1> HIDE DEF r
<1>3. r.st = "Established" => Sound(SendACK(r))
  BY <1>1, CallsTidy, FreshSound DEF Keeping, Fresh
<1>4. /\ r.st = "Offering" => Sound(OfferingAnswered(r, sdp, result, ReadyToAck(r, sdp)))
      /\ r.st = "Canceled" => Sound(Processed(r, CanceledAnswered(r)))
  BY <1>1, OfferingAnsweredSound, CanceledAnsweredFresh, FreshSound
<1>5. Sound(Processed(r, r)) /\ Sound(HandleResponseError(r))
  BY <1>1, ProcessedSelf, HandleResponseErrorFresh, FreshSound
<1> QED
  BY <1>2, <1>3, <1>4, <1>5, IncomingKept DEF Kept

LEMMA RedirectedKept ==
    ASSUME MediaInv, NEW s \in Session, Redirected(s) PROVE AllKept'
<1> DEFINE r == Final(ses[s], "done", "other")
<1>1. Tidy(r) /\ r.sub = "Offering" /\ r.resp = "other"
  <2>1. Tidy(ses[s]) /\ ses[s].sub = "Offering"
    BY BegunSound DEF Redirected, MediaInv, Undisturbed
  <2> QED
    BY <2>1, FinalTidy
<1>2. PICK code :
         \/ r.st = "Offering" /\ Incoming(s, OfferingRedirected(r, code))
         \/ Incoming(s, Processed(r, r))
         \/ Incoming(s, HandleResponseError(r))
  BY DEF Redirected
<1> HIDE DEF r
<1> QED
  BY <1>1, <1>2, OfferingRedirectedSound, ProcessedSelf, HandleResponseErrorFresh,
     FreshSound, IncomingKept DEF Kept

LEMMA RefusedKept ==
    ASSUME MediaInv, NEW s \in Session, Refused(s) PROVE AllKept'
<1> DEFINE R(code) == Final(ses[s], "done", IF code = "491" THEN "491" ELSE "other")
<1>1. PICK code :
         \/ /\ R(code).st = "Offering" /\ (code = "421" => R(code).dialog # "confirmed")
            /\ Incoming(s, OfferingRefused(R(code), code))
         \/ R(code).st = "Canceled" /\ Incoming(s, Processed(R(code), CanceledExit(R(code))))
         \/ Incoming(s, Processed(R(code), R(code)))
         \/ Incoming(s, HandleResponseError(R(code)))
  BY DEF Refused
<1> DEFINE r == R(code)
<1>2. Tidy(r) /\ r.resp # "2xx"
  <2>1. Tidy(ses[s])
    BY BegunSound DEF Refused
  <2>2. Tidy(r) /\ r.resp = IF code = "491" THEN "491" ELSE "other"
    BY <2>1, FinalTidy
  <2> QED
    BY <2>2
<1>3. \/ /\ r.st = "Offering" /\ (code = "421" => r.dialog # "confirmed")
         /\ Incoming(s, OfferingRefused(r, code))
      \/ r.st = "Canceled" /\ Incoming(s, Processed(r, CanceledExit(r)))
      \/ Incoming(s, Processed(r, r))
      \/ Incoming(s, HandleResponseError(r))
  BY <1>1
<1> HIDE DEF r
<1> QED
  BY <1>2, <1>3, OfferingRefusedSound, CanceledExitFresh, ProcessedSelf,
     HandleResponseErrorFresh, FreshSound, IncomingKept DEF Kept

LEMMA TimesOutKept ==
    ASSUME MediaInv, NEW s \in Session, InviteTimesOut(s) \/ NoAckReceived(s)
    PROVE  AllKept'
<1>1. CASE InviteTimesOut(s)
  <2>1. Tidy(Final(ses[s], "done", "other"))
    BY <1>1, BegunSound, FinalTidy DEF InviteTimesOut
  <2> QED
    BY <1>1, <2>1, ErrorOccuredFresh, FreshSound, IncomingKept DEF InviteTimesOut, Kept
<1>2. CASE NoAckReceived(s)
  <2> DEFINE r == [ses[s] EXCEPT !.request = "none"]
  <2>1. Tidy(ses[s])
    BY <1>2, BegunSound DEF NoAckReceived
  <2>2. Tidy(r)
    BY <2>1 DEF Tidy, Used, Open
  <2>3. Incoming(s, ErrorOccured(r, TRUE))
    BY <1>2 DEF NoAckReceived
  <2> HIDE DEF r
  <2> QED
    BY <2>2, <2>3, ErrorOccuredFresh, FreshSound, IncomingKept DEF Kept
<1> QED
  BY <1>1, <1>2

LEMMA CancelEndsKept ==
    ASSUME MediaInv, NEW s \in Session, CancelEnds(s) PROVE AllKept'
<1> DEFINE r == [ses[s] EXCEPT !.cancel = "done", !.resp = "other"]
<1>1. Tidy(r)
  <2>1. Tidy(ses[s])
    BY BegunSound DEF CancelEnds, CancelAnswered, CancelTimesOut
  <2> QED
    BY <2>1 DEF Tidy, Used, Open
<1>2. \/ r.st = "Canceled" /\ Incoming(s, Processed(r, CanceledExit(r)))
      \/ Incoming(s, Processed(r, r))
      \/ Incoming(s, HandleResponseError(r))
      \/ Incoming(s, ErrorOccured(r, FALSE))
  BY DEF CancelEnds, CancelAnswered, CancelTimesOut
<1> HIDE DEF r
<1> QED
  BY <1>1, <1>2, CanceledExitFresh, ProcessedSelf, HandleResponseErrorFresh,
     ErrorOccuredFresh, FreshSound, IncomingKept DEF Kept

\* The BYE was sent after the media had stopped.
LEMMA ByeEndsKept ==
    ASSUME MediaInv, NEW s \in Session, ByeEnds(s) PROVE AllKept'
<1> DEFINE r == [ses[s] EXCEPT !.bye = "done", !.dialog = "terminated", !.resp = "other"]
<1>1. Closed(r)
  <2>1. Tidy(ses[s]) /\ ses[s].bye = "out"
    BY BegunSound DEF ByeEnds, ByeAnswered, ByeTimesOut
  <2> QED
    BY <2>1 DEF Tidy, Used, Open, Closed
<1>2. \/ Incoming(s, Processed(r, Become(r, "Terminated", "ETerminated")))
      \/ r.st = "Canceled" /\ Incoming(s, Processed(r, CanceledExit(r)))
      \/ Incoming(s, Processed(r, r))
      \/ Incoming(s, HandleResponseError(r))
      \/ Incoming(s, ErrorOccured(r, FALSE))
  BY DEF ByeEnds, ByeAnswered, ByeTimesOut
<1> HIDE DEF r
<1>3. Tidy(r)
  BY <1>1, CallsClosed DEF Fresh
<1> QED
  BY <1>1, <1>2, <1>3, EndsFresh, CanceledExitFresh, ProcessedSelf, HandleResponseErrorFresh,
     ErrorOccuredFresh, FreshSound, IncomingKept DEF Kept

LEMMA AckReceivedKept ==
    ASSUME MediaInv, NEW s \in Session, AckReceived(s) PROVE AllKept'
<1> DEFINE r == ses[s]
<1>1. Tidy(r) /\ r.st = "Answering"
  BY BegunSound DEF AckReceived
<1>2. Incoming(s, Processed(r, Become(r, "Established", "EEstablished")))
  BY DEF AckReceived
<1> HIDE DEF r
<1>3. r.media = "open" => r.dialog = "confirmed"
  BY <1>1 DEF Tidy, Open
<1>4. Fresh(Become(r, "Established", "EEstablished"))
  BY <1>1, <1>3, BecomeFresh
<1> QED
  BY <1>2, <1>4, FreshSound, IncomingKept DEF Kept

LEMMA ReInviteReceivedKept ==
    ASSUME MediaInv, NEW s \in Session, ReInviteReceived(s) PROVE AllKept'
<1> DEFINE n == Become(ses[s], "Established", "EEstablished")
           a == IF ses[s].st = "Answering" THEN Processed(ses[s], n) ELSE ses[s]
           r == [a EXCEPT !.request = "open"]
           c == CreateBodyCandidate(r)
           f == [r EXCEPT !.sub = "Refreshing"]
           u == SendAnswer(f, FALSE)
           w == UpdateFailed(c)
           InDialog(x) == Tidy(x) /\ x.st = "Established" /\ x.dialog = "confirmed"
<1>1. \/ Incoming(s, Processed(r, Become(u, "Answering", "EAnswering")))
      \/ Incoming(s, HandleRequestError(MarkExit(r, r)))
      \/ Incoming(s, Processed(r, Become(c, "ServerEstablishing", "EIncoming")))
      \/ Incoming(s, Processed(r, Discard(w)))
      \/ Incoming(s, HandleRequestError(MarkExit(r, w)))
  BY DEF ReInviteReceived
<1>2. Tidy(ses[s]) /\ ses[s].st \in {"Answering", "Established"} /\ ses[s].dialog = "confirmed"
  BY BegunSound DEF ReInviteReceived
<1>3. InDialog(a)
  <2>1. InDialog(n)
    BY <1>2 DEF Tidy, Used, Open, Become, StateChanged, ClientStateChanged
  <2> HIDE DEF n
  <2>2. Processed(ses[s], n).st = "Established" /\ Processed(ses[s], n).dialog = "confirmed"
    BY <2>1, ProcessedUsed DEF Tidy
  <2>3. Sound(Processed(ses[s], n))
    BY <2>1, ProcessedSound
  <2> QED
    BY <1>2, <2>2, <2>3 DEF Sound
<1> HIDE DEF a
<1>4. InDialog(r)
  BY <1>3 DEF Tidy, Used, Open
<1> HIDE DEF r
<1>5. InDialog(c) /\ c.sub = "Updating" /\ InDialog(f)
  BY <1>4 DEF Tidy, Used, Open, CreateBodyCandidate
<1> HIDE DEF c, f
<1>6. Tidy(w) /\ w.st = "Established"
  BY <1>5, CallsTidy DEF Keeping
<1> HIDE DEF w
<1>7. Fresh(r) /\ Fresh(w) /\ Fresh(Discard(w))
  BY <1>4, <1>6, CallsTidy, KeepingFresh DEF Fresh
<1>8. Fresh(HandleRequestError(MarkExit(r, r))) /\ Fresh(HandleRequestError(MarkExit(r, w)))
  BY <1>7, MarkExitFresh, HandleRequestErrorFresh DEF Fresh, Tidy
<1>9. /\ Fresh(Become(u, "Answering", "EAnswering"))
      /\ Fresh(Become(c, "ServerEstablishing", "EIncoming"))
  BY <1>5, AnswerTidy, BecomeFresh
<1> HIDE DEF u
<1> QED
  BY <1>1, <1>7, <1>8, <1>9, FreshSound, IncomingKept DEF Kept

LEMMA ByeReceivedKept ==
    ASSUME MediaInv, NEW s \in Session, ByeReceived(s) PROVE AllKept'
<1> DEFINE r == Send200OK(ses[s])
<1>1. Used(r)
  <2>1. Tidy(ses[s])
    BY BegunSound DEF ByeReceived
  <2> QED
    BY <2>1 DEF Tidy, Used, Send200OK
<1>2. \/ Incoming(s, OfferingExit(r, StopMedia(r), "Terminated", "ETerminated", readyToAck))
      \/ Incoming(s, Processed(r, Become(StopMedia(r), "Terminated", "ETerminated")))
  BY DEF ByeReceived, MediaInv, Undisturbed
<1> HIDE DEF r
<1>3. Closed(StopMedia(r))
  BY <1>1, StopMediaCloses
<1>4. Fresh(StopMedia(r)) /\ Fresh(Become(StopMedia(r), "Terminated", "ETerminated"))
  BY <1>3, CallsClosed, EndsFresh
<1> QED
  BY <1>2, <1>4, OfferingExitSound, FreshSound, IncomingKept DEF Kept

LEMMA InviteCanceledKept ==
    ASSUME MediaInv, NEW s \in Session, InviteCanceled(s) PROVE AllKept'
<1> DEFINE r == Discard(ses[s])
           v == StopUpdatingMedia(r)
           u == UpdateFailed(v)
<1>1. Tidy(r)
  <2>1. Tidy(ses[s])
    BY BegunSound DEF InviteCanceled
  <2> QED
    BY <2>1, CallsTidy DEF Keeping
<1>2. \/ r.dialog = "confirmed" /\ Set(s, Become(u, "Established", "EEstablished"))
      \/ Set(s, Become(StopMedia(r), "Terminated", "ETerminated"))
  BY DEF InviteCanceled
<1> HIDE DEF r
<1>3. Tidy(v) /\ v.dialog = r.dialog
  BY <1>1, CallsTidy DEF Keeping, StopUpdatingMedia, Tidy, Used
<1> HIDE DEF v
<1>4. Tidy(u) /\ u.dialog = r.dialog
  BY <1>3, CallsTidy DEF Keeping, UpdateFailed, Tidy, Used
<1> HIDE DEF u
<1>5. r.dialog = "confirmed" => Fresh(Become(u, "Established", "EEstablished"))
  BY <1>4, BecomeFresh
<1>6. Fresh(Become(StopMedia(r), "Terminated", "ETerminated"))
  BY <1>1, StopMediaCloses, EndsFresh DEF Tidy
<1> QED
  BY <1>2, <1>5, <1>6, FreshSound, SetKept DEF Kept

LEMMA InviteCompletedKept ==
    ASSUME MediaInv, NEW s \in Session, InviteCompleted(s) PROVE AllKept'
<1> DEFINE r == [ses[s] EXCEPT !.initial = "removed"]
<1>1. Sound(ses[s])
  BY BegunSound DEF InviteCompleted
<1>2. Sound(r)
  BY <1>1 DEF Sound, Tidy, Used, Open
<1>3. Set(s, r)
  BY DEF InviteCompleted
<1> HIDE DEF r
<1> QED
  BY <1>2, <1>3, SetKept DEF Kept

LEMMA MediaUpdatedKept ==
    ASSUME MediaInv, NEW s \in Session, MediaUpdated(s) PROVE AllKept'
<1> DEFINE r == [ses[s] EXCEPT !.busy = FALSE, !.waiting = FALSE]
           i == SendInvite(r)
           u == UpdateSucceed(r)
           a == SendAnswer(u, FALSE)
<1>1. Tidy(r)
  <2>1. Tidy(ses[s])
    BY BegunSound DEF MediaUpdated
  <2> QED
    BY <2>1 DEF Tidy, Used, Open
<1>2. \/ r.st = "ClientEstablishing" /\ Set(s, Processed(r, StateChanged(i, "Offering")))
      \/ r.st = "Offering" /\ Set(s, OfferingMediaUpdated(r))
      \/ Set(s, Processed(r, Become(a, "Answering", "EProceeding")))
      \/ Set(s, Processed(r, Become(r, "Updated", "EProceeding")))
      \/ Set(s, Processed(r, r))
      \/ Set(s, Become(StopMedia(r), "Error", "ETerminated"))
  BY DEF MediaUpdated
<1> HIDE DEF r
<1>3. r.st = "ClientEstablishing" => Fresh(StateChanged(i, "Offering"))
  <2>1. Tidy(i) /\ i.st = r.st
    BY <1>1, CallsTidy DEF Keeping
  <2> HIDE DEF i
  <2> QED
    BY <2>1 DEF Fresh, Tidy, Used, Open, StateChanged
<1>4. Fresh(Become(a, "Answering", "EProceeding"))
  <2>1. Tidy(u)
    BY <1>1, CallsTidy DEF Keeping
  <2> HIDE DEF u
  <2> QED
    BY <2>1, AnswerTidy
<1>5. /\ Fresh(Become(r, "Updated", "EProceeding"))
      /\ Fresh(Become(StopMedia(r), "Error", "ETerminated"))
  BY <1>1, BecomeFresh, StopMediaCloses, EndsFresh DEF Tidy
<1> HIDE DEF i, a
<1> QED
  BY <1>1, <1>2, <1>3, <1>4, <1>5, OfferingMediaUpdatedSound, ProcessedSelf, FreshSound,
     SetKept DEF Kept

\* Without "late timer" the timer expires in Established, or after the end.
LEMMA TimerExpiredKept ==
    ASSUME MediaInv, NEW s \in Session, TimerExpired(s) PROVE AllKept'
<1> DEFINE r == [ses[s] EXCEPT !.timer = FALSE]
           f == SendSessionRefresh(r)
           b == StopMedia(SendBYE(r))
           e == StateChanged(r, "Terminated")
<1>1. Tidy(r) /\ r.st \in {"Terminated", "Error", "Established"}
  <2>1. Tidy(ses[s])
    BY BegunSound DEF TimerExpired
  <2>2. ses[s].st \in {"Terminated", "Error", "Established"}
    BY DEF TimerExpired, MediaInv, Undisturbed, Ended
  <2> QED
    BY <2>1, <2>2 DEF Tidy, Used, Open
<1>2. \/ /\ r.st = "Established" /\ r.dialog = "confirmed"
         /\ Set(s, Processed(r, Become(f, "Offering", "EOffering")))
      \/ Set(s, Processed(r, Become(b, "Terminating", "ETerminating")))
      \/ Set(s, Processed(r, r))
      \/ /\ r.st = "Established" /\ r.dialog # "confirmed"
         /\ Set(s, ClientErrorOccured(e))
  BY <1>1 DEF TimerExpired, Ended, CanSendBYE
<1> HIDE DEF r
<1>3. r.st = "Established" /\ r.dialog = "confirmed" =>
         Fresh(Become(f, "Offering", "EOffering"))
  <2>1. r.st = "Established" /\ r.dialog = "confirmed" => Tidy(f) /\ f.sub = "Refreshing"
    BY <1>1 DEF Tidy, Used, Open, SendSessionRefresh, SendInvite
  <2> HIDE DEF f
  <2> QED
    BY <2>1, BecomeFresh
<1>4. Fresh(Become(b, "Terminating", "ETerminating"))
  <2>1. Used(SendBYE(r))
    BY <1>1 DEF Tidy, Used, SendBYE
  <2> QED
    BY <2>1, StopMediaCloses, EndsFresh
<1>5. r.st = "Established" /\ r.dialog # "confirmed" => Fresh(ClientErrorOccured(e))
  BY <1>1 DEF Fresh, Tidy, Used, Open, StateChanged, ClientErrorOccured, ClientStateChanged
<1> HIDE DEF b, e, f
<1> QED
  BY <1>1, <1>2, <1>3, <1>4, <1>5, ProcessedSelf, FreshSound, SetKept DEF Kept

LEMMA NextKept == MediaInv /\ [Next]_vars => AllKept'
<1> SUFFICES ASSUME MediaInv, [Next]_vars PROVE AllKept'
  OBVIOUS
<1>1. CASE UNCHANGED vars
  BY <1>1 DEF vars, MediaInv, AllKept
<1>2. CASE Next
  <2>1. ASSUME NEW s \in Session, PeerRequest(s) PROVE AllKept'
    BY <2>1, StartKept, ReInviteReceivedKept, ByeReceivedKept, InviteCanceledKept
    DEF PeerRequest
  <2>2. ASSUME NEW s \in Session, FinalResponse(s) PROVE AllKept'
    BY <2>2, AnsweredKept, RedirectedKept, RefusedKept, TimesOutKept DEF FinalResponse
  <2>3. ASSUME NEW s \in Session, AckEnds(s) PROVE AllKept'
    BY <2>3, AckReceivedKept, TimesOutKept DEF AckEnds
  <2> QED
    BY <1>2, <2>1, <2>2, <2>3, ClientRequestKept, ProvisionalKept, CancelEndsKept,
       ByeEndsKept, InviteCompletedKept, MediaUpdatedKept, TimerExpiredKept DEF Next
<1> QED
  BY <1>1, <1>2

LEMMA KeptReleased == AllKept => MediaReleased
<1> SUFFICES ASSUME AllKept, NEW s \in Session, ses[s].st \in Ended \cup {"Terminating"},
                    ses[s].media = "open"
             PROVE  RejectedAtOnce(ses[s])
  BY DEF MediaReleased
<1>1. Sound(ses[s])
  BY DEF AllKept, Kept, Unused
<1> QED
  BY <1>1 DEF Sound, Tidy, Open, Ended, RejectedAtOnce

\* A session that is ending, or has ended, holds no media session, unless the
\* client rejected the first offer at once: whatever the order of responses,
\* requests, callbacks, failures and deletions, and however many sessions share
\* the state objects - if no update is redirected, the peer does not hang up on
\* a cancelled update, and the session timer expires only in Established.
THEOREM MediaAlwaysReleased ==
    ASSUME Undisturbed PROVE Spec => []MediaReleased
<1> DEFINE Always == Inv /\ AllKept
<1>1. Init => Always
  <2>1. Unused(Free)
    BY DEF Free, NewOutSession, Unused
  <2> QED
    BY <2>1, InitInv DEF Init, AllKept, Kept
<1>2. Always => MediaInv
  BY DEF Inv, MediaInv
<1>3. Always /\ [Next]_vars => Always'
  BY <1>2, NextInv, NextKept
<1>4. Always => MediaReleased
  BY KeptReleased
<1> QED
  BY <1>1, <1>3, <1>4, PTL DEF Spec
=============================================================================
