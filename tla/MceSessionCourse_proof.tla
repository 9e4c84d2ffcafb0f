----------------------- MODULE MceSessionCourse_proof -----------------------
(***************************************************************************)
(* Proofs about the course of a session: what it waits for is still to     *)
(* come, an established session is quiet, an offer is shown while it is    *)
(* pending, and an end is an end - for the client, the peer and the media  *)
(* manager - for any number of sessions and INVITEs.                       *)
(*                                                                         *)
(* The inductive invariant (Fit) says, state by state, what the other      *)
(* fields of a session are, for the sessions of a client and for those it  *)
(* has left behind (Left).                                                 *)
(***************************************************************************)
EXTENDS MceSession_proof

\* What the course of a session does not survive, whatever the property: an
\* answer in a 18x (it clears iReadyToSendACK, which all sessions share), a
\* redirected update, a CANCEL whose answer overtakes that of the INVITE, a
\* session timer in the middle of something else.
Plain ==
    /\ "early answer" \notin Allowed
    /\ "early update answer" \notin Allowed
    /\ "redirect update" \notin Allowed
    /\ "crossing" \notin Allowed
    /\ "late timer" \notin Allowed

\* The fields a call can change
Whole(r) ==
    {"st", "exit", "sub", "told", "media", "cand", "busy", "waiting", "answered", "invite",
     "initial", "cancel", "bye", "resp", "request", "dialog", "timer", "owner"} \subseteq DOMAIN r

\* What disturbs an established session
Undisturbed ==
    /\ "interval too small" \notin Allowed
    /\ "media fails" \notin Allowed
    /\ "bye to cancel" \notin Allowed

-----------------------------------------------------------------------------
(* What a session is like in each state *)

\* No INVITE of this side is under way, in ClientEstablishing and in the states
\* of an INVITE of the peer.
NoOffer(r) == r.invite \in {"none", "done"} /\ r.cancel # "out" /\ ~r.waiting

\* The first offer, or an update that has its candidate
OfferOrUpdate(r, first, dialog) ==
    /\ r.sub \in {first, "Updating"}
    /\ r.sub = first => r.dialog = dialog /\ (Undisturbed => ~r.cand)
    /\ r.sub = "Updating" => r.dialog = "confirmed" /\ r.cand

AtIdle(r) ==
    /\ NoOffer(r) /\ r.invite = "none" /\ r.dialog = "none" /\ r.told = "EIdle"
    /\ ~r.cand /\ ~r.busy /\ r.request = "none" /\ r.bye = "none"

AtClientEstablishing(r) ==
    /\ NoOffer(r) /\ OfferOrUpdate(r, "Offering", "none")
    /\ r.request = "none" /\ r.bye = "none"
    /\ r.owner = "client" => r.busy

AtServerEstablishing(r) ==
    /\ NoOffer(r) /\ OfferOrUpdate(r, "Answering", "early")
    /\ r.request = "open" /\ r.bye = "none" /\ ~r.busy

AtUpdating(r) ==
    /\ NoOffer(r) /\ OfferOrUpdate(r, "Answering", "early")
    /\ r.request = "open" /\ r.bye = "none"
    /\ r.owner = "client" => r.busy

AtUpdated(r) ==
    /\ NoOffer(r) /\ r.sub = "Answering" /\ r.dialog = "early"
    /\ r.request = "open" /\ r.bye = "none" /\ ~r.busy
    /\ Undisturbed => ~r.cand

AtAnswering(r) ==
    /\ NoOffer(r) /\ r.sub \in {"Answering", "Updating", "Refreshing"}
    /\ r.dialog = "confirmed" /\ ~r.busy
    /\ r.request \in {"none", "accepted"}
    /\ r.owner = "client" => r.request = "accepted" /\ r.bye = "none"
    /\ Undisturbed => ~r.cand

\* The answer to the first offer confirms the dialog; in Offering it has come
\* when the media manager works on it.
AtOffering(r) ==
    /\ r.sub \in {"Offering", "Updating", "Refreshing"}
    /\ r.dialog # "terminated"
    /\ IF r.sub = "Offering" THEN r.dialog = "confirmed" <=> r.waiting
       ELSE r.dialog = "confirmed"
    /\ InvitePending(r) \/ r.waiting
    /\ r.waiting => /\ r.invite = "done" /\ r.resp = "2xx" /\ r.sub # "Refreshing"
                    /\ r.owner = "client" => r.busy
    /\ r.busy => r.waiting
    /\ r.cancel = "out" => r.sub = "Refreshing"
    /\ r.request = "none" /\ r.bye = "none"
    /\ IF r.sub = "Updating" THEN r.cand ELSE Undisturbed => ~r.cand

AtEstablished(r) ==
    /\ r.sub # "Offering" /\ r.invite # "accepted" /\ ~r.busy /\ ~r.waiting
    /\ r.request # "none" => r.request = "accepted" /\ r.dialog = "terminated"
    /\ r.owner = "client" =>
          /\ r.bye = "none"
          /\ \/ r.dialog = "confirmed"
             \/ r.dialog = "terminated" /\ "bye to cancel" \in Allowed
    /\ Undisturbed => ~r.cand /\ ~InvitePending(r)

AtCanceled(r) ==
    /\ r.sub \in {"Offering", "Updating", "Refreshing"}
    /\ r.sub # "Offering" <=> r.dialog = "confirmed"
    /\ r.invite \notin {"none", "accepted"} /\ ~r.busy /\ ~r.waiting
    /\ r.request = "none" /\ r.bye = "none"
    /\ r.owner = "client" /\ "redirect to cancel" \notin Allowed =>
          InvitePending(r) \/ r.cancel = "out"
    /\ Undisturbed => ~r.cand

AtTerminating(r) ==
    /\ r.bye = "out" /\ ~r.busy /\ r.request = "none"
    /\ r.owner = "client" => r.dialog = "confirmed"

\* When a session ends for the client, the peer knows.
AtEnd(r) ==
    /\ ~r.busy
    /\ r.request # "none" => r.request = "accepted" /\ r.dialog = "terminated"
    /\ r.owner = "client" /\ "lost" \notin Allowed =>
          /\ PeerReleased(r)
          /\ InvitePending(r) => r.dialog = "terminated" \/ r.bye # "none"

\* What is true in every state
Course(r) ==
    /\ r.media # "null"
    /\ r.told = "ETerminated" => r.st \in {"Terminating", "Terminated", "Error"}
    /\ InvitePending(r) /\ r.sub = "Offering" => r.dialog # "confirmed"
    /\ r.invite = "accepted" => r.dialog \in {"confirmed", "terminated"}
    /\ r.owner = "client" /\ InvitePending(r) /\ "interval too small" \notin Allowed =>
          r.st \in {"Offering", "Canceled"} \/ r.cancel # "none" \/ r.dialog = "terminated"
    /\ /\ r.owner = "client" /\ r.dialog = "terminated"
       /\ "redirect to cancel" \notin Allowed /\ "bye to cancel" \notin Allowed
       => r.st \in {"Terminated", "Error"}

\* A session as a handler leaves it
Fit(r) ==
    /\ Course(r)
    /\ r.st = "Idle" => AtIdle(r)
    /\ r.st = "ClientEstablishing" => AtClientEstablishing(r)
    /\ r.st = "ServerEstablishing" => AtServerEstablishing(r)
    /\ r.st = "Updating" => AtUpdating(r)
    /\ r.st = "Updated" => AtUpdated(r)
    /\ r.st = "Answering" => AtAnswering(r)
    /\ r.st = "Offering" => AtOffering(r)
    /\ r.st = "Established" => AtEstablished(r)
    /\ r.st = "Canceled" => AtCanceled(r)
    /\ r.st = "Terminating" => AtTerminating(r)
    /\ r.st \in {"Terminated", "Error"} => AtEnd(r)

\* A session its client has left behind, between two handlers
Left(r) ==
    r.owner = "orphan" =>
       /\ r.st \notin {"Idle", "ServerEstablishing", "Updated", "Error"}
       /\ r.st = "Updating" => ~r.busy
       /\ r.st = "Established" => r.dialog = "confirmed" /\ r.bye = "none"

\* A client that has been told of the end is told nothing else.
Told(q, n) == q.told = "ETerminated" => n.told = "ETerminated"

\* A session some handler has been called for
Running(r) == Whole(r) /\ Fit(r) /\ r.owner # "free"

\* A handler that finds q and leaves n
Proper(q, n) == Running(n) /\ Told(q, n)

\* n differs from m only in what Fit does not look at.
Alike(m, n) ==
    /\ n.st = m.st /\ n.sub = m.sub /\ n.told = m.told /\ n.media = m.media
    /\ n.cand = m.cand /\ n.busy = m.busy /\ n.waiting = m.waiting
    /\ n.invite = m.invite /\ n.cancel = m.cancel /\ n.bye = m.bye /\ n.resp = m.resp
    /\ n.request = m.request /\ n.dialog = m.dialog /\ n.owner = m.owner

-----------------------------------------------------------------------------
(* What every handler does *)

LEMMA AlikeFit ==
    ASSUME NEW m, NEW n, Fit(m), Alike(m, n) PROVE Fit(n)
<1>1. Course(n)
  BY DEF Fit, Alike, Course, InvitePending
<1>2. /\ n.st = "Idle" => AtIdle(n)
      /\ n.st = "ClientEstablishing" => AtClientEstablishing(n)
      /\ n.st = "ServerEstablishing" => AtServerEstablishing(n)
      /\ n.st = "Updating" => AtUpdating(n)
      /\ n.st = "Updated" => AtUpdated(n)
  BY DEF Fit, Alike, AtIdle, AtClientEstablishing, AtServerEstablishing, AtUpdating,
         AtUpdated, NoOffer, OfferOrUpdate
<1>3. /\ n.st = "Answering" => AtAnswering(n)
      /\ n.st = "Offering" => AtOffering(n)
  BY DEF Fit, Alike, AtAnswering, AtOffering, NoOffer, InvitePending
<1>4. /\ n.st = "Established" => AtEstablished(n)
      /\ n.st = "Canceled" => AtCanceled(n)
      /\ n.st = "Terminating" => AtTerminating(n)
  BY DEF Fit, Alike, AtEstablished, AtCanceled, AtTerminating, InvitePending
<1>5. n.st \in {"Terminated", "Error"} => AtEnd(n)
  BY DEF Fit, Alike, AtEnd, PeerReleased, InvitePending
<1> QED
  BY <1>1, <1>2, <1>3, <1>4, <1>5 DEF Fit

LEMMA MarkExitAlike ==
    ASSUME NEW q, NEW n, Whole(n)
    PROVE  Whole(MarkExit(q, n)) /\ Alike(n, MarkExit(q, n))
<1>1. \A e : Whole([n EXCEPT !.exit = e])
  BY DEF Whole
<1>2. \A e : Alike(n, [n EXCEPT !.exit = e])
  BY DEF Whole, Alike
<1> QED
  BY <1>1, <1>2, Zenon DEF MarkExit

\* In Established nothing is left of an offer or of a request.
LEMMA StateEntryFit ==
    ASSUME NEW n, Whole(n), Fit(n)
    PROVE  LET p == StateEntry(n)
           IN  Whole(p) /\ Fit(p) /\ p.told = n.told /\ p.owner = n.owner
<1>1. Whole(StateEntry(n))
  BY DEF Whole, StateEntry
<1>2. Fit(StateEntry(n))
  <2> DEFINE After(sub, request) == [n EXCEPT !.sub = sub, !.request = request]
  <2>1. CASE n.st # "Established"
    BY <2>1 DEF StateEntry
  <2>2. CASE n.st = "Established"
    <3>1. /\ Fit(After(n.sub, n.request)) /\ Fit(After("None", n.request))
          /\ Fit(After(n.sub, "none")) /\ Fit(After("None", "none"))
      BY <2>2 DEF Whole, Fit, Course, AtEstablished, InvitePending
    <3>2. \/ StateEntry(n) = After(n.sub, n.request) \/ StateEntry(n) = After("None", n.request)
          \/ StateEntry(n) = After(n.sub, "none") \/ StateEntry(n) = After("None", "none")
      BY <2>2 DEF StateEntry
    <3> HIDE DEF After
    <3> QED
      BY <3>1, <3>2
  <2> QED
    BY <2>1, <2>2
<1>3. StateEntry(n).told = n.told /\ StateEntry(n).owner = n.owner
  BY DEF Whole, StateEntry
<1> QED
  BY <1>1, <1>2, <1>3

LEMMA ProcessedProper ==
    ASSUME NEW q, NEW n, Proper(q, n), NEW x
    PROVE  /\ Proper(q, Processed(x, n))
           /\ Left(n) => Left(Processed(x, n))
<1> DEFINE m == MarkExit(x, n)
<1>1. Whole(m) /\ Fit(m) /\ Alike(n, m)
  BY MarkExitAlike, AlikeFit DEF Proper, Running
<1>2. Processed(x, n) = StateEntry(m)
  BY DEF Processed
<1> HIDE DEF m
<1>3. Proper(q, StateEntry(m))
  BY <1>1, StateEntryFit DEF Proper, Running, Told, Alike
<1>4. Left(n) => Left(StateEntry(m))
  BY <1>1 DEF Left, Alike, Whole, StateEntry
<1> QED
  BY <1>2, <1>3, <1>4

LEMMA MarkExitProper ==
    ASSUME NEW q, NEW n, Proper(q, n), NEW x
    PROVE  /\ Proper(q, MarkExit(x, n))
           /\ Left(n) => Left(MarkExit(x, n))
<1>1. Whole(MarkExit(x, n)) /\ Fit(MarkExit(x, n)) /\ Alike(n, MarkExit(x, n))
  BY MarkExitAlike, AlikeFit DEF Proper, Running
<1> QED
  BY <1>1 DEF Proper, Running, Told, Alike, Left

\* The answer to an INVITE; whether it starts the timer does not matter.
Accepted(r) == [r EXCEPT !.request = "accepted", !.dialog = "confirmed"]

LEMMA SendAnswerProper ==
    ASSUME NEW q, NEW r, NEW timer, NEW state, Whole(r),
           LET a == Become(Accepted(r), "Answering", state) IN Proper(q, a) /\ Left(a)
    PROVE  LET n == Become(SendAnswer(r, timer), "Answering", state)
           IN  Proper(q, n) /\ Left(n)
<1> DEFINE a == Become(Accepted(r), "Answering", state)
           n == Become(SendAnswer(r, timer), "Answering", state)
<1>1. \A v : LET m == [r EXCEPT !.request = "accepted", !.dialog = "confirmed", !.timer = v]
                 x == Become(m, "Answering", state)
             IN  Alike(a, x) /\ Whole(x)
  BY DEF Whole, Alike, Accepted, Become, StateChanged, ClientStateChanged
<1>2. Alike(a, n) /\ Whole(n)
  BY <1>1, Zenon DEF SendAnswer
<1> HIDE DEF a, n
<1>3. Fit(n)
  BY <1>2, AlikeFit DEF Proper, Running, a
<1> QED
  BY <1>2, <1>3 DEF Proper, Running, Told, Alike, Left, a, n

\* The entry of Established makes the session fit.
LEMMA EnteredProper ==
    ASSUME NEW q, NEW n, Whole(n), Proper(q, StateEntry(n)), NEW x
    PROVE  /\ Proper(q, Processed(x, n))
           /\ Left(StateEntry(n)) => Left(Processed(x, n))
<1> DEFINE m == MarkExit(x, n)
<1>1. Whole(m) /\ Alike(n, m)
  BY MarkExitAlike
<1>2. Processed(x, n) = StateEntry(m)
  BY DEF Processed
<1> HIDE DEF m
<1>3. Whole(StateEntry(m)) /\ Alike(StateEntry(n), StateEntry(m))
  BY <1>1 DEF Whole, Alike, StateEntry
<1>4. Fit(StateEntry(m))
  BY <1>3, AlikeFit DEF Proper, Running
<1> QED
  BY <1>2, <1>3, <1>4 DEF Proper, Running, Told, Alike, Left

-----------------------------------------------------------------------------
(* Disposal *)

LEMMA TerminateFits ==
    ASSUME Plain, NEW r, Whole(r), Fit(r)
    PROVE  LET o == [Terminate(r) EXCEPT !.owner = "orphan"]
           IN  Fit(o) /\ Left(o)
<1> DEFINE m == StopMedia(r)
           d == Discard(m)
           t == Terminate(r)
           Kept(n) == Fit([n EXCEPT !.owner = "orphan"]) /\ Left([n EXCEPT !.owner = "orphan"])
<1> SUFFICES Kept(t)
  OBVIOUS
<1>1. CASE r.st \notin {"Idle", "ServerEstablishing", "Updated", "Answering", "Offering",
                       "Established", "Terminating", "Error"}
  <2>1. t = m
    BY <1>1 DEF Terminate
  <2>2. Kept(m)
    BY <1>1 DEF Whole, Fit, Left, Course, AtClientEstablishing, AtUpdating, AtCanceled, AtEnd,
       NoOffer, OfferOrUpdate, InvitePending, StopMedia
  <2> QED
    BY <2>1, <2>2
<1>2. CASE r.st \in {"Idle", "Terminating"}
  <2>1. t = StateChanged(m, "Terminated")
    BY <1>2 DEF Terminate
  <2>2. Kept(StateChanged(m, "Terminated"))
    BY <1>2 DEF Whole, Fit, Left, Course, AtIdle, AtTerminating, AtEnd, InvitePending,
       StopMedia, StateChanged
  <2> QED
    BY <2>1, <2>2
<1>3. CanSendBYE(m) <=> r.dialog \in {"early", "confirmed"}
  BY DEF Whole, StopMedia, CanSendBYE
<1>4. CASE r.st = "Answering"
  <2>1. t = StateChanged(SendBYE(m), "Answering")
    BY <1>3, <1>4 DEF Fit, AtAnswering, Terminate, Hangup
  <2>2. Kept(StateChanged(SendBYE(m), "Answering"))
    BY <1>4 DEF Whole, Fit, Left, Course, AtAnswering, NoOffer, InvitePending, StopMedia,
       SendBYE, StateChanged
  <2> QED
    BY <2>1, <2>2
<1>5. CASE r.st \in {"Established", "Error"}
  <2>1. \/ CanSendBYE(m) /\ t = StateChanged(SendBYE(m), "Terminating")
        \/ t = StateChanged(m, "Terminated")
    BY <1>5 DEF Terminate, Hangup
  <2>2. CanSendBYE(m) => Kept(StateChanged(SendBYE(m), "Terminating"))
    BY <1>3, <1>5 DEF Whole, Fit, Left, Course, AtEstablished, AtEnd, AtTerminating, InvitePending,
       StopMedia, SendBYE, StateChanged
  <2>3. Kept(StateChanged(m, "Terminated"))
    BY <1>5 DEF Whole, Fit, Left, Course, AtEstablished, AtEnd, InvitePending, StopMedia,
       StateChanged
  <2> QED
    BY <2>1, <2>2, <2>3
<1>6. CASE r.st = "Updated"
  <2>1. t = StateChanged(d, "Terminated")
    BY <1>6 DEF Terminate
  <2>2. Kept(StateChanged(d, "Terminated"))
    BY <1>6 DEF Whole, Fit, Left, Course, AtUpdated, AtEnd, NoOffer, InvitePending, StopMedia,
       Discard, StateChanged
  <2> QED
    BY <2>1, <2>2
<1>7. CASE r.st = "ServerEstablishing"
  <2>1. \/ t = StateChanged(SendBYE(d), "Terminating")
        \/ t = StateChanged(d, "Terminated")
    BY <1>7 DEF Terminate, Hangup
  <2>2. Kept(StateChanged(SendBYE(d), "Terminating"))
    BY <1>7 DEF Whole, Fit, Left, Course, AtServerEstablishing, AtTerminating, NoOffer,
       InvitePending, StopMedia, Discard, SendBYE, StateChanged
  <2>3. Kept(StateChanged(d, "Terminated"))
    BY <1>7 DEF Whole, Fit, Left, Course, AtServerEstablishing, AtEnd, NoOffer, InvitePending,
       StopMedia, Discard, StateChanged
  <2> QED
    BY <2>1, <2>2, <2>3
<1>8. CASE r.st = "Offering" /\ r.sub = "Offering"
  <2>1. \/ t = StateChanged(SendBYE(m), "Terminating")
        \/ CanCancel(m) /\ t = StateChanged(SendCancel(m), "Canceled")
        \/ t = StateChanged(m, "Terminated")
    BY <1>8 DEF Terminate, Hangup
  <2>2. Kept(StateChanged(SendBYE(m), "Terminating")) /\ Kept(StateChanged(m, "Terminated"))
    BY <1>8 DEF Whole, Fit, Left, Course, AtOffering, AtTerminating, AtEnd, InvitePending,
       StopMedia, SendBYE, StateChanged
  <2>3. CanCancel(m) => Kept(StateChanged(SendCancel(m), "Canceled"))
    BY <1>8 DEF Whole, Fit, Left, Course, AtOffering, AtCanceled, InvitePending, CanCancel,
       StopMedia, SendCancel, StateChanged
  <2> QED
    BY <2>1, <2>2, <2>3
<1>9. CASE r.st = "Offering" /\ r.sub # "Offering"
  <2>1. t = m
    BY <1>9 DEF Terminate
  <2>2. Kept(m)
    BY <1>9 DEF Whole, Fit, Left, Course, AtOffering, InvitePending, StopMedia
  <2> QED
    BY <2>1, <2>2
<1> HIDE DEF t, m, d, Kept
<1> QED
  BY <1>1, <1>2, <1>4, <1>5, <1>6, <1>7, <1>8, <1>9

\* A session that is deleted has ended.
LEMMA GoneFits ==
    ASSUME NEW r, Whole(r), Fit(r), r.st = "Terminated"
    PROVE  Fit([r EXCEPT !.owner = "gone"])
BY DEF Whole, Fit, Course, AtEnd, InvitePending

LEMMA DisposeFits ==
    ASSUME Plain, NEW r, Whole(r), Fit(r)
    PROVE  LET d == Dispose(r) IN Whole(d) /\ Fit(d) /\ Left(d) /\ Told(r, d)
<1> DEFINE t == Terminate(r)
           o == [t EXCEPT !.owner = "orphan"]
           g == [t EXCEPT !.owner = "gone"]
           e == [r EXCEPT !.owner = "gone"]
           Kept(n) == Whole(n) /\ Fit(n) /\ Left(n) /\ Told(r, n)
<1>1. Whole(t) /\ t.told = r.told
  BY DEF Whole, Terminate, Hangup, StopMedia, Discard, SendBYE, SendCancel, StateChanged
<1>2. Fit(o) /\ Left(o)
  BY TerminateFits
<1> HIDE DEF t
<1>3. Whole(o) /\ o.told = r.told
  BY <1>1 DEF Whole
<1>4. Whole(g) /\ g.told = r.told /\ Left(g)
  BY <1>1 DEF Whole, Left
<1>5. t.st = "Terminated" => Fit(g)
  <2>1. o.st = t.st /\ g = [o EXCEPT !.owner = "gone"]
    BY <1>1 DEF Whole
  <2> HIDE DEF o, g
  <2> QED
    BY <1>2, <1>3, <2>1, GoneFits
<1>6. Whole(e) /\ e.told = r.told /\ Left(e)
  BY DEF Whole, Left
<1>7. r.st = "Terminated" => Fit(e)
  BY GoneFits
<1>8. \/ Dispose(r) = o
      \/ t.st = "Terminated" /\ Dispose(r) = g
      \/ r.st = "Terminated" /\ Dispose(r) = e
  <2>1. CASE CanDispose(r)
    <3>1. Dispose(r) = e
      BY <2>1 DEF Dispose
    <3> QED
      BY <2>1, <3>1 DEF CanDispose
  <2>2. CASE ~CanDispose(r)
    <3>1. Dispose(r) = IF CanDispose(t) THEN g ELSE o
      BY <2>2 DEF Dispose, t
    <3> HIDE DEF o, g
    <3> QED
      BY <3>1 DEF CanDispose
  <2> QED
    BY <2>1, <2>2
<1> HIDE DEF o, g, e
<1> QED
  BY <1>2, <1>3, <1>4, <1>5, <1>6, <1>7, <1>8 DEF Told

LEMMA DisposeOwner ==
    ASSUME NEW r, Whole(r) PROVE Dispose(r).owner # "free"
<1> DEFINE t == Terminate(r)
<1>1. Whole(t)
  BY DEF Whole, Terminate, Hangup, StopMedia, Discard, SendBYE, SendCancel, StateChanged
<1> HIDE DEF t
<1>2. \A n : Whole(n) => [n EXCEPT !.owner = "gone"].owner # "free"
                       /\ [n EXCEPT !.owner = "orphan"].owner # "free"
  BY DEF Whole
<1> QED
  BY <1>1, <1>2 DEF Dispose, t

\* Clean-up leaves every session fit, and the orphans as clean-up leaves them.
LEMMA SweepFits ==
    ASSUME Plain, NEW r, Whole(r), Fit(r)
    PROVE  LET d == Sweep(r) IN Whole(d) /\ Fit(d) /\ Left(d) /\ Told(r, d)
<1>1. CASE r.owner = "orphan"
  BY <1>1, DisposeFits DEF Sweep
<1>2. CASE r.owner # "orphan"
  BY <1>2 DEF Sweep, Left, Told
<1> QED
  BY <1>1, <1>2

-----------------------------------------------------------------------------
(* All sessions *)

AllFit ==
    \A s \in Session :
       /\ Whole(ses[s]) /\ Fit(ses[s]) /\ Left(ses[s])
       /\ ses[s].owner = "free" => ses[s].st = "Idle"

\* What the steps of the proof assume of the state ...
CourseInv == Plain /\ AllFit /\ readyToAck = TRUE /\ ses \in [Session -> SessionData]

\* ... and what they show of the next one
Goes == AllFit' /\ \A s \in Session : Told(ses[s], ses'[s])

LEMMA LiveRunning ==
    ASSUME CourseInv, NEW s \in Session, Live(s) PROVE Running(ses[s]) /\ Left(ses[s])
BY DEF CourseInv, AllFit, Live, Running

LEMMA SetGoes ==
    ASSUME CourseInv, NEW s \in Session, NEW n, Set(s, n), Proper(ses[s], n), Left(n)
    PROVE  Goes
BY DEF CourseInv, AllFit, Set, Proper, Running, Told, Goes

LEMMA IncomingGoes ==
    ASSUME CourseInv, NEW s \in Session, NEW n, Incoming(s, n), Proper(ses[s], n)
    PROVE  Goes
<1> SUFFICES ASSUME NEW t \in Session
             PROVE  /\ Whole(ses'[t]) /\ Fit(ses'[t]) /\ Left(ses'[t])
                    /\ ses'[t].owner = "free" => ses'[t].st = "Idle"
                    /\ Told(ses[t], ses'[t])
  BY DEF Goes, AllFit
<1> DEFINE r == IF t = s THEN n ELSE ses[t]
<1>1. /\ Whole(r) /\ Fit(r) /\ Told(ses[t], r)
      /\ r.owner = "free" => r.st = "Idle"
  BY DEF CourseInv, AllFit, Proper, Running, Told
<1>2. ses'[t] = Sweep(r)
  BY DEF Incoming
<1> HIDE DEF r
<1>3. /\ Whole(Sweep(r)) /\ Fit(Sweep(r)) /\ Left(Sweep(r)) /\ Told(r, Sweep(r))
  BY <1>1, SweepFits DEF CourseInv
<1>4. Sweep(r).owner = "free" => Sweep(r) = r
  <2>1. r.owner = "orphan" => Dispose(r).owner # "free"
    BY <1>1, DisposeOwner
  <2> QED
    BY <2>1 DEF Sweep
<1> QED
  BY <1>1, <1>2, <1>3, <1>4 DEF Told

-----------------------------------------------------------------------------
(* Requests of the client *)

LEMMA EstablishSessionGoes ==
    ASSUME CourseInv, NEW s \in Session, EstablishSession(s) PROVE Goes
<1> DEFINE q == ses[s]
           r == [q EXCEPT !.sub = "Offering"]
           m == [r EXCEPT !.media = "open"]
           i == Become(SendInvite(m), "Offering", "EOffering")
           u == Become(UpdateAsync(m), "ClientEstablishing", "EOffering")
<1>1. \/ Set(s, Processed(r, i)) \/ Set(s, Processed(r, u)) \/ Set(s, MarkExit(r, r))
  BY DEF EstablishSession, MediaResults
<1>2. Running(q) /\ q.st = "Idle" /\ q.owner = "client"
  BY LiveRunning DEF EstablishSession, Left, Live
<1> HIDE DEF q
<1>3. Proper(q, i) /\ Left(i)
  BY <1>2 DEF Proper, Running, Whole, Fit, Left, Told, Course, AtIdle, AtOffering,
         NoOffer, InvitePending, SendInvite, Become, StateChanged, ClientStateChanged
<1>4. Proper(q, u) /\ Left(u)
  BY <1>2 DEF Proper, Running, Whole, Fit, Left, Told, Course, AtIdle,
         AtClientEstablishing, NoOffer, OfferOrUpdate, InvitePending, UpdateAsync,
         Become, StateChanged, ClientStateChanged
<1>5. Proper(q, r) /\ Left(r)
  BY <1>2 DEF Proper, Running, Whole, Fit, Left, Told, Course, AtIdle, NoOffer,
         InvitePending
<1> HIDE DEF i, u, r
<1> QED
  BY <1>1, <1>3, <1>4, <1>5, ProcessedProper, MarkExitProper, SetGoes DEF q

LEMMA CancelEstablishingGoes ==
    ASSUME CourseInv, NEW s \in Session, CancelEstablishing(s) PROVE Goes
<1> DEFINE q == ses[s]
           t == Become(StopMedia(q), "Terminated", "ETerminated")
           e == Become(UpdateFailed(q), "Established", "EEstablished")
<1>1. \/ q.sub = "Offering" /\ Set(s, Processed(q, t))
      \/ q.sub # "Offering" /\ Set(s, Processed(q, e))
  BY DEF CancelEstablishing
<1>2. Running(q) /\ Left(q) /\ q.st = "ClientEstablishing"
  BY LiveRunning DEF CancelEstablishing
<1> HIDE DEF q
<1>3. q.sub = "Offering" => Proper(q, t) /\ Left(t)
  BY <1>2 DEF Proper, Running, Whole, Fit, Left, Told, Course, AtClientEstablishing,
         NoOffer, OfferOrUpdate, AtEnd, PeerReleased, InvitePending, StopMedia, Become,
         StateChanged, ClientStateChanged
<1>4. q.sub # "Offering" => Proper(q, e) /\ Left(e)
  BY <1>2 DEF Proper, Running, Whole, Fit, Left, Told, Course, AtClientEstablishing,
         NoOffer, OfferOrUpdate, AtEstablished, InvitePending, UpdateFailed, Become,
         StateChanged, ClientStateChanged
<1> HIDE DEF t, e
<1> QED
  BY <1>1, <1>3, <1>4, ProcessedProper, SetGoes DEF q

LEMMA EntryCancelProper ==
    ASSUME NEW q, Running(q), q.st = "Offering", InvitePending(q)
    PROVE  LET n == Become(EntryCancel(q), "Canceled", "ECancelling") IN Proper(q, n) /\ Left(n)
<1> DEFINE n == Become(EntryCancel(q), "Canceled", "ECancelling")
<1>1. CASE q.sub = "Offering"
  BY <1>1 DEF Proper, Running, Whole, Fit, Left, Told, Course, AtOffering, AtCanceled,
         InvitePending, EntryCancel, StopMedia, SendCancel, Become, StateChanged,
         ClientStateChanged
<1>2. CASE q.sub # "Offering"
  BY <1>2 DEF Proper, Running, Whole, Fit, Left, Told, Course, AtOffering, AtCanceled,
         InvitePending, EntryCancel, UpdateFailed, SendCancel, Become, StateChanged,
         ClientStateChanged
<1> QED
  BY <1>1, <1>2

LEMMA CancelOfferingGoes ==
    ASSUME CourseInv, NEW s \in Session, CancelOffering(s) PROVE Goes
<1> DEFINE n == Become(EntryCancel(ses[s]), "Canceled", "ECancelling")
<1>1. Set(s, Processed(ses[s], n))
  BY DEF CancelOffering, OfferingExit, CourseInv
<1>2. Proper(ses[s], n) /\ Left(n)
  BY LiveRunning, EntryCancelProper DEF CancelOffering, CanCancel
<1> HIDE DEF n
<1> QED
  BY <1>1, <1>2, ProcessedProper, SetGoes

\* An offer of the peer that is refused
LEMMA RejectedExitProper ==
    ASSUME NEW q, Running(q), q.st = "ServerEstablishing", NEW n,
           \/ n = UpdateFailed(Discard(q))
           \/ q.sub = "Answering" /\ n = StopMedia(Discard(q))
    PROVE  q.owner = "client" => Proper(q, RejectedExit(q, n)) /\ Left(RejectedExit(q, n))
<1> SUFFICES ASSUME q.owner = "client"
             PROVE  Proper(q, RejectedExit(q, n)) /\ Left(RejectedExit(q, n))
  OBVIOUS
<1> DEFINE u == UpdateFailed(Discard(q))
           m == StopMedia(Discard(q))
<1>1. CASE q.sub = "Answering"
  <2>1. /\ Proper(q, Become(u, "Terminated", "ETerminated"))
        /\ Left(Become(u, "Terminated", "ETerminated"))
    BY <1>1, ZenonT(40) DEF Proper, Running, Whole, Fit, Left, Told, Course,
       AtServerEstablishing, NoOffer, OfferOrUpdate, AtEnd, PeerReleased, InvitePending,
       Discard, UpdateFailed, StopMedia, Become, StateChanged, ClientStateChanged
  <2>2. /\ Proper(q, Become(m, "Terminated", "ETerminated"))
        /\ Left(Become(m, "Terminated", "ETerminated"))
    BY <1>1, ZenonT(40) DEF Proper, Running, Whole, Fit, Left, Told, Course,
       AtServerEstablishing, NoOffer, OfferOrUpdate, AtEnd, PeerReleased, InvitePending,
       Discard, UpdateFailed, StopMedia, Become, StateChanged, ClientStateChanged
  <2> QED
    BY <1>1, <2>1, <2>2 DEF RejectedExit
<1>2. CASE q.sub # "Answering"
  <2>1. /\ Proper(q, Become(u, "Established", "EEstablished"))
        /\ Left(Become(u, "Established", "EEstablished"))
    BY <1>2 DEF Proper, Running, Whole, Fit, Left, Told, Course, AtServerEstablishing,
           NoOffer, OfferOrUpdate, AtEstablished, InvitePending, Discard, UpdateFailed,
           Become, StateChanged, ClientStateChanged
  <2> QED
    BY <1>2, <2>1 DEF RejectedExit
<1> QED
  BY <1>1, <1>2

LEMMA UpdateIncomingGoes ==
    ASSUME CourseInv, NEW s \in Session, UpdateIncoming(s) PROVE Goes
<1> DEFINE q == ses[s]
           d == Become(q, "Updated", "EProceeding")
           u == Become(UpdateAsync(q), "Updating", "EReserving")
           v == UpdateSucceed(q)
           a == Become(SendAnswer(v, FALSE), "Answering", "EAnswering")
           m == StopMedia(Discard(q))
           f == UpdateFailed(Discard(q))
<1>1. \/ q.sub = "Answering" /\ Set(s, Processed(q, d))
      \/ q.sub # "Answering" /\ Set(s, Processed(q, a))
      \/ Set(s, Processed(q, u))
      \/ q.sub = "Answering" /\ Set(s, Processed(q, RejectedExit(q, m)))
      \/ Set(s, Processed(q, RejectedExit(q, f)))
  BY DEF UpdateIncoming
<1>2. Running(q) /\ q.owner = "client" /\ q.st = "ServerEstablishing"
  BY LiveRunning DEF UpdateIncoming, Live, Left
<1> HIDE DEF q
<1>3. q.sub = "Answering" => Proper(q, d) /\ Left(d)
  BY <1>2 DEF Proper, Running, Whole, Fit, Left, Told, Course, AtServerEstablishing,
         AtUpdated, NoOffer, OfferOrUpdate, InvitePending, Become, StateChanged,
         ClientStateChanged
<1>4. Proper(q, u) /\ Left(u)
  BY <1>2 DEF Proper, Running, Whole, Fit, Left, Told, Course, AtServerEstablishing,
         AtUpdating, NoOffer, OfferOrUpdate, InvitePending, UpdateAsync, Become,
         StateChanged, ClientStateChanged
<1>5. q.sub # "Answering" => Proper(q, a) /\ Left(a)
  <2> DEFINE n == Become(Accepted(v), "Answering", "EAnswering")
  <2>1. q.sub # "Answering" => Proper(q, n) /\ Left(n) /\ Whole(v)
    BY <1>2 DEF Proper, Running, Whole, Fit, Left, Told, Course, AtServerEstablishing,
           AtAnswering, NoOffer, OfferOrUpdate, InvitePending, UpdateSucceed, Accepted,
           Become, StateChanged, ClientStateChanged
  <2> HIDE DEF v
  <2> QED
    BY <2>1, SendAnswerProper
<1>6. /\ Proper(q, RejectedExit(q, f)) /\ Left(RejectedExit(q, f))
      /\ q.sub = "Answering" => Proper(q, RejectedExit(q, m)) /\ Left(RejectedExit(q, m))
  BY <1>2, RejectedExitProper
<1> HIDE DEF d, u, a, m, f
<1> QED
  BY <1>1, <1>3, <1>4, <1>5, <1>6, ProcessedProper, SetGoes DEF q

LEMMA RejectIncomingGoes ==
    ASSUME CourseInv, NEW s \in Session, RejectIncoming(s) PROVE Goes
<1> DEFINE q == ses[s]
           f == UpdateFailed(Discard(q))
<1>1. Running(q) /\ q.owner = "client" /\ q.st = "ServerEstablishing"
  BY LiveRunning DEF RejectIncoming, Live, Left
<1>2. q.sub # "Offering"
  BY <1>1 DEF Running, Fit, AtServerEstablishing, OfferOrUpdate
<1>3. Set(s, Processed(q, RejectedExit(q, f)))
  BY <1>2 DEF RejectIncoming
<1> HIDE DEF q
<1>4. Proper(q, RejectedExit(q, f)) /\ Left(RejectedExit(q, f))
  BY <1>1, RejectedExitProper
<1> HIDE DEF f
<1> QED
  BY <1>3, <1>4, ProcessedProper, SetGoes DEF q

LEMMA AcceptSessionGoes ==
    ASSUME CourseInv, NEW s \in Session, AcceptSession(s) PROVE Goes
<1> DEFINE q == ses[s]
           timer == "session timer" \in Allowed
           a == Become(SendAnswer(q, timer), "Answering", "EAnswering")
           n == Become(Accepted(q), "Answering", "EAnswering")
<1>1. Set(s, Processed(q, a))
  BY DEF AcceptSession
<1>2. Running(q) /\ q.owner = "client" /\ q.st = "Updated"
  BY LiveRunning DEF AcceptSession, Live, Left
<1> HIDE DEF q, timer
<1>3. Proper(q, n) /\ Left(n)
  BY <1>2 DEF Proper, Running, Whole, Fit, Left, Told, Course, AtUpdated, AtAnswering,
         NoOffer, InvitePending, Accepted, Become, StateChanged, ClientStateChanged
<1>4. Proper(q, a) /\ Left(a)
  BY <1>2, <1>3, SendAnswerProper DEF Running
<1> HIDE DEF a
<1> QED
  BY <1>1, <1>4, ProcessedProper, SetGoes DEF q

LEMMA RejectSessionGoes ==
    ASSUME CourseInv, NEW s \in Session, RejectSession(s) PROVE Goes
<1> DEFINE q == ses[s]
           n == Become(StopMedia(Discard(q)), "Terminated", "ETerminated")
<1>1. Set(s, Processed(q, n))
  BY DEF RejectSession
<1>2. Running(q) /\ q.st = "Updated"
  BY LiveRunning DEF RejectSession
<1> HIDE DEF q
<1>3. Proper(q, n) /\ Left(n)
  BY <1>2 DEF Proper, Running, Whole, Fit, Left, Told, Course, AtUpdated, AtEnd,
         NoOffer, PeerReleased, InvitePending, StopMedia, Discard, Become, StateChanged,
         ClientStateChanged
<1> HIDE DEF n
<1> QED
  BY <1>1, <1>3, ProcessedProper, SetGoes DEF q

LEMMA TerminateSessionGoes ==
    ASSUME CourseInv, NEW s \in Session, TerminateSession(s) PROVE Goes
<1> DEFINE q == ses[s]
           n == Become(StopMedia(SendBYE(q)), "Terminating", "ETerminating")
<1>1. Set(s, Processed(q, n))
  BY DEF TerminateSession
<1>2. Running(q) /\ q.st = "Established" /\ CanSendBYE(q)
  BY LiveRunning DEF TerminateSession
<1> HIDE DEF q
<1>3. Proper(q, n) /\ Left(n)
  BY <1>2 DEF Proper, Running, Whole, Fit, Left, Told, Course, AtEstablished,
         AtTerminating, CanSendBYE, InvitePending, StopMedia, SendBYE, Become,
         StateChanged, ClientStateChanged
<1> HIDE DEF n
<1> QED
  BY <1>1, <1>3, ProcessedProper, SetGoes DEF q

LEMMA UpdateSessionGoes ==
    ASSUME CourseInv, NEW s \in Session, UpdateSession(s) PROVE Goes
<1> DEFINE q == ses[s]
           c == CreateBodyCandidate(q)
           i == Become(SendInvite(c), "Offering", "EOffering")
           e == Become(UpdateSucceed(c), "Established", "EEstablished")
           u == Become(UpdateAsync(c), "ClientEstablishing", "EOffering")
<1>1. \/ Set(s, Processed(q, i)) \/ Set(s, Processed(q, e)) \/ Set(s, Processed(q, u))
      \/ "media fails" \in Allowed /\ Set(s, MarkExit(q, c))
  BY DEF UpdateSession, MediaResults
<1>2. /\ Running(q) /\ Left(q) /\ q.st = "Established" /\ q.dialog = "confirmed"
      /\ ~InvitePending(q) /\ q.cancel # "out" /\ q.owner \in {"client", "orphan"}
  BY LiveRunning DEF UpdateSession, Settled, CourseInv, Plain, Live
<1>20. q.invite \in Invite
  BY DEF CourseInv, SessionData
<1> HIDE DEF q
<1>3. Proper(q, i) /\ Left(i)
  BY <1>2 DEF Proper, Running, Whole, Fit, Left, Told, Course, AtEstablished,
         AtOffering, InvitePending, CreateBodyCandidate, SendInvite, Become,
         StateChanged, ClientStateChanged
<1>4. Proper(q, e) /\ Left(e)
  BY <1>2 DEF Proper, Running, Whole, Fit, Left, Told, Course, AtEstablished,
         InvitePending, CreateBodyCandidate, UpdateSucceed, Become, StateChanged,
         ClientStateChanged
<1>5. Proper(q, u) /\ Left(u)
  BY <1>2, <1>20 DEF Proper, Running, Whole, Fit, Left, Told, Course, AtEstablished,
         AtClientEstablishing, NoOffer, OfferOrUpdate, Invite, InvitePending,
         CreateBodyCandidate, UpdateAsync, Become, StateChanged, ClientStateChanged
<1>6. "media fails" \in Allowed => Proper(q, c) /\ Left(c)
  BY <1>2 DEF Proper, Running, Whole, Fit, Left, Told, Course, AtEstablished,
         Undisturbed, InvitePending, CreateBodyCandidate
<1> HIDE DEF i, e, u, c
<1> QED
  BY <1>1, <1>3, <1>4, <1>5, <1>6, ProcessedProper, MarkExitProper, SetGoes DEF q

LEMMA DeleteSessionGoes ==
    ASSUME CourseInv, NEW s \in Session, DeleteSession(s) PROVE Goes
<1> DEFINE q == ses[s]
<1>1. Set(s, Dispose(q)) /\ Whole(q) /\ Fit(q)
  BY DEF DeleteSession, CourseInv, AllFit
<1> HIDE DEF q
<1>2. Proper(q, Dispose(q)) /\ Left(Dispose(q))
  BY <1>1, DisposeFits, DisposeOwner DEF CourseInv, Proper, Running
<1> QED
  BY <1>1, <1>2, SetGoes DEF q

LEMMA CreateOutSessionGoes ==
    ASSUME CourseInv, NEW s \in Session, CreateOutSession(s) PROVE Goes
<1> DEFINE q == ses[s]
           n == NewOutSession
<1>1. Incoming(s, n)
  <2>1. Sweep(n) = n
    BY DEF Sweep, NewOutSession
  <2> QED
    BY <2>1 DEF CreateOutSession, Incoming
<1>2. q.told # "ETerminated"
  BY DEF CreateOutSession, CourseInv, AllFit, Fit, AtIdle
<1> HIDE DEF q
<1>3. Proper(q, n)
  BY <1>2 DEF Proper, Running, Whole, Fit, Told, Course, AtIdle, NoOffer, InvitePending,
         NewOutSession
<1> HIDE DEF n
<1> QED
  BY <1>1, <1>3, IncomingGoes DEF q

LEMMA IncomingSessionGoes ==
    ASSUME CourseInv, NEW s \in Session, IncomingSession(s) PROVE Goes
<1> DEFINE q == ses[s]
           n == Become([NewInSession EXCEPT !.media = "open"], "ServerEstablishing", "EIncoming")
<1>1. Incoming(s, Processed(NewInSession, n))
  BY DEF IncomingSession
<1>2. q.told # "ETerminated"
  BY DEF IncomingSession, CourseInv, AllFit, Fit, AtIdle
<1> HIDE DEF q
<1>3. Proper(q, n)
  BY <1>2 DEF Proper, Running, Whole, Fit, Told, Course, AtServerEstablishing, NoOffer,
         OfferOrUpdate, InvitePending, NewInSession, NewOutSession, Become,
         StateChanged, ClientStateChanged
<1> HIDE DEF n
<1> QED
  BY <1>1, <1>3, ProcessedProper, IncomingGoes DEF q

-----------------------------------------------------------------------------
(* Responses to an INVITE *)

LEMMA IncomingProcessed ==
    ASSUME CourseInv, NEW s \in Session, NEW x, NEW n, Incoming(s, Processed(x, n)),
           Proper(ses[s], n)
    PROVE  Goes
BY ProcessedProper, IncomingGoes

LEMMA IncomingEntered ==
    ASSUME CourseInv, NEW s \in Session, NEW x, NEW n, Incoming(s, Processed(x, n)), Whole(n),
           Proper(ses[s], StateEntry(n))
    PROVE  Goes
BY EnteredProper, IncomingGoes

\* No state but these has an INVITE pending.
LEMMA PendingState ==
    ASSUME NEW q, Running(q), InvitePending(q), q.st \in StateIndex
    PROVE  q.st \in {"Offering", "Established", "Canceled", "Terminating", "Terminated", "Error"}
BY DEF StateIndex, Running, Fit, AtIdle, AtClientEstablishing, AtServerEstablishing, AtUpdating,
       AtUpdated, AtAnswering, NoOffer, InvitePending

LEMMA LiveState ==
    ASSUME CourseInv, NEW s \in Session PROVE ses[s].st \in StateIndex
BY DEF CourseInv, SessionData

\* A 18x to a refresh the client does not know of ends an established session.
LEMMA EstablishedProvisional ==
    ASSUME NEW q, Running(q), Left(q), q.st = "Established", q.owner \in {"client", "orphan"},
           InvitePending(q), NEW code
    PROVE  Proper(q, HandleResponseError(Proceeding(q, code)))
<1> DEFINE r == Proceeding(q, code)
           u == Become(UpdateFailed(StopUpdatingMedia(r)), "Established", "EEstablished")
           b == Become(SendBYE(StopMedia(r)), "Terminating", "ETerminating")
           t == Become(StopMedia(r), "Terminated", "ETerminated")
<1> SUFFICES Proper(q, HandleResponseError(r))
  OBVIOUS
<1>1. q.dialog \in {"confirmed", "terminated"}
  BY DEF Running, Fit, AtEstablished, Left
<1>2. r.st = "Established" /\ r.dialog = q.dialog /\ r.sub = q.sub
  BY <1>1 DEF Running, Whole, Proceeding
<1>3. \/ r.sub = "Updating" /\ HandleResponseError(r) = u
      \/ r.sub # "Updating" /\ r.dialog = "confirmed" /\ HandleResponseError(r) = b
      \/ r.sub # "Updating" /\ r.dialog = "terminated" /\ HandleResponseError(r) = t
  <2> HIDE DEF r
  <2> QED
    BY <1>1, <1>2 DEF HandleResponseError
<1>4. q.sub = "Updating" => Proper(q, u)
  BY ZenonT(40) DEF Proper, Running, Whole, Fit, Told, Course, AtEstablished,
     InvitePending, Proceeding, UpdateFailed, StopUpdatingMedia, Become, StateChanged,
     ClientStateChanged
<1>5. q.dialog = "confirmed" => Proper(q, b)
  BY DEF Proper, Running, Whole, Fit, Told, Course, AtEstablished, AtTerminating,
         InvitePending, Proceeding, SendBYE, StopMedia, Become, StateChanged,
         ClientStateChanged
<1>6. q.dialog = "terminated" => Proper(q, t)
  BY DEF Proper, Running, Whole, Fit, Told, Course, AtEstablished, AtEnd, PeerReleased,
         InvitePending, Proceeding, StopMedia, Become, StateChanged, ClientStateChanged
<1> HIDE DEF u, b, t, r
<1> QED
  BY <1>1, <1>2, <1>3, <1>4, <1>5, <1>6

LEMMA ProvisionalGoes ==
    ASSUME CourseInv, NEW s \in Session, Provisional(s) PROVE Goes
<1> PICK code \in {"trying", "ringing", "progress"}, sdp \in BOOLEAN,
         result \in {"ready", "async", "fails", "bad"} :
       LET r == Proceeding(ses[s], code)
       IN  /\ sdp => (IF r.sub = "Offering" THEN "early answer"
                      ELSE "early update answer") \in Allowed
           /\ Incoming(s,
                CASE r.st = "Offering" /\ code # "trying" ->
                        OfferingProvisional(r, sdp, result)
                  [] r.st = "Canceled" ->
                        Processed(r, IF r.cancel = "out" THEN r ELSE SendCancel(r))
                  [] r.st \in Ended \cup {"Terminating"} -> Processed(r, r)
                  [] OTHER -> IF code = "trying" THEN Processed(r, r)
                              ELSE HandleResponseError(r))
  BY ZenonT(60) DEF Provisional, MediaResults
<1> DEFINE q == ses[s]
           r == Proceeding(q, code)
           o == ClientStateChanged(r, "EOffering")
           c == SendCancel(r)
<1>1. ~sdp
  BY DEF CourseInv, Plain
<1>2. \/ r.st = "Offering" /\ Incoming(s, OfferingProvisional(r, sdp, result))
      \/ Incoming(s, Processed(r, r))
      \/ r.st = "Canceled" /\ Incoming(s, Processed(r, c))
      \/ /\ r.st \notin {"Offering", "Canceled", "Terminated", "Error", "Terminating"}
         /\ Incoming(s, HandleResponseError(r))
  <2>1. CASE r.st = "Offering"
    BY <2>1 DEF Ended
  <2>2. CASE r.st = "Canceled"
    BY <2>2
  <2>3. CASE r.st \in {"Terminated", "Error", "Terminating"}
    BY <2>3 DEF Ended
  <2>4. CASE r.st \notin {"Offering", "Canceled", "Terminated", "Error", "Terminating"}
    BY <2>4 DEF Ended
  <2> QED
    BY <2>1, <2>2, <2>3, <2>4
<1>3. OfferingProvisional(r, sdp, result) = Processed(r, o)
  BY <1>1 DEF OfferingProvisional, CourseInv
<1>4. /\ Running(q) /\ Left(q) /\ InvitePending(q) /\ q.owner \in {"client", "orphan"}
      /\ q.st \in {"Offering", "Established", "Canceled", "Terminating", "Terminated", "Error"}
  BY LiveRunning, LiveState, PendingState DEF Provisional, Live
<1> HIDE DEF q
<1>5. r.st = q.st
  BY <1>4 DEF Running, Whole, Proceeding
<1>6. Proper(q, r)
  <2>1. CASE q.st = "Offering"
    BY <1>4, <2>1 DEF Proper, Running, Whole, Fit, Told, Course, AtOffering,
           InvitePending, Proceeding
  <2>2. CASE q.st = "Established"
    BY <1>4, <2>2 DEF Proper, Running, Whole, Fit, Told, Course, AtEstablished, Left,
           InvitePending, Proceeding
  <2>3. CASE q.st = "Canceled"
    BY <1>4, <2>3, ZenonT(40) DEF Proper, Running, Whole, Fit, Told, Course, AtCanceled,
       InvitePending, Proceeding
  <2>5. CASE q.st = "Terminating"
    BY <1>4, <2>5 DEF Proper, Running, Whole, Fit, Told, Course, AtTerminating,
           InvitePending, Proceeding
  <2>4. CASE q.st \in {"Terminated", "Error"}
    <3> DEFINE d == IF code # "trying" /\ q.dialog = "none" THEN "early" ELSE q.dialog
    <3>1. /\ r.invite = "proceeding" /\ r.dialog = d /\ r.st = q.st /\ r.owner = q.owner
          /\ r.cancel = q.cancel /\ r.bye = q.bye /\ r.request = q.request /\ r.busy = q.busy
          /\ r.told = q.told /\ r.media = q.media /\ r.sub = q.sub /\ Whole(r)
      BY <1>4 DEF Running, Whole, Proceeding
    <3>2. d = q.dialog \/ (q.dialog = "none" /\ d = "early")
      OBVIOUS
    <3> HIDE DEF r, d
    <3>3. Course(r)
      BY <1>4, <2>4, <3>1, <3>2 DEF Running, Fit, Course, InvitePending
    <3>4. AtEnd(r)
      BY <1>4, <2>4, <3>1, <3>2 DEF Running, Fit, AtEnd, PeerReleased, InvitePending
    <3> QED
      BY <1>4, <2>4, <3>1, <3>3, <3>4 DEF Proper, Running, Fit, Told
  <2> QED
    BY <1>4, <2>1, <2>2, <2>3, <2>4, <2>5
<1>7. r.st = "Offering" => Proper(q, o)
  BY <1>4, <1>5 DEF Proper, Running, Whole, Fit, Told, Course, AtOffering,
         InvitePending, Proceeding, ClientStateChanged
<1>8. r.st = "Canceled" => Proper(q, c)
  BY <1>4, <1>5 DEF Proper, Running, Whole, Fit, Told, Course, AtCanceled,
         InvitePending, Proceeding, SendCancel
<1>9. q.st = "Established" => Proper(q, HandleResponseError(r))
  BY <1>4, EstablishedProvisional
<1>10. s \in Session /\ q = ses[s]
  BY DEF q
<1> HIDE DEF r, o, c
<1>11. ASSUME NEW n, Proper(q, n), Incoming(s, Processed(r, n)) PROVE Goes
  BY <1>10, <1>11, IncomingProcessed
<1>12. ASSUME NEW n, Proper(q, n), Incoming(s, n) PROVE Goes
  BY <1>10, <1>12, IncomingGoes
<1> QED
  BY <1>2, <1>3, <1>4, <1>5, <1>6, <1>7, <1>8, <1>9, <1>11, <1>12

-----------------------------------------------------------------------------
(* The 2xx to an INVITE *)

\* What Fit looks at when the 2xx has been acknowledged
Acknowledged(q) == [q EXCEPT !.invite = "done", !.resp = "2xx", !.dialog = "confirmed"]

LEMMA AcknowledgedAlike ==
    ASSUME NEW q, Whole(q)
    PROVE  LET a == SendACK(Final(q, "accepted", "2xx"))
               t == [a EXCEPT !.timer = @ \/ "session timer" \in Allowed]
           IN  Whole(a) /\ Alike(Acknowledged(q), a) /\ Whole(t) /\ Alike(Acknowledged(q), t)
<1> DEFINE a == SendACK(Final(q, "accepted", "2xx"))
<1>1. \A v : LET n == [q EXCEPT !.invite = "done", !.resp = "2xx", !.initial = v,
                                !.dialog = "confirmed"]
             IN  Whole(n) /\ Alike(Acknowledged(q), n)
  BY DEF Whole, Alike, Acknowledged
<1>2. \E v : a = [q EXCEPT !.invite = "done", !.resp = "2xx", !.initial = v,
                           !.dialog = "confirmed"]
  BY DEF Whole, SendACK, Final
<1>3. Whole(a) /\ Alike(Acknowledged(q), a)
  BY <1>1, <1>2, ZenonT(40)
<1> HIDE DEF a
<1>4. \A v : Whole([a EXCEPT !.timer = v]) /\ Alike(Acknowledged(q), [a EXCEPT !.timer = v])
  BY <1>3 DEF Whole, Alike
<1>5. \A v : /\ Whole([a EXCEPT !.timer = @ \/ v])
             /\ Alike(Acknowledged(q), [a EXCEPT !.timer = @ \/ v])
  BY <1>4, Zenon
<1> QED
  BY <1>3, <1>5, Zenon DEF a

\* t has been acknowledged: all that can become of it in Offering.
LEMMA AnswerOutcomes ==
    ASSUME NEW q, Running(q), q.owner \in {"client", "orphan"}, q.st = "Offering",
           InvitePending(q), NEW t, Whole(t), Alike(Acknowledged(q), t)
    PROVE  /\ LET n == Become(UpdateSucceed(t), "Established", "EEstablished")
              IN  Whole(n) /\ Proper(q, StateEntry(n))
           /\ LET n == UpdateSucceed(Become(t, "Established", "EEstablished"))
              IN  Whole(n) /\ Proper(q, StateEntry(n))
           /\ q.sub # "Offering" =>
                 Proper(q, Become(UpdateFailed(t), "Established", "EEstablished"))
           /\ q.sub = "Refreshing" =>
                 Proper(q, Become(t, "Established", "EEstablished"))
           /\ q.sub # "Refreshing" => Proper(q, UpdateAsync([t EXCEPT !.waiting = TRUE]))
           /\ Proper(q, Become(StopMedia(SendBYE(t)), "Terminating", "ETerminating"))
           /\ Proper(q, HandleResponseError(t))
<1>1. /\ t.st = "Offering" /\ t.sub = q.sub /\ t.told = q.told /\ t.media = q.media
      /\ t.cand = q.cand /\ t.busy = q.busy /\ t.waiting = q.waiting /\ t.invite = "done"
      /\ t.cancel = q.cancel /\ t.bye = q.bye /\ t.resp = "2xx" /\ t.request = q.request
      /\ t.dialog = "confirmed" /\ t.owner = q.owner
  BY DEF Running, Whole, Alike, Acknowledged
<1>2. /\ q.sub \in {"Offering", "Updating", "Refreshing"} /\ ~q.waiting /\ ~q.busy
      /\ q.request = "none" /\ q.bye = "none" /\ q.told # "ETerminated" /\ q.media # "null"
      /\ IF q.sub = "Updating" THEN q.cand ELSE Undisturbed => ~q.cand
      /\ q.cancel = "out" => q.sub = "Refreshing"
  BY DEF Running, Fit, AtOffering, Course, InvitePending
<1>3. LET n == Become(UpdateSucceed(t), "Established", "EEstablished")
          m == UpdateSucceed(Become(t, "Established", "EEstablished"))
      IN  Whole(n) /\ Proper(q, StateEntry(n)) /\ m = n
  <2> DEFINE n == Become(UpdateSucceed(t), "Established", "EEstablished")
  <2>1. /\ Whole(n) /\ n = UpdateSucceed(Become(t, "Established", "EEstablished"))
        /\ n.st = "Established" /\ n.told = "EEstablished" /\ n.media = q.media
        /\ ~n.busy /\ ~n.waiting /\ n.invite = "done" /\ n.bye = "none"
        /\ n.resp = "2xx" /\ n.request = "none" /\ n.dialog = "confirmed" /\ n.owner = q.owner
        /\ Undisturbed => ~n.cand
    <3>1. CASE q.sub = "Updating"
      BY <1>1, <1>2, <3>1 DEF Whole, UpdateSucceed, Become, StateChanged, ClientStateChanged
    <3>2. CASE q.sub # "Updating"
      BY <1>1, <1>2, <3>2 DEF Whole, UpdateSucceed, Become, StateChanged, ClientStateChanged
    <3> QED
      BY <3>1, <3>2
  <2> HIDE DEF n
  <2>2. StateEntry(n) = [n EXCEPT !.sub = "None", !.request = "none"]
    BY <2>1 DEF Whole, StateEntry
  <2> DEFINE e == [n EXCEPT !.sub = "None", !.request = "none"]
  <2>3. /\ Whole(e) /\ e.st = "Established" /\ e.sub = "None" /\ e.told = "EEstablished"
        /\ e.media = q.media /\ ~e.busy /\ ~e.waiting /\ e.invite = "done" /\ e.bye = "none"
        /\ e.request = "none" /\ e.dialog = "confirmed" /\ e.owner = q.owner
        /\ Undisturbed => ~e.cand
    BY <2>1 DEF Whole
  <2> HIDE DEF e
  <2>4. Proper(q, e)
    BY <1>2, <2>3 DEF Proper, Running, Fit, Told, Course, AtEstablished, InvitePending
  <2> QED
    BY <2>1, <2>2, <2>4 DEF n, e
<1>4. /\ q.sub # "Offering" =>
            Proper(q, Become(UpdateFailed(t), "Established", "EEstablished"))
      /\ q.sub = "Refreshing" => Proper(q, Become(t, "Established", "EEstablished"))
  BY <1>1, <1>2, ZenonT(40) DEF Proper, Running, Whole, Fit, Told, Course, AtEstablished,
     InvitePending, UpdateFailed, Become, StateChanged, ClientStateChanged
<1>5. q.sub # "Refreshing" => Proper(q, UpdateAsync([t EXCEPT !.waiting = TRUE]))
  BY <1>1, <1>2 DEF Proper, Running, Whole, Fit, Told, Course, AtOffering,
         InvitePending, UpdateAsync
<1>6. Proper(q, Become(StopMedia(SendBYE(t)), "Terminating", "ETerminating"))
  BY <1>1, <1>2 DEF Proper, Running, Whole, Fit, Told, Course, AtTerminating,
         InvitePending, SendBYE, StopMedia, Become, StateChanged, ClientStateChanged
<1>7. Proper(q, HandleResponseError(t))
  <2> DEFINE x == MarkExit(t, t)
             u == Become(UpdateFailed(StopUpdatingMedia(x)), "Established", "EEstablished")
             b == Become(SendBYE(StopMedia(x)), "Terminating", "ETerminating")
  <2>1. Whole(x) /\ Alike(t, x)
    BY MarkExitAlike
  <2>2. HandleResponseError(t) = IF t.sub = "Updating" THEN u ELSE b
    BY <1>1 DEF HandleResponseError
  <2> HIDE DEF x
  <2>3. CASE q.sub = "Updating"
    <3>1. /\ Whole(u) /\ u.st = "Established" /\ u.sub = "Updating" /\ u.told = "EEstablished"
          /\ u.media = q.media /\ ~u.cand /\ ~u.busy /\ ~u.waiting
          /\ u.invite = "done" /\ u.bye = "none" /\ u.request = "none"
          /\ u.dialog = "confirmed" /\ u.owner = q.owner
      BY <1>1, <1>2, <2>1, <2>3 DEF Alike, Whole, UpdateFailed, StopUpdatingMedia, Become,
         StateChanged, ClientStateChanged
    <3>2. Proper(q, u)
      BY <1>2, <3>1 DEF Proper, Running, Fit, Told, Course, AtEstablished, InvitePending
    <3> QED
      BY <1>1, <2>2, <2>3, <3>2
  <2>4. CASE q.sub # "Updating"
    <3>1. Proper(q, b)
      BY <1>1, <1>2, <2>1, <2>4, ZenonT(40) DEF Proper, Running, Whole, Fit, Told, Course,
         Alike, AtTerminating, InvitePending, SendBYE, StopMedia, Become, StateChanged,
         ClientStateChanged
    <3> QED
      BY <1>1, <2>2, <2>4, <3>1
  <2> QED
    BY <2>3, <2>4
<1> QED
  BY <1>3, <1>4, <1>5, <1>6, <1>7

LEMMA OfferingAnsweredProper ==
    ASSUME NEW q, Running(q), q.owner \in {"client", "orphan"}, q.st = "Offering",
           InvitePending(q), NEW sdp \in BOOLEAN, NEW result \in {"ready", "async", "fails", "bad"}
    PROVE  Proper(q, OfferingAnswered(Final(q, "accepted", "2xx"), sdp, result, TRUE))
<1> DEFINE r == Final(q, "accepted", "2xx")
           a == SendACK(r)
           t == [a EXCEPT !.timer = @ \/ "session timer" \in Allowed]
           e == Become(a, "Established", "EEstablished")
           n == OfferingAnswered(r, sdp, result, TRUE)
<1>1. r.sub = q.sub /\ r.waiting = FALSE
  BY DEF Running, Whole, Fit, AtOffering, InvitePending, Final
<1>2. /\ Whole(a) /\ Alike(Acknowledged(q), a)
      /\ Whole(t) /\ Alike(Acknowledged(q), t)
  BY AcknowledgedAlike DEF Running
<1> HIDE DEF r
<1>3. \/ n = Processed(r, UpdateSucceed(e))
      \/ q.sub = "Refreshing" /\ n = Processed(r, Become(t, "Established", "EEstablished"))
      \/ n = Processed(r, Become(UpdateSucceed(t), "Established", "EEstablished"))
      \/ q.sub # "Refreshing" /\ n = Processed(r, UpdateAsync([t EXCEPT !.waiting = TRUE]))
      \/ n = Processed(r, Become(StopMedia(SendBYE(t)), "Terminating", "ETerminating"))
      \/ /\ q.sub # "Offering"
         /\ n = Processed(r, Become(UpdateFailed(t), "Established", "EEstablished"))
      \/ n = HandleResponseError(t)
  <2> HIDE DEF a, t
  <2>1. n = CASE ~sdp -> Processed(r, UpdateSucceed(e))
              [] sdp /\ q.sub = "Refreshing" ->
                    Processed(r, Become(t, "Established", "EEstablished"))
              [] sdp /\ q.sub # "Refreshing" /\ result = "ready" ->
                    Processed(r, Become(UpdateSucceed(t), "Established", "EEstablished"))
              [] sdp /\ q.sub # "Refreshing" /\ result = "async" ->
                    Processed(r, UpdateAsync([t EXCEPT !.waiting = TRUE]))
              [] sdp /\ q.sub = "Offering" /\ result = "bad" ->
                    Processed(r, Become(StopMedia(SendBYE(t)), "Terminating", "ETerminating"))
              [] sdp /\ q.sub \notin {"Offering", "Refreshing"} /\ result = "bad" ->
                    Processed(r, Become(UpdateFailed(t), "Established", "EEstablished"))
              [] sdp /\ q.sub # "Refreshing" /\ result = "fails" -> HandleResponseError(t)
    BY <1>1, Zenon DEF OfferingAnswered, OfferingExit, a, t
  <2> HIDE DEF e, n
  <2> QED
    BY <2>1
<1> HIDE DEF n, t, a
<1>4. /\ Whole(UpdateSucceed(e)) /\ Proper(q, StateEntry(UpdateSucceed(e)))
  BY <1>2, AnswerOutcomes
<1>5. LET m == Become(UpdateSucceed(t), "Established", "EEstablished")
      IN  Whole(m) /\ Proper(q, StateEntry(m))
  BY <1>2, AnswerOutcomes
<1>6. /\ q.sub # "Offering" =>
            Proper(q, Become(UpdateFailed(t), "Established", "EEstablished"))
      /\ q.sub = "Refreshing" => Proper(q, Become(t, "Established", "EEstablished"))
      /\ q.sub # "Refreshing" => Proper(q, UpdateAsync([t EXCEPT !.waiting = TRUE]))
      /\ Proper(q, Become(StopMedia(SendBYE(t)), "Terminating", "ETerminating"))
      /\ Proper(q, HandleResponseError(t))
  BY <1>2, AnswerOutcomes
<1> HIDE DEF e
<1>7. Proper(q, n)
  BY <1>3, <1>4, <1>5, <1>6, ProcessedProper, EnteredProper
<1> QED
  BY <1>7 DEF n, r

\* A 2xx of which the ACK is missing is repeated to a session that is over.
LEMMA AcceptedState ==
    ASSUME NEW q, Running(q), q.invite = "accepted", q.st \in StateIndex
    PROVE  q.st \in {"Terminating", "Terminated", "Error"}
BY DEF StateIndex, Running, Fit, AtIdle, AtClientEstablishing, AtServerEstablishing, AtUpdating,
       AtUpdated, AtAnswering, AtOffering, AtEstablished, AtCanceled, NoOffer, InvitePending

LEMMA AnsweredGoes ==
    ASSUME CourseInv, NEW s \in Session, Answered(s) PROVE Goes
<1> DEFINE q == ses[s]
           r == Final(q, "accepted", "2xx")
           b == Become(SendBYE(SendACK(r)), "Terminating", "ETerminating")
           e == Become(SendACK(r), "Established", "EEstablished")
<1> PICK sdp \in BOOLEAN, result \in {"ready", "async", "fails", "bad"} :
       Incoming(s,
          CASE r.st = "Offering" ->
                  IF AfterRinging(sdp) /\ r.waiting THEN Processed(r, r)
                  ELSE OfferingAnswered(r, sdp, result, ReadyToAck(r, sdp))
            [] r.st = "Established" -> SendACK(r)
            [] r.st = "Canceled" -> Processed(r, CanceledAnswered(r))
            [] r.st \in Ended \cup {"Terminating"} -> Processed(r, r)
            [] OTHER -> HandleResponseError(r))
  BY ZenonT(60) DEF Answered, MediaResults
<1>1. /\ Running(q) /\ Left(q) /\ q.owner \in {"client", "orphan"} /\ q.dialog # "terminated"
      /\ InvitePending(q) \/ q.invite = "accepted"
  BY LiveRunning DEF Answered, Live
<1>2. /\ q.st \in {"Offering", "Established", "Canceled", "Terminating", "Terminated", "Error"}
      /\ q.st \in {"Offering", "Established", "Canceled"} => InvitePending(q)
  BY <1>1, LiveState, PendingState, AcceptedState DEF Answered
<1>3. r.st = q.st /\ r.sub = q.sub /\ r.waiting = q.waiting
  BY <1>1 DEF Running, Whole, Final
<1>4. q.st = "Offering" => r.waiting = FALSE
  BY <1>1, <1>2, <1>3 DEF Running, Fit, AtOffering, InvitePending
<1>5. \/ q.st = "Offering" /\ Incoming(s, OfferingAnswered(r, sdp, result, TRUE))
      \/ q.st = "Established" /\ Incoming(s, SendACK(r))
      \/ q.st = "Canceled" /\ q.sub = "Offering" /\ Incoming(s, Processed(r, b))
      \/ q.st = "Canceled" /\ q.sub # "Offering" /\ Incoming(s, Processed(r, e))
      \/ q.st \in {"Terminating", "Terminated", "Error"} /\ Incoming(s, Processed(r, r))
  <2> HIDE DEF r
  <2>1. CASE q.st = "Offering"
    <3>1. ReadyToAck(r, sdp) = TRUE
      BY <1>4, <2>1 DEF ReadyToAck, CourseInv
    <3> QED
      BY <1>3, <1>4, <2>1, <3>1 DEF Ended
  <2>2. CASE q.st = "Established"
    BY <1>3, <2>2 DEF Ended
  <2>3. CASE q.st = "Canceled"
    BY <1>3, <2>3 DEF CanceledAnswered, Ended
  <2>4. CASE q.st \in {"Terminating", "Terminated", "Error"}
    BY <1>3, <2>4 DEF Ended
  <2> QED
    BY <1>2, <2>1, <2>2, <2>3, <2>4
<1>6. s \in Session /\ q = ses[s]
  OBVIOUS
<1> HIDE DEF q
<1>7. q.st = "Offering" => Proper(q, OfferingAnswered(r, sdp, result, TRUE))
  BY <1>1, <1>2, OfferingAnsweredProper
<1>8. q.st = "Established" => Proper(q, SendACK(r))
  BY <1>1, <1>2 DEF Proper, Running, Whole, Fit, Told, Course, Left, AtEstablished,
         InvitePending, Final, SendACK
<1>9. q.st = "Canceled" /\ q.sub = "Offering" => Proper(q, b)
  BY <1>1, <1>2 DEF Proper, Running, Whole, Fit, Told, Course, AtCanceled,
         AtTerminating, InvitePending, Final, SendACK, SendBYE, Become, StateChanged,
         ClientStateChanged
<1>10. q.st = "Canceled" /\ q.sub # "Offering" => Proper(q, e)
  BY <1>1, <1>2 DEF Proper, Running, Whole, Fit, Told, Course, AtCanceled,
         AtEstablished, InvitePending, Final, SendACK, Become, StateChanged,
         ClientStateChanged
<1>11. q.st \in {"Terminating", "Terminated", "Error"} => Proper(q, r)
  <2>1. CASE q.st = "Terminating"
    BY <1>1, <2>1 DEF Proper, Running, Whole, Fit, Told, Course, AtTerminating,
           InvitePending, Final
  <2>2. CASE q.st \in {"Terminated", "Error"}
    BY <1>1, <2>2 DEF Proper, Running, Whole, Fit, Told, Course, AtEnd, PeerReleased,
           InvitePending, Final
  <2>3. CASE q.st \notin {"Terminating", "Terminated", "Error"}
    BY <2>3
  <2> QED
    BY <2>1, <2>2, <2>3
<1> HIDE DEF r, b, e
<1>12. ASSUME NEW n, Proper(q, n), Incoming(s, Processed(r, n)) PROVE Goes
  BY <1>6, <1>12, IncomingProcessed
<1>13. ASSUME NEW n, Proper(q, n), Incoming(s, n) PROVE Goes
  BY <1>6, <1>13, IncomingGoes
<1> QED
  BY <1>5, <1>7, <1>8, <1>9, <1>10, <1>11, <1>12, <1>13

-----------------------------------------------------------------------------
(* Other final responses to an INVITE *)

LEMMA RedirectedGoes ==
    ASSUME CourseInv, NEW s \in Session, Redirected(s) PROVE Goes
<1> DEFINE q == ses[s]
           r == Final(q, "done", "other")
           i == ClientStateChanged(SendInvite(NewDialog(r)), "EOffering")
           t == Become(StopMedia(r), "Terminated", "ETerminated")
<1> PICK code \in {"302", "300"} :
       Incoming(s,
          CASE r.st = "Offering" -> OfferingRedirected(r, code)
            [] r.st \in Ended \cup {"Canceled"} -> Processed(r, r)
            [] OTHER -> HandleResponseError(r))
  BY DEF Redirected
<1>1. /\ Running(q) /\ Left(q) /\ q.owner \in {"client", "orphan"} /\ InvitePending(q)
      /\ q.sub = "Offering"
      /\ q.st = "Canceled" => "redirect to cancel" \in Allowed
  BY LiveRunning DEF Redirected, Live, CourseInv, Plain
<1>2. q.st \in {"Offering", "Canceled", "Terminating", "Terminated", "Error"}
  BY <1>1, LiveState, PendingState DEF Redirected, Running, Fit, AtEstablished
<1>3. r.st = q.st /\ r.sub = "Offering" /\ r.dialog = "terminated"
  BY <1>1 DEF Running, Whole, Fit, Course, Final
<1>4. \/ q.st = "Offering" /\ Incoming(s, Processed(r, i))
      \/ q.st \in {"Offering", "Terminating"} /\ Incoming(s, Processed(r, t))
      \/ q.st \in {"Canceled", "Terminated", "Error"} /\ Incoming(s, Processed(r, r))
      \/ q.st = "Terminating" /\ Incoming(s, t)
  <2> HIDE DEF r
  <2>1. CASE q.st = "Offering"
    <3>1. readyToAck = TRUE
      BY DEF CourseInv
    <3> HIDE DEF CourseInv
    <3>2. OfferingRedirected(r, code) = Processed(r, IF code = "302" THEN i ELSE t)
      BY <1>3, <3>1 DEF OfferingRedirected, Retried
    <3> QED
      BY <1>3, <2>1, <3>2 DEF Ended
  <2>2. CASE q.st \in {"Canceled", "Terminated", "Error"}
    BY <1>3, <2>2 DEF Ended
  <2>3. CASE q.st = "Terminating"
    <3>1. HandleResponseError(r) = t
      BY <1>3, <2>3 DEF HandleResponseError
    <3> QED
      BY <1>3, <2>3, <3>1 DEF Ended
  <2> QED
    BY <1>2, <2>1, <2>2, <2>3
<1>5. s \in Session /\ q = ses[s]
  OBVIOUS
<1> HIDE DEF q
<1>6. q.st = "Offering" => Proper(q, i)
  BY <1>1, ZenonT(40) DEF Proper, Running, Whole, Fit, Told, Course, AtOffering,
     InvitePending, Final, SendInvite, NewDialog, Become, StateChanged,
     ClientStateChanged
<1>7. q.st \in {"Offering", "Terminating"} => Proper(q, t)
  <2>1. CASE q.st = "Offering"
    BY <1>1, <2>1 DEF Proper, Running, Whole, Fit, Told, Course, AtOffering, AtEnd,
           PeerReleased, InvitePending, Final, StopMedia, Become, StateChanged,
           ClientStateChanged
  <2>2. CASE q.st = "Terminating"
    BY <1>1, <2>2 DEF Proper, Running, Whole, Fit, Told, Course, AtTerminating, AtEnd,
           PeerReleased, InvitePending, Final, StopMedia, Become, StateChanged,
           ClientStateChanged
  <2> QED
    BY <2>1, <2>2
<1>8. q.st \in {"Canceled", "Terminated", "Error"} => Proper(q, r)
  <2>1. CASE q.st = "Canceled"
    BY <1>1, <2>1 DEF Proper, Running, Whole, Fit, Told, Course, AtCanceled,
           InvitePending, Final
  <2>2. CASE q.st \in {"Terminated", "Error"}
    BY <1>1, <2>2 DEF Proper, Running, Whole, Fit, Told, Course, AtEnd, PeerReleased,
           InvitePending, Final
  <2> QED
    BY <2>1, <2>2
<1> HIDE DEF r, i, t
<1>9. ASSUME NEW n, Proper(q, n), Incoming(s, Processed(r, n)) PROVE Goes
  BY <1>5, <1>9, IncomingProcessed
<1>10. ASSUME NEW n, Proper(q, n), Incoming(s, n) PROVE Goes
  BY <1>5, <1>10, IncomingGoes
<1> QED
  BY <1>4, <1>6, <1>7, <1>8, <1>9, <1>10

\* A refusal that Offering takes
LEMMA OfferingRefusedProper ==
    ASSUME NEW q, Running(q), q.st = "Offering", InvitePending(q), readyToAck = TRUE,
           NEW resp \in {"491", "other"}, NEW code \in {"421", "422", "481", "491", "486"},
           code = "421" => Final(q, "done", resp).dialog # "confirmed",
           code = "422" => "interval too small" \in Allowed
    PROVE  Proper(q, OfferingRefused(Final(q, "done", resp), code))
<1> DEFINE r == Final(q, "done", resp)
           a == Become(SendSessionRefresh(r), "Established", "EEstablished")
           b == SendInvite([r EXCEPT !.dialog = "none"])
           c == SendInvite(NewDialog(r))
           d == Become(StopMedia(r), "Terminated", "ETerminated")
           e == Become(StopMedia(SendBYE(UpdateFailed(r))), "Terminated", "ETerminated")
           f == Become(UpdateFailed(r), "Established", "EEstablished")
<1>1. /\ r.sub = q.sub
      /\ r.dialog = IF q.dialog = "confirmed" THEN "confirmed" ELSE "terminated"
      /\ q.sub = "Offering" <=> q.dialog # "confirmed"
  BY DEF Running, Whole, Fit, AtOffering, Course, InvitePending, Final
<1>2. \E n :
         /\ OfferingRefused(r, code) = Processed(r, n)
         /\ \/ n = a /\ q.sub # "Offering" /\ "interval too small" \in Allowed
            \/ n \in {b, c, d} /\ q.sub = "Offering"
            \/ n \in {e, f} /\ q.sub # "Offering"
  <2> HIDE DEF r
  <2>1. OfferingRefused(r, code) = Processed(r,
           CASE code = "422" /\ q.sub # "Offering" -> a
             [] code = "422" /\ q.sub = "Offering" -> b
             [] code = "421" -> c
             [] code \notin {"421", "422"} /\ q.sub = "Offering" -> d
             [] code = "481" /\ q.sub # "Offering" -> e
             [] code \in {"491", "486"} /\ q.sub # "Offering" -> f)
    BY <1>1 DEF OfferingRefused, OfferingExit, Gone
  <2>2. code = "421" => q.sub = "Offering"
    BY <1>1 DEF r
  <2> HIDE DEF a, b, c, d, e, f
  <2> QED
    BY <2>1, <2>2
<1>9. /\ Whole(r) /\ r.st = "Offering" /\ r.told = q.told /\ r.media = q.media /\ r.cand = q.cand
      /\ ~r.busy /\ ~r.waiting /\ r.invite = "done" /\ r.cancel = q.cancel /\ r.bye = "none"
      /\ r.request = "none" /\ r.owner = q.owner
      /\ q.told # "ETerminated" /\ q.media # "null" /\ q.owner # "free"
      /\ q.sub \in {"Offering", "Updating", "Refreshing"}
      /\ q.cancel = "out" => q.sub = "Refreshing"
      /\ IF q.sub = "Updating" THEN q.cand ELSE Undisturbed => ~q.cand
  BY DEF Running, Whole, Fit, AtOffering, Course, InvitePending, Final
<1> HIDE DEF r
<1>3. q.sub # "Offering" /\ "interval too small" \in Allowed => Proper(q, a)
  BY <1>1, <1>9 DEF Proper, Running, Whole, Fit, Told, Course, Undisturbed,
         AtEstablished, InvitePending, SendSessionRefresh, SendInvite, Become,
         StateChanged, ClientStateChanged
<1>4. q.sub = "Offering" => Proper(q, b) /\ Proper(q, c)
  <2>1. q.sub = "Offering" => Proper(q, b)
    BY <1>1, <1>9 DEF Proper, Running, Whole, Fit, Told, Course, AtOffering,
           InvitePending, SendInvite
  <2>2. q.sub = "Offering" => Proper(q, c)
    BY <1>1, <1>9 DEF Proper, Running, Whole, Fit, Told, Course, AtOffering,
           InvitePending, SendInvite, NewDialog
  <2> QED
    BY <2>1, <2>2
<1>5. q.sub = "Offering" => Proper(q, d)
  BY <1>1, <1>9 DEF Proper, Running, Whole, Fit, Told, Course, AtEnd, PeerReleased,
         InvitePending, StopMedia, Become, StateChanged, ClientStateChanged
<1>6. q.sub # "Offering" => Proper(q, e)
  BY <1>1, <1>9, ZenonT(40) DEF Proper, Running, Whole, Fit, Told, Course, AtEnd,
     PeerReleased, InvitePending, UpdateFailed, SendBYE, StopMedia, Become,
     StateChanged, ClientStateChanged
<1>7. q.sub # "Offering" => Proper(q, f)
  BY <1>1, <1>9 DEF Proper, Running, Whole, Fit, Told, Course, AtEstablished,
         InvitePending, UpdateFailed, Become, StateChanged, ClientStateChanged
<1>8. Proper(q, OfferingRefused(r, code))
  <2> HIDE DEF r, a, b, c, d, e, f
  <2> QED
    BY <1>2, <1>3, <1>4, <1>5, <1>6, <1>7, ProcessedProper
<1> QED
  BY <1>8 DEF r

LEMMA RefusedGoes ==
    ASSUME CourseInv, NEW s \in Session, Refused(s) PROVE Goes
<1> DEFINE q == ses[s]
           R(code) == Final(q, "done", IF code = "491" THEN "491" ELSE "other")
<1> PICK code \in {"421", "422", "481", "491", "486"} :
       /\ code = "421" => R(code).dialog # "confirmed"
       /\ code = "422" => "interval too small" \in Allowed
       /\ Incoming(s,
            CASE R(code).st = "Offering" -> OfferingRefused(R(code), code)
              [] R(code).st = "Canceled" -> Processed(R(code), CanceledExit(R(code)))
              [] R(code).st \in Ended \cup {"Terminating", "Established"} ->
                    Processed(R(code), R(code))
              [] OTHER -> HandleResponseError(R(code)))
  BY DEF Refused
<1> DEFINE resp == IF code = "491" THEN "491" ELSE "other"
           r == Final(q, "done", resp)
           t == Become(r, "Terminated", "ETerminated")
           e == Become(r, "Established", "EEstablished")
<1>1. /\ Running(q) /\ Left(q) /\ q.owner \in {"client", "orphan"} /\ InvitePending(q)
      /\ resp \in {"491", "other"}
  BY LiveRunning DEF Refused, Live
<1>2. q.st \in {"Offering", "Established", "Canceled", "Terminating", "Terminated", "Error"}
  BY <1>1, LiveState, PendingState
<1>3. r.st = q.st /\ r.sub = q.sub
  BY <1>1 DEF Running, Whole, Final
<1>4. \/ q.st = "Offering" /\ Incoming(s, OfferingRefused(r, code))
      \/ q.st = "Canceled" /\ q.sub = "Offering" /\ Incoming(s, Processed(r, t))
      \/ q.st = "Canceled" /\ q.sub # "Offering" /\ Incoming(s, Processed(r, e))
      \/ /\ q.st \in {"Established", "Terminating", "Terminated", "Error"}
         /\ Incoming(s, Processed(r, r))
  <2> HIDE DEF r
  <2>1. Incoming(s,
            CASE r.st = "Offering" -> OfferingRefused(r, code)
              [] r.st = "Canceled" -> Processed(r, CanceledExit(r))
              [] r.st \in Ended \cup {"Terminating", "Established"} -> Processed(r, r)
              [] OTHER -> HandleResponseError(r))
    BY DEF r
  <2>2. CASE q.st = "Offering"
    BY <1>3, <2>1, <2>2 DEF Ended
  <2>3. CASE q.st = "Canceled"
    BY <1>3, <2>1, <2>3 DEF Ended, CanceledExit
  <2>4. CASE q.st \in {"Established", "Terminating", "Terminated", "Error"}
    BY <1>3, <2>1, <2>4 DEF Ended
  <2> QED
    BY <1>2, <2>2, <2>3, <2>4
<1>5. s \in Session /\ q = ses[s] /\ readyToAck = TRUE
  BY DEF CourseInv
<1> HIDE DEF q, resp
<1>6. q.st = "Offering" => Proper(q, OfferingRefused(r, code))
  BY <1>1, <1>5, OfferingRefusedProper DEF resp
<1>7. q.st = "Canceled" /\ q.sub = "Offering" => Proper(q, t)
  BY <1>1 DEF Proper, Running, Whole, Fit, Told, Course, AtCanceled, AtEnd,
         PeerReleased, InvitePending, Final, Become, StateChanged, ClientStateChanged
<1>8. q.st = "Canceled" /\ q.sub # "Offering" => Proper(q, e)
  BY <1>1 DEF Proper, Running, Whole, Fit, Told, Course, AtCanceled, AtEstablished,
         InvitePending, Final, Become, StateChanged, ClientStateChanged
<1>9. q.st \in {"Established", "Terminating", "Terminated", "Error"} => Proper(q, r)
  <2>1. CASE q.st = "Established"
    BY <1>1, <2>1 DEF Proper, Running, Whole, Fit, Told, Course, Left, AtEstablished,
           InvitePending, Final
  <2>2. CASE q.st = "Terminating"
    BY <1>1, <2>2 DEF Proper, Running, Whole, Fit, Told, Course, AtTerminating,
           InvitePending, Final
  <2>3. CASE q.st \in {"Terminated", "Error"}
    BY <1>1, <2>3 DEF Proper, Running, Whole, Fit, Told, Course, AtEnd, PeerReleased,
           InvitePending, Final
  <2> QED
    BY <2>1, <2>2, <2>3
<1> HIDE DEF r, t, e
<1>10. ASSUME NEW n, Proper(q, n), Incoming(s, Processed(r, n)) PROVE Goes
  BY <1>5, <1>10, IncomingProcessed
<1>11. ASSUME NEW n, Proper(q, n), Incoming(s, n) PROVE Goes
  BY <1>5, <1>11, IncomingGoes
<1> QED
  BY <1>4, <1>6, <1>7, <1>8, <1>9, <1>10, <1>11

-----------------------------------------------------------------------------
(* The answers to a CANCEL and to a BYE *)

\* With every INVITE answered, only an update that was cancelled, or the end,
\* still has the answer to a CANCEL to come.
LEMMA CancelState ==
    ASSUME NEW q, Running(q), q.cancel = "out", ~InvitePending(q), q.st \in StateIndex
    PROVE  q.st \in {"Canceled", "Established", "Terminating", "Terminated", "Error"}
BY DEF StateIndex, Running, Fit, AtIdle, AtClientEstablishing, AtServerEstablishing, AtUpdating,
       AtUpdated, AtAnswering, AtOffering, NoOffer, InvitePending

LEMMA CancelAnsweredGoes ==
    ASSUME CourseInv, NEW s \in Session, CancelAnswered(s) PROVE Goes
<1> DEFINE q == ses[s]
           r == [q EXCEPT !.cancel = "done", !.resp = "other"]
           t == Become(r, "Terminated", "ETerminated")
           e == Become(r, "Established", "EEstablished")
<1>1. Incoming(s,
         CASE r.st = "Canceled" -> Processed(r, CanceledExit(r))
           [] r.st \in Ended \cup {"Terminating", "Established"} -> Processed(r, r)
           [] OTHER -> HandleResponseError(r))
  BY DEF CancelAnswered
<1>2. /\ Running(q) /\ Left(q) /\ q.owner \in {"client", "orphan"}
      /\ ~InvitePending(q) /\ q.cancel = "out"
  BY LiveRunning DEF CancelAnswered, Live, CourseInv, Plain
<1>3. q.st \in {"Canceled", "Established", "Terminating", "Terminated", "Error"}
  BY <1>2, LiveState, CancelState
<1>4. r.st = q.st /\ r.sub = q.sub
  BY <1>2 DEF Running, Whole
<1>5. \/ q.st = "Canceled" /\ q.sub = "Offering" /\ Incoming(s, Processed(r, t))
      \/ q.st = "Canceled" /\ q.sub # "Offering" /\ Incoming(s, Processed(r, e))
      \/ /\ q.st \in {"Established", "Terminating", "Terminated", "Error"}
         /\ Incoming(s, Processed(r, r))
  <2> HIDE DEF r
  <2>1. CASE q.st = "Canceled"
    BY <1>1, <1>4, <2>1 DEF Ended, CanceledExit
  <2>2. CASE q.st \in {"Established", "Terminating", "Terminated", "Error"}
    BY <1>1, <1>4, <2>2 DEF Ended
  <2> QED
    BY <1>3, <2>1, <2>2
<1>6. s \in Session /\ q = ses[s]
  OBVIOUS
<1> HIDE DEF q
<1>7. q.st = "Canceled" /\ q.sub = "Offering" => Proper(q, t)
  BY <1>2 DEF Proper, Running, Whole, Fit, Told, Course, AtCanceled, AtEnd,
         PeerReleased, InvitePending, Become, StateChanged, ClientStateChanged
<1>8. q.st = "Canceled" /\ q.sub # "Offering" => Proper(q, e)
  BY <1>2 DEF Proper, Running, Whole, Fit, Told, Course, AtCanceled, AtEstablished,
         InvitePending, Become, StateChanged, ClientStateChanged
<1>9. q.st \in {"Established", "Terminating", "Terminated", "Error"} => Proper(q, r)
  <2>1. CASE q.st = "Established"
    BY <1>2, <2>1 DEF Proper, Running, Whole, Fit, Told, Course, AtEstablished,
           InvitePending
  <2>2. CASE q.st = "Terminating"
    BY <1>2, <2>2 DEF Proper, Running, Whole, Fit, Told, Course, AtTerminating,
           InvitePending
  <2>3. CASE q.st \in {"Terminated", "Error"}
    BY <1>2, <2>3 DEF Proper, Running, Whole, Fit, Told, Course, AtEnd, PeerReleased,
           InvitePending
  <2> QED
    BY <2>1, <2>2, <2>3
<1> HIDE DEF r, t, e
<1>10. ASSUME NEW n, Proper(q, n), Incoming(s, Processed(r, n)) PROVE Goes
  BY <1>6, <1>10, IncomingProcessed
<1> QED
  BY <1>5, <1>7, <1>8, <1>9, <1>10

\* A BYE is out in Terminating, at the end, and when a client has left a
\* session that waits for its ACK.
LEMMA ByeState ==
    ASSUME NEW q, Running(q), Left(q), q.bye = "out", q.owner \in {"client", "orphan"},
           q.st \in StateIndex
    PROVE  \/ q.st \in {"Terminating", "Terminated", "Error"}
           \/ q.st = "Answering" /\ q.owner = "orphan"
BY DEF StateIndex, Running, Left, Fit, AtIdle, AtClientEstablishing, AtServerEstablishing,
       AtUpdating, AtUpdated, AtAnswering, AtOffering, AtEstablished, AtCanceled

LEMMA ByeAnsweredGoes ==
    ASSUME CourseInv, NEW s \in Session, ByeAnswered(s) PROVE Goes
<1> DEFINE q == ses[s]
           r == [q EXCEPT !.bye = "done", !.dialog = "terminated", !.resp = "other"]
           t == Become(r, "Terminated", "ETerminated")
           m == Become(StopMedia(r), "Terminated", "ETerminated")
           u == Become(UpdateFailed(StopUpdatingMedia(r)), "Established", "EEstablished")
<1>1. Incoming(s,
         CASE r.st = "Terminating" -> Processed(r, Become(r, "Terminated", "ETerminated"))
           [] r.st = "Canceled" -> Processed(r, CanceledExit(r))
           [] r.st \in Ended \cup {"Established"} -> Processed(r, r)
           [] OTHER -> HandleResponseError(r))
  BY DEF ByeAnswered
<1>2. /\ Running(q) /\ Left(q) /\ q.owner \in {"client", "orphan"} /\ q.bye = "out"
  BY LiveRunning DEF ByeAnswered, Live
<1>3. \/ q.st \in {"Terminating", "Terminated", "Error"}
      \/ q.st = "Answering" /\ q.owner = "orphan"
  BY <1>2, LiveState, ByeState
<1>4. r.st = q.st /\ r.sub = q.sub /\ r.dialog = "terminated"
  BY <1>2 DEF Running, Whole
<1>5. \/ q.st = "Terminating" /\ Incoming(s, Processed(r, t))
      \/ q.st \in {"Terminated", "Error"} /\ Incoming(s, Processed(r, r))
      \/ /\ q.st = "Answering" /\ q.owner = "orphan"
         /\ Incoming(s, IF q.sub = "Updating" THEN u ELSE m)
  <2> HIDE DEF r
  <2>1. CASE q.st = "Terminating"
    BY <1>1, <1>4, <2>1 DEF Ended
  <2>2. CASE q.st \in {"Terminated", "Error"}
    BY <1>1, <1>4, <2>2 DEF Ended
  <2>3. CASE q.st = "Answering" /\ q.owner = "orphan"
    <3>1. HandleResponseError(r) = IF q.sub = "Updating" THEN u ELSE m
      BY <1>4, <2>3 DEF HandleResponseError
    <3> HIDE DEF u, m, t
    <3> QED
      BY <1>1, <1>4, <2>3, <3>1 DEF Ended
  <2> QED
    BY <1>3, <2>1, <2>2, <2>3
<1>6. s \in Session /\ q = ses[s]
  OBVIOUS
<1> HIDE DEF q
<1>7. q.st = "Terminating" => Proper(q, t)
  BY <1>2 DEF Proper, Running, Whole, Fit, Told, Course, AtTerminating, AtEnd,
         PeerReleased, InvitePending, Become, StateChanged, ClientStateChanged
<1>8. q.st \in {"Terminated", "Error"} => Proper(q, r)
  BY <1>2 DEF Proper, Running, Whole, Fit, Told, Course, AtEnd, PeerReleased,
         InvitePending
<1>9. q.st = "Answering" /\ q.owner = "orphan" => Proper(q, IF q.sub = "Updating" THEN u ELSE m)
  <2>1. q.st = "Answering" /\ q.owner = "orphan" => Proper(q, m)
    BY <1>2 DEF Proper, Running, Whole, Fit, Told, Course, AtAnswering, AtEnd, NoOffer,
           InvitePending, StopMedia, Become, StateChanged, ClientStateChanged
  <2>2. q.st = "Answering" /\ q.owner = "orphan" => Proper(q, u)
    BY <1>2, ZenonT(40) DEF Proper, Running, Whole, Fit, Told, Course, AtAnswering,
       AtEstablished, NoOffer, InvitePending, UpdateFailed, StopUpdatingMedia, Become,
       StateChanged, ClientStateChanged
  <2> HIDE DEF u, m
  <2> QED
    BY <2>1, <2>2
<1> HIDE DEF r, t, m, u
<1>10. ASSUME NEW n, Proper(q, n), Incoming(s, Processed(r, n)) PROVE Goes
  BY <1>6, <1>10, IncomingProcessed
<1>11. ASSUME NEW n, Proper(q, n), Incoming(s, n) PROVE Goes
  BY <1>6, <1>11, IncomingGoes
<1> QED
  BY <1>5, <1>7, <1>8, <1>9, <1>10, <1>11

-----------------------------------------------------------------------------
(* Requests of the peer *)

LEMMA ByeReceivedGoes ==
    ASSUME CourseInv, NEW s \in Session, ByeReceived(s) PROVE Goes
<1> DEFINE q == ses[s]
           r == Send200OK(q)
           n == Become(StopMedia(r), "Terminated", "ETerminated")
           e == Become(r, "Established", "EEstablished")
<1>1. (CASE r.st = "Offering" ->
              Incoming(s, OfferingExit(r, StopMedia(r), "Terminated", "ETerminated", readyToAck))
        [] r.st \in {"Answering", "Established", "Terminating"} -> Incoming(s, Processed(r, n))
        [] r.st = "Canceled" /\ "bye to cancel" \in Allowed ->
              Incoming(s, Processed(r, CanceledExit(r)))
        [] OTHER -> FALSE)
  BY DEF ByeReceived
<1>2. Running(q) /\ Left(q) /\ q.owner \in {"client", "orphan"} /\ q.dialog = "confirmed"
  BY LiveRunning DEF ByeReceived, Live
<1>3. r.st = q.st /\ r.sub = q.sub
  BY <1>2 DEF Running, Whole, Send200OK
<1>4. q.st = "Canceled" => q.sub # "Offering"
  BY <1>2 DEF Running, Fit, AtCanceled
<1>5. \/ q.st \in {"Offering", "Answering", "Established", "Terminating"}
         /\ Incoming(s, Processed(r, n))
      \/ q.st = "Canceled" /\ "bye to cancel" \in Allowed /\ Incoming(s, Processed(r, e))
  <2> HIDE DEF r
  <2>1. CASE q.st = "Offering"
    <3>1. Incoming(s, OfferingExit(r, StopMedia(r), "Terminated", "ETerminated", readyToAck))
      BY <1>1, <1>3, <2>1
    <3> QED
      BY <2>1, <3>1 DEF OfferingExit, CourseInv
  <2>2. CASE q.st \in {"Answering", "Established", "Terminating"}
    BY <1>1, <1>3, <2>2
  <2>3. CASE q.st \notin {"Offering", "Answering", "Established", "Terminating"}
    <3>1. /\ q.st = "Canceled" /\ "bye to cancel" \in Allowed
          /\ Incoming(s, Processed(r, CanceledExit(r)))
      BY <1>1, <1>3, <2>3
    <3>2. CanceledExit(r) = e
      BY <1>3, <1>4, <3>1 DEF CanceledExit
    <3> QED
      BY <3>1, <3>2
  <2> QED
    BY <2>1, <2>2, <2>3
<1>6. s \in Session /\ q = ses[s]
  OBVIOUS
<1> HIDE DEF q
<1>7. q.st \in {"Offering", "Answering", "Established", "Terminating"} => Proper(q, n)
  <2>1. CASE q.st = "Offering"
    BY <1>2, <2>1 DEF Proper, Running, Whole, Fit, Told, Course, AtOffering, AtEnd,
           PeerReleased, InvitePending, Send200OK, StopMedia, Become, StateChanged,
           ClientStateChanged
  <2>2. CASE q.st = "Answering"
    BY <1>2, <2>2 DEF Proper, Running, Whole, Fit, Told, Course, AtAnswering, AtEnd,
           PeerReleased, NoOffer, InvitePending, Send200OK, StopMedia, Become,
           StateChanged, ClientStateChanged
  <2>3. CASE q.st = "Established"
    BY <1>2, <2>3 DEF Proper, Running, Whole, Fit, Told, Course, AtEstablished, AtEnd,
           PeerReleased, InvitePending, Send200OK, StopMedia, Become, StateChanged,
           ClientStateChanged
  <2>4. CASE q.st = "Terminating"
    BY <1>2, <2>4 DEF Proper, Running, Whole, Fit, Told, Course, AtTerminating, AtEnd,
           PeerReleased, InvitePending, Send200OK, StopMedia, Become, StateChanged,
           ClientStateChanged
  <2> QED
    BY <2>1, <2>2, <2>3, <2>4
<1>8. q.st = "Canceled" /\ "bye to cancel" \in Allowed => Proper(q, e)
  BY <1>2 DEF Proper, Running, Whole, Fit, Told, Course, Undisturbed, AtCanceled,
         AtEstablished, InvitePending, Send200OK, Become, StateChanged,
         ClientStateChanged
<1> HIDE DEF r, n, e
<1> QED
  BY <1>5, <1>6, <1>7, <1>8, IncomingProcessed

LEMMA AckEntersEstablished ==
    ASSUME NEW q, Running(q), q.st = "Answering", q.owner \in {"client", "orphan"},
           q.request \in {"none", "accepted"}
    PROVE  LET n == Become(q, "Established", "EEstablished")
           IN  Whole(n) /\ Proper(q, StateEntry(n))
<1> DEFINE n == Become(q, "Established", "EEstablished")
           After(sub) == [n EXCEPT !.sub = sub, !.request = "none"]
<1>1. Whole(n) /\ n.st = "Established" /\ n.request = q.request /\ n.sub = q.sub
  BY DEF Running, Whole, Become, StateChanged, ClientStateChanged
<1>2. Proper(q, After(q.sub)) /\ Proper(q, After("None"))
  BY ZenonT(40) DEF Proper, Running, Whole, Fit, Told, Course, AtAnswering, AtEstablished,
     NoOffer, InvitePending, Become, StateChanged, ClientStateChanged
<1> HIDE DEF n
<1>3. StateEntry(n) = After(q.sub) \/ StateEntry(n) = After("None")
  BY <1>1 DEF StateEntry, Whole
<1> HIDE DEF After
<1> QED
  BY <1>1, <1>2, <1>3 DEF n

LEMMA AckReceivedGoes ==
    ASSUME CourseInv, NEW s \in Session, AckReceived(s) PROVE Goes
<1> DEFINE n == Become(ses[s], "Established", "EEstablished")
<1>1. Incoming(s, Processed(ses[s], n))
  BY DEF AckReceived
<1>2. Whole(n) /\ Proper(ses[s], StateEntry(n))
  BY LiveRunning, AckEntersEstablished DEF AckReceived, Live
<1> HIDE DEF n
<1> QED
  BY <1>1, <1>2, IncomingEntered

\* What a re-INVITE finds in Established, where there is no candidate if
\* nothing disturbs the session.
Ready(q, a) ==
    /\ Whole(a) /\ a.st = "Established" /\ a.dialog = "confirmed" /\ a.bye = "none"
    /\ ~a.busy /\ ~a.waiting /\ a.request = "none" /\ a.invite \in {"none", "done"}
    /\ a.cancel # "out" /\ a.media # "null" /\ a.owner = q.owner /\ a.told # "ETerminated"
    /\ Undisturbed => ~a.cand

LEMMA ReInviteReady ==
    ASSUME CourseInv, NEW s \in Session, ReInviteReceived(s)
    PROVE  LET q == ses[s]
           IN  Ready(q, IF q.st = "Answering"
                        THEN Processed(q, Become(q, "Established", "EEstablished"))
                        ELSE q)
<1> DEFINE q == ses[s]
           n == Become(q, "Established", "EEstablished")
           e == Processed(q, n)
<1> SUFFICES Ready(q, IF q.st = "Answering" THEN e ELSE q)
  OBVIOUS
<1>1. /\ Running(q) /\ q.owner \in {"client", "orphan"}
      /\ q.st \in {"Answering", "Established"} /\ q.dialog = "confirmed"
      /\ q.request # "open" /\ q.bye = "none" /\ ~InvitePending(q) /\ q.cancel # "out"
      /\ q.invite \in Invite
  BY LiveRunning DEF ReInviteReceived, Live, CourseInv, Plain, Settled, SessionData
<1> HIDE DEF q
<1>2. CASE q.st = "Established"
  <2>1. Ready(q, q)
    BY <1>1, <1>2 DEF Ready, Running, Whole, Fit, AtEstablished, Course, InvitePending, Invite
  <2> QED
    BY <1>2, <2>1
<1>3. CASE q.st = "Answering"
  <2>1. Whole(MarkExit(q, n)) /\ Alike(n, MarkExit(q, n)) /\ Whole(n)
    BY <1>1, MarkExitAlike DEF Running, Whole, Become, StateChanged, ClientStateChanged
  <2>2. \A x : Whole(x) /\ Alike(n, x) => Ready(q, StateEntry(x))
    <3> SUFFICES ASSUME NEW x, Whole(x), Alike(n, x) PROVE Ready(q, StateEntry(x))
      OBVIOUS
    <3> DEFINE After(sub) == [x EXCEPT !.sub = sub, !.request = "none"]
    <3>1. /\ x.st = "Established" /\ x.dialog = "confirmed" /\ x.bye = "none" /\ ~x.busy
          /\ ~x.waiting /\ x.request \in {"none", "accepted"} /\ x.invite \in {"none", "done"}
          /\ x.cancel # "out" /\ x.media # "null" /\ x.owner = q.owner
          /\ x.told = "EEstablished" /\ (Undisturbed => ~x.cand)
      BY <1>1, <1>3 DEF Alike, Running, Whole, Fit, AtAnswering, NoOffer, Course, Become,
         StateChanged, ClientStateChanged
    <3>2. StateEntry(x) = After(x.sub) \/ StateEntry(x) = After("None")
      BY <3>1 DEF StateEntry, Whole
    <3>3. Ready(q, After(x.sub)) /\ Ready(q, After("None"))
      BY <3>1 DEF Ready, Whole
    <3> HIDE DEF After
    <3> QED
      BY <3>2, <3>3
  <2> HIDE DEF n
  <2>3. Ready(q, e)
    BY <2>1, <2>2 DEF Processed
  <2> HIDE DEF e
  <2> QED
    BY <1>3, <2>3
<1> QED
  BY <1>1, <1>2, <1>3

\* Whatever the offer
LEMMA OfferTaken ==
    ASSUME NEW q, NEW a, Ready(q, a), q.owner \in {"client", "orphan"}, q.told # "ETerminated"
    PROVE  LET r == [a EXCEPT !.request = "open"]
               c == CreateBodyCandidate(r)
           IN  /\ Proper(q, Become(SendAnswer([r EXCEPT !.sub = "Refreshing"], FALSE),
                                   "Answering", "EAnswering"))
               /\ Proper(q, HandleRequestError(MarkExit(r, r)))
               /\ Proper(q, Become(c, "ServerEstablishing", "EIncoming"))
               /\ Proper(q, Discard(UpdateFailed(c)))
               /\ Proper(q, HandleRequestError(MarkExit(r, UpdateFailed(c))))
<1> DEFINE r == [a EXCEPT !.request = "open"]
           c == CreateBodyCandidate(r)
           f == [r EXCEPT !.sub = "Refreshing"]
           n == Become(SendAnswer(f, FALSE), "Answering", "EAnswering")
           i == Become(c, "ServerEstablishing", "EIncoming")
           d == Discard(UpdateFailed(c))
           Error(x) == HandleRequestError(MarkExit(r, x))
<1>1. Proper(q, n)
  <2> DEFINE m == Become(Accepted(f), "Answering", "EAnswering")
  <2>1. Proper(q, m) /\ Left(m) /\ Whole(f)
    BY DEF Proper, Running, Whole, Fit, Left, Told, Course, Ready, AtAnswering, NoOffer,
           InvitePending, Accepted, Become, StateChanged, ClientStateChanged
  <2> HIDE DEF f
  <2> QED
    BY <2>1, SendAnswerProper
<1>2. Proper(q, i)
  BY DEF Proper, Running, Whole, Fit, Told, Course, Ready, AtServerEstablishing,
         NoOffer, OfferOrUpdate, InvitePending, CreateBodyCandidate, Become,
         StateChanged, ClientStateChanged
<1>3. Proper(q, d)
  BY ZenonT(40) DEF Proper, Running, Whole, Fit, Told, Course, Ready, AtEstablished,
     InvitePending, CreateBodyCandidate, UpdateFailed, Discard
<1>4. ASSUME NEW x, Whole(x), x.dialog = "confirmed", x.media # "null",
             x.invite \in {"none", "done"}, x.request = "open", x.owner = q.owner
      PROVE  Proper(q, Error(x))
  <2> DEFINE y == MarkExit(r, x)
             b == Become(SendBYE(Discard(StopMedia(y))), "Terminating", "ETerminating")
  <2>1. Whole(y) /\ Alike(x, y)
    BY <1>4, MarkExitAlike
  <2> HIDE DEF y
  <2>2. Discard(StopMedia(y)).dialog = "confirmed"
    BY <1>4, <2>1 DEF Alike, Whole, StopMedia, Discard
  <2>3. Proper(q, b)
    BY <1>4, <2>1, ZenonT(40) DEF Proper, Running, Whole, Fit, Told, Course, Alike,
       AtTerminating, InvitePending, StopMedia, Discard, SendBYE, Become, StateChanged,
       ClientStateChanged
  <2> QED
    BY <2>2, <2>3 DEF HandleRequestError, y
<1>5. Proper(q, Error(r))
  <2>1. /\ Whole(r) /\ r.dialog = "confirmed" /\ r.media # "null"
        /\ r.invite \in {"none", "done"} /\ r.request = "open" /\ r.owner = q.owner
    BY DEF Ready, Whole
  <2> HIDE DEF r, Error
  <2> QED
    BY <1>4, <2>1
<1>6. Proper(q, Error(UpdateFailed(c)))
  <2> DEFINE x == UpdateFailed(c)
  <2>1. /\ Whole(x) /\ x.dialog = "confirmed" /\ x.media # "null"
        /\ x.invite \in {"none", "done"} /\ x.request = "open" /\ x.owner = q.owner
    BY DEF Ready, Whole, CreateBodyCandidate, UpdateFailed
  <2> HIDE DEF x, Error
  <2> QED
    BY <1>4, <2>1 DEF x
<1> QED
  BY <1>1, <1>2, <1>3, <1>5, <1>6

LEMMA ReInviteReceivedGoes ==
    ASSUME CourseInv, NEW s \in Session, ReInviteReceived(s) PROVE Goes
<1> DEFINE q == ses[s]
           a == IF q.st = "Answering"
                THEN Processed(q, Become(q, "Established", "EEstablished")) ELSE q
           r == [a EXCEPT !.request = "open"]
           c == CreateBodyCandidate(r)
           n == Become(SendAnswer([r EXCEPT !.sub = "Refreshing"], FALSE),
                       "Answering", "EAnswering")
           i == Become(c, "ServerEstablishing", "EIncoming")
           d == Discard(UpdateFailed(c))
           b == HandleRequestError(MarkExit(r, r))
           f == HandleRequestError(MarkExit(r, UpdateFailed(c)))
<1>1. \/ Incoming(s, Processed(r, n)) \/ Incoming(s, b) \/ Incoming(s, Processed(r, i))
      \/ Incoming(s, Processed(r, d)) \/ Incoming(s, f)
  <2> PICK offer \in {"changed", "warning", "unchanged", "fails"} :
         Incoming(s,
            CASE offer = "unchanged" -> Processed(r, n)
              [] offer # "unchanged" /\ ~CanCreateBodyCandidate(r) -> b
              [] offer = "changed" /\ CanCreateBodyCandidate(r) -> Processed(r, i)
              [] offer = "warning" /\ CanCreateBodyCandidate(r) -> Processed(r, d)
              [] offer = "fails" /\ CanCreateBodyCandidate(r) -> f)
    BY ZenonT(60) DEF ReInviteReceived
  <2> HIDE DEF n, i, d, b, f, r
  <2> QED
    OBVIOUS
<1>2. Ready(q, a)
  BY ReInviteReady
<1>3. Running(q) /\ q.owner \in {"client", "orphan"} /\ q.st \in {"Answering", "Established"}
  BY LiveRunning DEF ReInviteReceived, Live
<1>4. q.told # "ETerminated"
  BY <1>3 DEF Running, Fit, Course
<1>5. s \in Session /\ q = ses[s]
  OBVIOUS
<1> HIDE DEF q, a
<1>6. /\ Proper(q, n) /\ Proper(q, b) /\ Proper(q, i) /\ Proper(q, d) /\ Proper(q, f)
  BY <1>2, <1>3, <1>4, OfferTaken
<1> HIDE DEF r, n, i, d, b, f
<1> QED
  BY <1>1, <1>5, <1>6, IncomingProcessed, IncomingGoes

LEMMA OpenState ==
    ASSUME NEW q, Running(q), q.request = "open", q.st \in StateIndex
    PROVE  q.st \in {"ServerEstablishing", "Updating", "Updated"}
BY DEF StateIndex, Running, Fit, AtIdle, AtClientEstablishing, AtAnswering, AtOffering,
       AtEstablished, AtCanceled, AtTerminating, AtEnd

LEMMA InviteCanceledGoes ==
    ASSUME CourseInv, NEW s \in Session, InviteCanceled(s) PROVE Goes
<1> DEFINE q == ses[s]
           r == Discard(q)
           e == Become(UpdateFailed(StopUpdatingMedia(r)), "Established", "EEstablished")
           t == Become(StopMedia(r), "Terminated", "ETerminated")
<1>1. /\ Running(q) /\ Left(q) /\ q.owner \in {"client", "orphan"} /\ q.request = "open"
      /\ q.st \in {"ServerEstablishing", "Updating", "Updated"}
  BY LiveRunning, LiveState, OpenState DEF InviteCanceled, Live
<1>2. r.dialog = "confirmed" <=> q.dialog = "confirmed"
  BY <1>1 DEF Running, Whole, Discard
<1>3. \/ q.dialog = "confirmed" /\ Set(s, e)
      \/ q.dialog # "confirmed" /\ Set(s, t)
  BY <1>2 DEF InviteCanceled
<1>4. s \in Session /\ q = ses[s]
  OBVIOUS
<1> HIDE DEF q
<1>5. q.dialog = "confirmed" => Proper(q, e) /\ Left(e)
  <2>1. CASE q.st \in {"ServerEstablishing", "Updating"}
    BY <1>1, <2>1, ZenonT(40) DEF Proper, Running, Whole, Fit, Left, Told, Course,
       AtServerEstablishing, AtUpdating, AtEstablished, NoOffer, OfferOrUpdate,
       InvitePending, Discard, UpdateFailed, StopUpdatingMedia, Become, StateChanged,
       ClientStateChanged
  <2>2. CASE q.st = "Updated"
    BY <1>1, <2>2 DEF Running, Fit, AtUpdated
  <2> QED
    BY <1>1, <2>1, <2>2
<1>6. q.dialog # "confirmed" => Proper(q, t) /\ Left(t)
  <2>1. CASE q.st \in {"ServerEstablishing", "Updating"}
    BY <1>1, <2>1 DEF Proper, Running, Whole, Fit, Left, Told, Course,
           AtServerEstablishing, AtUpdating, AtEnd, PeerReleased, NoOffer,
           OfferOrUpdate, InvitePending, Discard, StopMedia, Become, StateChanged,
           ClientStateChanged
  <2>2. CASE q.st = "Updated"
    BY <1>1, <2>2 DEF Proper, Running, Whole, Fit, Left, Told, Course, AtUpdated, AtEnd,
           PeerReleased, NoOffer, InvitePending, Discard, StopMedia, Become,
           StateChanged, ClientStateChanged
  <2> QED
    BY <1>1, <2>1, <2>2
<1> HIDE DEF e, t, r
<1> QED
  BY <1>3, <1>4, <1>5, <1>6, SetGoes

-----------------------------------------------------------------------------
(* The network: a transaction that times out *)

\* What is left of a session whose transaction has timed out
Failed(q, r) ==
    /\ Whole(r) /\ r.media # "null" /\ r.owner = q.owner /\ q.owner \in {"client", "orphan"}
    /\ InvitePending(r) => r.sub # "Offering" \/ r.dialog # "confirmed"
    /\ r.invite = "accepted" => r.dialog \in {"confirmed", "terminated"}
    /\ InvitePending(r) => r.cancel # "none" \/ r.dialog = "terminated"
    /\ r.request # "none" => r.request = "accepted" /\ r.dialog = "terminated"

\* ... a session that waited for the answer to its BYE ends ...
LEMMA ByeLostProper ==
    ASSUME NEW q, NEW r, "lost" \in Allowed, Failed(q, r), ~r.busy
    PROVE  Proper(q, ByeLost(r))
BY DEF Proper, Running, Whole, Fit, Told, Course, Failed, ByeLost, AtEnd, PeerReleased,
       InvitePending, Become, StateChanged, ClientStateChanged

\* ... one with a dialog hangs up, if it waited for something, and others end.
LEMMA ErrorProper ==
    ASSUME NEW q, NEW r, NEW noAck \in BOOLEAN, "lost" \in Allowed, Failed(q, r),
           r.st = "Terminating" => ~r.busy,
           r.st = "Offering" \/ (noAck /\ r.sub \in {"Answering", "Updating"})
              => r.dialog # "early" /\ (r.dialog = "confirmed" => q.told # "ETerminated")
    PROVE  Proper(q, ErrorOccured(r, noAck))
<1> DEFINE t == Become(StopMedia(r), "Terminated", "ETerminated")
           x == Become(StopMedia(r), "Error", "ETerminated")
           b == Become(SendBYE(StopMedia(r)), "Terminating", "ETerminating")
<1>1. Proper(q, t) /\ Proper(q, x)
  BY DEF Proper, Running, Whole, Fit, Told, Course, Failed, AtEnd, PeerReleased,
         InvitePending, StopMedia, Become, StateChanged, ClientStateChanged
<1>2. ASSUME r.dialog = "confirmed", q.told # "ETerminated" PROVE Proper(q, b)
  BY <1>2 DEF Proper, Running, Whole, Fit, Told, Course, Failed, AtTerminating,
         InvitePending, SendBYE, StopMedia, Become, StateChanged, ClientStateChanged
<1>3. \/ r.st = "Terminating" /\ ErrorOccured(r, noAck) = ByeLost(r)
      \/ ErrorOccured(r, noAck) \in {t, x}
      \/ r.dialog = "confirmed" /\ q.told # "ETerminated" /\ ErrorOccured(r, noAck) = b
  <2> HIDE DEF t, x, b
  <2>1. ErrorOccured(r, noAck) =
           IF r.st = "Terminating" THEN ByeLost(r)
           ELSE IF r.st = "Offering" \/ (noAck /\ r.sub \in {"Answering", "Updating"})
           THEN IF r.dialog = "confirmed" THEN b ELSE t
           ELSE x
    BY DEF ErrorOccured, t, x, b
  <2> QED
    BY <2>1
<1> HIDE DEF t, x, b
<1> QED
  BY <1>1, <1>2, <1>3, ByeLostProper

LEMMA InviteTimesOutGoes ==
    ASSUME CourseInv, NEW s \in Session, InviteTimesOut(s) PROVE Goes
<1> DEFINE q == ses[s]
           r == Final(q, "done", "other")
<1>1. /\ Running(q) /\ Left(q) /\ q.owner \in {"client", "orphan"} /\ InvitePending(q)
      /\ q.st \in {"Offering", "Established", "Canceled", "Terminating", "Terminated", "Error"}
      /\ "lost" \in Allowed
  BY LiveRunning, LiveState, PendingState DEF InviteTimesOut, Live
<1>2. Incoming(s, ErrorOccured(r, FALSE))
  BY DEF InviteTimesOut
<1>3. s \in Session /\ q = ses[s]
  OBVIOUS
<1> HIDE DEF q
<1>4. /\ Whole(r) /\ r.st = q.st /\ r.invite = "done" /\ r.media = q.media /\ r.owner = q.owner
      /\ r.busy = q.busy /\ r.request = q.request
      /\ r.dialog = IF q.dialog = "confirmed" THEN "confirmed" ELSE "terminated"
  BY <1>1 DEF Running, Whole, Final
<1>5. /\ q.media # "null" /\ (q.st = "Terminating" => ~q.busy)
      /\ q.request # "none" => q.request = "accepted" /\ q.dialog = "terminated"
      /\ q.st = "Offering" => q.told # "ETerminated"
  BY <1>1 DEF Running, Fit, Course, AtOffering, AtEstablished, AtCanceled, AtTerminating, AtEnd
<1> HIDE DEF r
<1>6. Proper(q, ErrorOccured(r, FALSE))
  <2>1. Failed(q, r)
    BY <1>1, <1>4, <1>5 DEF Failed, InvitePending
  <2> QED
    BY <1>1, <1>4, <1>5, <2>1, ErrorProper
<1> QED
  BY <1>2, <1>3, <1>6, IncomingGoes

LEMMA CancelTimesOutGoes ==
    ASSUME CourseInv, NEW s \in Session, CancelTimesOut(s) PROVE Goes
<1> DEFINE q == ses[s]
           r == [q EXCEPT !.cancel = "done", !.resp = "other"]
<1>1. /\ Running(q) /\ Left(q) /\ q.owner \in {"client", "orphan"} /\ q.cancel = "out"
      /\ q.st \in {"Offering", "Established", "Canceled", "Terminating", "Terminated", "Error"}
      /\ "lost" \in Allowed
  BY LiveRunning, LiveState, CancelState, PendingState DEF CancelTimesOut, Live
<1>2. Incoming(s, ErrorOccured(r, FALSE))
  BY DEF CancelTimesOut
<1>3. s \in Session /\ q = ses[s]
  OBVIOUS
<1> HIDE DEF q
<1>4. /\ Whole(r) /\ r.st = q.st /\ r.sub = q.sub /\ r.invite = q.invite /\ r.media = q.media
      /\ r.owner = q.owner /\ r.busy = q.busy /\ r.request = q.request /\ r.dialog = q.dialog
      /\ r.cancel = "done"
  BY <1>1 DEF Running, Whole
<1>5. /\ q.media # "null" /\ (q.st = "Terminating" => ~q.busy)
      /\ q.request # "none" => q.request = "accepted" /\ q.dialog = "terminated"
      /\ q.invite = "accepted" => q.dialog \in {"confirmed", "terminated"}
      /\ InvitePending(q) => q.sub # "Offering" \/ q.dialog # "confirmed"
      /\ q.st = "Offering" => q.told # "ETerminated" /\ q.dialog = "confirmed"
  BY <1>1 DEF Running, Fit, Course, AtOffering, AtEstablished, AtCanceled, AtTerminating, AtEnd
<1> HIDE DEF r
<1>6. Proper(q, ErrorOccured(r, FALSE))
  <2>1. Failed(q, r)
    BY <1>1, <1>4, <1>5 DEF Failed, InvitePending
  <2> QED
    BY <1>1, <1>4, <1>5, <2>1, ErrorProper
<1> QED
  BY <1>2, <1>3, <1>6, IncomingGoes

LEMMA ByeTimesOutGoes ==
    ASSUME CourseInv, NEW s \in Session, ByeTimesOut(s) PROVE Goes
<1> DEFINE q == ses[s]
           r == [q EXCEPT !.bye = "done", !.dialog = "terminated", !.resp = "other"]
<1>1. /\ Running(q) /\ Left(q) /\ q.owner \in {"client", "orphan"} /\ q.bye = "out"
      /\ q.st \in {"Terminating", "Terminated", "Error", "Answering"}
      /\ "lost" \in Allowed
  BY LiveRunning, LiveState, ByeState DEF ByeTimesOut, Live
<1>2. Incoming(s, ErrorOccured(r, FALSE))
  BY DEF ByeTimesOut
<1>3. s \in Session /\ q = ses[s]
  OBVIOUS
<1> HIDE DEF q
<1>4. /\ Whole(r) /\ r.st = q.st /\ r.media = q.media /\ r.owner = q.owner /\ r.busy = q.busy
      /\ r.request = q.request /\ r.dialog = "terminated"
  BY <1>1 DEF Running, Whole
<1>5. /\ q.media # "null" /\ (q.st = "Terminating" => ~q.busy)
      /\ q.request # "none" => q.request = "accepted"
  BY <1>1 DEF Running, Fit, Course, AtAnswering, AtTerminating, AtEnd
<1> HIDE DEF r
<1>6. Proper(q, ErrorOccured(r, FALSE))
  <2>1. Failed(q, r)
    BY <1>1, <1>4, <1>5 DEF Failed, InvitePending
  <2> QED
    BY <1>1, <1>4, <1>5, <2>1, ErrorProper
<1> QED
  BY <1>2, <1>3, <1>6, IncomingGoes

LEMMA AcceptedRequestState ==
    ASSUME NEW q, Running(q), q.request = "accepted", q.st \in StateIndex
    PROVE  \/ q.st = "Answering"
           \/ q.st \in {"Established", "Terminated", "Error"} /\ q.dialog = "terminated"
BY DEF StateIndex, Running, Fit, AtIdle, AtClientEstablishing, AtServerEstablishing, AtUpdating,
       AtUpdated, AtOffering, AtEstablished, AtCanceled, AtTerminating, AtEnd

LEMMA NoAckReceivedGoes ==
    ASSUME CourseInv, NEW s \in Session, NoAckReceived(s) PROVE Goes
<1> DEFINE q == ses[s]
           r == [q EXCEPT !.request = "none"]
<1>1. /\ Running(q) /\ q.owner \in {"client", "orphan"}
      /\ \/ q.st = "Answering"
         \/ q.st \in {"Established", "Terminated", "Error"} /\ q.dialog = "terminated"
      /\ "lost" \in Allowed
  BY LiveRunning, LiveState, AcceptedRequestState DEF NoAckReceived, Live
<1>2. Incoming(s, ErrorOccured(r, TRUE))
  BY DEF NoAckReceived
<1>3. s \in Session /\ q = ses[s]
  OBVIOUS
<1> HIDE DEF q
<1>4. /\ Whole(r) /\ r.st = q.st /\ r.sub = q.sub /\ r.media = q.media /\ r.owner = q.owner
      /\ r.invite = q.invite /\ r.cancel = q.cancel /\ r.request = "none" /\ r.dialog = q.dialog
  BY <1>1 DEF Running, Whole
<1>5. /\ q.media # "null" /\ q.dialog \in {"confirmed", "terminated"}
      /\ q.st = "Answering" => ~InvitePending(q) /\ q.told # "ETerminated"
      /\ q.invite = "accepted" => q.dialog \in {"confirmed", "terminated"}
      /\ q.dialog = "confirmed" => q.st = "Answering"
  BY <1>1 DEF Running, Fit, Course, AtAnswering, NoOffer, InvitePending
<1> HIDE DEF r
<1>6. Proper(q, ErrorOccured(r, TRUE))
  <2>1. Failed(q, r)
    BY <1>1, <1>4, <1>5 DEF Failed, InvitePending
  <2> QED
    BY <1>1, <1>4, <1>5, <2>1, ErrorProper
<1> QED
  BY <1>2, <1>3, <1>6, IncomingGoes

-----------------------------------------------------------------------------
(* The end of the first INVITE, the media manager, the timer *)

LEMMA AlikeGoes ==
    ASSUME CourseInv, NEW s \in Session, NEW n, Live(s), Set(s, n), Whole(n), Alike(ses[s], n)
    PROVE  Goes
<1>1. Running(ses[s]) /\ Left(ses[s])
  BY LiveRunning
<1>2. Fit(n) /\ n.owner # "free" /\ Told(ses[s], n) /\ Left(n)
  BY <1>1, AlikeFit DEF Running, Alike, Told, Left
<1> QED
  BY <1>2, SetGoes DEF Proper, Running

LEMMA InviteCompletedGoes ==
    ASSUME CourseInv, NEW s \in Session, InviteCompleted(s) PROVE Goes
<1> DEFINE n == [ses[s] EXCEPT !.initial = "removed"]
<1>1. Set(s, n) /\ Live(s)
  BY DEF InviteCompleted
<1>2. Whole(n) /\ Alike(ses[s], n)
  BY <1>1, LiveRunning DEF Running, Whole, Alike
<1> HIDE DEF n
<1> QED
  BY <1>1, <1>2, AlikeGoes

\* The media manager works for these states only.
LEMMA BusyState ==
    ASSUME NEW q, Fit(q), q.busy, q.st \in StateIndex
    PROVE  q.st \in {"ClientEstablishing", "Offering", "Updating"}
BY DEF StateIndex, Fit, AtIdle, AtServerEstablishing, AtUpdated, AtAnswering, AtEstablished,
       AtCanceled, AtTerminating, AtEnd

LEMMA MediaUpdatedGoes ==
    ASSUME CourseInv, NEW s \in Session, MediaUpdated(s) PROVE Goes
<1> DEFINE q == ses[s]
           r == [q EXCEPT !.busy = FALSE, !.waiting = FALSE]
           i == StateChanged(SendInvite(r), "Offering")
           v == UpdateSucceed(r)
           e == Become(v, "Established", "EEstablished")
           a == Become(SendAnswer(v, FALSE), "Answering", "EProceeding")
           u == Become(r, "Updated", "EProceeding")
<1>1. Set(s,
         CASE r.st = "ClientEstablishing" -> Processed(r, i)
           [] r.st = "Offering" -> OfferingMediaUpdated(r)
           [] r.st = "Updating" /\ r.sub = "Updating" -> Processed(r, a)
           [] r.st = "Updating" /\ r.sub # "Updating" -> Processed(r, u)
           [] r.st \in Ended \cup {"Canceled"} -> Processed(r, r)
           [] OTHER -> Become(StopMedia(r), "Error", "ETerminated"))
  BY DEF MediaUpdated
<1>2. /\ Running(q) /\ Left(q) /\ q.owner \in {"client", "orphan"} /\ q.busy
      /\ q.st \in {"ClientEstablishing", "Offering", "Updating"}
  BY LiveRunning, LiveState, BusyState DEF MediaUpdated, Live, Running
<1>3. r.st = q.st /\ r.sub = q.sub /\ r.resp = q.resp
  BY <1>2 DEF Running, Whole
<1>4. \/ q.st = "ClientEstablishing" /\ Set(s, Processed(r, i))
      \/ q.st = "Offering" /\ Set(s, Processed(r, e))
      \/ q.st = "Updating" /\ q.sub = "Updating" /\ Set(s, Processed(r, a))
      \/ q.st = "Updating" /\ q.sub # "Updating" /\ Set(s, Processed(r, u))
  <2>1. q.st = "Offering" => q.resp = "2xx"
    BY <1>2 DEF Running, Fit, AtOffering
  <2> HIDE DEF r
  <2>2. CASE q.st = "ClientEstablishing"
    BY <1>1, <1>3, <2>2 DEF Ended
  <2>3. CASE q.st = "Offering"
    <3>1. OfferingMediaUpdated(r) = Processed(r, e)
      BY <1>3, <2>1, <2>3 DEF OfferingMediaUpdated, OfferingExit, CourseInv
    <3> QED
      BY <1>1, <1>3, <2>3, <3>1 DEF Ended
  <2>4. CASE q.st = "Updating"
    <3> HIDE DEF i, v, e, a, u
    <3> QED
      BY <1>1, <1>3, <2>4 DEF Ended
  <2> QED
    BY <1>2, <2>2, <2>3, <2>4
<1>5. s \in Session /\ q = ses[s]
  OBVIOUS
<1> HIDE DEF q
<1>6. q.st = "ClientEstablishing" => Proper(q, i) /\ Left(i)
  BY <1>2 DEF Proper, Running, Whole, Fit, Left, Told, Course, AtClientEstablishing,
         AtOffering, NoOffer, OfferOrUpdate, InvitePending, SendInvite, StateChanged
<1>7. q.st = "Offering" => Whole(e) /\ Proper(q, StateEntry(e)) /\ Left(StateEntry(e))
  <2> SUFFICES ASSUME q.st = "Offering"
               PROVE  Whole(e) /\ Proper(q, StateEntry(e)) /\ Left(StateEntry(e))
    OBVIOUS
  <2>1. /\ Whole(e) /\ e.st = "Established" /\ e.told = "EEstablished" /\ e.media # "null"
        /\ ~e.busy /\ ~e.waiting /\ e.invite = "done" /\ e.bye = "none" /\ e.request = "none"
        /\ e.resp = "2xx" /\ e.dialog = "confirmed" /\ e.owner = q.owner
        /\ Undisturbed => ~e.cand
    <3>1. CASE q.sub = "Updating"
      BY <1>2, <3>1 DEF Running, Whole, Fit, Course, AtOffering, InvitePending,
             UpdateSucceed, Become, StateChanged, ClientStateChanged
    <3>2. CASE q.sub # "Updating"
      BY <1>2, <3>2 DEF Running, Whole, Fit, Course, AtOffering, InvitePending,
             UpdateSucceed, Become, StateChanged, ClientStateChanged
    <3> QED
      BY <3>1, <3>2
  <2> HIDE DEF e
  <2> DEFINE x == [e EXCEPT !.sub = "None", !.request = "none"]
  <2>2. StateEntry(e) = x
    BY <2>1 DEF Whole, StateEntry
  <2>3. /\ Whole(x) /\ x.st = "Established" /\ x.sub = "None" /\ x.told = "EEstablished"
        /\ x.media # "null" /\ ~x.busy /\ ~x.waiting /\ x.invite = "done" /\ x.bye = "none"
        /\ x.request = "none" /\ x.dialog = "confirmed" /\ x.owner = q.owner
        /\ Undisturbed => ~x.cand
    BY <2>1 DEF Whole
  <2>4. q.told # "ETerminated"
    BY <1>2 DEF Running, Fit, Course
  <2> HIDE DEF x
  <2>5. Proper(q, x) /\ Left(x)
    BY <1>2, <2>3, <2>4 DEF Proper, Running, Fit, Left, Told, Course, AtEstablished, InvitePending
  <2> QED
    BY <2>1, <2>2, <2>5
<1>8. q.st = "Updating" /\ q.sub = "Updating" => Proper(q, a) /\ Left(a)
  <2> DEFINE n == Become(Accepted(v), "Answering", "EProceeding")
  <2>1. q.st = "Updating" /\ q.sub = "Updating" => Proper(q, n) /\ Left(n) /\ Whole(v)
    BY <1>2 DEF Proper, Running, Whole, Fit, Left, Told, Course, AtUpdating,
           AtAnswering, NoOffer, OfferOrUpdate, InvitePending, UpdateSucceed, Accepted,
           Become, StateChanged, ClientStateChanged
  <2> HIDE DEF v
  <2> QED
    BY <2>1, SendAnswerProper
<1>9. q.st = "Updating" /\ q.sub # "Updating" => Proper(q, u) /\ Left(u)
  BY <1>2 DEF Proper, Running, Whole, Fit, Left, Told, Course, AtUpdating, AtUpdated,
         NoOffer, OfferOrUpdate, InvitePending, Become, StateChanged, ClientStateChanged
<1> HIDE DEF r, i, v, e, a, u
<1>10. ASSUME NEW n, Proper(q, n), Left(n), Set(s, Processed(r, n)) PROVE Goes
  BY <1>5, <1>10, ProcessedProper, SetGoes
<1>11. ASSUME NEW n, Whole(n), Proper(q, StateEntry(n)), Left(StateEntry(n)), Set(s, Processed(r, n))
       PROVE  Goes
  BY <1>5, <1>11, EnteredProper, SetGoes
<1> QED
  BY <1>4, <1>6, <1>7, <1>8, <1>9, <1>10, <1>11

LEMMA TimerExpiredGoes ==
    ASSUME CourseInv, NEW s \in Session, TimerExpired(s) PROVE Goes
<1> DEFINE q == ses[s]
           r == [q EXCEPT !.timer = FALSE]
           i == Become(SendSessionRefresh(r), "Offering", "EOffering")
           b == Become(StopMedia(SendBYE(r)), "Terminating", "ETerminating")
           t == ClientErrorOccured(StateChanged(r, "Terminated"))
<1>1. PICK refresh \in BOOLEAN :
         /\ refresh /\ r.st = "Established" => r.dialog = "confirmed" /\ ~InvitePending(r)
         /\ Set(s,
              CASE r.st = "Established" /\ refresh -> Processed(r, i)
                [] r.st = "Established" /\ ~refresh /\ CanSendBYE(r) -> Processed(r, b)
                [] r.st = "Canceled" -> Processed(r, CanceledExit(r))
                [] r.st \in Ended -> Processed(r, r)
                [] OTHER -> ClientErrorOccured(
                               IF refresh THEN r ELSE StateChanged(r, "Terminated")))
  BY ZenonT(60) DEF TimerExpired
<1>2. /\ Running(q) /\ Left(q) /\ q.owner \in {"client", "orphan"}
      /\ q.st \in {"Established", "Terminated", "Error"}
  BY LiveRunning DEF TimerExpired, Live, Ended, CourseInv, Plain
<1>3. /\ r.st = q.st /\ r.dialog = q.dialog /\ InvitePending(r) = InvitePending(q)
      /\ Whole(r) /\ Alike(q, r)
  BY <1>2 DEF Running, Whole, Alike, InvitePending
<1>4. \/ /\ q.st = "Established" /\ q.dialog = "confirmed" /\ ~InvitePending(q)
         /\ Set(s, Processed(r, i))
      \/ q.st = "Established" /\ CanSendBYE(q) /\ Set(s, Processed(r, b))
      \/ q.st = "Established" /\ ~CanSendBYE(q) /\ Set(s, t)
      \/ q.st \in {"Terminated", "Error"} /\ Set(s, Processed(r, r))
  <2>1. CanSendBYE(r) = CanSendBYE(q)
    BY <1>3 DEF CanSendBYE
  <2> HIDE DEF r, i, b
  <2>2. CASE q.st = "Established" /\ refresh
    BY <1>1, <1>3, <2>2 DEF Ended
  <2>3. CASE q.st = "Established" /\ ~refresh /\ CanSendBYE(q)
    BY <1>1, <1>3, <2>1, <2>3 DEF Ended
  <2>4. CASE q.st = "Established" /\ ~refresh /\ ~CanSendBYE(q)
    BY <1>1, <1>3, <2>1, <2>4 DEF Ended
  <2>5. CASE q.st \in {"Terminated", "Error"}
    BY <1>1, <1>3, <2>5 DEF Ended
  <2> QED
    BY <1>2, <2>2, <2>3, <2>4, <2>5
<1>5. s \in Session /\ q = ses[s]
  OBVIOUS
<1> HIDE DEF q
<1>6. q.st = "Established" /\ q.dialog = "confirmed" /\ ~InvitePending(q) => Proper(q, i) /\ Left(i)
  BY <1>2, ZenonT(40) DEF Proper, Running, Whole, Fit, Left, Told, Course, AtEstablished,
     AtOffering, InvitePending, SendSessionRefresh, SendInvite, Become, StateChanged,
     ClientStateChanged
<1>7. q.st = "Established" /\ CanSendBYE(q) => Proper(q, b) /\ Left(b)
  BY <1>2 DEF Proper, Running, Whole, Fit, Left, Told, Course, AtEstablished,
         AtTerminating, InvitePending, CanSendBYE, SendBYE, StopMedia, Become,
         StateChanged, ClientStateChanged
<1>8. q.st = "Established" /\ ~CanSendBYE(q) => Proper(q, t) /\ Left(t)
  BY <1>2 DEF Proper, Running, Whole, Fit, Left, Told, Course, AtEstablished, AtEnd,
         PeerReleased, InvitePending, CanSendBYE, StateChanged, ClientErrorOccured,
         ClientStateChanged
<1>9. Proper(q, r) /\ Left(r)
  BY <1>2, <1>3, AlikeFit DEF Proper, Running, Told, Left, Alike
<1> HIDE DEF r, i, b, t
<1>10. ASSUME NEW n, Proper(q, n), Left(n), Set(s, Processed(r, n)) PROVE Goes
  BY <1>5, <1>10, ProcessedProper, SetGoes
<1>11. ASSUME NEW n, Proper(q, n), Left(n), Set(s, n) PROVE Goes
  BY <1>5, <1>11, SetGoes
<1> QED
  BY <1>4, <1>6, <1>7, <1>8, <1>9, <1>10, <1>11

-----------------------------------------------------------------------------
(* All handlers *)

\* iReadyToSendACK, which all sessions share, stays set: only an answer in a
\* 18x leaves a session waiting for the media with its INVITE unanswered.
LEMMA ReadyStays ==
    ASSUME CourseInv, [Next]_vars PROVE readyToAck' = TRUE
<1>1. readyToAck = TRUE
  BY DEF CourseInv
<1>2. CASE UNCHANGED vars
  BY <1>1, <1>2 DEF vars
<1>3. ASSUME NEW s \in Session, Answered(s) PROVE readyToAck' = TRUE
  <2> DEFINE q == ses[s]
             r == Final(q, "accepted", "2xx")
  <2>1. PICK sdp \in BOOLEAN :
           readyToAck' = IF r.st = "Offering" THEN ReadyToAck(r, sdp) ELSE readyToAck
    BY <1>3, ZenonT(60) DEF Answered
  <2>2. Running(q) /\ (InvitePending(q) \/ q.invite = "accepted")
    BY <1>3, LiveRunning DEF Answered
  <2>3. r.st = q.st /\ r.waiting = q.waiting
    BY <2>2 DEF Running, Whole, Final
  <2>4. q.st = "Offering" => r.waiting = FALSE
    BY <2>2, <2>3 DEF Running, Fit, AtOffering, InvitePending
  <2> HIDE DEF r
  <2>5. r.st = "Offering" => ReadyToAck(r, sdp) = TRUE
    BY <1>1, <2>3, <2>4 DEF ReadyToAck
  <2> QED
    BY <1>1, <2>1, <2>5
<1>4. ASSUME NEW s \in Session,
             \/ ClientRequest(s) \/ Provisional(s) \/ Redirected(s) \/ Refused(s)
             \/ InviteTimesOut(s) \/ CancelEnds(s) \/ ByeEnds(s) \/ AckEnds(s)
             \/ PeerRequest(s) \/ InviteCompleted(s) \/ MediaUpdated(s) \/ TimerExpired(s)
      PROVE  readyToAck' = readyToAck
  <2>1. CASE ClientRequest(s)
    BY <2>1 DEF ClientRequest, CreateOutSession, EstablishSession, CancelEstablishing,
       CancelOffering, UpdateIncoming, RejectIncoming, AcceptSession, RejectSession,
       UpdateSession, TerminateSession, DeleteSession, offeringState
  <2>2. CASE Provisional(s) \/ Redirected(s) \/ Refused(s) \/ InviteTimesOut(s)
    BY <2>2 DEF Provisional, Redirected, Refused, InviteTimesOut, offeringState
  <2>3. CASE CancelEnds(s) \/ ByeEnds(s) \/ AckEnds(s)
    BY <2>3 DEF CancelEnds, CancelAnswered, CancelTimesOut, ByeEnds, ByeAnswered,
       ByeTimesOut, AckEnds, AckReceived, NoAckReceived, offeringState
  <2>4. CASE PeerRequest(s)
    BY <2>4 DEF PeerRequest, IncomingSession, ReInviteReceived, ByeReceived, InviteCanceled,
       offeringState
  <2>5. CASE InviteCompleted(s) \/ MediaUpdated(s) \/ TimerExpired(s)
    BY <2>5 DEF InviteCompleted, MediaUpdated, TimerExpired, offeringState
  <2> QED
    BY <1>4, <2>1, <2>2, <2>3, <2>4, <2>5
<1>5. CASE Next
  BY <1>1, <1>3, <1>4, <1>5 DEF Next, FinalResponse
<1> QED
  BY <1>2, <1>5

LEMMA NextGoes ==
    ASSUME CourseInv, [Next]_vars PROVE Goes
<1>1. CASE UNCHANGED vars
  BY <1>1 DEF vars, CourseInv, AllFit, Goes, Told
<1>2. ASSUME NEW s \in Session, ClientRequest(s) PROVE Goes
  BY <1>2, CreateOutSessionGoes, EstablishSessionGoes, CancelEstablishingGoes,
     CancelOfferingGoes, UpdateIncomingGoes, RejectIncomingGoes, AcceptSessionGoes,
     RejectSessionGoes, UpdateSessionGoes, TerminateSessionGoes, DeleteSessionGoes
  DEF ClientRequest
<1>3. ASSUME NEW s \in Session, FinalResponse(s) PROVE Goes
  BY <1>3, AnsweredGoes, RedirectedGoes, RefusedGoes, InviteTimesOutGoes DEF FinalResponse
<1>4. ASSUME NEW s \in Session, CancelEnds(s) \/ ByeEnds(s) \/ AckEnds(s) PROVE Goes
  BY <1>4, CancelAnsweredGoes, CancelTimesOutGoes, ByeAnsweredGoes, ByeTimesOutGoes,
     AckReceivedGoes, NoAckReceivedGoes
  DEF CancelEnds, ByeEnds, AckEnds
<1>5. ASSUME NEW s \in Session, PeerRequest(s) PROVE Goes
  BY <1>5, IncomingSessionGoes, ReInviteReceivedGoes, ByeReceivedGoes, InviteCanceledGoes
  DEF PeerRequest
<1>6. CASE Next
  BY <1>2, <1>3, <1>4, <1>5, <1>6, ProvisionalGoes, InviteCompletedGoes, MediaUpdatedGoes,
     TimerExpiredGoes
  DEF Next
<1> QED
  BY <1>1, <1>6

-----------------------------------------------------------------------------
(* The properties *)

\* What is always true of a plain course
Always == Inv /\ AllFit /\ readyToAck = TRUE

LEMMA InitAlways == Init => Always
<1> SUFFICES ASSUME Init PROVE Always
  OBVIOUS
<1>1. Whole(Free) /\ Fit(Free) /\ Left(Free) /\ Free.st = "Idle"
  BY DEF Free, NewOutSession, Whole, Fit, Left, Course, AtIdle, NoOffer, InvitePending
<1> QED
  BY <1>1, InitInv DEF Init, Always, AllFit

LEMMA AlwaysCourse ==
    ASSUME Plain, Always PROVE CourseInv
BY DEF Always, CourseInv, Inv, TypeOK

LEMMA NextAlways ==
    ASSUME Plain PROVE Always /\ [Next]_vars => Always'
<1> SUFFICES ASSUME Always, [Next]_vars PROVE Always'
  OBVIOUS
<1>1. CourseInv
  BY AlwaysCourse
<1> QED
  BY <1>1, NextInv, NextGoes, ReadyStays DEF Always, Goes

LEMMA SpecAlways ==
    ASSUME Plain PROVE Spec => []Always
BY InitAlways, NextAlways, PTL DEF Spec

\* The media manager calls back (CMceSipSession::Updated) only sessions in a
\* state that takes the callback: whatever comes in between - a CANCEL, a BYE,
\* an error, the deletion of the session - has closed the media or waited.
THEOREM CallbackAlwaysExpected ==
    ASSUME Plain PROVE Spec => []CallbackExpected
<1>1. Always => CallbackExpected
  BY BusyState DEF Always, Inv, TypeOK, SessionData, AllFit, CallbackExpected
<1> QED
  BY <1>1, SpecAlways, PTL

\* UpdateAccepted finds a candidate whenever the session is in an update
\* (CreateBodyCandidateL, UpdateSucceed): no body is replaced by nothing.
THEOREM BodyNeverLost ==
    ASSUME Plain PROVE Spec => []BodyNeverNull
<1>1. Always => BodyNeverNull
  BY DEF Always, AllFit, Fit, Course, BodyNeverNull
<1> QED
  BY <1>1, SpecAlways, PTL

\* A client that has been told ETerminated is told nothing else, whatever comes
\* late: no path of an ExitL leads from the end back to an earlier state.
THEOREM EndIsFinal ==
    ASSUME Plain PROVE Spec => EndedIsFinal
<1>1. Always /\ [Next]_vars =>
         [\A s \in Session :
             ses[s].told = "ETerminated" => ses'[s].told = "ETerminated"]_vars
  BY AlwaysCourse, NextGoes DEF Goes, Told
<1> QED
  BY <1>1, SpecAlways, PTL DEF Spec, EndedIsFinal

\* A session in a state that waits has what it waits for still to come, if the
\* peer does not redirect an INVITE that is being cancelled (Canceled takes no
\* redirection, and would wait for ever).
THEOREM NeverLeftWaiting ==
    ASSUME Plain, "redirect to cancel" \notin Allowed
    PROVE  Spec => []NeverStranded
<1>1. Always => NeverStranded
  <2> SUFFICES ASSUME Always, NEW s \in Session, Served(s) PROVE SomethingIsDue(ses[s])
    BY DEF NeverStranded
  <2>1. Fit(ses[s]) /\ ses[s].owner = "client"
    BY DEF Always, AllFit, Served
  <2> QED
    BY <2>1 DEF Fit, AtClientEstablishing, AtUpdating, AtOffering, AtAnswering, AtCanceled,
       AtTerminating, SomethingIsDue
<1> QED
  BY <1>1, SpecAlways, PTL

\* While an INVITE of ours is unanswered, and not cancelled, the client is shown
\* an offer: the only states with one pending are Offering and Canceled, and the
\* client is in step with them.  (A 422 to a refresh sends a second refresh and
\* shows the session as established: ExitSIPEventL of Offering.)
THEOREM UpdateAlwaysShown ==
    ASSUME Plain, "interval too small" \notin Allowed
    PROVE  Spec => []UpdateShown
<1>1. Always => UpdateShown
  <2> SUFFICES ASSUME Always, NEW s \in Session, Served(s), InvitePending(ses[s]),
                      ses[s].cancel = "none", ses[s].dialog # "terminated"
               PROVE  ses[s].told \in {"EOffering", "ECancelling"}
    BY DEF UpdateShown
  <2>1. ses[s].st \in {"Offering", "Canceled"}
    BY DEF Always, AllFit, Fit, Course, Served
  <2>2. ses[s].told \in Shown(ses[s].st)
    BY DEF Always, Inv, SesOK, Good, Orderly, InSync, Served, Plain
  <2> QED
    BY <2>1, <2>2 DEF Shown, Ended
<1> QED
  BY <1>1, SpecAlways, PTL

\* When a session ends for the client, a confirmed dialog has had its BYE and a
\* pending INVITE its CANCEL, if no transaction is lost: every ExitL that leads
\* to Terminated, and DoTerminateL, hangs up first.
THEOREM PeerAlwaysToldOfEnd ==
    ASSUME Plain, "lost" \notin Allowed
    PROVE  Spec => []RemoteToldOfEnd
<1>1. Always => RemoteToldOfEnd
  BY DEF Always, AllFit, Fit, AtEnd, RemoteToldOfEnd, Served, Ended
<1> QED
  BY <1>1, SpecAlways, PTL

\* A session whose dialog has ended is over for the client (the states that do
\* not take a BYE refuse it), if neither a BYE nor a redirection meets an offer
\* that is being cancelled.
THEOREM HangupAlwaysEnds ==
    ASSUME Plain, "redirect to cancel" \notin Allowed, "bye to cancel" \notin Allowed
    PROVE  Spec => []HangupEnds
<1>1. Always => HangupEnds
  BY DEF Always, AllFit, Fit, Course, HangupEnds, Served, Ended
<1> QED
  BY <1>1, SpecAlways, PTL

\* A session is back in Established only when nothing of an offer, in either
\* direction, is left over, if the media manager does not leave in the middle of
\* one, no 422 repeats a refresh and no BYE meets a cancelled update.
THEOREM EstablishedAlwaysQuiet ==
    ASSUME Plain, Undisturbed
    PROVE  Spec => []EstablishedIsQuiet
<1>1. Always => EstablishedIsQuiet
  <2> SUFFICES ASSUME Always, NEW s \in Session, Live(s), ses[s].st = "Established"
               PROVE  /\ ~ses[s].busy /\ ~ses[s].waiting /\ ~ses[s].cand
                      /\ ses[s].invite \in {"none", "done"} /\ ses[s].request # "open"
    BY DEF EstablishedIsQuiet
  <2>1. AtEstablished(ses[s]) /\ ses[s].invite \in Invite
    BY DEF Always, AllFit, Fit, Inv, TypeOK, SessionData
  <2> QED
    BY <2>1 DEF AtEstablished, InvitePending, Invite
<1> QED
  BY <1>1, SpecAlways, PTL
=============================================================================
