----------------------------- MODULE MceReceiver ----------------------------
(***************************************************************************)
(* The event path from a server object to its client object.               *)
(*                                                                         *)
(* The client keeps one asynchronous request outstanding.  The server      *)
(* completes it with the ids of an event and the sizes of its body; an     *)
(* event with a body stays at the head of the server's queue until the     *)
(* client, with buffers of that size, fetches it in a synchronous call.    *)
(* Server: CMceCsReceiverBase, CMceCsReceiveQueue; client:                 *)
(* CMceItcReceiverBase.  The two run in different processes, and the       *)
(* server sends events at any time.                                        *)
(***************************************************************************)
EXTENDS Naturals, Sequences

CONSTANTS
    MaxEvents,      \* bound on the events the server accepts
    MaxFaults       \* bound on the memory allocations that fail

ASSUME BoundsAssumption == MaxEvents \in Nat /\ MaxFaults \in Nat

VARIABLES
    queue,          \* iReceiveQueue
    ready,          \* iClientReadyToReceive: the request is held
    inbox,          \* client messages the server thread has not serviced
    status,         \* iStatus of the client's active object
    buf,            \* iIdsPckg and iSizesPckg of the client
    reply,          \* result of the client's synchronous call
    body,           \* the event whose body that call brought
    pc,             \* where the client thread is
    hand,           \* the ids RunL works on
    accepted,       \* number of events the server took
    delivered,      \* events given to IncomingEventL or ErrorOccuredL
    faults          \* allocations that failed

serverVars == <<queue, ready, accepted>>
vars == <<queue, ready, inbox, status, buf, reply, body, pc, hand,
          accepted, delivered, faults>>

\* "data" carries a context and perhaps a content; the others only ids
Kinds == {"event", "data", "error"}
Event == [id : Nat \ {0}, kind : Kinds]
NoEvent == [id |-> 0, kind |-> "none"]
HasBody(e) == e.kind = "data"

TypeOK ==
    /\ queue \in Seq(Event)
    /\ ready \in BOOLEAN
    /\ inbox \in Seq({"ready", "receive", "cancel"})
    /\ status \in {"pending", "ok", "error", "cancelled", "completion"}
    /\ buf \in Event \cup {NoEvent}
    /\ reply \in {"none", "ok", "error"}
    /\ body \in Event \cup {NoEvent}
    /\ pc \in {"scheduler", "fetching", "dispatching", "cancelling", "closed"}
    /\ hand \in Event \cup {NoEvent}
    /\ accepted \in Nat
    /\ delivered \in Seq(Event)
    /\ faults \in Nat

\* The receiver is constructed with the client object and asks at once.
Init ==
    /\ queue = <<>> /\ ready = FALSE /\ accepted = 0
    /\ inbox = <<"ready">>
    /\ status = "pending" /\ buf = NoEvent
    /\ reply = "none" /\ body = NoEvent
    /\ pc = "scheduler" /\ hand = NoEvent /\ delivered = <<>>
    /\ faults = 0

-----------------------------------------------------------------------------
(* The server thread *)

\* (Mutants, named for what they get wrong, stand before their originals.)

\* completes the request with the kind of the event for its status
AnnounceKind(e) == buf' = e /\ status' = e.kind

\* The ids and sizes of e are in the client's buffers, the request completes.
Announce(e) ==
    /\ buf' = e
    /\ status' = IF e.kind = "error" THEN "error" ELSE "ok"

\* puts a new event before the others
SendFirst(e) ==
    /\ IF ready THEN Announce(e) ELSE UNCHANGED <<buf, status>>
    /\ queue' = IF ready /\ ~HasBody(e) THEN queue ELSE <<e>> \o queue
    /\ ready' = FALSE
    /\ accepted' = accepted + 1
    /\ UNCHANGED <<inbox, reply, body, pc, hand, delivered, faults>>

\* does not note that the request is used up
SendKeepsReady(e) ==
    /\ IF ready THEN Announce(e) ELSE UNCHANGED <<buf, status>>
    /\ queue' = IF ready /\ ~HasBody(e) THEN queue ELSE Append(queue, e)
    /\ accepted' = accepted + 1
    /\ UNCHANGED <<ready, inbox, reply, body, pc, hand, delivered, faults>>

\* queues an announced event though it has no body to fetch
SendTwice(e) ==
    /\ IF ready THEN Announce(e) ELSE UNCHANGED <<buf, status>>
    /\ queue' = Append(queue, e)
    /\ ready' = FALSE
    /\ accepted' = accepted + 1
    /\ UNCHANGED <<inbox, reply, body, pc, hand, delivered, faults>>

\* HandleNewReceiveItemL: e is new, whatever made the server send it
Send(e) ==
    /\ IF ready THEN Announce(e) ELSE UNCHANGED <<buf, status>>
    /\ queue' = IF ready /\ ~HasBody(e) THEN queue ELSE Append(queue, e)
    /\ ready' = FALSE
    /\ accepted' = accepted + 1
    /\ UNCHANGED <<inbox, reply, body, pc, hand, delivered, faults>>

SendToClient ==
    /\ accepted < MaxEvents
    /\ \E k \in Kinds : Send([id |-> accepted + 1, kind |-> k])

\* The queue cannot grow: HandleNewReceiveItemL leaves after the ids are
\* written and before the request completes; the event is lost.
SendToClientFails ==
    /\ accepted < MaxEvents
    /\ faults < MaxFaults
    /\ faults' = faults + 1
    /\ \E k \in Kinds :
          LET e == [id |-> accepted + 1, kind |-> k]
          IN  /\ ~ready \/ HasBody(e)
              /\ buf' = IF ready THEN e ELSE buf
    /\ UNCHANGED <<serverVars, inbox, status, reply, body, pc, hand, delivered>>

\* The next client message; a leave completes it with KErrCompletion.
Serve(message) ==
    /\ inbox # <<>>
    /\ Head(inbox) = message
    /\ inbox' = Tail(inbox)
    /\ UNCHANGED <<accepted, pc, hand, delivered, faults>>

ClientReadyToReceiveL ==
    /\ Serve("ready")
    /\ IF ready
       THEN status' = "completion" /\ UNCHANGED <<buf, queue, ready>>
       ELSE IF queue = <<>>
       THEN ready' = TRUE /\ UNCHANGED <<status, buf, queue>>
       ELSE /\ Announce(Head(queue))
            /\ queue' = IF HasBody(Head(queue)) THEN queue ELSE Tail(queue)
            /\ ready' = FALSE
    /\ UNCHANGED <<reply, body>>

\* leaves the event it has delivered in the queue
ReceiveKeeps ==
    /\ Serve("receive")
    /\ IF queue = <<>>
       THEN reply' = "error" /\ UNCHANGED body
       ELSE reply' = "ok" /\ body' = Head(queue)
    /\ UNCHANGED <<queue, ready, status, buf>>

ReceiveL ==
    /\ Serve("receive")
    /\ IF queue = <<>>
       THEN reply' = "error" /\ UNCHANGED <<body, queue>>
       ELSE reply' = "ok" /\ body' = Head(queue) /\ queue' = Tail(queue)
    /\ UNCHANGED <<ready, status, buf>>

\* drops the request and does not complete it
CancelForgets ==
    /\ Serve("cancel")
    /\ reply' = IF ready THEN "ok" ELSE "error"
    /\ ready' = FALSE
    /\ UNCHANGED <<queue, status, buf, body>>

CancelClientReceiveL ==
    /\ Serve("cancel")
    /\ reply' = IF ready THEN "ok" ELSE "error"
    /\ status' = IF ready THEN "cancelled" ELSE status
    /\ ready' = FALSE
    /\ UNCHANGED <<queue, buf, body>>

-----------------------------------------------------------------------------
(* The client thread *)

\* goes active and sends nothing
ReceiveNextSilent == status' = "pending" /\ UNCHANGED inbox

\* ReceiveNext: the active object is never active here
ReceiveNext == status' = "pending" /\ inbox' = Append(inbox, "ready")

\* RunL for an event without a body: ReceiveNext, then the callback
RunBodyless ==
    /\ pc = "scheduler"
    /\ status \in {"ok", "error"}
    /\ ~HasBody(buf)
    /\ hand' = buf
    /\ ReceiveNext
    /\ pc' = "dispatching"
    /\ UNCHANGED <<serverVars, buf, reply, body, delivered, faults>>

\* RunL for an event with a body: ReceiveDataLC calls the server
RunData ==
    /\ pc = "scheduler"
    /\ status = "ok"
    /\ HasBody(buf)
    /\ hand' = buf
    /\ inbox' = Append(inbox, "receive")
    /\ reply' = "none" /\ body' = NoEvent
    /\ pc' = "fetching"
    /\ UNCHANGED <<serverVars, status, buf, delivered, faults>>

\* ReceiveDataLC cannot allocate: RunError asks again
RunDataFails ==
    /\ pc = "scheduler"
    /\ status = "ok"
    /\ HasBody(buf)
    /\ faults < MaxFaults
    /\ faults' = faults + 1
    /\ ReceiveNext
    /\ UNCHANGED <<serverVars, buf, reply, body, pc, hand, delivered>>

\* The call returns: ReceiveNext, then the callback; RunError after a leave
Fetched ==
    /\ pc = "fetching"
    /\ reply # "none"
    /\ ReceiveNext
    /\ pc' = IF reply = "ok" THEN "dispatching" ELSE "scheduler"
    /\ UNCHANGED <<serverVars, buf, reply, body, hand, delivered, faults>>

\* The rest of RunL: IncomingEventL or ErrorOccuredL of the client object
Dispatch ==
    /\ pc = "dispatching"
    /\ delivered' = Append(delivered, hand)
    /\ pc' = "scheduler"
    /\ UNCHANGED <<serverVars, inbox, status, buf, reply, body, hand, faults>>

\* The destructor: CActive::Cancel calls DoCancel ...
DoCancel ==
    /\ pc = "scheduler"
    /\ inbox' = Append(inbox, "cancel")
    /\ reply' = "none"
    /\ pc' = "cancelling"
    /\ UNCHANGED <<serverVars, status, buf, body, hand, delivered, faults>>

\* ... and waits until the request has completed.
Cancelled ==
    /\ pc = "cancelling"
    /\ reply # "none"
    /\ status # "pending"
    /\ pc' = "closed"
    /\ UNCHANGED <<serverVars, inbox, status, buf, reply, body, hand,
                   delivered, faults>>

-----------------------------------------------------------------------------
Server == ClientReadyToReceiveL \/ ReceiveL \/ CancelClientReceiveL
Client == RunBodyless \/ RunData \/ Fetched \/ Dispatch \/ Cancelled

Next ==
    \/ SendToClient \/ SendToClientFails
    \/ Server
    \/ Client \/ RunDataFails \/ DoCancel

\* The kernel delivers messages and completions, and both threads run; the
\* client need not close, and an allocation need not fail.
Fairness == WF_vars(Server) /\ WF_vars(Client)

Spec == Init /\ [][Next]_vars /\ Fairness

-----------------------------------------------------------------------------
(* Properties *)

Closing == pc \in {"cancelling", "closed"}

\* Events on their way: on the client's stack, announced, queued.
Held ==
    IF pc = "dispatching" \/ (pc = "fetching" /\ reply = "ok")
    THEN <<hand>> ELSE <<>>
Announced ==
    IF status \in {"ok", "error"} /\ ~HasBody(buf) THEN <<buf>> ELSE <<>>

Channel == INSTANCE MceChannel WITH
    pending <- Held \o Announced \o queue,
    open    <- ~Closing

\* The request of the client is in one place: under way, held, or complete.
RequestInOnePlace ==
    /\ ready => status = "pending" /\ inbox \in {<<>>, <<"cancel">>}
    /\ pc \in {"scheduler", "dispatching"} =>
          inbox = IF status = "pending" /\ ~ready THEN <<"ready">> ELSE <<>>
    /\ pc = "fetching" =>
          /\ status = "ok"
          /\ inbox = IF reply = "none" THEN <<"receive">> ELSE <<>>
    /\ pc = "cancelling" =>
          inbox = IF reply # "none" THEN <<>>
                  ELSE IF status = "pending" /\ ~ready
                  THEN <<"ready", "cancel">> ELSE <<"cancel">>
    /\ pc = "closed" => inbox = <<>> /\ status # "pending"

\* An event whose body is still to be fetched stays at the head of the queue.
AnnouncedIsHead ==
    /\ ready => queue = <<>>
    /\ status = "ok" /\ HasBody(buf) /\ ~(pc = "fetching" /\ reply # "none") =>
          queue # <<>> /\ Head(queue) = buf
    /\ status = "ok" => buf # NoEvent
    /\ status = "error" => buf # NoEvent /\ ~HasBody(buf)
    /\ pc = "fetching" => hand = buf /\ HasBody(buf)
    /\ pc = "fetching" /\ reply = "ok" => body = hand
    /\ pc = "dispatching" => hand # NoEvent

\* The receiver behaves as a channel: nothing lost, repeated or reordered
\* between acceptance and delivery, whatever the two threads' timing
\* (HandleNewReceiveItemL, ClientReadyToReceiveL, ReceiveL, RunL).
ImplementsChannel == Channel!Spec

\* The body a fetch brings is that of the event announced to the client:
\* ReceiveL takes the head of the queue and checks no id.
BodyMatchesIds ==
    pc = "dispatching" /\ HasBody(hand) => reply = "ok" /\ body = hand

\* No server assertion fails: a request never meets a held one, and a fetch
\* finds the event it was announced (the leaves of ClientReadyToReceiveL
\* and ReceiveL); the client would stop listening or repeat itself.
NoRefusal ==
    /\ status # "completion"
    /\ pc = "fetching" => reply # "error"

\* CActive::Cancel returns: once the server has answered the cancel, the
\* cancelled request is complete, though the cancel may have been refused
\* because an event was faster (CancelClientReceiveL, KErrNotFound).
CancelReturns ==
    pc = "cancelling" /\ reply # "none" => status # "pending"

\* Every event the server took is delivered, on its way, or queued.
NothingLost ==
    accepted = Len(delivered) + Len(Held) + Len(Announced) + Len(queue)

\* The inductive invariant behind the four above and ImplementsChannel: the
\* server's flag, its queue and the client's active object never disagree.
IInv ==
    /\ TypeOK
    /\ RequestInOnePlace
    /\ AnnouncedIsHead
    /\ BodyMatchesIds
    /\ NoRefusal
    /\ CancelReturns
    /\ NothingLost

\* An accepted event reaches the client unless the client object closes.
EveryEventArrives ==
    \A n \in 1..MaxEvents :
        accepted >= n ~> (Len(delivered) >= n \/ Closing)

\* A client object that is being destroyed gets out of CActive::Cancel.
CloseEnds == pc = "cancelling" ~> pc = "closed"
=============================================================================
