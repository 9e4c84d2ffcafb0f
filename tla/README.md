# Formal models of the IP application services

This directory holds TLA+ specifications of `sf/mw/ipappsrv`, the configurations
with which TLC checks them on small instances, and proofs checked by TLAPS. Every
definition is translated from the source; `PROJECT.json` names the lines of each.

Paths below are relative to the repository. `mmceserver` stands for
`src/multimediacommsengine/mmcesrv/mmceserver`.

## 1. The system

The repository is the middleware under a SIP/RTP telephony application of
Symbian. An application uses the *MCE client API*; the *MCE server*, one thread
in a process of its own, keeps the SIP sessions and drives the SIP stack, the
media controller and, when a NAT is in the way, the NAT framework.

| part | state | operations and who calls them | what is hard, and what makes it correct |
|---|---|---|---|
| Event path (`mcecsreceiverbase`, `mcecsreceivequeue`, `mceitcreceiverbase`) | the server's queue and its flag that a client request is held; the client's active object and its buffers | the server sends an event at any time; the client asks, fetches a body, cancels | two processes and a two-step protocol. No event is lost, repeated or reordered; a fetched body is the one announced; a cancel returns; the client never stops listening |
| SIP session state machine (`mcestate*`, `mcesipsession`, `mceactionset`, `mcecssubsession`) | current and previous state, sub-state, body and candidate, media callbacks, transactions, dialog, timer | requests of the client, requests and responses of the peer, transaction errors, the callback of the media manager, the session timer | the five sources come in any order, and state objects are shared by all sessions. The client always knows the state; media is released; the peer learns of every end; nothing waits for what never comes |
| Disposal and orphans (`mcecssessionimplementation`, `mcesipmanager`) | who owns a session, the orphans | deletion by the client, the sweep after each SIP event | a deleted session must end its call first, and must not be deleted under a transaction |
| Reliable provisional responses (`mcereliablesender` and six states) | the response that waits for its PRACK, a retransmission timer; at the caller the last RSeq and its PRACK | both state machines, PRACK, the timer | responses are lost, repeated, overtaken by the answer or the end of the call. Each is taken once and in order; every wait is timed; no half-open call |
| Offerless INVITEs and the client resolver (`mcestateserveroffering`, `mceclientresolver`) | a second entry into the session; the table of waiting clients | the peer's request | no client, two clients, forking |
| Session timers (`mcetimermanager`, `mceexpirationhandler`) | a queue of expirations in ticks of one RTimer | sessions start and stop timers | wrap-around, a timer stopped by a callback of another |
| NAT traversal of a session (`mcenatsipsession`, `mcenatstate*`) | a state machine between the session and its SDP | session, SDP provider | asynchronous encoding and decoding of offers, cancelled updates |
| SIP events and messages (`mcesipevent`, `mcesiprefer`, ...) | subscriptions, references | client, peer | overlapping NOTIFYs and expiration |
| Media manager (`mcemediamanager`, `mcesdpsession`) | MCC sessions of each body, SDP preconditions | session, media controller | see `UpdateL`/`Updated` below |
| Server core and IPC | clients, sub-sessions, dispatching | client threads | shutting down while sessions remain |
| Client API (`mmceclient`) | mirror of the server's sessions | application | callbacks that delete the object |
| Media controller (`mmediacontroller`), jitter buffer, RTP sources and sinks, payload formats | streams; packets by sequence number | media threads | late and duplicate packets, wrap-around |
| Floor control (`fcserver`) | BFCP/TBCP sessions | client, network | - |
| STUN client (`natfw/natfwstunturnclient`) | a binding's state, request, transaction, errors; the servers that are left; callbacks to come | application, responses, sender, two timers, ICMP | responses late, repeated, or for a server given up. One outcome for each request, a fresh address, no server twice, an end if nobody answers |
| ICE candidate handler (`natfw/natfwicecandidatehandler`) | a check list with its checks, valid list, queue of triggered checks, role; the STUN server beside it | timer, bindings, requests of the peer | checks of both agents cross and cancel one another; role conflicts; nominations. The agents agree on a pair the controlling one nominated, and no check is forgotten |
| NAT framework, the rest (`natfw`): client, connection multiplexer, plug-ins | sessions, connections, filters | traversal session, network | clean-up while callbacks are under way |
| NAT plug-ins (`natplugins`): SDP provider, traversal controller, settings | one state machine per session | the session's NAT part | cancelled operations |

Interaction: the client API calls the server synchronously (`SendReceive`); the
server answers by return value and by *events* over the event path. A session
calls the SIP stack and the media manager synchronously and is called back by
them, by the timer manager and, through `CMceSipManager`, for every SIP message.
All handlers of the server run to completion on one thread, so a handler is one
action of the model; the interleaving of *handlers* is the difficulty. The only
real concurrency modelled is that of the event path, whose two ends are threads
of different processes.

`PROJECT.json` lists all components with their status, and the hazards of this
code each at its line, with the properties that cover it or why none does.

## 2. Modules

| module | models |
|---|---|
| `MceChannel` | what the event path promises: a channel, closed by the client |
| `MceReceiver` | the event path: `CMceCsReceiverBase`, `CMceCsReceiveQueue`, `CMceItcReceiverBase` |
| `MceReceiver_proof` | types, the three safety invariants, refinement of `MceChannel` |
| `MceActionSet` | the data of a session and the calls the states make on it (`TMceActionSet`, `CMceSipSession`, `CMceCsSubSession`), and disposal |
| `MceSession` | the sessions: one action per handler, fairness, properties |
| `MceSession_proof` | type correctness and `ClientInSync` |
| `MceSessionBye_proof`, `MceSessionMedia_proof` | `OneBye`; `MediaReleased` |
| `MceSessionCourse_proof` | the course of a session: the other eight safety properties of the runs |
| `MceReliableChannel` | what reliable responses promise: one at a time, each taken once and in order |
| `MceReliableSender` | `CMceReliableSender`: its members and calls |
| `MceReliable` | a caller and a callee with reliable responses, the stacks and network between them |
| `MceReliable_proof` | types, the three safety invariants, refinement of `MceReliableChannel` |
| `StunRequests` | what a binding promises the application: one request at a time, at most one outcome |
| `StunTransaction` | `CSTUNTransaction`: its members and calls |
| `StunBinding` | `CSTUNBindingImplementation`, its states, the client's list of servers and queue of callbacks, the servers and the NAT |
| `StunBinding_proof` | types, `SomethingIsDue`, `AddressIsFresh`, `NoServerTwice`, refinement of `StunRequests` |
| `IceCheckList` | `CIceCheckList`, its checks, valid list and bindings, as operators on an agent |
| `IceAgents` | two agents with their STUN servers and callbacks: actions, fairness, properties |
| `MCMceReceiver`, `MCMceSession`, `MCMceReliable`, `MCStunBinding`, `MCIceAgents` | the instances for TLC |

### MceReceiver

| variable | code |
|---|---|
| `queue` | `iReceiveQueue`; only events with a body, or sent while no request is held, are in it |
| `ready` | `iClientReadyToReceive`: the server holds the client's message |
| `inbox` | messages the kernel has and the server thread has not serviced |
| `status`, `buf` | `iStatus` and the package buffers of the client's active object |
| `reply`, `body` | result and data of the client's synchronous fetch |
| `pc`, `hand` | where the client thread is in `RunL`/`DoCancel`, and the event it works on |

`SendToClient` is `HandleNewReceiveItemL` (announce at once if the client waits,
queue otherwise); `ClientReadyToReceiveL`, `ReceiveL` and `CancelClientReceiveL`
are the three messages; `RunBodyless`, `RunData`, `Fetched` and `Dispatch` are
`RunL` cut where it waits for the server or calls the application; `DoCancel` and
`Cancelled` are the destruction of the client object. Memory can fail on either
side (`SendToClientFails`, `RunDataFails`), `MaxFaults` times. Kinds of event are
those the code distinguishes: ids only, with body, an error.

### MceActionSet and MceSession

A session is a record. Its fields are the members the control of the states
reads (`iCurrentState`, `iExitState`, `iSubState`, `iNewBodyCandidate`,
`iWaitingMediaCallback`, ...), the transactions and the dialog as the session
sees them (`invite`, `initial`, `cancel`, `bye`, `resp`, `request`, `dialog`) and
two things outside it: `told`, the state the client was last sent, and `busy`,
that the media manager owes a callback. A call of the code is an operator from
record to record, and a handler composes them in the order of the code, so that
an early return or a leave half-way shows in the record it returns:
`Processed` is the frame of `ProcessL` (mark the state before, run `StateEntry`
of Established after), `HandleResponseError`/`HandleRequestError` what the
session does when the machine leaves, `MarkExit` a leave back to the client.
`lastResponse` and `readyToAck` are members of the one `CMceStateOffering` object
of the server; they are variables of the module, not fields of the session.

States: the twelve of a session without reliable responses, NAT and offerless
INVITEs. Peers are modelled by what they may send: every response and request the
dialog and the transactions allow, in any order. `Allowed` names what a peer, the
network or the media may do beyond the plain course of a call; runs differ in it
(section 3).

Abstracted: SDP is acceptable, unparsable or absent; the media manager's
`UpdateL` is ready, asynchronous (and calls back) or leaves; response codes are
the classes the code distinguishes. Forking, PRACK, security agreement (494),
requests inside a dialog other than INVITE, ACK, BYE, CANCEL, and asynchronous
failures of the media are left out. A null dereference has no successor state:
handlers that dereference the request are enabled only while there is one.

### MceReliable

Both ends of one INVITE with 100rel required, from the moment the answering
session has reserved its media. `callee` and `caller` are the states of the two
sessions, `told`, `media` and `accepted` (the stored early accept) members of the
answering one, `rseq` and `updating` of the calling one; `sender` is the
`CMceReliableSender`, a record whose times count T1. `prack` is the PRACK
transaction, `net` the messages under way; `sent`, `taken` and `acked` count
responses for the refinement.

The network loses and reorders provisional responses; the stacks repeat all other
messages until they arrive, in any order. A PRACK is one transaction of the
stacks. Left out: SDP and preconditions in the responses (`ReserveL` completes at
once without NAT, so that the two Reserving states are not entered), requests
inside the early dialog, the answers to CANCEL and BYE (in `MceSession`).

### StunBinding

`binding` holds the members of `CSTUNBindingImplementation`, with the
transaction's as a record of `StunTransaction`; `udpAddresses` and `callbacks` are
the client's `iUdpAddresses` and `iPendingCallbacks`. `requests` remembers the
server of each transaction, `responses` what is under way, `mapped` the address
the NAT gives. A transaction sends through a sender that calls back
(`MessageSent`, `MessageSentFailure`); `TransactionTimerExpires` sends again or
gives the server up; `TransactionError` is `HandleTransactionError` and what the
states do with the error.

Left out: credentials and shared secrets (the client is Ready and needs none),
TCP, relay bindings. "600" stands for every answer that ends a request. `Lose` of
`StunRequests` is an address lost without a request, which the wait timer brings
about (section 5).

### IceCheckList and IceAgents

An agent is a record: its role, the state of the list, the checks, the bindings'
requests (with what the peer answered), the valid list, the queue of triggered
checks and nominations, the timer, and the pairs the client was told. The calls of
`CIceCheckList`, `CIceConnectivityCheck` and `CIceValidList` are operators on it;
`TimerFired`, `ConnCheckCompleted` and `STUNRequestReceived` are the three entries.
`ConnCheckCompleted` is the debug build's, where a completion of a check that is
not in progress leaves (`ciceconnectivitycheck.cpp:352`); without that guard, as in
a release build, the `ice` run passes too, with as many states.
`IceAgents` composes two: `Serve` is the STUN server of the peer, which may answer
487 or change the role; `Resolved` is the binding's outcome, queued in `callbacks`
and handed over by `Callback`. Pair priorities and their comparison are the code's:
`K2ToPowerOf32` is 34, as `2^32` in C++ is an exclusive or, and the difference of
two priorities is cast to `TInt`, which holds `Modulus` numbers.

Assumed: one component, one check list; no NAT between the agents and no
peer-reflexive candidates, so that both see the same pairs; connections are active
at once; a request is served at most once; a cancelled one may still be served
until it is replaced. Losing pairs, restarts and the foundations of other lists
are left out.

## 3. What is checked

| run | instance | properties | distinct states |
|---|---|---|---|
| `receiver` | 4 events of any kind, 2 failed allocations | `TypeOK BodyMatchesIds NoRefusal CancelReturns IInv`, refinement `ImplementsChannel`, liveness `EveryEventArrives CloseEnds` | 18 480 |
| `calls` | 1 session, 3 INVITEs, session timers | `EstablishedIsQuiet RemoteToldOfEnd HangupEnds` | 7 658 |
| `faults` | 1 session, 3 INVITEs; early answers, session timers, failing media, lost answers | `MediaReleased CallbackExpected NeverStranded UpdateShown BodyNeverNull`, action `EndedIsFinal`, liveness `CancellingEnds TerminatingEnds` | 19 617 |
| `pair` | 2 interchangeable sessions, 2 INVITEs, everything but redirected updates and late timers | `TypeOK ClientInSync`, action `OneBye` | 1.16 million |
| `reliable` | 3 responses, 1 failed send | `TypeOK FirstGivesUp EndsCleanly ConfirmingWaits`, refinement `ImplementsOneAtATime`, liveness `EarlyAcceptHonoured EndTogether` | 172 362 |
| `stun` | 2 servers, 2 requests, 2 sendings each, 2 mapped addresses, 1 failed send | `TypeOK SomethingIsDue`, actions `AddressIsFresh NoServerTwice`, refinement `ImplementsRequests`, liveness `RequestEnds` | 1.75 million |
| `ice` | 2 agents, 2 pairs of one foundation | `TypeOK NeverStranded RolesDiffer NominatedByPeer`, liveness `Ends` | 96 568 |
| `redirected_update`, `shared_state`, `deleted_while_answered`, `reliable_second`, `stun_wait` | see section 5 | one each, violated | |

*The properties.* `ClientInSync`: some thirty paths call `StateChanged`,
`ClientStateChangedL`, or both, with two enumerations; after each, the client was
last told the state the session is in. `EstablishedIsQuiet`: a session that comes
back to Established has no candidate (which would refuse all later updates), no
callback to come and no INVITE unanswered. `NeverStranded`: a state that waits,
waits for something still to come. `CallbackExpected`: an asynchronous update is
pending only in states that take its callback. `MediaReleased`: ending sessions
hold no media, except one rejected before media was reserved (the reject handler
asks for a sub-state that cannot be). `RemoteToldOfEnd`: when the client sees the
end, the peer was sent BYE or CANCEL. `HangupEnds`: a dialog the peer ended is
over for the client too. `EndedIsFinal`: after ETerminated nothing else is told.
`UpdateShown`, `BodyNeverNull`, `OneBye`: see their comments.

Reliable responses: `ImplementsOneAtATime` is the promise of RFC 3262;
`FirstGivesUp` that a session waiting for its first PRACK has a timer that ends
the wait; `EndsCleanly` that however the answering session ends it has answered
the INVITE, released the media and told the client; `ConfirmingWaits` that the
caller's Confirming always has something that ends it; `EarlyAcceptHonoured` that
an accept before the PRACK is not forgotten; `EndTogether` that no call stays
half-open.

STUN: `SomethingIsDue` says a request is never left without sender or timer;
`AddressIsFresh` that no late response gives an address older than its request;
`NoServerTwice` that a server given up is not asked again; `RequestEnds` that a
request ends though nobody answers; `ImplementsRequests` that the application sees
one outcome at most.

ICE: `NeverStranded` says that whatever is left to do in a running list has
something that will do it; `RolesDiffer` that a role conflict is resolved;
`NominatedByPeer` that a controlled agent takes no pair the controlling one did
not nominate; `Ends` that on a working network with agreed roles both complete,
unless on one pair each goes on cancelling the check of the other for ever
(section 5): no other interleaving keeps them from it.

*Why the runs allow what they allow.* A property is checked where the code has
it. TLC finds that these do not hold under the behaviours named, each because of
a handler that takes one event for another:

| behaviour | properties that do not hold with it |
|---|---|
| early answer | `HangupEnds` (a BYE while `iReadyToSendACK` is false is answered, and `ExitL` does nothing) |
| lost | `RemoteToldOfEnd` (no ACK of a refresh: Error without BYE) |
| media fails | `EstablishedIsQuiet` (a candidate stays after a leave in `EntryUpdateL`) |
| crossing | `EstablishedIsQuiet RemoteToldOfEnd HangupEnds` |
| interval too small | `EstablishedIsQuiet UpdateShown` (422 to a re-INVITE: Established with an INVITE pending) |
| redirect update | `ClientInSync BodyNeverNull`; with interval too small, session timers and a second session that holds `iReadyToSendACK` at FALSE, `MediaReleased` (a redirected refresh forgets its dialog) |
| early update answer | `NeverStranded EstablishedIsQuiet BodyNeverNull HangupEnds EndedIsFinal`; with interval too small, `CallbackExpected` |
| redirect to cancel | `CancellingEnds NeverStranded HangupEnds` |
| bye to cancel | `EstablishedIsQuiet HangupEnds`, with session timers `MediaReleased` |
| late timer (with session timers) | most: the client is told ETerminated and the session goes on |

In `ice` the settings are chosen the same way: agreed roles with all pairs
working, or with one that does not; conflicting roles (both controlling, or both
controlled) with one pair that does not work; agreed roles with late callbacks of
one agent. What does not hold beyond them:

| setting | properties that do not hold with it |
|---|---|
| conflicting roles, both pairs work | `NeverStranded RolesDiffer NominatedByPeer Ends`: two 487s change the role there and back, and a nomination is performed on a check that is in progress (`ASSERT` at `ciceconnectivitycheck.cpp:229`) |
| conflicting roles, late callbacks | `RolesDiffer` |
| a pair that does not work | `Ends`: the time-out removes the client's only server (`cstunclientimplementation.cpp:1316`), later first requests leave in the timer, and the list runs for ever |
| late callbacks | `Ends`: a USE-CANDIDATE that comes while a completion waits is lost |

That both agents complete with the *same* pair does not hold either: a second
success may come between the dequeuing of the first nomination and its answer
(`cicechecklist.cpp:1488`).

In `stun`, `RequestEnds` excepts a request that could not be sent from
`SendRequestL` (the binding stays in GetSharedSecret until it is cancelled) and one
whose retransmission was cancelled: its count no longer grows, so that its timer
restarts for ever. In `reliable`, `FirstGivesUp` and `EarlyAcceptHonoured` speak of
the first response; for the next, section 5.

`OrphanHangsUp` holds in none. Section 5 lists the disagreements with what the
code itself says; the others are recorded as hazards.

*Bounds.* `MaxInvites` counts the INVITE transactions of both directions over the
run: three are a call, an update and what follows an undone update (or a refresh
that crosses it). Handlers read nothing older than the current INVITE, the
candidate and the first INVITE, so a fourth meets nothing new; `calls` and `faults`
also pass with five (20 746 and 46 793 states). Two sessions
are what sharing `CMceStateOffering` needs: one holds the flag, the other runs
into it. In `receiver`, four events fill the announced, fetched, queued and new
places at once.

In `reliable` the sender's intervals are the real ones; three responses are a
first, one that goes on with its intervals, and one after that. In `stun`,
`KMaxRequestSentCount` is 2 instead of 7 (a first sending and a repetition), two
requests let the second begin with what the first left, two servers let one be
given up; each request is tried again at most three times, which bounds the
transaction IDs; the network holds one response at a time, of any transaction so
far. In `ice` the second of two pairs is frozen behind the first. Three pairs
with agreed roles (6.46 million states) and late callbacks of both agents (2.33
million) were checked for the invariants too. The candidates' priorities are such
that the two pairs have different ones, and `Modulus` keeps their order through the
cast; what follows from equal ones is in section 5.

*Fairness.* In `MceReceiver` both threads run and the kernel delivers messages:
weak fairness of the server's and the client's steps; neither closing nor a
failing allocation is forced. In `MceSession` every transaction ends (the SIP
stack answers it or its timer does, which it reports either way), and an
asynchronous media update calls back. Nothing makes the client or the peer start
anything. `CancelEnds`, `ByeEnds`, `FinalResponse` and `AckEnds` are fair as
disjunctions, so that loss is never forced nor excluded where it is allowed. In
`MceReliable` timers expire, the media manager calls back and the stacks deliver
what they repeat or report its time-out; provisional responses may all be lost. In
`StunBinding` the sender and the callback queue run and timers expire; servers and
network owe nothing (a server that sends 300 for ever would restart the timer for
ever, which the fairness of the timer excludes). In `IceAgents` each agent's thread
runs, and the network delivers a request and gives a binding that goes on awaiting
an answer its outcome: all weak, so that checks of the peer may cancel every
binding before that. `Ends` names this instead of assuming it away.

*Deadlock* is not checked: sessions end, and the bounds end the rest.

## 4. What is proved

`MceReceiver_proof`, for every `MaxEvents` and `MaxFaults`:

- `Invariance`: `Spec => []IInv`. The properties of the run are not inductive. A
  fetch finds the event announced only because an announced event with a body is
  still at the head of the queue (`AnnouncedIsHead`), which needs that while the
  flag is set the queue is empty, which needs that the request is in exactly one
  of three places (`RequestInOnePlace`). `IInv` is these two with the properties.
- `TypeCorrect`, `NeverRefused`, `CancelAlwaysReturns`: `Spec => []TypeOK` and so for
  `NoRefusal` and `CancelReturns`; `Safety` joins them with `BodyMatchesIds`.
- `Refinement`: `Spec => Channel!Spec`, with the pending events of the channel
  mapped to those on the client's stack, those announced and those queued. Each
  step of the protocol is a step of the channel or a stutter.

`MceSession_proof`, for any finite set of sessions, any `MaxInvites`:

- `TypeCorrect`: `Spec => []TypeOK`, whatever is `Allowed`.
- `ClientAlwaysInSync`: `Spec => []ClientInSync` if neither "redirect update" nor
  "late timer" is `Allowed`. The invariant is `TypeOK` and, for every session,
  `Good`. As a handler is a composition of calls, there is a lemma per call: most
  keep the state and what the client sees of it (`Keeps`); `Become` sets both to
  states that stand for one another (`StatesMatch`). Then a lemma per handler and
  one per action, of which the ones for redirections and timers use the
  assumption. A deletion, and a sweep, may change the state without telling the
  client: there is none, which is why `Good` speaks of sessions the client owns.

`MceSessionBye_proof`, from the types proved there:

- `HangsUpOnce`: `Spec => OneBye`, whatever is `Allowed`. The invariant is
  `AtMostOne`: a session whose BYE is done has a dialog that is over, and is itself
  over or in Established. The second half is what makes the first inductive: from
  those states nothing leads to a new INVITE or answer without a dialog.

`MceSessionMedia_proof`, from the same:

- `MediaAlwaysReleased`: `Spec => []MediaReleased` if none of "redirect update",
  "bye to cancel" and "late timer" is `Allowed` (`Undisturbed`; TLC finds a
  violation with each, for the first with two sessions and five INVITEs). Closed
  media stay closed, so the invariant (`Sound`) says what a session with open media
  may look like (`Open`): which sub-states go with its state, that no BYE has been
  sent, and that an established session, an update and an INVITE answered with a
  2xx have a confirmed dialog. That last part is what the session timer needs: only
  a session that can send a BYE stops its media when its timer expires. A session
  in Idle is apart (`Unused`): nothing can reach it but the client.

`MceSessionCourse_proof`, from the same types, if none of "early answer", "early
update answer", "redirect update", "crossing" and "late timer" is `Allowed`
(`Plain`):

| theorem | property | also not `Allowed` |
|---|---|---|
| `CallbackAlwaysExpected` | `CallbackExpected` | |
| `BodyNeverLost` | `BodyNeverNull` | |
| `EndIsFinal` | `EndedIsFinal` | |
| `NeverLeftWaiting` | `NeverStranded` | "redirect to cancel" |
| `UpdateAlwaysShown` | `UpdateShown` | "interval too small" |
| `PeerAlwaysToldOfEnd` | `RemoteToldOfEnd` | "lost" |
| `HangupAlwaysEnds` | `HangupEnds` | "redirect to cancel", "bye to cancel" |
| `EstablishedAlwaysQuiet` | `EstablishedIsQuiet` | "interval too small", "media fails", "bye to cancel" |

None of the properties is inductive: what a session waits for depends on how it
came to its state. The invariant (`Fit`) says for each state what the other fields
are: which sub-states go with it, whether there is a candidate, how far the
dialog, the INVITE and the peer's request are, and whether a callback is to come.
A session the client has left behind is held to less (`Left`), because `Deleted`
may leave it in a state that no handler would. There is a lemma for each kind of
state a handler ends in, and one per handler. All eight properties follow from the
one invariant, whose parts name the behaviour that would break them.

`Plain` is needed because of the flag that all sessions share: under it
`iReadyToSendACK` is always true, which is part of the invariant. With "early
answer" and a second session the flag may be false when a session that has nothing
to do with it gets its 2xx, and TLC finds six of the eight properties violated
(section 3, and `shared_state`); `CallbackExpected` is checked by `faults` with
early answers, which the theorem excludes. `calls` allows session timers alone and
so meets the hypotheses of all eight.

`MceReliable_proof`, for every number of responses and failures:

- `TypeCorrect`, `FirstResponseGivesUp`, `AnsweringEndsCleanly` and
  `ConfirmingIsDriven`: `Spec => []TypeOK` and so for `FirstGivesUp`,
  `EndsCleanly`, `ConfirmingWaits`.
- `ReliableChannel`: `Spec => ImplementsOneAtATime`.

The invariant `RInv` has three parts beside the types and `ConfirmingWaits`.
`Link` ties the counters to the numbers: the last response is taken exactly when
its RSeq is the caller's, what is under way is it or an older one, and a PRACK is
out only for a response not yet acknowledged. From it follow the guards of the
channel's steps, and that a PRACK that arrives always matches, so that the branch
of `EntryPrackL` that ends the session with its media open is dead. `Timed` follows
the first response through its intervals (1, 2, 4 to 32 and the remaining 2).
`Clean` adds to `EndsCleanly` that a session past sending responses has a final
one.

`StunBinding_proof`, for any servers and bounds:

- `RequestIsDriven`: `Spec => []SomethingIsDue`.
- `AddressFresh`: `Spec => AddressIsFresh`.
- `GivenUpForGood`: `Spec => NoServerTwice`.
- `BindingIsRequests`: `Spec => ImplementsRequests`.
- `TypeCorrect`: `Spec => []TypeOK`, with its bounds: no message is sent more often
  than `KMaxRequestSentCount`, and what the application asks for is tried again at
  most three times.

The invariant `BInv` says that a transaction exists exactly in GetAddress, that
something is due to it and will be when the sender calls back (`Sound`), and that
responses are to requests that were made, those to the present one no older than
it (`Timely`). `Step` says what a step may show the application; every action
lemma proves both. The proof uses the unbounded types of `Data`; the bounds of `TypeOK` come
from an invariant of their own on top of it. That a server given up is not asked again needs that the server of a
binding without an address is one the list still holds (`Trusted`). What is removed
from the list is found with a `CHOOSE`, whose witness exists by the well-ordering of
the naturals (`WFMin` of the library, which takes no operator).

`IceAgents_proof`, for any pairs, foundations, candidate priorities and settings:

- `TypeCorrect`: `Spec => []TypeOK`, if `Ordered`.
- `StrandedNever`, `RolesSettle` and `PeerNominates`: `Spec => []NeverStranded` and so
  for `RolesDiffer` and `NominatedByPeer`, if `Ordered` and `Settles`. All follow from
  `Soundness`: `Spec => []AgentsInv`.
- `PrioritiesOrdered`, `SmallPrioritiesOrdered`: when `Ordered` holds.

`Ordered` is what the code takes for granted of priorities: among any pairs of an
agent one compares as the first, and no two have the same number. The formula does
not give the second (section 5), and the cast to `TInt` could spoil the first; it
does not if the lower words are within half of the range of a TUint (`Windowed`). Of
candidate priorities as `CIceCandidatePrioritizer` computes them (below 660 000) that
is true, as no bit is lost (`SmallPrioritiesOrdered`). `Settles` asks of every setting
that nobody has to change its role, or that callbacks are not late and one pair at
most works. With two working pairs or late callbacks a conflict may end in equal
roles (table in section 3), so the properties need it. The run meets both
hypotheses: it has agreed roles, also with late callbacks, and conflicts with one
working pair.

None of the three properties is inductive. `AgentsInv` holds of each agent apart from
the types (`Sound`): its role is the one it began with or the one it is to end with
(`FinalRole`); it is new, or `Good`; and its callbacks and buffered requests tell the
truth. `Good` is an invariant of a single agent in a `Situation`, which is all it has
to know of the other one: the pairs that do not work, those the peer has nominated,
and whether the roles are settled. It says what a check, a queued check, a valid
pair and the list may look like together (`Fit`), that a running list has no
selected pair (`Awake`), that what is in progress is driven (`Driven`), and what
a request and its answer imply (`RequestFit`, `Current`). The three entries of the
check list keep it, one lemma per call; a step of one agent changes the situation
of the other only by growing it. That nobody nominates before the roles are settled
is what carries `RolesDiffer` and `NominatedByPeer`: a nomination needs a valid pair,
and an answer other than 487 is given only when they are. That a nomination is
performed on a check that succeeded (the `ASSERT` of `PerformNominationL`) is part of
it (`ItemFit`).

The assumptions are those of the modules: bounds are naturals, `Session` is
finite, `Allowed` is a set of the named behaviours, servers are distinct.

Only model-checked: of sessions, what the properties above show beyond the
hypotheses of their theorems (`faults` with early answers); and the liveness
properties (fairness and `ENABLED` are beyond the prover). No module uses
`RECURSIVE`.

## 5. Where the code disagrees with itself

- `redirected_update`: `ExitRedirectionEventL` passes `CMceSession::EEstablished`
  to `StateChanged`, which takes a `TMceStateIndex`: the server goes to
  ServerEstablishing and the client is told it is established.
- `shared_state`: `iReadyToSendACK` is meant for one session (its comment) and
  belongs to all: a session whose INVITE is refused meanwhile stays in Offering.
- `deleted_while_answered`: `DoTerminateL` looks for a pending INVITE to tell
  whether the 200 has come, but the first INVITE stays pending long after: the
  session is deleted with the call up and no BYE sent.
- `reliable_second`: `NoPrackReceived` is meant to be called when a response got no
  PRACK for 64 * T1 (`mcesipsession.h:469`), but `SendResponseL` does not reset the
  interval: a second response may be repeated once and then never again, and the
  session waits for ever.
- `stun_wait`: after a 5xx the binding should wait before it asks again
  (`cstunbindingwaittoretry.h:32`). `TransactionError` starts the timer and falls
  through to the branch that sends at once; the timer then ends a binding that is
  not waiting, and an address found meanwhile is lost.

Without a run of its own: checks that cross. When the peer's request comes while
the own check of the pair is in progress, `HandleTriggeredCheckL` cancels the check
and queues it again, and says that with this the "ICE specification is followed"
(`cicechecklist.cpp:867`). There a cancelled transaction is not sent again but still
takes its answer; here it is "fully terminated because STUN binding does not
currently support simultaneous transactions" (`ciceconnectionhandler.cpp:348`), and
the answer under way is dropped. Two agents whose timers send in the same time, so
that each request arrives before the answer to the one before, cancel each other at
every tick: nothing is lost and neither completes. TLC finds this as a
counterexample of 23 states to `Ends` without its second disjunct.

Also without a run: the priorities of ICE. `cicecheckprioritizer.cpp:83` gives
the formula of the standard, `2^32*MIN(G,D) + 2*MAX(G,D) + (G>D?1:0)`, and adds that
it "ensures a unique priority for each pair". In C++ `2^32` is 34 (and in
`cicecandidateprioritizer.cpp:31` `2^24` is 26 and `2^8` is 10), so that two pairs whose
candidates have 1 and 19, and 2 and 2, both have 72. Nor would the right factor help
candidates of the same type on two interfaces, whose own priorities are equal: the
local preference is always 65535. `AddValidPairL` recognises a valid pair by its
component and priority alone, so the second pair replaces the first, and a
nomination of the first, under way, finds it no more (`SetPairNominatedL` leaves). With
`MCPriority == [a |-> <<1, 2>>, b |-> <<19, 2>>]` TLC finds `NeverStranded` violated: a
check is in progress with nothing to come. This is why `Ordered` asks for different
priorities. If only their lower words agree (the run's, with `Modulus = 70`), the
second valid pair is refused instead: the invariants hold, `Ends` does not.

## 6. Not modelled, and the plan

The components `PROJECT.json` lists as partly modelled leave out what section 2
says of them. Of the others, in the order in which they would come next:

1. `CMceTimerManager`: the queue of expirations and one RTimer. An observer that
   stops its own timer in the callback deletes the entry twice; an entry stays when
   queueing fails.
2. Offerless INVITEs and the client resolver: the states ServerOffering and
   ServerInitializing, and the table of waiting clients.
3. The NAT part of a session (`CMceNatSipSession`) with the SDP provider.
4. The connection multiplexer's filters and the NAT framework client around STUN
   and ICE: the sequence of resolving, fetching candidates, checking.
5. SIP events and references; floor control.
6. The jitter buffer: order, late packets, sequence numbers modulo 2^16.

In the modelled parts: forking and requests inside a dialog; preconditions and SDP
in reliable responses; shared secrets, TCP and relay of STUN; peer-reflexive
candidates, several components and lists, losing pairs and restarts of ICE.

Proofs to come: `CallbackExpected` and `EndedIsFinal` with early answers.

Left out for good: codecs, packet layouts and payload formats, SDP and IPC
serialisation, settings and provisioning (data transformations or I/O), the MMF
plumbing of the media controller, the platform's SIP stack (an environment here).
