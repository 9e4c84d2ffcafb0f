----------------------------- MODULE StunBinding ----------------------------
(***************************************************************************)
(* CSTUNBindingImplementation and its states, with its CSTUNTransaction,   *)
(* the callbacks its client queues (CAsyncCallback), and the servers, NAT  *)
(* and network between.                                                    *)
(*                                                                         *)
(* The client is Ready and obtains no shared secret: a request is made as  *)
(* soon as it is asked for.  Answers about credentials (401, 430 to 438)   *)
(* and the state WaitToRetry, which is left as soon as it is entered, are  *)
(* left out.  Responses may be late, lost or repeated, and the NAT may     *)
(* change the mapped address.                                              *)
(***************************************************************************)
EXTENDS StunTransaction, FiniteSets, Sequences, SequencesExt

CONSTANTS
    Servers,        \* the servers the client has resolved, in their order
    MaxRequests,    \* bound: no request is asked for after so many were made
    MaxMappings,    \* bound on the addresses the NAT gives
    MaxFailures     \* bound on the sends that fail at once

None == "none"

ASSUME StunAssumption ==
    /\ Servers \in Seq(ToSet(Servers)) /\ IsInjective(Servers) /\ Servers # <<>>
    /\ None \notin ToSet(Servers)
    /\ MaxRequests \in Nat /\ MaxMappings \in Nat \ {0} /\ MaxFailures \in Nat

VARIABLES
    binding,        \* members of the binding
    udpAddresses,   \* the client's iUdpAddresses
    callbacks,      \* iPendingCallbacks
    mapped,         \* the address the NAT maps the socket to
    requests,       \* the server each transaction's request went to
    responses,      \* responses under way
    failures

vars == <<binding, udpAddresses, callbacks, mapped, requests, responses, failures>>

NoTransaction == [NewTransaction EXCEPT !.sending = FALSE]
State == {"Init", "GetSharedSecret", "GetAddress", "Active"}

\* 300 is ignored; after 420, 500 and "xor" (MAPPED-ADDRESS was rewritten, ask
\* with XOR-ONLY) comes another request; 600 stands for every answer that ends.
Answer == {"ok", "300", "420", "xor", "500", "600"}
Error == {"420", "xor", "500", "600", "timedOut", "failed", "general"}
Positive == {"420", "xor", "500", "600"}

\* What was asked for is tried again at most three times, after two errors of
\* servers and a time-out.
Id == 1 .. MaxRequests + 3

Binding ==
    [ state       : State,
      publicAddr  : 0 .. MaxMappings,           \* 0: unspecified
      server      : ToSet(Servers) \cup {None}, \* iServerAddress
      errorBuffer : SUBSET Error,               \* iErrorBuffer of GetAddress
      errorCount  : 0 .. 2,                     \* iErrorResponseCount
      id          : Id \cup {0},                \* transaction ID of iRequest, 0: NULL
      exists      : BOOLEAN,                    \* iTransaction is set
      transaction : Transaction,
      timer       : BOOLEAN,                    \* its own timer runs
      since       : 0 .. MaxMappings ]          \* mapped, when iRequest was made

Response == [id : Id, answer : Answer, addr : 1 .. MaxMappings]

TypeOK ==
    /\ binding \in Binding
    /\ udpAddresses \in Seq(ToSet(Servers))
    /\ callbacks \in Seq({"resolved"} \cup Error)
    /\ mapped \in 1 .. MaxMappings
    /\ requests \in Seq(ToSet(Servers) \cup {None}) /\ DOMAIN requests \subseteq Id
    /\ responses \subseteq Response
    /\ failures \in 0 .. MaxFailures

Init ==
    /\ binding = [ state |-> "Init", publicAddr |-> 0, server |-> None, errorBuffer |-> {},
                   errorCount |-> 0, id |-> 0, exists |-> FALSE,
                   transaction |-> NoTransaction, timer |-> FALSE, since |-> 0 ]
    /\ udpAddresses = Servers /\ callbacks = <<>> /\ mapped = 1
    /\ requests = <<>> /\ responses = {} /\ failures = 0

-----------------------------------------------------------------------------
(* The binding: from its members before to its members after *)

DeleteTransaction(b) == [b EXCEPT !.exists = FALSE, !.transaction = NoTransaction]

FreeRequestData(b) == [DeleteTransaction(b) EXCEPT !.id = 0]

\* Terminate.  Its own timer runs on, and the errors are kept.
TerminateSilent(b) ==
    [FreeRequestData(b) EXCEPT !.publicAddr = 0, !.server = None, !.errorCount = 0,
                               !.state = "Init"]

\* GetSharedSecretL of a client that is ready: SharedSecretObtainedL,
\* CreateBindingRequestL, SendBindingRequestL
Request(b) ==
    [b EXCEPT !.id = Len(requests) + 1, !.exists = TRUE, !.transaction = NewTransaction,
              !.since = mapped, !.state = "GetAddress"]

\* The same, when the request cannot be sent
RequestFails(b) == [DeleteTransaction(b) EXCEPT !.id = Len(requests) + 1,
                                                !.state = "GetSharedSecret"]

\* BindingErrorL( ..., ETrue ) and AddressResolvedL
Tell(outcome) == callbacks' = Append(callbacks, outcome)

Terminate(b, error) ==
    /\ binding' = TerminateSilent(b)
    /\ Tell(error)
    /\ UNCHANGED <<requests, failures>>

Fails == failures < MaxFailures /\ failures' = failures + 1

\* Another request; if that leaves the binding ends.
Retry(b) ==
    \/ /\ binding' = Request(b)
       /\ requests' = Append(requests, b.server)
       /\ UNCHANGED <<callbacks, failures>>
    \/ /\ Fails
       /\ binding' = TerminateSilent(b)
       /\ Tell("failed")
       /\ UNCHANGED requests

\* ObtainServerAddress: the server that failed is not asked again
OtherAddresses(server) == RemoveFirst(udpAddresses, server)

\* TransactionError in GetAddress, with HandleTransactionError: the same error
\* again, the third from servers, or one there is no answer to ends the binding.
Ends(error) ==
    \/ error \in binding.errorBuffer \cup {"600"}
    \/ error \in Positive /\ binding.errorCount = 2
    \/ error = "timedOut" /\ OtherAddresses(binding.server) = <<>>

\* Otherwise it asks again.  A 500 starts the binding's timer as well, but the
\* request does not wait for it.
TransactionErrorSameServer(error) ==
    LET b == [binding EXCEPT !.errorBuffer = @ \cup {error}]
    IN  IF Ends(error) THEN Terminate(b, error)
        ELSE Retry([DeleteTransaction(b) EXCEPT
                       !.errorCount = IF error \in Positive THEN @ + 1 ELSE @,
                       !.timer = @ \/ error = "500"])
TransactionError(error) ==
    LET b == [binding EXCEPT !.errorBuffer = @ \cup {error}]
    IN  IF Ends(error) THEN Terminate(b, error)
        ELSE Retry([DeleteTransaction(b) EXCEPT
                       !.server = IF error = "timedOut" THEN Head(OtherAddresses(@)) ELSE @,
                       !.errorCount = IF error \in Positive THEN @ + 1 ELSE @,
                       !.timer = @ \/ error = "500"])

\* StoreAddressL, Active
PublicAddressReceived(addr) ==
    /\ binding' = [FreeRequestData(binding) EXCEPT !.errorCount = 0, !.publicAddr = addr,
                                                   !.state = "Active"]
    /\ Tell("resolved")
    /\ UNCHANGED <<requests, failures>>

-----------------------------------------------------------------------------
(* The application *)

Asked == binding.state \notin {"Init", "Active"}

\* SendRequestL in Init or Active; in all other states it does nothing.  With
\* no server left it leaves and nothing changes.
SendRequest ==
    /\ ~Asked
    /\ binding.state = "Init" => udpAddresses # <<>>
    /\ Len(requests) < MaxRequests
    /\ LET b == IF binding.state = "Init" THEN [binding EXCEPT !.server = Head(udpAddresses)]
                ELSE binding
       IN  \/ /\ binding' = Request(b)
              /\ requests' = Append(requests, b.server)
              /\ UNCHANGED failures
           \/ /\ Fails
              /\ binding' = RequestFails(b)
              /\ requests' = Append(requests, None)
    /\ UNCHANGED <<udpAddresses, callbacks, mapped, responses>>

\* CancelRequest: back to the address there is, or to Init
CancelledKeepsTransaction(b) ==
    IF b.publicAddr # 0 THEN [b EXCEPT !.state = "Active"] ELSE TerminateSilent(b)
Cancelled(b) ==
    IF b.publicAddr # 0 THEN [DeleteTransaction(b) EXCEPT !.state = "Active"]
    ELSE TerminateSilent(b)

CancelRequest ==
    /\ binding.state # "Init"
    /\ binding' = Cancelled(binding)
    /\ UNCHANGED <<udpAddresses, callbacks, mapped, requests, responses, failures>>

Silence ==
    /\ binding.exists /\ ~binding.transaction.disableSending
    /\ binding' = [binding EXCEPT !.transaction = CancelRetransmission(@)]
    /\ UNCHANGED <<udpAddresses, callbacks, mapped, requests, responses, failures>>

\* CAsyncCallback::RunL
Callback ==
    /\ callbacks # <<>>
    /\ callbacks' = Tail(callbacks)
    /\ UNCHANGED <<binding, udpAddresses, mapped, requests, responses, failures>>

-----------------------------------------------------------------------------
(* Sender, timers, ICMP *)

MessageSent ==
    /\ binding.transaction.sending
    /\ binding' = [binding EXCEPT !.transaction = UNSAFUdpMessageSent(@)]
    /\ UNCHANGED <<udpAddresses, callbacks, mapped, requests, responses, failures>>

MessageSentFailure ==
    /\ binding.transaction.sending
    /\ Fails
    /\ binding' = TerminateSilent([binding EXCEPT !.errorBuffer = @ \cup {"failed"}])
    /\ Tell("failed")
    /\ UNCHANGED <<udpAddresses, mapped, requests, responses>>

TransactionTimerExpires ==
    /\ binding.transaction.timer
    /\ \/ /\ TimedOut(binding.transaction)
          /\ TransactionError("timedOut")
          /\ udpAddresses' = IF "timedOut" \in binding.errorBuffer THEN udpAddresses
                             ELSE OtherAddresses(binding.server)
       \/ /\ ~TimedOut(binding.transaction)
          /\ binding' = [binding EXCEPT !.transaction = Retransmit(@)]
          /\ UNCHANGED <<udpAddresses, callbacks, requests, failures>>
    /\ UNCHANGED <<mapped, responses>>

\* TimerExpiredL is for WaitToRetry only: in all other states it leaves, and
\* LeaveFromTimerExpired ends the binding.
BindingTimerExpires ==
    /\ binding.timer
    /\ binding' = [TerminateSilent(binding) EXCEPT !.timer = FALSE]
    /\ callbacks' = IF binding.state = "Init" THEN callbacks ELSE Append(callbacks, "general")
    /\ UNCHANGED <<udpAddresses, mapped, requests, responses, failures>>

\* IcmpError of the client: the binding's, RemoveAddress
IcmpError ==
    \E server \in ToSet(Servers) :
       /\ udpAddresses' = OtherAddresses(server)
       /\ \/ /\ binding.exists /\ binding.server = server
             /\ TransactionError("timedOut")
          \/ /\ ~binding.exists \/ binding.server # server
             /\ UNCHANGED <<binding, callbacks, requests, failures>>
       /\ UNCHANGED <<mapped, responses>>

-----------------------------------------------------------------------------
(* Servers, NAT and network *)

Respond ==
    /\ responses = {}
    /\ \E id \in DOMAIN requests, answer \in Answer :
          /\ requests[id] # None
          /\ responses' = {[id |-> id, answer |-> answer, addr |-> mapped]}
    /\ UNCHANGED <<binding, udpAddresses, callbacks, mapped, requests, failures>>

Lose ==
    /\ responses # {}
    /\ responses' = {}
    /\ UNCHANGED <<binding, udpAddresses, callbacks, mapped, requests, failures>>

Remap ==
    /\ mapped < MaxMappings
    /\ mapped' = mapped + 1
    /\ UNCHANGED <<binding, udpAddresses, callbacks, requests, responses, failures>>

\* HandleDataL: a response to the request under way is consumed
ConsumesAny(m) == binding.exists
Consumes(m) == binding.exists /\ m.id = binding.id

\* ReceiveL; the response may come again.
HandleData ==
    \E m \in responses :
       /\ Consumes(m)
       /\ \/ /\ m.answer = "300"
             /\ binding' = [binding EXCEPT !.transaction = Ignore(@)]
             /\ UNCHANGED <<callbacks, requests, failures>>
          \/ m.answer = "ok" /\ PublicAddressReceived(m.addr)
          \/ m.answer \notin {"ok", "300"} /\ TransactionError(m.answer)
       /\ UNCHANGED <<udpAddresses, mapped, responses>>

Next ==
    \/ SendRequest \/ CancelRequest \/ Silence \/ Callback
    \/ MessageSent \/ MessageSentFailure
    \/ TransactionTimerExpires \/ BindingTimerExpires \/ IcmpError
    \/ Respond \/ Lose \/ Remap \/ HandleData

\* The sender calls back and timers expire; servers and network owe nothing.
Fairness ==
    /\ WF_vars(MessageSent) /\ WF_vars(Callback)
    /\ WF_vars(TransactionTimerExpires) /\ WF_vars(BindingTimerExpires)

Spec == Init /\ [][Next]_vars /\ Fairness

-----------------------------------------------------------------------------
(* Properties *)

\* While a request is under way something will happen to it: its sender owes a
\* callback or its timer runs, whatever responses came in between (ReceiveL,
\* UNSAFUdpMessageSentL, HandleTransactionError).
SomethingIsDue ==
    binding.state = "GetAddress" =>
       binding.exists /\ (binding.transaction.sending \/ binding.transaction.timer)

\* The address found is no older than the request that found it: a response to
\* an earlier request, or to the request of a server given up, is not taken.
AddressIsFresh ==
    [][binding'.publicAddr \notin {0, binding.publicAddr} =>
          binding'.publicAddr >= binding.since]_vars

\* To the application the binding is one request at a time with at most one
\* outcome, however many transactions, servers, errors and ICMP messages it
\* takes (Terminate, StoreAddressL, CAsyncCallback).
Requests == INSTANCE StunRequests
    WITH Outcomes <- {"resolved"} \cup Error, Lost <- "general",
         asked <- Asked, news <- callbacks
ImplementsRequests == Requests!Spec

\* Every request ends, though no server ever answers: with an address, an error
\* or its cancellation; not if SendRequestL left, or its retransmission was
\* cancelled.
RequestEnds ==
    Asked ~> ~Asked \/ binding.state = "GetSharedSecret" \/ binding.transaction.disableSending

\* A server that was given up - by time-out or ICMP - is asked no more, unless
\* the binding already had its address from it.
NoServerTwice ==
    [][\A id \in DOMAIN requests' \ DOMAIN requests :
          requests'[id] \in ToSet(Servers) \ ToSet(udpAddresses) => binding.publicAddr # 0]_vars

\* "In this state, binding waits a while before retrying to send a Binding
\* Request" (CSTUNBindingWaitToRetry): while it waits, no request is made.
WaitsBeforeRetry == binding.timer => ~binding.exists
=============================================================================
